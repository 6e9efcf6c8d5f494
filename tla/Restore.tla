------------------------------ MODULE Restore ------------------------------
(***************************************************************************)
(* What carries a fleet through a redeploy, an export, an import and a new *)
(* CVM: deploy() of git projects as far as it makes records out of         *)
(* manifests, import_bundle(), the export, the redeploy and the restore at *)
(* boot (proxy/deploy.py:176-341, 620-649; proxy/projects.py:20-29, 70-73; *)
(* proxy/ingress.py:875-950; proxy/runtimes.py:954-1003).                  *)
(*                                                                         *)
(* A record is its commit, its env, and whether its traffic goes through   *)
(* the egress network, which stands for the fields that an export leaves   *)
(* out.  The files and the containers of a deploy are in Lifecycle, the    *)
(* digests of images in Images.  A job stands at an await of deploy(); an  *)
(* import is a job that goes through its entries in the order of their     *)
(* names, which are numbers here.                                          *)
(*                                                                         *)
(* What may be missing is a set of at most one element.                    *)
(***************************************************************************)
EXTENDS Naturals

CONSTANTS
  Projects,      \* project names, in the order in which they are listed
  Commits,       \* commits of a source
  Envs,          \* values of env
  NoEnv,         \* the empty env
  Slots,         \* bound on the API calls in progress at once
  OneAtATime,    \* whether callers wait for each other and for the restore
  MaxRequests,   \* bound on the API calls
  MaxPushes,     \* bound on the changes of sources
  MaxFaults      \* bound on crashes and failing calls

ConstantsAssumption ==
  /\ Projects \subseteq Nat
  /\ NoEnv \in Envs
  /\ "boot" \notin Slots /\ OneAtATime \in BOOLEAN
  /\ {MaxRequests, MaxPushes, MaxFaults} \subseteq Nat

VARIABLES
  head,       \* head[p]: the commit that the ref of p's source names
  there,      \* there[p]: the commits that p's source still has
  store,      \* store[p]: the record
  bundle,     \* bundle[p]: p's entry in the export that the operator keeps
  attached,   \* the import-bundle.json of this CVM
  up,         \* the daemon process runs
  torn,       \* projects whose project.json was left half written
  jobs,       \* deploys and imports in progress
  fresh,      \* no call since this CVM is there (a history variable)
  renewed,    \* there was a second CVM (a history variable)
  requests, pushes, faults

sources == <<head, there, pushes>>
cvm == <<attached, renewed>>
vars == <<sources, store, bundle, cvm, up, torn, jobs, fresh, requests, faults>>

Record == [commit: Commits, env: Envs, egress: BOOLEAN]
Entry == [commit: Commits]
Nothing == [p \in Projects |-> {}]

\* commit is the pin until the clone is there; gives: the manifest has an env.
Job ==
  [id: Slots \cup {"boot"}, op: {"deploy", "redeploy", "import"}, p: Projects,
   pc: {"cloning", "building", "starting"}, pin: SUBSET Commits,
   env: Envs, gives: BOOLEAN, egress: BOOLEAN, rest: [Projects -> SUBSET Entry]]

-----------------------------------------------------------------------------
(* Sources *)

\* A commit is pushed; with force, the one before is gone.
Push(p, c) ==
  /\ pushes < MaxPushes
  /\ pushes' = pushes + 1
  /\ c # head[p]
  /\ head' = [head EXCEPT ![p] = c]
  /\ \E S \in {there[p] \cup {c}, {c}} : there' = [there EXCEPT ![p] = S]
  /\ UNCHANGED <<store, bundle, cvm, up, torn, jobs, fresh, requests, faults>>

-----------------------------------------------------------------------------
(* deploy() *)

Accepts(s) ==
  /\ up /\ requests < MaxRequests
  /\ IF OneAtATime THEN jobs = {} ELSE \A j \in jobs : j.id # s
  /\ requests' = requests + 1
  /\ fresh' = FALSE

\* Mutant of Carried: an env that is not given is an empty one.
NotCarried(p) == NoEnv

\* The env that a manifest without one goes on with, read before the clone.
Carried(p) == IF store[p] = {} THEN NoEnv ELSE (CHOOSE r \in store[p] : TRUE).env

NewJob(s, o, p, pin, env, gives, egress, rest) ==
  [id |-> s, op |-> o, p |-> p, pc |-> "cloning", pin |-> pin,
   env |-> env, gives |-> gives, egress |-> egress, rest |-> rest]
Becomes(j, k) == jobs' = (jobs \ {j}) \cup {k}

Deploy(s, p, egress) ==
  /\ Accepts(s)
  /\ \/ \E e \in Envs : jobs' = jobs \cup {NewJob(s, "deploy", p, {}, e, TRUE, egress, Nothing)}
     \/ jobs' = jobs \cup {NewJob(s, "deploy", p, {}, Carried(p), FALSE, egress, Nothing)}
  /\ UNCHANGED <<sources, store, bundle, cvm, up, torn, faults>>

\* The manifest is put together from the record: without its commit.
Redeploy(s, p) ==
  \E r \in store[p] :
    /\ Accepts(s)
    /\ jobs' = jobs \cup {NewJob(s, "redeploy", p, {}, r.env, FALSE, r.egress, Nothing)}
    /\ UNCHANGED <<sources, store, bundle, cvm, up, torn, faults>>

Teardown(p) ==
  /\ store[p] # {}
  /\ \E s \in Slots : Accepts(s)
  /\ store' = [store EXCEPT ![p] = {}]
  /\ UNCHANGED <<sources, bundle, cvm, up, torn, jobs, faults>>

Left(es) == {p \in Projects : es[p] # {}}

\* The loop goes on, up to the clone of its next entry; a live env goes with it.
First(es) == {p \in Left(es) : \A q \in Left(es) : p <= q}
NextEntry(s, es) ==
  {NewJob(s, "import", p, {e.commit : e \in es[p]}, Carried(p), FALSE, FALSE,
          [es EXCEPT ![p] = {}]) : p \in First(es)}
GoesOn(j) == jobs' = (jobs \ {j}) \cup NextEntry(j.id, j.rest)

\* The clone is there.  With a pin it is one of that commit.
Cloned(j) ==
  /\ j.pc = "cloning"
  /\ j.pin \subseteq there[j.p]
  /\ Becomes(j, [j EXCEPT !.pc = "building", !.pin = IF @ = {} THEN {head[j.p]} ELSE @])
  /\ UNCHANGED <<sources, store, bundle, cvm, up, torn, fresh, requests, faults>>

\* Mutant of PinRefused: a commit that is gone is replaced by the latest.
PinForgotten(j) ==
  /\ j.pc = "cloning"
  /\ ~(j.pin \subseteq there[j.p])
  /\ Becomes(j, [j EXCEPT !.pc = "building", !.pin = {head[j.p]}])
  /\ UNCHANGED <<sources, store, bundle, cvm, up, torn, fresh, requests, faults>>

\* Mutant of PinRefused: the import ends.
PinRaised(j) ==
  /\ j.pc = "cloning"
  /\ ~(j.pin \subseteq there[j.p])
  /\ jobs' = jobs \ {j}
  /\ UNCHANGED <<sources, store, bundle, cvm, up, torn, fresh, requests, faults>>

\* A commit that is gone is a ValueError, which an import skips the entry for.
PinRefused(j) ==
  /\ j.pc = "cloning"
  /\ ~(j.pin \subseteq there[j.p])
  /\ GoesOn(j)
  /\ UNCHANGED <<sources, store, bundle, cvm, up, torn, fresh, requests, faults>>

\* So is a clone that fails for another reason.
CloneFails(j) ==
  /\ j.pc = "cloning"
  /\ faults < MaxFaults
  /\ faults' = faults + 1
  /\ GoesOn(j)
  /\ UNCHANGED <<sources, store, bundle, cvm, up, torn, fresh, requests>>

Saves(j) ==
  store' = [store EXCEPT ![j.p] =
    {[commit |-> c, env |-> j.env, egress |-> j.egress] : c \in j.pin}]

Built(j) ==
  /\ j.pc = "building"
  /\ Saves(j)
  /\ Becomes(j, [j EXCEPT !.pc = "starting"])
  /\ UNCHANGED <<sources, bundle, cvm, up, torn, fresh, requests, faults>>

\* The container runs; the record is saved again, with its digest.
Started(j) ==
  /\ j.pc = "starting"
  /\ Saves(j)
  /\ GoesOn(j)
  /\ UNCHANGED <<sources, bundle, cvm, up, torn, fresh, requests, faults>>

\* docker or dstack fails: not a ValueError, and the end of an import.
Fails(j) ==
  /\ j.pc # "cloning"
  /\ faults < MaxFaults
  /\ faults' = faults + 1
  /\ jobs' = jobs \ {j}
  /\ UNCHANGED <<sources, store, bundle, cvm, up, torn, fresh, requests>>

-----------------------------------------------------------------------------
(* Exports, imports and boots *)

\* Mutant of Export: the records as they are.
ExportRecords ==
  /\ \E s \in Slots : Accepts(s)
  /\ bundle' = store
  /\ UNCHANGED <<sources, store, cvm, up, torn, jobs, faults>>

\* EXPORT_FIELDS, of which env and egress are none.
Export ==
  /\ \E s \in Slots : Accepts(s)
  /\ bundle' = [p \in Projects |->
       {[commit |-> r.commit] : r \in store[p]}]
  /\ UNCHANGED <<sources, store, cvm, up, torn, jobs, faults>>

Import(s) ==
  /\ Left(bundle) # {}
  /\ Accepts(s)
  /\ jobs' = jobs \cup NextEntry(s, bundle)
  /\ UNCHANGED <<sources, store, bundle, cvm, up, torn, faults>>

Dies ==
  /\ up
  /\ faults < MaxFaults
  /\ faults' = faults + 1
  /\ up' = FALSE
  /\ jobs' = {}
  /\ UNCHANGED <<sources, bundle, cvm, fresh, requests>>

Crash == Dies /\ UNCHANGED <<store, torn>>

\* The process ends in the middle of save(), which empties the file before it fills it.
TornSave(p) ==
  /\ \E j \in jobs : j.p = p /\ j.pc # "cloning"
  /\ Dies
  /\ store' = [store EXCEPT ![p] = {}]
  /\ torn' = torn \cup {p}

\* The CVM is gone with its disk, and there is another with the export attached.
NewCVM ==
  /\ ~renewed
  /\ renewed' = TRUE
  /\ up' = FALSE
  /\ jobs' = {}
  /\ store' = Nothing
  /\ torn' = {}
  /\ attached' = bundle
  /\ fresh' = TRUE
  /\ UNCHANGED <<sources, bundle, requests, faults>>

\* An empty registry and a bundle are a restore, in the background.  A record that
\* cannot be loaded ends every boot before that.
Boot ==
  /\ ~up /\ torn = {}
  /\ up' = TRUE
  /\ jobs' = IF store = Nothing THEN NextEntry("boot", attached) ELSE {}
  /\ UNCHANGED <<sources, store, bundle, cvm, torn, fresh, requests, faults>>

-----------------------------------------------------------------------------
Init ==
  /\ head \in [Projects -> Commits]
  /\ there = [p \in Projects |-> {head[p]}]
  /\ store = Nothing /\ bundle = Nothing /\ attached = Nothing
  /\ up = TRUE
  /\ torn = {} /\ jobs = {}
  /\ fresh = FALSE /\ renewed = FALSE
  /\ requests = 0 /\ pushes = 0 /\ faults = 0

Calls(s) ==
  \/ \E p \in Projects :
       Redeploy(s, p) \/ \E egress \in BOOLEAN : Deploy(s, p, egress)
  \/ Import(s)

Step(j) == Cloned(j) \/ PinRefused(j) \/ Built(j) \/ Started(j)

Next ==
  \/ \E p \in Projects : Teardown(p) \/ TornSave(p) \/ \E c \in Commits : Push(p, c)
  \/ \E s \in Slots : Calls(s)
  \/ \E j \in jobs : Step(j) \/ CloneFails(j) \/ Fails(j)
  \/ Export \/ Crash \/ NewCVM \/ Boot

Spec == Init /\ [][Next]_vars

\* Clones, builds and starts end; the daemon is restarted.
Fairness ==
  /\ WF_vars(Boot)
  /\ \A s \in Slots \cup {"boot"} : WF_vars(\E j \in jobs : j.id = s /\ Step(j))
FairSpec == Spec /\ Fairness

-----------------------------------------------------------------------------
(* Properties *)

TypeOK ==
  /\ head \in [Projects -> Commits]
  /\ there \in [Projects -> SUBSET Commits]
  /\ store \in [Projects -> SUBSET Record]
  /\ {bundle, attached} \subseteq [Projects -> SUBSET Entry]
  /\ {up, fresh, renewed} \subseteq BOOLEAN
  /\ torn \subseteq Projects
  /\ jobs \subseteq Job
  /\ {requests, pushes, faults} \subseteq Nat

\* Until somebody calls, what runs on a new CVM runs at its commit in the export,
\* whatever was pushed since, and however often the daemon was restarted ("there is
\* no re-clone-latest fallback", deploy.py:627-628).
RestoredAtPins ==
  fresh => \A p \in Projects : \A r \in store[p] :
    \E e \in attached[p] : e.commit = r.commit

\* If callers wait for each other, a project changes by what is asked for only: its env
\* by a deploy that gives one, its other settings not by a redeploy, its commit not by
\* the restore that a restarted daemon might do once more (deploy.py:198-205, 637-640;
\* ingress.py:922; runtimes.py:984-989).
Asked(p, r, n) ==
  /\ n.env # r.env => \E j \in jobs : j.p = p /\ j.gives
  /\ n.egress # r.egress => \E j \in jobs : j.p = p /\ j.op # "redeploy"
  /\ n.commit # r.commit => \E j \in jobs : j.p = p /\ j.id # "boot"

\* A new CVM restores every project whose commit is still there, also past those
\* whose commit is not, if nothing fails (deploy.py:644-649, runtimes.py:954-955).
FleetReturns ==
  \A p \in Projects, c \in Commits :
    (~up /\ fresh /\ \E e \in attached[p] : e.commit = c) ~>
      (~fresh \/ faults > 0 \/ c \notin there[p] \/ \E r \in store[p] : r.commit = c)
=============================================================================
