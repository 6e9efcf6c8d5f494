----------------------------- MODULE Lifecycle -----------------------------
(***************************************************************************)
(* Deploying, promoting, unpromoting and tearing down projects             *)
(* (proxy/deploy.py), the containers that serve them (proxy/runtimes.py),  *)
(* the stored records (proxy/projects.py) and the trust ledger the         *)
(* handlers write.                                                         *)
(*                                                                         *)
(* Every handler is a coroutine with a copy of the record it works on.     *)
(* Between two awaits it runs alone; at an await any other coroutine may   *)
(* run, and there is no lock on a project.  A handler in progress is a job *)
(* whose pc names the await it is at, and a step of it is everything up to *)
(* the next await that lets another coroutine see a difference.            *)
(*                                                                         *)
(* The record in the store, like the container of a name, is a set of at   *)
(* most one element: {} where the file, or the container, is missing.      *)
(***************************************************************************)
EXTENDS Naturals, Sequences, FiniteSets, SequencesExt

CONSTANTS
  Projects,      \* project names
  Daemon,        \* stands for no project: the owner of the shared containers
  Trees,         \* source trees a project can have
  NoTree,        \* files_dir missing or half written
  Kinds,         \* how projects are run, among AllKinds
  Ops,           \* the API calls made, among AllOps
  Slots,         \* bound on the API calls in progress at once
  OneAtATime,    \* whether callers wait for each other, and for the boot, to end
  MaxRequests,   \* bound on the API calls
  MaxFaults      \* bound on crashes and on calls of git, docker or dstack that fail

AllKinds == {"static", "shared", "isolated"}
AllOps == {"deploy", "upload", "redeploy", "import", "promote", "unpromote", "teardown"}

ASSUME ConstantsAssumption ==
  /\ IsFiniteSet(Projects) /\ Daemon \notin Projects
  /\ NoTree \notin Trees
  /\ Kinds \subseteq AllKinds /\ Kinds # {}
  /\ Ops \subseteq AllOps
  /\ "boot" \notin Slots /\ OneAtATime \in BOOLEAN
  /\ {MaxRequests, MaxFaults} \subseteq Nat

VARIABLES
  store,     \* store[p]: PROJECT_DIR/p/project.json
  files,     \* files[p]: what PROJECT_DIR/p/files holds
  stage,     \* stage[p]: what files.pin, the staging clone of an import, holds
  ledger,    \* ledger[p]: the entries of p's audit log
  ctr,       \* ctr[n]: the container named n
  route,     \* route[p]: the mode of the container image_routes[p] leads to
  ips,       \* the modes with a runtime_ips entry
  up,        \* the daemon process runs
  torn,      \* projects whose project.json was left half written, and cannot be loaded
  jobs,      \* handlers in progress
  spoiled,   \* projects a handler left half done (a history variable)
  requests, faults   \* API calls and faults so far

disk == <<store, files, stage, ledger>>
serving == <<ctr, route, ips>>
history == <<spoiled, requests, faults>>
vars == <<disk, serving, up, torn, jobs, history>>

-----------------------------------------------------------------------------
(* Data *)

Modes == {"dev", "attested"}
Code == Trees \cup {NoTree}

\* projects.py:29-83.  bound holds the tree that the record's binding quote names.
Record == [mode: Modes, kind: Kinds, caps: BOOLEAN, tree: Code, bound: SUBSET Code]

Entry == [act: {"deploy", "promote", "unpromote", "teardown"}, mode: Modes, tree: Code]
\* Mutant of EntryFor: the entry carries the binding for the tree.
EntryOfBinding(a, r) == [act |-> a, mode |-> r.mode, tree |-> r.bound]

EntryFor(a, r) == [act |-> a, mode |-> r.mode, tree |-> r.tree]
Only(S) == CHOOSE x \in S : TRUE

\* tee-isolated-P-MODE, and tee-runtime-deno-MODE as <<Daemon, MODE>>.
Names == (Projects \cup {Daemon}) \X Modes

\* The projects a container runs, with the code each was started from.
Container == [serves: UNION {[S -> Code] : S \in SUBSET Projects}, caps: BOOLEAN]

\* One thing a handler still has to do to the containers.
Todo == [do: {"stop", "drop", "create"}, at: Names, caps: BOOLEAN]

Job ==
  [id: Slots \cup {"boot"}, p: Projects \cup {Daemon},
   op: {"deploy", "promote", "unpromote", "teardown", "recover"},
   pc: {"cloning", "cloned", "staging", "staged", "adopting", "building", "saved",
        "binding", "emitting", "working"},
   loc: Record, pin: SUBSET Trees, work: Seq(Todo)]

-----------------------------------------------------------------------------
(* The work on containers *)

\* Stop and remove the container; "drop" forgets its route as well.
Stop(n) == [do |-> "stop", at |-> n, caps |-> FALSE]
Drop(n) == [do |-> "drop", at |-> n, caps |-> FALSE]
Create(n, c) == [do |-> "create", at |-> n, caps |-> c]

\* What the shared runtime of mode m should run, by the store as it is now.
Listed(m) == {q \in Projects : \E r \in store[q] : r.kind = "shared" /\ r.mode = m}

\* Mutant of RefreshMode: the container that is needed is only stopped.
RefreshStops(m) ==
  IF Listed(m) = {} THEN <<Drop(<<Daemon, m>>)>> ELSE <<Stop(<<Daemon, m>>)>>

\* refresh(): each mode's container is replaced, or dropped if nothing needs it.
\* The list of projects is read once, at its start.
RefreshMode(m) ==
  IF Listed(m) = {} THEN <<Drop(<<Daemon, m>>)>>
                    ELSE <<Stop(<<Daemon, m>>), Create(<<Daemon, m>>, FALSE)>>
Refresh == RefreshMode("dev") \o RefreshMode("attested")

\* start_isolated() of a handler's own copy r of the record of p.
StartIsolated(p, r) ==
  <<Stop(<<p, r.mode>>), Create(<<p, r.mode>>, r.caps /\ r.mode = "attested")>>

\* start_isolated() of one project after the other, in some order of them.
Restarts(order) ==
  [i \in 1..2 * Len(order) |->
     LET p == order[(i + 1) \div 2] IN StartIsolated(p, Only(store[p]))[2 - (i % 2)]]

StopIsolated(p) == <<Stop(<<p, "dev">>), Drop(<<p, "attested">>)>>

\* What its router finds on the disk: isolated projects of the mode are not left out.
Found(m) == {q \in Projects : \E r \in store[q] : r.kind # "static" /\ r.mode = m}

\* What the container n runs when it is started now: projects without files do not load.
ServedAt(n) ==
  IF n[1] = Daemon THEN [q \in {q \in Found(n[2]) : files[q] # NoTree} |-> files[q]]
                   ELSE [q \in {n[1]} |-> files[q]]

-----------------------------------------------------------------------------
(* The steps of a job *)

Becomes(j, k) == jobs' = (jobs \ {j}) \cup {k}
GoesTo(j, pc) == Becomes(j, [j EXCEPT !.pc = pc])
Finishes(j) == jobs' = jobs \ {j}

\* The handler raises with its effects so far in place.
Raises(j) ==
  /\ Finishes(j)
  /\ spoiled' = spoiled \cup {j.p} \cup (IF j.pc = "working" THEN {Daemon} ELSE {})

Appends(p, e) == ledger' = [ledger EXCEPT ![p] = Append(@, e)]
Saves(p, r) == store' = [store EXCEPT ![p] = {r}]

\* An API call for p gets one of the slots.
Accepts(o, s) ==
  /\ up /\ o \in Ops
  /\ \A j \in jobs : j.id # s /\ ~OneAtATime
  /\ requests < MaxRequests
  /\ requests' = requests + 1

NewJob(s, p, o, pc, r, pin) ==
  [id |-> s, p |-> p, op |-> o, pc |-> pc, loc |-> r, pin |-> pin, work |-> <<>>]

Manifest(m, k, c) == [mode |-> m, kind |-> k, caps |-> c, tree |-> NoTree, bound |-> {}]

\* The gate on elevated capabilities; other reasons to refuse are RejectManifest.
Valid(r) == r.caps => r.mode = "attested"

-----------------------------------------------------------------------------
(* deploy() *)

\* git_clone() clears files_dir before its first await.
Deploy(s, p, r) ==
  /\ Accepts("deploy", s)
  /\ files' = [files EXCEPT ![p] = NoTree]
  /\ jobs' = jobs \cup {NewJob(s, p, "deploy", "cloning", r, {})}
  /\ UNCHANGED <<store, stage, ledger, serving, up, torn, spoiled, faults>>

\* The same with the stored manifest; the binding is not part of it.
Redeploy(s, p) ==
  \E r \in store[p] :
    /\ Accepts("redeploy", s)
    /\ files' = [files EXCEPT ![p] = NoTree]
    /\ jobs' = jobs \cup
         {NewJob(s, p, "deploy", "cloning", Manifest(r.mode, r.kind, r.caps), {})}
    /\ UNCHANGED <<store, stage, ledger, serving, up, torn, spoiled, faults>>

\* A pinned import clears and fills its staging directory instead.
Import(s, p, r, t) ==
  /\ Accepts("import", s)
  /\ stage' = [stage EXCEPT ![p] = NoTree]
  /\ jobs' = jobs \cup {NewJob(s, p, "deploy", "staging", r, {t})}
  /\ UNCHANGED <<store, files, ledger, serving, up, torn, spoiled, faults>>

\* A tarball is unpacked and its manifest checked without an await.
Upload(s, p, r, t) ==
  /\ Accepts("upload", s)
  /\ files' = [files EXCEPT ![p] = t]
  /\ \/ /\ Valid(r)
        /\ jobs' = jobs \cup
             {NewJob(s, p, "deploy", "building", [r EXCEPT !.tree = t], {})}
        /\ UNCHANGED spoiled
     \/ /\ spoiled' = spoiled \cup {p}
        /\ UNCHANGED jobs
  /\ UNCHANGED <<store, stage, ledger, serving, up, torn, faults>>

\* The clone ends; a second clone into the same directory does not.
Cloned(j, t) ==
  /\ j.pc = "cloning"
  /\ IF files[j.p] = NoTree
       THEN /\ files' = [files EXCEPT ![j.p] = t]
            /\ GoesTo(j, "cloned")
            /\ UNCHANGED spoiled
       ELSE /\ Raises(j)
            /\ UNCHANGED files
  /\ UNCHANGED <<store, stage, ledger, serving, up, torn, requests, faults>>

\* The last rev-parse answers, with the tree of whatever files_dir now holds, and
\* the manifest is accepted.
AcceptManifest(j) ==
  /\ j.pc = "cloned"
  /\ Valid(j.loc)
  /\ Becomes(j, [j EXCEPT !.pc = "building", !.loc.tree = files[j.p]])
  /\ UNCHANGED <<disk, serving, up, torn, history>>

\* It is refused: the caps gate, a port in use, an unknown runtime.
RejectManifest(j) ==
  /\ j.pc = "cloned"
  /\ Raises(j)
  /\ UNCHANGED <<disk, serving, up, torn, requests, faults>>

\* The staging clone ends, at the pinned commit.
Staged(j, t) ==
  /\ j.pc = "staging"
  /\ IF stage[j.p] = NoTree
       THEN stage' = [stage EXCEPT ![j.p] = t] /\ GoesTo(j, "staged")
       ELSE Finishes(j) /\ UNCHANGED stage
  /\ UNCHANGED <<store, files, ledger, serving, up, torn, history>>

\* rev-parse answers with the tree of the staging directory.
ReadStage(j) ==
  /\ j.pc = "staged"
  /\ Becomes(j, [j EXCEPT !.pc = "adopting", !.loc.tree = stage[j.p]])
  /\ UNCHANGED <<disk, serving, up, torn, history>>

\* The tree is not the pinned one: the import of p is skipped.
RejectPin(j) ==
  /\ j.pc = "adopting"
  /\ j.loc.tree \notin j.pin
  /\ stage' = [stage EXCEPT ![j.p] = NoTree]
  /\ Finishes(j)
  /\ UNCHANGED <<store, files, ledger, serving, up, torn, history>>

\* It is: files_dir is removed, the staging directory takes its place, and the
\* manifest is checked in the same step.
AdoptPin(j) ==
  /\ j.pc = "adopting"
  /\ j.loc.tree \in j.pin
  /\ files' = [files EXCEPT ![j.p] = stage[j.p]]
  /\ stage' = [stage EXCEPT ![j.p] = NoTree]
  /\ \/ /\ stage[j.p] # NoTree /\ Valid(j.loc)
        /\ GoesTo(j, "building")
        /\ UNCHANGED spoiled
     \/ Raises(j)
  /\ UNCHANGED <<store, ledger, serving, up, torn, requests, faults>>

\* The build step ends; the record is stored, without a binding.
Built(j) ==
  /\ j.pc = "building"
  /\ Saves(j.p, j.loc)
  /\ GoesTo(j, "saved")
  /\ UNCHANGED <<files, stage, ledger, serving, up, torn, history>>

\* The project's sockets are there; its container is started.
Brokered(j) ==
  /\ j.pc = "saved"
  /\ Becomes(j, [j EXCEPT !.pc = "working",
                          !.work = CASE j.loc.kind = "isolated" -> StartIsolated(j.p, j.loc)
                                     [] j.loc.kind = "shared" -> Refresh
                                     [] j.loc.kind = "static" -> <<>>])
  /\ UNCHANGED <<disk, serving, up, torn, history>>

\* Mutant of Recorded: the record is not stored again.
RecordedOnly(j) ==
  /\ j.pc = "working" /\ j.op = "deploy" /\ j.work = <<>>
  /\ Appends(j.p, EntryFor("deploy", j.loc))
  /\ GoesTo(j, "emitting")
  /\ UNCHANGED <<store, files, stage, serving, up, torn, history>>

\* The image digest is stored and the deploy recorded.
Recorded(j) ==
  /\ j.pc = "working" /\ j.op = "deploy" /\ j.work = <<>>
  /\ Saves(j.p, j.loc)
  /\ Appends(j.p, EntryFor("deploy", j.loc))
  /\ GoesTo(j, "emitting")
  /\ UNCHANGED <<files, stage, serving, up, torn, history>>

-----------------------------------------------------------------------------
(* promote(), unpromote(), teardown() *)

\* The mode is stored before the binding quote is asked for.
Promote(s, p) ==
  \E r \in store[p] :
    /\ Accepts("promote", s)
    /\ r.mode = "dev"
    /\ LET a == [r EXCEPT !.mode = "attested"] IN
         /\ Saves(p, a)
         /\ jobs' = jobs \cup {NewJob(s, p, "promote", "binding", a, {})}
    /\ UNCHANGED <<files, stage, ledger, serving, up, torn, spoiled, faults>>

\* Mutant of Bound: the quote is for the files as they are by now.
BoundToFiles(j) ==
  /\ j.pc = "binding"
  /\ LET b == [j.loc EXCEPT !.bound = {files[j.p]}] IN
       /\ Saves(j.p, b)
       /\ Appends(j.p, EntryFor("promote", b))
       /\ Becomes(j, [j EXCEPT !.pc = "emitting", !.loc = b])
  /\ UNCHANGED <<files, stage, serving, up, torn, history>>

\* The quote is there: the handler's copy is stored, and recorded.
Bound(j) ==
  /\ j.pc = "binding"
  /\ LET b == [j.loc EXCEPT !.bound = {j.loc.tree}] IN
       /\ Saves(j.p, b)
       /\ Appends(j.p, EntryFor("promote", b))
       /\ Becomes(j, [j EXCEPT !.pc = "emitting", !.loc = b])
  /\ UNCHANGED <<files, stage, serving, up, torn, history>>

\* Mutant of Unpromote: nothing is recorded.
UnpromoteUntold(s, p) ==
  \E r \in store[p] :
    /\ Accepts("unpromote", s)
    /\ r.mode = "attested"
    /\ LET d == [r EXCEPT !.mode = "dev"] IN
         /\ Saves(p, d)
         /\ jobs' = jobs \cup {NewJob(s, p, "unpromote", "emitting", d, {})}
    /\ UNCHANGED <<files, stage, ledger, serving, up, torn, spoiled, faults>>

Unpromote(s, p) ==
  \E r \in store[p] :
    /\ Accepts("unpromote", s)
    /\ r.mode = "attested"
    /\ LET d == [r EXCEPT !.mode = "dev"] IN
         /\ Saves(p, d)
         /\ Appends(p, EntryFor("unpromote", d))
         /\ jobs' = jobs \cup {NewJob(s, p, "unpromote", "emitting", d, {})}
    /\ UNCHANGED <<files, stage, serving, up, torn, spoiled, faults>>

Teardown(s, p) ==
  \E r \in store[p] :
    /\ Accepts("teardown", s)
    /\ Appends(p, EntryFor("teardown", r))
    /\ jobs' = jobs \cup {NewJob(s, p, "teardown", "emitting", r, {})}
    /\ UNCHANGED <<store, files, stage, serving, up, torn, spoiled, faults>>

\* EmitEvent answers and record() returns: a deploy is over.
DeployEmitted(j) ==
  /\ j.pc = "emitting" /\ j.op = "deploy"
  /\ Finishes(j)
  /\ UNCHANGED <<disk, serving, up, torn, history>>

\* Mutant of ModeEmitted: the containers are left as they are.
ModeEmittedOnly(j) ==
  /\ j.pc = "emitting" /\ j.op \in {"promote", "unpromote"}
  /\ GoesTo(j, "working")
  /\ UNCHANGED <<disk, serving, up, torn, history>>

\* A promoted project's container is replaced; unpromote() only refreshes.
ModeEmitted(j) ==
  /\ j.pc = "emitting" /\ j.op \in {"promote", "unpromote"}
  /\ LET w == IF j.loc.kind = "static" THEN <<>>
              ELSE IF j.op = "promote" /\ j.loc.kind = "isolated"
                   THEN StopIsolated(j.p) \o StartIsolated(j.p, j.loc)
                   ELSE Refresh
     IN  Becomes(j, [j EXCEPT !.pc = "working", !.work = w])
  /\ UNCHANGED <<disk, serving, up, torn, history>>

\* store.delete() removes the project's directory, which must exist, and the
\* refresh that follows lists the store without it.
TeardownEmitted(j) ==
  /\ j.pc = "emitting" /\ j.op = "teardown"
  /\ IF store[j.p] = {} /\ files[j.p] = NoTree /\ stage[j.p] = NoTree
       THEN /\ Raises(j)
            /\ UNCHANGED <<store, files, stage>>
       ELSE /\ store' = [store EXCEPT ![j.p] = {}]
            /\ files' = [files EXCEPT ![j.p] = NoTree]
            /\ stage' = [stage EXCEPT ![j.p] = NoTree]
            /\ Becomes(j, [j EXCEPT !.pc = "working",
                 !.work = CASE j.loc.kind = "isolated" -> StopIsolated(j.p)
                            [] j.loc.kind = "shared" -> Refresh'
                            [] j.loc.kind = "static" -> <<>>])
            /\ UNCHANGED spoiled
  /\ UNCHANGED <<ledger, serving, up, torn, requests, faults>>

\* The containers are as the handler wants them.
Done(j) ==
  /\ j.pc = "working" /\ j.op # "deploy" /\ j.work = <<>>
  /\ Finishes(j)
  /\ UNCHANGED <<disk, serving, up, torn, history>>

-----------------------------------------------------------------------------
(* Containers *)

NextWork(j) == Becomes(j, [j EXCEPT !.work = Tail(@)])
Unrouted(n) ==
  IF n[1] = Daemon THEN ips' = ips \ {n[2]} /\ UNCHANGED route
                   ELSE route' = [route EXCEPT ![n[1]] = {}] /\ UNCHANGED ips

StopContainer(j) ==
  /\ j.pc = "working" /\ j.work # <<>>
  /\ LET w == Head(j.work) IN
       /\ w.do \in {"stop", "drop"}
       /\ ctr' = [ctr EXCEPT ![w.at] = {}]
       /\ IF w.do = "drop" THEN Unrouted(w.at) ELSE UNCHANGED <<route, ips>>
  /\ NextWork(j)
  /\ UNCHANGED <<disk, up, torn, history>>

\* The name is free: the container starts on the files as they are.
CreateContainer(j) ==
  /\ j.pc = "working" /\ j.work # <<>>
  /\ LET w == Head(j.work) IN
       /\ w.do = "create" /\ ctr[w.at] = {}
       /\ ctr' = [ctr EXCEPT ![w.at] = {[serves |-> ServedAt(w.at), caps |-> w.caps]}]
       /\ IF w.at[1] = Daemon
            THEN ips' = ips \cup {w.at[2]} /\ UNCHANGED route
            ELSE route' = [route EXCEPT ![w.at[1]] = {w.at[2]}] /\ UNCHANGED ips
  /\ NextWork(j)
  /\ UNCHANGED <<disk, up, torn, history>>

\* recover_all() logs a start that fails and goes on with the next project.
SkipStart(j) ==
  LET n == Head(j.work).at IN
    /\ \E k \in 1..Len(j.work) :
         /\ \A i \in 1..Len(j.work) : i <= k <=> j.work[i].at[1] = n[1]
         /\ Becomes(j, [j EXCEPT !.work = SubSeq(@, k + 1, Len(@))])
    /\ spoiled' = spoiled \cup {n[1]}

\* Docker refuses a name that is taken, by a container another handler started.
NameTaken(j) ==
  /\ j.pc = "working" /\ j.work # <<>>
  /\ Head(j.work).do = "create" /\ ctr[Head(j.work).at] # {}
  /\ IF j.op = "recover" THEN SkipStart(j) ELSE Raises(j)
  /\ UNCHANGED <<disk, serving, up, torn, requests, faults>>

\* A child of the shared router exits and is respawned on the files as they are.
Respawn(m, p) ==
  \E c \in ctr[<<Daemon, m>>] :
    /\ p \in DOMAIN c.serves
    /\ files[p] \notin {NoTree, c.serves[p]}
    /\ ctr' = [ctr EXCEPT ![<<Daemon, m>>] = {[c EXCEPT !.serves[p] = files[p]]}]
    /\ UNCHANGED <<disk, route, ips, up, torn, jobs, history>>

-----------------------------------------------------------------------------
(* Faults *)

\* git, the build, docker or dstack fails the call a handler waits for.
Fails(j) ==
  /\ faults < MaxFaults
  /\ faults' = faults + 1
  /\ IF j.op = "recover" /\ j.work # <<>> THEN SkipStart(j) ELSE Raises(j)
  /\ UNCHANGED <<disk, serving, up, torn, requests>>

\* The daemon's process ends; containers and disk are what is left.
Dies ==
  /\ up
  /\ faults < MaxFaults
  /\ faults' = faults + 1
  /\ up' = FALSE
  /\ jobs' = {}
  /\ route' = [p \in Projects |-> {}]
  /\ ips' = {}

Crash ==
  /\ Dies
  /\ spoiled' = spoiled \cup {j.p : j \in jobs}
  /\ UNCHANGED <<disk, ctr, torn, requests>>

\* A handler's next step, or a call that changes the mode, saves the record of p.
Saving(p) ==
  \/ \E j \in jobs :
       /\ j.p = p
       /\ \/ j.pc \in {"building", "binding"}
          \/ j.pc = "working" /\ j.op = "deploy" /\ j.work = <<>>
  \/ /\ store[p] # {} /\ Ops \cap {"promote", "unpromote"} # {}
     /\ OneAtATime => jobs = {}

\* It ends in the middle of save(), which empties project.json and then fills it.
TornSave(p) ==
  /\ Saving(p)
  /\ Dies
  /\ torn' = torn \cup {p}
  /\ store' = [store EXCEPT ![p] = {}]
  /\ spoiled' = spoiled \cup {p} \cup {j.p : j \in jobs}
  /\ UNCHANGED <<files, stage, ledger, ctr, requests>>

\* start() runs recover_all() in the background of the API it opens: the shared
\* runtimes, then each other project as its record was when the list was read.  A
\* record that cannot be loaded ends each boot before that.
Boot ==
  /\ ~up /\ torn = {}
  /\ up' = TRUE
  /\ LET shared == \E m \in Modes : Listed(m) # {}
         own == {p \in Projects : \E r \in store[p] : r.kind = "isolated"}
         loc == Manifest("dev", Only(Kinds), FALSE)
     IN  \E order \in SetToSeqs(own) :
           jobs' = {[NewJob("boot", Daemon, "recover", "working", loc, {})
                     EXCEPT !.work = (IF shared THEN Refresh ELSE <<>>) \o Restarts(order)]}
  /\ UNCHANGED <<disk, serving, torn, history>>

-----------------------------------------------------------------------------
Manifests == {Manifest(m, k, c) : m \in Modes, k \in Kinds, c \in BOOLEAN}

\* The container of the daemon starts over a disk on which some projects have
\* been deployed, and none is running.
Init ==
  /\ files \in [Projects -> Code]
  /\ \E r \in [Projects -> {r \in Manifests : Valid(r)}] :
       store = [p \in Projects |->
                  IF files[p] = NoTree THEN {} ELSE {[r[p] EXCEPT !.tree = files[p]]}]
  /\ stage = [p \in Projects |-> NoTree]
  /\ ledger = [p \in Projects |->
                 IF store[p] = {} THEN <<>> ELSE <<EntryFor("deploy", Only(store[p]))>>]
  /\ ctr = [n \in Names |-> {}]
  /\ route = [p \in Projects |-> {}]
  /\ ips = {}
  /\ up = FALSE
  /\ torn = {}
  /\ jobs = {}
  /\ spoiled = {}
  /\ requests = 0
  /\ faults = 0

Calls(s, p) ==
  \/ \E r \in Manifests :
       \/ Deploy(s, p, r)
       \/ \E t \in Trees : Upload(s, p, r, t) \/ Import(s, p, r, t)
  \/ Redeploy(s, p)
  \/ Promote(s, p)
  \/ Unpromote(s, p)
  \/ Teardown(s, p)

\* What a handler does next when nothing fails.
Step(j) ==
  \/ \E t \in Trees : Cloned(j, t) \/ Staged(j, t)
  \/ AcceptManifest(j) \/ RejectManifest(j)
  \/ ReadStage(j) \/ RejectPin(j) \/ AdoptPin(j)
  \/ Built(j) \/ Brokered(j) \/ Recorded(j)
  \/ Bound(j)
  \/ DeployEmitted(j) \/ ModeEmitted(j) \/ TeardownEmitted(j)
  \/ StopContainer(j) \/ CreateContainer(j) \/ NameTaken(j)
  \/ Done(j)

Next ==
  \/ \E s \in Slots, p \in Projects : Calls(s, p)
  \/ \E j \in jobs : Step(j)
  \/ \E j \in jobs : Fails(j)
  \/ \E m \in Modes, p \in Projects : Respawn(m, p)
  \/ Crash
  \/ \E p \in Projects : TornSave(p)
  \/ Boot

Spec == Init /\ [][Next]_vars

\* Every call of git, docker and dstack returns, and the container that runs the
\* daemon is restarted.
Fairness ==
  /\ WF_vars(Boot)
  /\ \A s \in Slots \cup {"boot"} : WF_vars(\E j \in jobs : j.id = s /\ Step(j))

FairSpec == Spec /\ Fairness

-----------------------------------------------------------------------------
(* Properties *)

\* The types of the variables (projects.py:29-83, audit.py:15-24).
TypeOK ==
  /\ store \in [Projects -> SUBSET Record]
  /\ files \in [Projects -> Code]
  /\ stage \in [Projects -> Code]
  /\ ledger \in [Projects -> Seq(Entry)]
  /\ ctr \in [Names -> SUBSET Container]
  /\ route \in [Projects -> SUBSET Modes]
  /\ ips \subseteq Modes
  /\ up \in BOOLEAN
  /\ torn \subseteq Projects
  /\ jobs \subseteq Job
  /\ spoiled \subseteq Projects \cup {Daemon}
  /\ requests \in Nat /\ faults \in Nat

\* A binding quote on a record is for the tree that the record itself names,
\* whatever handlers overlap, fail or die: each stores its own copy, as it quoted
\* it (deploy.py:546-548), and a deploy's copy starts without one (303-316).
BindingMatchesRecord ==
  \A p \in Projects : \A r \in store[p] : r.bound \subseteq {r.tree}

\* An entry that tells of a deploy or a change of mode tells of the record that is
\* in the store at that moment (deploy.py:328-338, 548-567, 594-613).
EntryTellsRecord ==
  [][\A p \in Projects :
       ledger'[p] # ledger[p] /\ Last(ledger'[p]).act # "teardown" =>
         \E r \in store'[p] : Last(ledger'[p]) = EntryFor(Last(ledger'[p]).act, r)]_vars

\* When nobody works on a project and none of its handlers was cut short, the last
\* entry of its ledger tells its mode and tree, and a project torn down has no
\* record: every handler's last word to the store comes with its entry.
Settled(p) == p \notin spoiled /\ \A j \in jobs : j.p # p

LedgerTellsRecord ==
  \A p \in Projects : Settled(p) =>
    /\ \A r \in store[p] :
         ledger[p] # <<>> /\ Last(ledger[p]) \in {EntryFor(a, r) : a \in {"deploy", "promote", "unpromote"}}
    /\ store[p] = {} => ledger[p] = <<>> \/ Last(ledger[p]).act = "teardown"

\* The code a request to p reaches (ingress.py:192-292, runtimes.py:888-900).
Served(p) ==
  UNION {CASE r.kind = "static" -> {files[p]}
           [] r.kind = "isolated" ->
                UNION {{c.serves[p] : c \in ctr[<<p, m>>]} : m \in route[p]}
           [] r.kind = "shared" ->
                IF r.mode \in ips
                THEN {c.serves[p] : c \in {c \in ctr[<<Daemon, r.mode>>] : p \in DOMAIN c.serves}}
                ELSE {}
         : r \in store[p]}

\* At rest, a project whose handlers all ran to their end serves the tree that its
\* record names and the last entry of its ledger tells, after restarts of the daemon
\* too (deploy.py:317-380, 540-613, runtimes.py:888-982).
ServedIsRecorded ==
  up /\ jobs = {} /\ Daemon \notin spoiled =>
    \A p \in Projects \ spoiled : \A r \in store[p] :
      /\ files[p] = r.tree /\ Served(p) = {r.tree}
      /\ ledger[p] # <<>> /\ Last(ledger[p]).mode = r.mode /\ Last(ledger[p]).tree = r.tree

\* The daemon comes to rest with every project that was not left half done served
\* from its recorded tree, unless its process ended in the middle of a save: then it
\* does not come back (projects.py:100-101, main.py:149).
ComesToRest ==
  <>[](\/ torn # {}
       \/ /\ up /\ jobs = {}
          /\ Daemon \notin spoiled => \A p \in Projects \ spoiled : \A r \in store[p] :
                                        Served(p) = {r.tree})

-----------------------------------------------------------------------------
(* What the documentation and the comments say, and the code does not keep *)

AtRest == up /\ jobs = {}

\* The binding quote goes with "proving the code running on this CVM is the same
\* code in the public GitHub repo" (verify.md:13): what a project with a binding
\* serves is the quoted tree, when no call failed.
BoundIsServed ==
  AtRest /\ spoiled = {} => \A p \in Projects : \A r \in store[p] :
    r.bound # {} => Served(p) \subseteq r.bound
=============================================================================
