------------------------------- MODULE Images -------------------------------
(***************************************************************************)
(* Image projects: what a registry serves under a reference, the copy that *)
(* docker keeps of it, the container made from that copy, and the digest   *)
(* in the record and the ledger (proxy/deploy.py:344-430, 530-649;         *)
(* proxy/runtimes.py:790-855, 954-982; proxy/docker_client.py:157-185).    *)
(*                                                                         *)
(* A reference is a digest, which is what it names for ever, or a tag,     *)
(* which its owner may move.  Every start of a container pulls first, so   *)
(* a tag that has moved takes effect at the next start of any project that *)
(* uses it.  The calls on one project wait for each other and for its      *)
(* recovery (Lifecycle is about those that do not); calls on different     *)
(* projects overlap.                                                       *)
(*                                                                         *)
(* What may be missing is a set of at most one element.                    *)
(***************************************************************************)
EXTENDS Naturals, Sequences, SequencesExt

CONSTANTS
  Projects,
  Tags,          \* references that can be moved
  Digests,       \* images; a digest is also a reference to itself
  MaxRequests,   \* bound on the API calls
  MaxFaults      \* bound on crashes and failing calls

ASSUME ConstantsAssumption ==
  /\ Tags \cap Digests = {}
  /\ {MaxRequests, MaxFaults} \subseteq Nat

VARIABLES
  registry,    \* registry[t]: the digest that the registry has under the tag
  cache,       \* cache[f]: the digest of docker's local copy of the reference
  store,       \* store[p]: the record
  ledger,      \* ledger[p]: the entries of p's audit log
  ctr,         \* ctr[<<p, m>>]: the digest of the image that tee-image-p-m runs
  route,       \* route[p]: the mode of the container image_routes[p] leads to
  up,          \* the daemon process runs
  torn,        \* projects whose project.json was left half written
  jobs,        \* the handler or the recovery in progress on a project
  queue,       \* records that recover_all() has still to start
  spoiled,     \* projects whose last handler was cut short (a history variable)
  pinned,      \* pinned[p]: the pin of p's last deploy (a history variable)
  moved,       \* tags that have been moved, at most once each (a history variable)
  requests, faults

docker == <<cache, ctr>>
history == <<spoiled, pinned>>
counts == <<requests, faults>>
vars == <<registry, moved, docker, store, ledger, route, up, torn, jobs, queue, history, counts>>

Modes == {"dev", "attested"}
Refs == Tags \cup Digests
Record == [ref: Refs, mode: Modes, digest: SUBSET Digests]
Entry == [act: {"deploy", "promote", "unpromote", "teardown"}, digest: SUBSET Digests]
Job ==
  [p: Projects, op: {"deploy", "promote", "recover"},
   pc: {"pinning", "saving", "pulling", "creating", "reading", "quoting", "stopping"},
   loc: Record, pin: SUBSET Digests]

-----------------------------------------------------------------------------
(* Docker *)

\* What the registry serves now.
Served(f) == IF f \in Tags THEN registry[f] ELSE f

\* pull() brings the local copy up to the registry.
Pulled(f) == cache' = [cache EXCEPT ![f] = {Served(f)}]

\* The owner of a tag moves it.
Move(t, d) ==
  /\ t \notin moved
  /\ d # registry[t]
  /\ registry' = [registry EXCEPT ![t] = d]
  /\ moved' = moved \cup {t}
  /\ UNCHANGED <<docker, store, ledger, route, up, torn, jobs, queue, history, counts>>

-----------------------------------------------------------------------------
(* Handlers *)

Busy(p) == (\E j \in jobs : j.p = p) \/ (\E q \in queue : q[1] = p)

Accepts(p) ==
  /\ up /\ requests < MaxRequests
  /\ ~Busy(p)
  /\ requests' = requests + 1

NewJob(p, o, pc, r, pin) == [p |-> p, op |-> o, pc |-> pc, loc |-> r, pin |-> pin]
Becomes(j, k) == jobs' = (jobs \ {j}) \cup {k}
GoesTo(j, pc) == Becomes(j, [j EXCEPT !.pc = pc])
Saves(p, r) == store' = [store EXCEPT ![p] = {r}]
Appends(p, a, d) == ledger' = [ledger EXCEPT ![p] = Append(@, [act |-> a, digest |-> d])]

New(f, m) == [ref |-> f, mode |-> m, digest |-> {}]

\* The record is stored, without a digest, before anything is pulled.
Deploy(p, f, m) ==
  /\ Accepts(p)
  /\ Saves(p, New(f, m))
  /\ jobs' = jobs \cup {NewJob(p, "deploy", "pulling", New(f, m), {})}
  /\ UNCHANGED <<registry, moved, docker, ledger, route, up, torn, queue, history, faults>>

\* An import carries the digest of the record it was exported from.  What docker
\* has already is not pulled again before it is compared.
Import(p, f, m, d) ==
  /\ Accepts(p)
  /\ IF cache[f] = {} THEN Pulled(f) ELSE UNCHANGED cache
  /\ jobs' = jobs \cup {NewJob(p, "deploy", "pinning", New(f, m), {d})}
  /\ UNCHANGED <<registry, moved, ctr, store, ledger, route, up, torn, queue, history, faults>>

\* Mutant of PinChecked: the digest is not compared.
PinNotChecked(j) ==
  /\ j.pc = "pinning"
  /\ Saves(j.p, j.loc)
  /\ GoesTo(j, "pulling")
  /\ UNCHANGED <<registry, moved, docker, ledger, route, up, torn, queue, history, counts>>

PinChecked(j) ==
  /\ j.pc = "pinning"
  /\ cache[j.loc.ref] = j.pin
  /\ Saves(j.p, j.loc)
  /\ GoesTo(j, "pulling")
  /\ UNCHANGED <<registry, moved, docker, ledger, route, up, torn, queue, history, counts>>

PinRefused(j) ==
  /\ j.pc = "pinning"
  /\ cache[j.loc.ref] # j.pin
  /\ jobs' = jobs \ {j}
  /\ UNCHANGED <<registry, moved, docker, store, ledger, route, up, torn, queue, history, counts>>

\* The mode is stored, then a quote asked for.
Promote(p) ==
  \E r \in store[p] :
    /\ Accepts(p)
    /\ r.mode = "dev"
    /\ LET a == [r EXCEPT !.mode = "attested"] IN
         /\ Saves(p, a)
         /\ jobs' = jobs \cup {NewJob(p, "promote", "quoting", a, {})}
    /\ UNCHANGED <<registry, moved, docker, ledger, route, up, torn, queue, history, faults>>

\* The quote is there: stored and recorded.  It names the digest of the record.
Quoted(j) ==
  /\ j.pc = "quoting"
  /\ Saves(j.p, j.loc)
  /\ Appends(j.p, "promote", j.loc.digest)
  /\ GoesTo(j, "stopping")
  /\ UNCHANGED <<registry, moved, docker, route, up, torn, queue, history, counts>>

\* stop_image(): in both modes.
StopsBoth(p) ==
  /\ ctr' = [x \in Projects \X Modes |-> IF x[1] = p THEN {} ELSE ctr[x]]
  /\ route' = [route EXCEPT ![p] = {}]

Stopped(j) ==
  /\ j.pc = "stopping"
  /\ StopsBoth(j.p)
  /\ GoesTo(j, "pulling")
  /\ UNCHANGED <<registry, moved, cache, store, ledger, up, torn, queue, history, counts>>

\* refresh() does nothing for images: the container goes on.
Unpromote(p) ==
  \E r \in store[p] :
    /\ Accepts(p)
    /\ r.mode = "attested"
    /\ Saves(p, [r EXCEPT !.mode = "dev"])
    /\ Appends(p, "unpromote", r.digest)
    /\ UNCHANGED <<registry, moved, docker, route, up, torn, jobs, queue, history, faults>>

Teardown(p) ==
  \E r \in store[p] :
    /\ Accepts(p)
    /\ Appends(p, "teardown", r.digest)
    /\ store' = [store EXCEPT ![p] = {}]
    /\ StopsBoth(p)
    /\ UNCHANGED <<registry, moved, cache, up, torn, jobs, queue, history, faults>>

-----------------------------------------------------------------------------
(* start_image() *)

StartPulled(j) ==
  /\ j.pc = "pulling"
  /\ Pulled(j.loc.ref)
  /\ GoesTo(j, "creating")
  /\ UNCHANGED <<registry, moved, ctr, store, ledger, route, up, torn, queue, history, counts>>

\* The registry does not answer, and the copy that is there will do.
PullFallsBack(j) ==
  /\ j.pc = "pulling"
  /\ faults < MaxFaults
  /\ faults' = faults + 1
  /\ cache[j.loc.ref] # {}
  /\ GoesTo(j, "creating")
  /\ UNCHANGED <<registry, moved, docker, store, ledger, route, up, torn, queue, history, requests>>

\* The container of this mode is replaced by one of the local copy.
Created(j) ==
  /\ j.pc = "creating"
  /\ ctr' = [ctr EXCEPT ![<<j.p, j.loc.mode>>] = cache[j.loc.ref]]
  /\ route' = [route EXCEPT ![j.p] = {j.loc.mode}]
  /\ GoesTo(j, "reading")
  /\ UNCHANGED <<registry, moved, cache, store, ledger, up, torn, queue, spoiled, pinned, counts>>

\* Mutant of DigestRead: the second save is left out.
DigestUnsaved(j) ==
  /\ j.pc = "reading" /\ j.op = "deploy"
  /\ Appends(j.p, "deploy", cache[j.loc.ref])
  /\ spoiled' = spoiled \ {j.p}
  /\ pinned' = [pinned EXCEPT ![j.p] = j.pin]
  /\ jobs' = jobs \ {j}
  /\ UNCHANGED <<registry, moved, docker, store, route, up, torn, queue, counts>>

\* deploy() stores and records the digest that the reference has by now.
DigestRead(j) ==
  /\ j.pc = "reading" /\ j.op = "deploy"
  /\ Saves(j.p, [j.loc EXCEPT !.digest = cache[j.loc.ref]])
  /\ Appends(j.p, "deploy", cache[j.loc.ref])
  /\ spoiled' = spoiled \ {j.p}
  /\ pinned' = [pinned EXCEPT ![j.p] = j.pin]
  /\ jobs' = jobs \ {j}
  /\ UNCHANGED <<registry, moved, docker, route, up, torn, queue, counts>>

\* promote() and recover_all() do not look at it.
DigestIgnored(j) ==
  /\ j.pc = "reading" /\ j.op # "deploy"
  /\ jobs' = jobs \ {j}
  /\ UNCHANGED <<registry, moved, docker, store, ledger, route, up, torn, queue, history, counts>>

-----------------------------------------------------------------------------
(* Faults and recovery *)

\* docker, dstack or the registry fails the call a handler waits for.
Fails(j) ==
  /\ faults < MaxFaults
  /\ faults' = faults + 1
  /\ jobs' = jobs \ {j}
  /\ spoiled' = spoiled \cup {j.p}
  /\ UNCHANGED <<registry, moved, docker, store, ledger, route, up, torn, queue, pinned, requests>>

\* The process ends; the containers do not.
Dies ==
  /\ up
  /\ faults < MaxFaults
  /\ faults' = faults + 1
  /\ up' = FALSE
  /\ jobs' = {}
  /\ queue' = {}
  /\ route' = [p \in Projects |-> {}]

CutShort == {j.p : j \in {j \in jobs : j.op # "recover"}}

Crash ==
  /\ Dies
  /\ spoiled' = spoiled \cup CutShort
  /\ UNCHANGED <<registry, moved, docker, store, torn, ledger, pinned, requests>>

\* A call for p, or the next step of its handler, stores its record.
Saving(p) ==
  \/ ~Busy(p)
  \/ \E j \in jobs :
       /\ j.p = p
       /\ \/ j.pc = "pinning" /\ cache[j.loc.ref] = j.pin
          \/ j.pc = "quoting"
          \/ j.pc = "reading" /\ j.op = "deploy"

\* The process ends in the middle of save(), which empties the file before it fills it.
TornSave(p) ==
  /\ Saving(p)
  /\ Dies
  /\ torn' = torn \cup {p}
  /\ store' = [store EXCEPT ![p] = {}]
  /\ spoiled' = spoiled \cup {p} \cup CutShort
  /\ UNCHANGED <<registry, moved, docker, ledger, pinned, requests>>

Records == Projects \X UNION {store[p] : p \in Projects}

\* Mutant of Boot: only attested projects are listed.
BootAttested ==
  /\ ~up /\ torn = {}
  /\ up' = TRUE
  /\ queue' = {q \in Records : q[2] \in store[q[1]] /\ q[2].mode = "attested"}
  /\ UNCHANGED <<registry, moved, docker, store, ledger, route, torn, jobs, history, counts>>

\* recover_all() lists the records, and starts one after the other.  A boot that finds
\* one it cannot load does not get there.
Boot ==
  /\ ~up /\ torn = {}
  /\ up' = TRUE
  /\ queue' = {q \in Records : q[2] \in store[q[1]]}
  /\ UNCHANGED <<registry, moved, docker, store, ledger, route, torn, jobs, history, counts>>

RecoverNext ==
  /\ up
  /\ \A j \in jobs : j.op # "recover"
  /\ \E q \in queue :
       /\ queue' = queue \ {q}
       /\ jobs' = jobs \cup {NewJob(q[1], "recover", "pulling", q[2], {})}
  /\ UNCHANGED <<registry, moved, docker, store, ledger, route, up, torn, history, counts>>

-----------------------------------------------------------------------------
Init ==
  /\ registry \in [Tags -> Digests]
  /\ cache = [f \in Refs |-> {}]
  /\ store = [p \in Projects |-> {}]
  /\ ledger = [p \in Projects |-> <<>>]
  /\ ctr = [x \in Projects \X Modes |-> {}]
  /\ route = [p \in Projects |-> {}]
  /\ up = TRUE
  /\ torn = {}
  /\ jobs = {}
  /\ queue = {}
  /\ spoiled = {}
  /\ pinned = [p \in Projects |-> {}]
  /\ moved = {}
  /\ requests = 0 /\ faults = 0

Calls(p) ==
  \/ \E f \in Refs, m \in Modes :
       Deploy(p, f, m) \/ \E d \in Digests : Import(p, f, m, d)
  \/ Promote(p) \/ Unpromote(p) \/ Teardown(p)

Step(j) ==
  \/ PinChecked(j) \/ PinRefused(j)
  \/ Quoted(j) \/ Stopped(j)
  \/ StartPulled(j) \/ Created(j) \/ DigestRead(j) \/ DigestIgnored(j)

Next ==
  \/ \E t \in Tags, d \in Digests : Move(t, d)
  \/ \E p \in Projects : Calls(p)
  \/ \E j \in jobs : Step(j) \/ PullFallsBack(j) \/ Fails(j)
  \/ Crash \/ (\E p \in Projects : TornSave(p)) \/ Boot \/ RecoverNext

Spec == Init /\ [][Next]_vars

\* docker, dstack and the registry answer or time out; the daemon is restarted.
Fairness ==
  /\ WF_vars(Boot) /\ WF_vars(RecoverNext)
  /\ \A p \in Projects : WF_vars(\E j \in jobs : j.p = p /\ Step(j))
FairSpec == Spec /\ Fairness

-----------------------------------------------------------------------------
(* Properties *)

TypeOK ==
  /\ registry \in [Tags -> Digests]
  /\ cache \in [Refs -> SUBSET Digests]
  /\ store \in [Projects -> SUBSET Record]
  /\ ledger \in [Projects -> Seq(Entry)]
  /\ ctr \in [Projects \X Modes -> SUBSET Digests]
  /\ route \in [Projects -> SUBSET Modes]
  /\ up \in BOOLEAN
  /\ torn \subseteq Projects
  /\ jobs \subseteq Job
  /\ queue \subseteq Projects \X Record
  /\ spoiled \subseteq Projects
  /\ pinned \in [Projects -> SUBSET Digests]
  /\ moved \subseteq Tags
  /\ {requests, faults} \subseteq Nat

Running(p) == UNION {ctr[<<p, m>>] : m \in route[p]}
AtRest(p) == up /\ ~Busy(p) /\ p \notin spoiled

\* The digest of the record is what the project's container runs, and what the last
\* entry of its ledger names.
RecordTellsImage(p) ==
  \A r \in store[p] :
    /\ ledger[p] # <<>> /\ Last(ledger[p]).digest = r.digest
    /\ Running(p) \in {{}, r.digest} /\ r.digest # {}

\* A project whose reference has not moved, as one deployed by digest never has, runs
\* what its record and its ledger say, through restarts, promotions, failures and the
\* calls on other projects (deploy.py:397-427, runtimes.py:790-844; "Pin by digest
\* for attestable deploys", DEVELOPER_GUIDE.md:102).
UnmovedIsTold ==
  \A p \in Projects :
    AtRest(p) /\ (\A r \in store[p] : r.ref \notin moved) => RecordTellsImage(p)

\* What runs after a pinned import, and all restarts that follow, is the pin, unless
\* the tag has moved (deploy.py:355-366).
PinHolds ==
  \A p \in Projects : AtRest(p) /\ pinned[p] # {} =>
    \A r \in store[p] : r.ref \notin moved => Running(p) \subseteq pinned[p]

\* The daemon ends up at rest with a route to every project it has a record of, but
\* for those that a failure left half done (runtimes.py:954-982), unless its process
\* ended in the middle of a save: then it does not come back (projects.py:100-101).
Recovers ==
  <>[](\/ torn # {}
       \/ /\ up /\ jobs = {} /\ queue = {}
          /\ \A p \in Projects \ spoiled : store[p] # {} => route[p] # {})
=============================================================================
