------------------------------ MODULE Resources ------------------------------
(***************************************************************************)
(* What a project is given besides its container, and what is taken back:  *)
(* a network for each mode, which the daemon joins to reach the container  *)
(* (proxy/runtimes.py:607-656), and the sockets of the credential broker   *)
(* and of dstack (proxy/dstack_proxy.py:90-161), acquired by deploys and   *)
(* recovery and released by teardowns (proxy/deploy.py:433-457).           *)
(*                                                                         *)
(* Networks are docker's and outlive the process, as does the daemon's     *)
(* place on them while its container is restarted and not made again.      *)
(* Sockets end with the process.  Jobs and steps are as in Lifecycle; the  *)
(* two sockets of a project, made and removed together, count as one.      *)
(***************************************************************************)
EXTENDS Naturals, FiniteSets

CONSTANTS
  Projects,
  Kinds,         \* among "own" (image or isolation container) and "shared"
  Pool,          \* subnets that docker has for networks
  Slots,         \* bound on the API calls in progress at once
  OneAtATime,    \* whether callers wait for each other, and for the recovery, to end
  MaxRequests,   \* bound on the API calls
  MaxFaults      \* bound on crashes and failing calls

ConstantsAssumption ==
  /\ Kinds \subseteq {"own", "shared"}
  /\ "boot" \notin Slots /\ OneAtATime \in BOOLEAN
  /\ {Pool, MaxRequests, MaxFaults} \subseteq Nat

VARIABLES
  store,     \* store[p]: the record, or none
  nets,      \* the networks tee-proj-P-M
  joined,    \* the networks that the daemon's container is on
  ctr,       \* the projects' own containers, each on the network of the same name
  route,     \* route[p]: the mode of the container image_routes[p] leads to
  proxies,   \* proxies[p]: the server in _projects[p]
  socket,    \* socket[p]: the server that bound the socket at p's path
  live,      \* live[p]: p's servers that listen
  up,        \* the daemon process runs
  torn,      \* projects whose project.json was left half written
  jobs,      \* handlers in progress, the recovery of a project among them
  queue,     \* records that recover_all() has still to start
  changed,   \* projects whose mode or kind has changed (a history variable)
  spoiled,   \* projects a handler left half done (a history variable)
  requests, faults

docker == <<nets, joined, ctr>>
sockets == <<proxies, socket, live>>
vars ==
  <<store, docker, route, sockets, up, torn, jobs, queue, changed, spoiled, requests, faults>>

Modes == {"dev", "attested"}
Nets == Projects \X Modes
Servers == 0..MaxRequests
Record == [mode: Modes, kind: Kinds]
Job ==
  [id: Slots \cup {"boot"}, n: Servers, p: Projects, loc: Record,
   op: {"deploy", "promote", "teardown", "recover"},
   pc: {"binding", "registering", "netting", "joining", "starting", "saving",
        "replacing", "deleting", "stopping", "closing", "unlinking", "leaving", "removing"}]

-----------------------------------------------------------------------------
(* Calls *)

Accepts(s) ==
  /\ up /\ requests < MaxRequests
  /\ \A j \in jobs : j.id # s /\ ~OneAtATime
  /\ OneAtATime => queue = {}
  /\ requests' = requests + 1

NewJob(s, n, p, o, pc, r) == [id |-> s, n |-> n, p |-> p, op |-> o, pc |-> pc, loc |-> r]
GoesTo(j, pc) == jobs' = (jobs \ {j}) \cup {[j EXCEPT !.pc = pc]}
Ends(j) == jobs' = jobs \ {j}
Raises(j) == Ends(j) /\ spoiled' = spoiled \cup {j.p}

Saves(p, r) ==
  /\ store' = [store EXCEPT ![p] = {r}]
  /\ changed' = IF store[p] \in {{}, {r}} THEN changed ELSE changed \cup {p}

\* The build is over and the record stored.
Deploy(s, p, r) ==
  /\ Accepts(s)
  /\ Saves(p, r)
  /\ jobs' = jobs \cup {NewJob(s, requests', p, "deploy", "binding", r)}
  /\ UNCHANGED <<docker, route, sockets, up, torn, queue, spoiled, faults>>

Promote(s, p) ==
  \E r \in store[p] :
    /\ Accepts(s)
    /\ r.mode = "dev"
    /\ LET a == [r EXCEPT !.mode = "attested"] IN
         /\ Saves(p, a)
         /\ jobs' = jobs \cup
              (IF r.kind = "own" THEN {NewJob(s, requests', p, "promote", "replacing", a)} ELSE {})
    /\ UNCHANGED <<docker, route, sockets, up, torn, queue, spoiled, faults>>

\* refresh() leaves containers of a project's own alone.
Unpromote(s, p) ==
  \E r \in store[p] :
    /\ Accepts(s)
    /\ r.mode = "attested"
    /\ Saves(p, [r EXCEPT !.mode = "dev"])
    /\ UNCHANGED <<docker, route, sockets, up, torn, jobs, queue, spoiled, faults>>

\* The record is read; its entry is written before it goes.
Teardown(s, p) ==
  \E r \in store[p] :
    /\ Accepts(s)
    /\ jobs' = jobs \cup {NewJob(s, requests', p, "teardown", "deleting", r)}
    /\ UNCHANGED <<store, docker, route, sockets, up, torn, queue, changed, spoiled, faults>>

-----------------------------------------------------------------------------
(* ensure() and remove() of the sockets *)

AfterSockets(j) == IF j.loc.kind = "own" THEN "netting" ELSE "saving"

\* There is an entry: nothing is looked at.
AlreadyServed(j) ==
  /\ j.pc = "binding"
  /\ proxies[j.p] # {}
  /\ GoesTo(j, AfterSockets(j))
  /\ UNCHANGED <<store, docker, route, sockets, up, torn, queue, changed, spoiled, requests, faults>>

\* What is at the path is unlinked and a new socket bound; start() awaits.
Binds(j) ==
  /\ j.pc = "binding"
  /\ proxies[j.p] = {}
  /\ socket' = [socket EXCEPT ![j.p] = {j.n}]
  /\ live' = [live EXCEPT ![j.p] = @ \cup {j.n}]
  /\ GoesTo(j, "registering")
  /\ UNCHANGED <<store, docker, route, proxies, up, torn, queue, changed, spoiled, requests, faults>>

Registers(j) ==
  /\ j.pc = "registering"
  /\ proxies' = [proxies EXCEPT ![j.p] = {j.n}]
  /\ GoesTo(j, AfterSockets(j))
  /\ UNCHANGED <<store, docker, route, socket, live, up, torn, queue, changed, spoiled, requests, faults>>

\* The entry is taken out and its server closed; cleanup() awaits what it answers.
Closes(j) ==
  /\ j.pc = "closing"
  /\ proxies' = [proxies EXCEPT ![j.p] = {}]
  /\ live' = [live EXCEPT ![j.p] = @ \ proxies[j.p]]
  /\ GoesTo(j, IF proxies[j.p] = {} THEN "leaving" ELSE "unlinking")
  /\ UNCHANGED <<store, docker, route, socket, up, torn, queue, changed, spoiled, requests, faults>>

\* Then whatever is at the path is unlinked.
Unlinks(j) ==
  /\ j.pc = "unlinking"
  /\ socket' = [socket EXCEPT ![j.p] = {}]
  /\ GoesTo(j, "leaving")
  /\ UNCHANGED <<store, docker, route, proxies, live, up, torn, queue, changed, spoiled, requests, faults>>

-----------------------------------------------------------------------------
(* Networks and containers *)

\* Mutant of Net: networks are named for the kind.
NetOfKind(j) == <<j.p, j.loc.kind>>

Net(j) == <<j.p, j.loc.mode>>

\* create_network(): it exists, or there is a subnet for it.
NetCreated(j) ==
  /\ j.pc = "netting"
  /\ Net(j) \in nets \/ Cardinality(nets) < Pool
  /\ nets' = nets \cup {Net(j)}
  /\ GoesTo(j, "joining")
  /\ UNCHANGED <<store, joined, ctr, route, sockets, up, torn, queue, changed, spoiled, requests, faults>>

PoolIsEmpty(j) ==
  /\ j.pc = "netting"
  /\ Net(j) \notin nets /\ Cardinality(nets) >= Pool
  /\ Raises(j)
  /\ UNCHANGED <<store, docker, route, sockets, up, torn, queue, changed, requests, faults>>

\* The daemon joins; that it cannot is logged and no more.
Joins(j) ==
  /\ j.pc = "joining"
  /\ joined' = joined \cup ({Net(j)} \cap nets)
  /\ GoesTo(j, "starting")
  /\ UNCHANGED <<store, nets, ctr, route, sockets, up, torn, queue, changed, spoiled, requests, faults>>

\* The container of this mode is replaced by a new one, on its network.
Starts(j) ==
  /\ j.pc = "starting"
  /\ Net(j) \in nets
  /\ ctr' = ctr \cup {Net(j)}
  /\ route' = [route EXCEPT ![j.p] = {j.loc.mode}]
  /\ IF j.op = "deploy" THEN GoesTo(j, "saving") ELSE Ends(j)
  /\ UNCHANGED <<store, nets, joined, sockets, up, torn, queue, changed, spoiled, requests, faults>>

NoNetwork(j) ==
  /\ j.pc = "starting"
  /\ Net(j) \notin nets
  /\ ctr' = ctr \ {Net(j)}
  /\ Raises(j)
  /\ UNCHANGED <<store, nets, joined, route, sockets, up, torn, queue, changed, requests, faults>>

\* The handler's copy of the record is stored again, with the digest.
Resaved(j) ==
  /\ j.pc = "saving"
  /\ Saves(j.p, j.loc)
  /\ Ends(j)
  /\ UNCHANGED <<docker, route, sockets, up, torn, queue, spoiled, requests, faults>>

\* stop_image() or stop_isolated(), in both modes.
Halts(p) ==
  /\ ctr' = ctr \ ({p} \X Modes)
  /\ route' = [route EXCEPT ![p] = {}]

Replaces(j) ==
  /\ j.pc = "replacing"
  /\ Halts(j.p)
  /\ GoesTo(j, "netting")
  /\ UNCHANGED <<store, nets, joined, sockets, up, torn, queue, changed, spoiled, requests, faults>>

Deletes(j) ==
  /\ j.pc = "deleting"
  /\ store' = [store EXCEPT ![j.p] = {}]
  /\ GoesTo(j, IF j.loc.kind = "own" THEN "stopping" ELSE "closing")
  /\ UNCHANGED <<docker, route, sockets, up, torn, queue, changed, spoiled, requests, faults>>

Stops(j) ==
  /\ j.pc = "stopping"
  /\ Halts(j.p)
  /\ GoesTo(j, "closing")
  /\ UNCHANGED <<store, nets, joined, sockets, up, torn, queue, changed, spoiled, requests, faults>>

\* remove_project_network(), of the mode that the teardown read: the daemon leaves,
Leaves(j) ==
  /\ j.pc = "leaving"
  /\ joined' = joined \ {Net(j)}
  /\ GoesTo(j, "removing")
  /\ UNCHANGED <<store, nets, ctr, route, sockets, up, torn, queue, changed, spoiled, requests, faults>>

\* Mutant of RemovesNet: docker is not asked.
RemovesNone(j) ==
  /\ j.pc = "removing"
  /\ Ends(j)
  /\ UNCHANGED <<store, docker, route, sockets, up, torn, queue, changed, spoiled, requests, faults>>

\* and docker removes the network if nothing else is on it.
RemovesNet(j) ==
  /\ j.pc = "removing"
  /\ nets' = nets \ ({Net(j)} \ (ctr \cup joined))
  /\ Ends(j)
  /\ UNCHANGED <<store, joined, ctr, route, sockets, up, torn, queue, changed, spoiled, requests, faults>>

-----------------------------------------------------------------------------
(* Faults, boot and recovery *)

Fails(j) ==
  /\ faults < MaxFaults
  /\ faults' = faults + 1
  /\ Raises(j)
  /\ UNCHANGED <<store, docker, route, sockets, up, torn, queue, changed, requests>>

\* The process ends.  Its container is restarted, or made again by an upgrade.
Dies(again) ==
  /\ up
  /\ faults < MaxFaults
  /\ faults' = faults + 1
  /\ up' = FALSE
  /\ joined' = IF again THEN {} ELSE joined
  /\ route' = [p \in Projects |-> {}]
  /\ proxies' = [p \in Projects |-> {}]
  /\ live' = [p \in Projects |-> {}]
  /\ jobs' = {}
  /\ queue' = {}
  /\ UNCHANGED <<nets, ctr, socket, changed, requests>>

CutShort == {j.p : j \in {j \in jobs : j.op # "recover"}}

Crash(again) ==
  /\ Dies(again)
  /\ spoiled' = spoiled \cup CutShort
  /\ UNCHANGED <<store, torn>>

\* A call for p, or the next step of one of its handlers, stores its record.
Saving(p) ==
  \/ \E j \in jobs : j.p = p /\ j.pc = "saving"
  \/ OneAtATime => jobs = {} /\ queue = {}

\* The process ends in the middle of save(), which empties the file before it fills it.
TornSave(p, again) ==
  /\ Saving(p)
  /\ Dies(again)
  /\ torn' = torn \cup {p}
  /\ store' = [store EXCEPT ![p] = {}]
  /\ spoiled' = spoiled \cup {p} \cup CutShort

Stored == {p \in Projects : store[p] # {}}

\* reclaim_orphan_networks(), a socket for every record, and the list to recover.
Boot ==
  /\ ~up /\ torn = {}
  /\ up' = TRUE
  /\ nets' = nets \cap (ctr \cup joined)
  /\ proxies' = [p \in Projects |-> IF p \in Stored THEN {0} ELSE {}]
  /\ socket' = [p \in Projects |-> IF p \in Stored THEN {0} ELSE socket[p]]
  /\ live' = proxies'
  /\ queue' = {q \in Stored \X Record : q[2] \in store[q[1]] /\ q[2].kind = "own"}
  /\ UNCHANGED <<store, joined, ctr, route, torn, jobs, changed, spoiled, requests, faults>>

\* A record that cannot be loaded ends the boot after the first of these.
BootFails ==
  /\ ~up /\ torn # {}
  /\ nets' = nets \cap (ctr \cup joined)
  /\ UNCHANGED <<store, joined, ctr, route, sockets, up, torn, jobs, queue, changed, spoiled,
                 requests, faults>>

RecoverNext ==
  /\ up
  /\ \A j \in jobs : j.id # "boot"
  /\ \E q \in queue :
       /\ queue' = queue \ {q}
       /\ jobs' = jobs \cup {NewJob("boot", 0, q[1], "recover", "netting", q[2])}
  /\ UNCHANGED <<store, docker, route, sockets, up, torn, changed, spoiled, requests, faults>>

-----------------------------------------------------------------------------
Init ==
  /\ store = [p \in Projects |-> {}]
  /\ nets = {} /\ joined = {} /\ ctr = {}
  /\ route = [p \in Projects |-> {}]
  /\ proxies = [p \in Projects |-> {}]
  /\ socket = [p \in Projects |-> {}]
  /\ live = [p \in Projects |-> {}]
  /\ up = TRUE /\ torn = {}
  /\ jobs = {} /\ queue = {}
  /\ changed = {} /\ spoiled = {}
  /\ requests = 0 /\ faults = 0

Calls(s, p) ==
  \/ \E r \in Record : Deploy(s, p, r)
  \/ Promote(s, p) \/ Unpromote(s, p) \/ Teardown(s, p)

Step(j) ==
  \/ AlreadyServed(j) \/ Binds(j) \/ Registers(j) \/ Closes(j) \/ Unlinks(j)
  \/ NetCreated(j) \/ PoolIsEmpty(j) \/ Joins(j) \/ Starts(j) \/ NoNetwork(j) \/ Resaved(j)
  \/ Replaces(j) \/ Deletes(j) \/ Stops(j) \/ Leaves(j) \/ RemovesNet(j)

Next ==
  \/ \E s \in Slots, p \in Projects : Calls(s, p)
  \/ \E j \in jobs : Step(j) \/ Fails(j)
  \/ \E again \in BOOLEAN : Crash(again) \/ \E p \in Projects : TornSave(p, again)
  \/ Boot \/ BootFails \/ RecoverNext

Spec == Init /\ [][Next]_vars

\* docker and dstack answer or time out; the daemon is restarted.
Fairness ==
  /\ WF_vars(Boot) /\ WF_vars(RecoverNext)
  /\ \A s \in Slots \cup {"boot"} : WF_vars(\E j \in jobs : j.id = s /\ Step(j))
FairSpec == Spec /\ Fairness

-----------------------------------------------------------------------------
(* Properties *)

TypeOK ==
  /\ store \in [Projects -> SUBSET Record]
  /\ nets \subseteq Nets /\ joined \subseteq Nets /\ ctr \subseteq Nets
  /\ route \in [Projects -> SUBSET Modes]
  /\ proxies \in [Projects -> SUBSET Servers]
  /\ socket \in [Projects -> SUBSET Servers]
  /\ live \in [Projects -> SUBSET Servers]
  /\ up \in BOOLEAN /\ torn \subseteq Projects
  /\ jobs \subseteq Job
  /\ queue \subseteq Projects \X Record
  /\ changed \subseteq Projects /\ spoiled \subseteq Projects
  /\ requests \in Nat /\ faults \in Nat

\* Whatever overlaps, fails or ends, a server that ensure() would take for the
\* project's own listens (dstack_proxy.py:106-107, 142-151).
ListedListens == \A p \in Projects : proxies[p] \subseteq live[p]

AtRest == up /\ jobs = {} /\ queue = {}
OwnRecord(p) == \E r \in store[p] : r.kind = "own"

\* The daemon can reach the container that it routes to.
Reached(p) == route[p] # {} /\ ({p} \X route[p]) \subseteq ctr \cap joined

\* The socket at the path is that of a server that listens.
SocketServes(p) == socket[p] # {} /\ socket[p] \subseteq live[p]

\* At rest a project with a record, all of whose handlers ran to their end, is reached
\* and has its sockets, after restarts and promotions too (runtimes.py:607-616,
\* 868-876; main.py:147-150).
Provided ==
  AtRest => \A p \in Projects \ spoiled :
    store[p] # {} => SocketServes(p) /\ (OwnRecord(p) => Reached(p))

\* There are no networks, containers or sockets but those of a project with a record,
\* unless its mode or kind has changed or a handler failed (deploy.py:451-455).
NothingElseHeld ==
  AtRest => \A p \in Projects \ (spoiled \cup changed) :
    /\ \A m \in Modes : <<p, m>> \in nets \cup ctr =>
         \E r \in store[p] : r = [mode |-> m, kind |-> "own"]
    /\ store[p] = {} => proxies[p] = {} /\ socket[p] \cap live[p] = {}

\* At rest each project has what its record asks for, and no other has anything, if
\* callers wait for each other.
HoldsItsNeeds == Provided /\ NothingElseHeld
=============================================================================
