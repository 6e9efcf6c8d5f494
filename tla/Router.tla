------------------------------- MODULE Router -------------------------------
(***************************************************************************)
(* The router in the container that deno projects share (ROUTER_DENO,      *)
(* proxy/runtimes.py:157-314): it runs each project in a child process     *)
(* that listens on a socket of its own, starts a child again when it has   *)
(* ended, and when told to stop lets the requests it has finish.           *)
(*                                                                         *)
(* The router is an event loop; a step is what it does up to the next      *)
(* await.  A child's end and the router's handling of it are two steps.    *)
(* Time is left out: the delay before a child is started again, which      *)
(* doubles from one second to a minute, is some time, as is the            *)
(* STARTUP_MS that a child is given to listen.                             *)
(***************************************************************************)
EXTENDS Naturals

CONSTANTS
  Apps,        \* the projects that prepare() has no objection to
  MaxEnds,     \* bound on children that end, or that hang and are killed
  MaxFailed,   \* bound on calls of run() that raise before the child's end is waited for
  MaxRequests  \* bound on the requests to the router

ConstantsAssumption == {MaxEnds, MaxFailed, MaxRequests} \subseteq Nat

VARIABLES
  phase,     \* of the router process
  pc,        \* pc[a]: where run() is for app a
  first,     \* the apps whose first run() has not returned
  child,     \* child[a]: the process of a's last child
  sock,      \* the apps for which there is a file at http.sock
  client,    \* the apps with app.client set
  waiting,   \* the apps that have a request
  ends, failed, requests

vars == <<phase, pc, first, child, sock, client, waiting, ends, failed, requests>>
counts == <<ends, failed, requests>>

Alive == {"starting", "listening"}
Running == {"starting", "serving", "draining"}

-----------------------------------------------------------------------------
(* run() *)

\* Mutant of Spawns: the file is left.
SpawnsOver(a) ==
  /\ phase \in Running
  /\ pc[a] = "run"
  /\ child' = [child EXCEPT ![a] = "starting"]
  /\ pc' = [pc EXCEPT ![a] = "feeding"]
  /\ UNCHANGED <<phase, first, sock, client, waiting, counts>>

\* The socket's file is removed and the child spawned.
Spawns(a) ==
  /\ phase \in Running
  /\ pc[a] = "run"
  /\ sock' = sock \ {a}
  /\ child' = [child EXCEPT ![a] = "starting"]
  /\ pc' = [pc EXCEPT ![a] = "feeding"]
  /\ UNCHANGED <<phase, first, client, waiting, counts>>

\* The environment is written to the child, and from here on its end is waited for.
Fed(a) ==
  /\ phase \in Running
  /\ pc[a] = "feeding"
  /\ pc' = [pc EXCEPT ![a] = "polling"]
  /\ UNCHANGED <<phase, first, child, sock, client, waiting, counts>>

\* The child cannot be spawned or fed.  The first time the error is logged; later,
\* nobody awaits run() and the router ends, its children with it.
RunFails(a) ==
  /\ phase \in Running
  /\ failed < MaxFailed
  /\ pc[a] = "run" \/ (pc[a] = "feeding" /\ child[a] = "ended")
  /\ failed' = failed + 1
  /\ IF a \in first THEN /\ pc' = [pc EXCEPT ![a] = "lost"]
                         /\ first' = first \ {a}
                         /\ UNCHANGED phase
                    ELSE /\ phase' = "crashed"
                         /\ UNCHANGED <<pc, first>>
  /\ UNCHANGED <<child, sock, client, waiting, ends, requests>>

\* The file is there, and the child is not known to have ended.
SeesSocket(a) ==
  /\ phase \in Running
  /\ pc[a] = "polling"
  /\ a \in sock
  /\ client' = client \cup {a}
  /\ pc' = [pc EXCEPT ![a] = "serving"]
  /\ first' = first \ {a}
  /\ UNCHANGED <<phase, child, sock, waiting, counts>>

\* Mutant of Expires: the child is left alone.
ExpiresOnly(a) ==
  /\ phase \in Running
  /\ pc[a] = "polling"
  /\ a \notin sock
  /\ child[a] = "hanging"
  /\ pc' = [pc EXCEPT ![a] = "killed"]
  /\ first' = first \ {a}
  /\ UNCHANGED <<phase, child, sock, client, waiting, counts>>

\* STARTUP_MS have passed: the child is killed.
Expires(a) ==
  /\ phase \in Running
  /\ pc[a] = "polling"
  /\ a \notin sock
  /\ child[a] = "hanging"
  /\ child' = [child EXCEPT ![a] = "ended"]
  /\ pc' = [pc EXCEPT ![a] = "killed"]
  /\ first' = first \ {a}
  /\ UNCHANGED <<phase, sock, client, waiting, counts>>

\* child.status resolves: the client goes, and unless the router is stopping, a timer
\* is set to start a child again.
HandlesEnd(a) ==
  /\ phase \in Running
  /\ pc[a] \in {"polling", "serving", "killed"}
  /\ child[a] = "ended"
  /\ child' = [child EXCEPT ![a] = "none"]
  /\ client' = client \ {a}
  /\ first' = first \ {a}
  /\ pc' = [pc EXCEPT ![a] = IF phase = "draining" THEN "over" ELSE "respawn"]
  /\ UNCHANGED <<phase, sock, waiting, counts>>

\* The timer does not look at whether the router is stopping by then.
TimerFires(a) ==
  /\ phase \in Running
  /\ pc[a] = "respawn"
  /\ pc' = [pc EXCEPT ![a] = "run"]
  /\ UNCHANGED <<phase, first, child, sock, client, waiting, counts>>

-----------------------------------------------------------------------------
(* Children *)

\* The project's module is loaded, and the child serves.
Listens(a) ==
  /\ phase \in Running
  /\ pc[a] = "polling" /\ child[a] = "starting"
  /\ child' = [child EXCEPT ![a] = "listening"]
  /\ sock' = sock \cup {a}
  /\ UNCHANGED <<phase, pc, first, client, waiting, counts>>

\* Or does not get there.
Hangs(a) ==
  /\ phase \in Running
  /\ pc[a] = "polling" /\ child[a] = "starting"
  /\ ends < MaxEnds
  /\ ends' = ends + 1
  /\ child' = [child EXCEPT ![a] = "hanging"]
  /\ UNCHANGED <<phase, pc, first, sock, client, waiting, failed, requests>>

\* The child ends by itself, and its request gets an error.
ChildEnds(a) ==
  /\ phase \in Running
  /\ child[a] \in Alive
  /\ ends < MaxEnds
  /\ ends' = ends + 1
  /\ child' = [child EXCEPT ![a] = "ended"]
  /\ waiting' = waiting \ {a}
  /\ UNCHANGED <<phase, pc, first, sock, client, failed, requests>>

-----------------------------------------------------------------------------
(* The server *)

\* Every first run() has returned.
Ready ==
  /\ phase = "starting"
  /\ first = {}
  /\ phase' = "serving"
  /\ UNCHANGED <<pc, first, child, sock, client, waiting, counts>>

\* A request for an app with a client goes to its child, and fails if that has ended;
\* others are answered 503.
Request(a) ==
  /\ phase = "serving"
  /\ a \in client /\ child[a] = "listening" /\ a \notin waiting
  /\ requests < MaxRequests
  /\ requests' = requests + 1
  /\ waiting' = waiting \cup {a}
  /\ UNCHANGED <<phase, pc, first, child, sock, client, ends, failed>>

Answers(a) ==
  /\ phase \in Running
  /\ a \in waiting /\ child[a] = "listening"
  /\ waiting' = waiting \ {a}
  /\ UNCHANGED <<phase, pc, first, child, sock, client, counts>>

\* SIGTERM.  There is no listener for it before the server.
Told ==
  /\ phase \in {"starting", "serving"}
  /\ phase' = IF phase = "serving" THEN "draining" ELSE "ended"
  /\ UNCHANGED <<pc, first, child, sock, client, waiting, counts>>

\* server.shutdown() has waited for the requests that there are.
Exits ==
  /\ phase = "draining"
  /\ waiting = {}
  /\ phase' = "ended"
  /\ UNCHANGED <<pc, first, child, sock, client, waiting, counts>>

\* Docker does not wait longer than it was told to: 300 seconds.
Killed ==
  /\ phase = "draining"
  /\ phase' = "killed"
  /\ UNCHANGED <<pc, first, child, sock, client, waiting, counts>>

-----------------------------------------------------------------------------
Init ==
  /\ phase = "starting"
  /\ pc = [a \in Apps |-> "run"]
  /\ first = Apps
  /\ child = [a \in Apps |-> "none"]
  /\ sock = {} /\ client = {}
  /\ waiting = {}
  /\ ends = 0 /\ failed = 0 /\ requests = 0

RunSteps(a) ==
  \/ Spawns(a) \/ Fed(a) \/ SeesSocket(a) \/ Expires(a) \/ HandlesEnd(a) \/ TimerFires(a)
  \/ Listens(a)

Next ==
  \/ \E a \in Apps :
       RunSteps(a) \/ RunFails(a) \/ Hangs(a) \/ ChildEnds(a) \/ Request(a) \/ Answers(a)
  \/ Ready \/ Told \/ Exits \/ Killed

Spec == Init /\ [][Next]_vars

\* The event loop runs, children load or end, and handlers answer.
FairSpec ==
  /\ Spec
  /\ WF_vars(Ready) /\ WF_vars(Exits)
  /\ \A a \in Apps : WF_vars(RunSteps(a)) /\ WF_vars(Answers(a))

-----------------------------------------------------------------------------
(* Properties *)

TypeOK ==
  /\ phase \in Running \cup {"ended", "killed", "crashed"}
  /\ pc \in [Apps -> {"run", "feeding", "polling", "serving", "killed", "respawn", "over", "lost"}]
  /\ child \in [Apps -> {"none", "starting", "hanging", "listening", "ended"}]
  /\ {first, sock, client, waiting} \subseteq SUBSET Apps
  /\ {ends, failed, requests} \subseteq Nat

\* No request is sent to a child that does not listen yet, or hangs: whoever has a client
\* has a child that has listened, though the file of the child before is left where it
\* was when that one ended (runtimes.py:234, 253, 263, 290-299).
ClientsListen == \A a \in client : child[a] \in {"listening", "ended"}

\* What holds of an app again and again, its children ending or hanging meanwhile
\* (runtimes.py:232, 250-262): it is served, the router stops, or run() has raised.
IsServed(a) == a \in client \/ phase \in {"draining", "ended", "killed"} \/ failed > 0

\* A router that was told to stop stops, whatever its children do and also with a timer
\* set, if run() does not raise (runtimes.py:308-313).
StopEnds == []<>(phase # "draining" \/ failed > 0)
=============================================================================
