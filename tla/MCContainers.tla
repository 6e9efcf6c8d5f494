---------------------------- MODULE MCContainers ----------------------------
(* The instances for TLC of the modules about containers: Images, with a tag and two  *)
(* digests, which are references too, and of which the tag has either at first, as    *)
(* they are interchangeable; Resources, whose callers wait for each other or overlap; *)
(* SharedRuntimes; DockerProxy, with two containers beside one that is none of the    *)
(* daemon's; and Router.  They share the counters and torn, and a behaviour is of one. *)
EXTENDS Images

CONSTANTS
  Kinds, Pool,                                          \* of Resources, and of callers
  Callers, SerialRequests,                              \* that wait for each other,
  Overlapping, OverlapRequests, OverlapFaults,          \* or that overlap
  Runtimes, Isolates, RuntimeRequests, RuntimeFaults,  \* of SharedRuntimes
  Ids, Others, Clients, SocketRequests,                 \* of DockerProxy
  MaxEnds, MaxFailed, RouterRequests,                   \* of Router
  s1, s2, c1, c2, other

VARIABLES
  component,
  \* of Resources
  records, nets, joined, own, routed, proxies, socket, live, works, waits, changed, partial,
  running,
  \* of SharedRuntimes
  listing, loaded, ips, isolated, todo, recovering, started, broken,
  \* of DockerProxy
  made, state, tracked, entries, answered, listens, asked,
  \* of Router
  phase, step, first, child, sock, client, waiting, ends, failed

Rs == INSTANCE Resources WITH
        Slots <- Callers, OneAtATime <- TRUE, MaxRequests <- SerialRequests,
        store <- records, ctr <- own, route <- routed, jobs <- works, queue <- waits,
        spoiled <- partial, up <- running

Ov == INSTANCE Resources WITH
        Slots <- Overlapping, OneAtATime <- FALSE,
        MaxRequests <- OverlapRequests, MaxFaults <- OverlapFaults,
        store <- records, ctr <- own, route <- routed, jobs <- works, queue <- waits,
        spoiled <- partial, up <- running

Sh == INSTANCE SharedRuntimes WITH
        MaxRequests <- RuntimeRequests, MaxFaults <- RuntimeFaults,
        store <- listing, own <- isolated, work <- todo, queue <- recovering,
        up <- started, spoiled <- broken

Dp == INSTANCE DockerProxy WITH
        Slots <- Clients, MaxRequests <- SocketRequests,
        told <- answered, up <- listens, jobs <- asked

Ro == INSTANCE Router WITH
        Apps <- Projects, MaxRequests <- RouterRequests, pc <- step

ASSUME ResourcesAssumption == Rs!ConstantsAssumption /\ Ov!ConstantsAssumption
ASSUME RuntimesAssumption == Sh!ConstantsAssumption
ASSUME SocketAssumption == Dp!ConstantsAssumption
ASSUME RouterAssumption == Ro!ConstantsAssumption

images == <<registry, moved, docker, store, ledger, route, up, jobs, queue, history>>
resources == <<records, nets, joined, own, routed, proxies, socket, live, works, waits, changed,
               partial, running>>
runtimes == <<listing, loaded, ips, isolated, todo, recovering, started, broken>>
proxy == <<made, state, tracked, entries, answered, listens, asked>>
router == <<phase, step, first, child, sock, client, waiting, ends, failed>>

MCInit ==
  /\ component \in {"images", "resources", "overlaps", "runtimes", "proxy", "router"}
  /\ Init /\ Rs!Init /\ Sh!Init /\ Dp!Init /\ Ro!Init
  /\ registry = [f \in Tags |-> CHOOSE d \in Digests : TRUE]

MCNext ==
  /\ \/ component = "images" /\ Next /\ UNCHANGED <<resources, runtimes, proxy, router>>
     \/ component = "resources" /\ Rs!Next /\ UNCHANGED <<images, runtimes, proxy, router>>
     \/ component = "overlaps" /\ Ov!Next /\ UNCHANGED <<images, runtimes, proxy, router>>
     \/ component = "runtimes" /\ Sh!Next /\ UNCHANGED <<images, resources, proxy, router>>
     \/ component = "proxy" /\ Dp!Next
        /\ UNCHANGED <<images, resources, runtimes, router, torn>>
     \/ component = "router" /\ Ro!Next
        /\ UNCHANGED <<images, resources, runtimes, proxy, torn, faults>>
  /\ UNCHANGED component

\* The router's event loop, which runs from its first state on.
RouterFairness ==
  /\ WF_<<router, requests>>(component = "router" /\ Ro!Ready)
  /\ WF_<<router, requests>>(component = "router" /\ Ro!Exits)
  /\ \A a \in Projects :
       /\ WF_<<router, requests>>(component = "router" /\ Ro!RunSteps(a))
       /\ WF_<<router, requests>>(component = "router" /\ Ro!Answers(a))

MCSpec ==
  /\ MCInit
  /\ [][MCNext]_<<images, resources, runtimes, proxy, router, torn, counts, component>>
  /\ Fairness /\ Rs!Fairness /\ Sh!Fairness /\ RouterFairness

-----------------------------------------------------------------------------
\* The types of all of their variables.
TypesOK ==
  /\ TypeOK /\ Ro!TypeOK
  /\ component = "resources" => Rs!TypeOK
  /\ component = "overlaps" => Ov!TypeOK
  /\ component = "runtimes" => Sh!TypeOK
  /\ component = "proxy" => Dp!TypeOK

\* At rest each project has the network, the sockets and the container that its record
\* asks for, and no other has any, if callers wait for each other; and a server that is
\* taken for the project's own listens even if they do not (runtimes.py:607-616, 868-876;
\* main.py:147-150; deploy.py:451-455; dstack_proxy.py:106-151).
HoldsItsNeeds == (component = "resources" => Rs!HoldsItsNeeds) /\ Ov!ListedListens

\* What an app is told of a container holds (docker_proxy.py:72-79, 169-171, 183-193).
ToldIsTrue == Dp!ToldIsTrue

\* At rest requests for a shared project reach a container that has loaded it, and no
\* address is kept of one that is gone (runtimes.py:497-605, 888-905).
RoutesAreTrue == Sh!RoutesAreTrue

\* No request is sent to a child that does not listen yet (runtimes.py:234, 253, 263).
ClientsListen == Ro!ClientsListen

\* After whatever calls, failures and restarts, unless it ended in the middle of a save,
\* the daemon comes to rest, with a route to
\* every image project and every project provided with what it needs, and every isolated
\* one running, but for those that a failure left half done (runtimes.py:954-982).
ComesBack ==
  /\ Recovers /\ Sh!OwnRuns
  /\ <>[](component = "resources" => torn # {} \/ (Rs!AtRest /\ Rs!Provided))

\* An app whose children end or hang is served again, and a router that was told to stop
\* stops, if run() does not raise (runtimes.py:232, 250-262, 308-313).
ServedOrStopped ==
  /\ \A a \in Projects : []<>(component # "router" \/ Ro!IsServed(a))
  /\ Ro!StopEnds
=============================================================================
