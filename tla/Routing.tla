------------------------------- MODULE Routing -------------------------------
(***************************************************************************)
(* Which project answers a request: the listen port of each project,       *)
(* checked by deploy() and by the boot (proxy/deploy.py, proxy/main.py),   *)
(* the sockets the boot binds, and the dispatch by port, host and path,    *)
(* which for the shared runtimes goes on in their routers                  *)
(* (proxy/ingress.py:192-330, 381-428; proxy/runtimes.py:293-300).         *)
(*                                                                         *)
(* deploy() checks the port before the build and stores the record after   *)
(* it; a handler then saves its own copy of the record once more when the  *)
(* container runs.  Sockets and port map are made by the boot and not      *)
(* touched until the next, and no boot gets past a record that a crash     *)
(* left half written.                                                      *)
(*                                                                         *)
(* There is one shared runtime here, which has loaded the projects that    *)
(* are recorded, and what is recorded runs; a Dockerfile, which nothing    *)
(* starts, a protocol that is neither http nor tcp, which gets no socket,  *)
(* and the verification page are left out.                                 *)
(*                                                                         *)
(* A record, and the project a port is mapped to, is a set of at most one  *)
(* element.                                                                *)
(***************************************************************************)
EXTENDS Naturals

CONSTANTS
  Projects,      \* project names; "t" and "about" are names like any other
  Ports,         \* numbers that a listen port may have
  PathPort,      \* 8080, the port reserved for routing by path
  IngressPort,   \* INGRESS_PORT, where the API is served
  Unbindable,    \* numbers that deploy() takes for a port and that are none
  Kinds,         \* how projects run, of those at Listen
  Slots,         \* bound on the handlers in progress at once
  OneAtATime,    \* whether callers wait for each other, and for the boot, to end
  MaxRequests,   \* bound on the API calls
  MaxFaults      \* bound on crashes and on builds and containers that fail

ASSUME ConstantsAssumption ==
  /\ Projects \cap {"", "_api"} = {}
  /\ {PathPort, IngressPort} \subseteq Ports \ Unbindable
  /\ Kinds \subseteq {"own", "isolated", "shared"}
  /\ OneAtATime \in BOOLEAN
  /\ {MaxRequests, MaxFaults} \subseteq Nat

VARIABLES
  store,     \* store[p]: the part of PROJECT_DIR/p/project.json that routes
  torn,      \* projects whose project.json was left half written
  jobs,      \* handlers in progress
  phase,     \* what the daemon's process is at
  portMap,   \* portMap[n]: the project in port_map[n]
  http,      \* ports on which the HTTP server listens, or is about to
  tcp,       \* TCP servers, each a port and the project it was made for
  moved,     \* a record changed since the process began (a history variable)
  requests, faults

sockets == <<portMap, http, tcp>>
vars == <<store, torn, jobs, phase, sockets, moved, requests, faults>>

\* "own": static files or an image.  "isolated": code with a container of its own.
\* "shared": code in the shared runtime, whose router loads that of the isolated as well.
Listen == [port: Ports, protocol: {"http", "tcp"}, kind: Kinds]
Job == [id: Slots, p: Projects, listen: Listen, pc: {"building", "starting"}]
Phases == {"down", "starting", "binding", "up"}

\* The ports that are left out of all checks.
Shared == {IngressPort, PathPort}

Wanting(n) == {p \in Projects : \E l \in store[p] : l.port = n}

-----------------------------------------------------------------------------
(* The API *)

Open == phase \in {"binding", "up"}

Ready == Open /\ (OneAtATime => jobs = {} /\ phase = "up")

Accepts ==
  /\ Ready /\ requests < MaxRequests
  /\ requests' = requests + 1

Stores(p, S) ==
  /\ store' = [store EXCEPT ![p] = S]
  /\ moved' = (moved \/ store[p] # S)

\* deploy() and _deploy_image(): no other project has the port.
Free(p, n) == n = PathPort \/ Wanting(n) \subseteq {p}

\* The port is free, and the build begins.
Deploy(s, p, l) ==
  /\ Accepts
  /\ \A j \in jobs : j.id # s
  /\ Free(p, l.port)
  /\ jobs' = jobs \cup {[id |-> s, p |-> p, listen |-> l, pc |-> "building"]}
  /\ UNCHANGED <<store, torn, phase, sockets, moved, faults>>

\* The build ends; the record is stored and the container started.
Built(j) ==
  /\ j.pc = "building"
  /\ Stores(j.p, {j.listen})
  /\ jobs' = (jobs \ {j}) \cup {[j EXCEPT !.pc = "starting"]}
  /\ UNCHANGED <<torn, phase, sockets, requests, faults>>

\* An image is checked and stored with no await in between.
DeployImage(s, p, l) ==
  /\ Accepts
  /\ \A j \in jobs : j.id # s
  /\ Free(p, l.port)
  /\ Stores(p, {l})
  /\ jobs' = jobs \cup {[id |-> s, p |-> p, listen |-> l, pc |-> "starting"]}
  /\ UNCHANGED <<torn, phase, sockets, faults>>

\* promote() and unpromote() store the mode of the record they have loaded.
ChangeMode(s, p) ==
  \E l \in store[p] :
    /\ Accepts
    /\ \A j \in jobs : j.id # s
    /\ jobs' = jobs \cup {[id |-> s, p |-> p, listen |-> l, pc |-> "starting"]}
    /\ UNCHANGED <<store, torn, phase, sockets, moved, faults>>

\* The image digest, or the quote, is there: the handler's copy is stored again.
Resaved(j) ==
  /\ j.pc = "starting"
  /\ Stores(j.p, {j.listen})
  /\ jobs' = jobs \ {j}
  /\ UNCHANGED <<torn, phase, sockets, requests, faults>>

Fails(j) ==
  /\ faults < MaxFaults
  /\ faults' = faults + 1
  /\ jobs' = jobs \ {j}
  /\ UNCHANGED <<store, torn, phase, sockets, moved, requests>>

Teardown(p) ==
  /\ Accepts
  /\ store[p] # {}
  /\ Stores(p, {})
  /\ UNCHANGED <<torn, jobs, phase, sockets, faults>>

-----------------------------------------------------------------------------
(* The boot *)

Closes ==
  /\ portMap' = [n \in Ports |-> {}]
  /\ http' = {}
  /\ tcp' = {}

\* The process begins; nothing is served before it has read the records.
Start ==
  /\ phase = "down"
  /\ phase' = "starting"
  /\ moved' = FALSE
  /\ UNCHANGED <<store, torn, jobs, sockets, requests, faults>>

HasProtocol(p, c) == \E l \in store[p] : l.protocol = c

\* The first in the order of names.
FirstOf(S) == IF S = {} THEN {} ELSE {CHOOSE p \in S : TRUE}

Conflict == \E n \in Ports \ Shared : \E p, q \in Wanting(n) : p # q

\* store.list() raises at a record that cannot be loaded, and the process ends.
RecordUnread ==
  /\ phase = "starting" /\ torn # {}
  /\ phase' = "down"
  /\ UNCHANGED <<store, torn, jobs, sockets, moved, requests, faults>>

\* RuntimeError: the process ends.
PortsRefused ==
  /\ phase = "starting" /\ torn = {} /\ Conflict
  /\ phase' = "down"
  /\ UNCHANGED <<store, torn, jobs, sockets, moved, requests, faults>>

\* Mutant of ReadPorts: no port is left out of the map.
ReadAllPorts ==
  /\ phase = "starting" /\ torn = {} /\ ~Conflict
  /\ phase' = "binding"
  /\ portMap' = [n \in Ports |-> FirstOf(Wanting(n))]
  /\ http' = {IngressPort} \cup
       {n \in Ports \ Shared : \E p \in Wanting(n) : HasProtocol(p, "http")}
  /\ UNCHANGED <<store, torn, jobs, tcp, moved, requests, faults>>

\* update_port_map(), and the HTTP ports are bound.
ReadPorts ==
  /\ phase = "starting" /\ torn = {} /\ ~Conflict
  /\ phase' = "binding"
  /\ portMap' = [n \in Ports |-> IF n = PathPort THEN {} ELSE FirstOf(Wanting(n))]
  /\ http' = {IngressPort} \cup
       {n \in Ports \ Shared : \E p \in Wanting(n) : HasProtocol(p, "http")}
  /\ UNCHANGED <<store, torn, jobs, tcp, moved, requests, faults>>

\* Mutant of TcpWanted: the protocol is not looked at.
AllWanted == {x \in Ports \X Projects : x[2] \in Wanting(x[1])}

TcpWanted ==
  {x \in Ports \X Projects : x[2] \in Wanting(x[1]) /\ HasProtocol(x[2], "tcp")}
Bindable(S) ==
  /\ http \cap Unbindable = {}
  /\ \A x, y \in S : x[1] \notin http \cup Unbindable /\ (x[1] = y[1] => x = y)

\* get_tcp_projects() reads the records again, and each gets its server.
BindTcp ==
  /\ phase = "binding" /\ Bindable(TcpWanted)
  /\ phase' = "up"
  /\ tcp' = TcpWanted
  /\ UNCHANGED <<store, torn, jobs, portMap, http, moved, requests, faults>>

\* A port is in use, or is none: the process ends with its handlers.
BindFails ==
  /\ phase = "binding" /\ ~Bindable(TcpWanted)
  /\ phase' = "down"
  /\ Closes
  /\ jobs' = {}
  /\ UNCHANGED <<store, torn, moved, requests, faults>>

Dies ==
  /\ phase # "down"
  /\ faults < MaxFaults
  /\ faults' = faults + 1
  /\ phase' = "down"
  /\ Closes
  /\ jobs' = {}
  /\ UNCHANGED <<moved, requests>>

Crash == Dies /\ UNCHANGED <<store, torn>>

\* The process ends in the middle of a handler's save(), which empties the file before
\* it fills it.
TornSave(p) ==
  /\ Ready \/ \E j \in jobs : j.p = p
  /\ Dies
  /\ store' = [store EXCEPT ![p] = {}]
  /\ torn' = torn \cup {p}

-----------------------------------------------------------------------------
(* Dispatch *)

\* A request arrives at a port, for a project's host name or none, with the first
\* segment of its path and what follows it: nothing, a slash, or more.
Rest == {"none", "slash", "more"}
Request == [port: Ports, host: SUBSET Projects, seg: Projects \cup {"", "_api", "t", "about"},
            rest: Rest]

\* A host name puts its project in front of the path.
Segment(r) == IF r.host = {} THEN r.seg ELSE CHOOSE p \in r.host : TRUE
Tail(r) == IF r.host = {} THEN r.rest
           ELSE IF r.seg = "" THEN "slash" ELSE "more"

HasKind(p, K) == \E l \in store[p] : l.kind \in K

\* The router of the shared runtime has the project of that name, or answers 404.
FromRouter(name) ==
  IF name \in Projects /\ HasKind(name, {"isolated", "shared"}) THEN name ELSE "404"

\* _handle_port_based(): the shared runtime gets the path as it is, without the name.
OnPort(p, r) ==
  IF store[p] = {} THEN "404" ELSE IF HasKind(p, {"shared"}) THEN FromRouter(Segment(r)) ELSE p

\* What a TCP server made for p leads to: the shared runtime, also past p's own
\* container, or nothing.
Backend(p) == IF HasKind(p, {"isolated", "shared"}) THEN "router" ELSE "closed"

\* handle(): what answers, a project or a part of the daemon.
Answers(r) ==
  CASE Segment(r) = "_api" -> "api"
    [] Segment(r) = "t" /\ Tail(r) # "none" -> "tunnel"
    [] OTHER ->
       IF portMap[r.port] # {}
         THEN OnPort(CHOOSE p \in portMap[r.port] : TRUE, r)
       ELSE IF Segment(r) = "about" /\ Tail(r) # "more" THEN "page"
       ELSE IF Segment(r) = "" THEN "listing"
       ELSE IF Segment(r) \in Projects /\ store[Segment(r)] # {} THEN Segment(r)
       ELSE "404"

-----------------------------------------------------------------------------
Init ==
  /\ store = [p \in Projects |-> {}]
  /\ torn = {}
  /\ jobs = {}
  /\ phase = "down"
  /\ portMap = [n \in Ports |-> {}]
  /\ http = {}
  /\ tcp = {}
  /\ moved = FALSE
  /\ requests = 0
  /\ faults = 0

Calls(s, p) ==
  \/ \E l \in Listen : Deploy(s, p, l) \/ DeployImage(s, p, l)
  \/ ChangeMode(s, p)

Step(j) == Built(j) \/ Resaved(j)
Boot == Start \/ RecordUnread \/ PortsRefused \/ ReadPorts \/ BindTcp \/ BindFails

Next ==
  \/ \E s \in Slots, p \in Projects : Calls(s, p)
  \/ \E p \in Projects : Teardown(p) \/ TornSave(p)
  \/ \E j \in jobs : Step(j) \/ Fails(j)
  \/ Boot
  \/ Crash

Spec == Init /\ [][Next]_vars

\* The container of the daemon is restarted, and builds and starts end.
FairSpec == Spec /\ WF_vars(Boot) /\ \A s \in Slots : WF_vars(\E j \in jobs : j.id = s /\ Step(j))

-----------------------------------------------------------------------------
(* Properties *)

TypeOK ==
  /\ store \in [Projects -> SUBSET Listen]
  /\ torn \subseteq Projects
  /\ jobs \subseteq Job
  /\ phase \in Phases
  /\ portMap \in [Ports -> SUBSET Projects]
  /\ http \subseteq Ports
  /\ tcp \subseteq Ports \X Projects
  /\ moved \in BOOLEAN
  /\ requests \in Nat /\ faults \in Nat

\* "Prevent two projects from binding the same port" (rfcs/0002-multi-routing.md:135;
\* deploy.py:275-286, 387-392).  Two records with one port end every later boot.
PortsNotShared ==
  \A p, q \in Projects : \A l \in store[p], m \in store[q] :
    l.port = m.port /\ l.port # PathPort => p = q

\* Projects "all coexist on /<name>/" (main.py:209-212): whatever other projects
\* listen on, a path at the ingress reaches the project it names, unless a tunnel or
\* the page about the daemon has it.
ReservedPath(r) ==
  \/ Segment(r) = "t" /\ Tail(r) # "none"
  \/ Segment(r) = "about" /\ Tail(r) # "more"

PathReachesOwn ==
  Open => \A r \in Request :
    /\ r.port = IngressPort
    /\ Segment(r) \in Projects /\ ~ReservedPath(r)
    /\ store[Segment(r)] # {}
    => Answers(r) = Segment(r)

\* As long as no record has changed since the process began, a project with an address
\* of its own answers on the port of its record, at whatever path but the daemon's own,
\* and no other does.  On the port of one in the shared runtime the path says once more
\* who answers: that project if it names it, else another of that runtime or none.  A
\* TCP port is one project's server, behind which is the shared runtime or nothing
\* (ingress.py:206-210, 292-330, 381-428; main.py:229-260).
PortReachesOwn ==
  phase = "up" /\ ~moved => \A p \in Projects : \A l \in store[p] :
    l.port \notin Shared =>
      IF l.protocol = "tcp"
        THEN /\ {x \in tcp : x[1] = l.port} = {<<l.port, p>>}
             /\ Backend(p) = "closed" <=> l.kind = "own"
        ELSE /\ l.port \in http
             /\ \A r \in Request : r.port = l.port /\ Answers(r) \notin {"api", "tunnel"} =>
                  \/ Answers(r) = p /\ (l.kind = "shared" => Segment(r) = p)
                  \/ /\ l.kind = "shared" /\ Segment(r) # p
                     /\ \/ Answers(r) = "404"
                        \/ Answers(r) = Segment(r) /\ ~HasKind(Segment(r), {"own"})

\* Requests reach the project that they are for, by path and by port.
ReachesOwn == PathReachesOwn /\ PortReachesOwn

\* A boot stops for a record that a crash left half written, for a listen port that
\* cannot be bound, for a port that two records have, for a project that wants raw TCP
\* on a port that the checks leave out, or for a record that changes while it binds
\* (projects.py:100-101; deploy.py:271, 383; main.py:213-227, 235-260); of what the
\* ports and records do, nothing else stops it.
Unlistenable == \E n \in Unbindable : Wanting(n) # {}
TcpOnShared == \E n \in Shared : \E p \in Wanting(n) : HasProtocol(p, "tcp")
StaysDown == torn # {} \/ Unlistenable \/ TcpOnShared \/ ~PortsNotShared
BootStops == phase \in {"starting", "binding"} /\ phase' = "down" /\ faults' = faults
BootStopsOnlyFor == [][BootStops => StaysDown \/ moved]_vars

\* What holds in the end, whatever was deployed, torn down or cut short: the daemon is
\* up, unless one of these keeps it down.
IsUpIfItCan == phase = "up" \/ StaysDown
=============================================================================
