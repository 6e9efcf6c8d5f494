--------------------------- MODULE Routing_proofs ---------------------------
(***************************************************************************)
(* What is proved of Routing, and of Restore, whose instances MCBoot has,  *)
(* for every set of projects, ports, commits and envs and every bound.     *)
(*                                                                         *)
(* Of Routing: paths reach the project they name if the ingress is the     *)
(* port for paths, the sockets of a boot lead to the projects whose ports  *)
(* they are, a boot stops for the reasons given and no other, and, if      *)
(* callers wait for each other, no two projects get one port.  The first   *)
(* three rest on what the boot has read: until a record changes, map and   *)
(* servers are those of the records, of which no two conflict.             *)
(*                                                                         *)
(* Of Restore: until somebody calls, what runs is at its commit in the     *)
(* export (R), and if callers wait for each other a project changes by     *)
(* what is asked for only (A).                                             *)
(***************************************************************************)
EXTENDS MCBoot, TLAPS

\* A project has one record.
Single == \A p \in Projects : \A l, m \in store[p] : l = m

\* The port for paths is mapped to nobody.
PathsUnmapped == portMap[PathPort] = {}

\* The map and the HTTP ports that the boot makes of the records.
MapOfStore == [n \in Ports |-> IF n = PathPort THEN {} ELSE FirstOf(Wanting(n))]
HttpOfStore ==
  {IngressPort} \cup
    {n \in Ports \ Shared : \E p \in Wanting(n) : HasProtocol(p, "http")}

MapCurrent ==
  Open /\ ~moved => ~Conflict /\ portMap = MapOfStore /\ http = HttpOfStore
TcpCurrent == phase = "up" /\ ~moved => tcp = TcpWanted

IInv == TypeOK /\ Single /\ PathsUnmapped /\ MapCurrent /\ TcpCurrent

-----------------------------------------------------------------------------
LEMMA InitIInv == Init => IInv
<1> SUFFICES ASSUME Init PROVE IInv
  OBVIOUS
<1>1. TypeOK
  BY DEF Init, TypeOK, Phases
<1>2. PathsUnmapped
  BY ConstantsAssumption DEF Init, PathsUnmapped
<1>3. Single /\ MapCurrent /\ TcpCurrent
  BY DEF Init, Single, MapCurrent, TcpCurrent, Open
<1>4. QED
  BY <1>1, <1>2, <1>3 DEF IInv

\* What is stored for one project, and says if it is new.
LEMMA Stored ==
  ASSUME IInv, NEW p \in Projects, NEW S \in SUBSET Listen, Stores(p, S),
         \A l, m \in S : l = m
  PROVE  /\ store' \in [Projects -> SUBSET Listen] /\ moved' \in BOOLEAN
         /\ Single'
         /\ ~moved' => store' = store /\ ~moved
<1>1. store \in [Projects -> SUBSET Listen] /\ moved \in BOOLEAN
  BY DEF IInv, TypeOK
<1>2. store' = [store EXCEPT ![p] = S] /\ moved' = (moved \/ store[p] # S)
  BY DEF Stores
<1>3. store' \in [Projects -> SUBSET Listen] /\ moved' \in BOOLEAN
  BY <1>1, <1>2
<1>4. Single'
  BY <1>1, <1>2 DEF IInv, Single
<1>5. ~moved' => store' = store /\ ~moved
  BY <1>1, <1>2
<1>6. QED
  BY <1>3, <1>4, <1>5

\* A handler's step: the sockets stay, and a change of a record is told.
LEMMA HandlerKeeps ==
  ASSUME IInv, UNCHANGED <<phase, sockets, torn>>,
         store' \in [Projects -> SUBSET Listen], moved' \in BOOLEAN, Single',
         ~moved' => store' = store /\ ~moved,
         jobs' \subseteq Job, requests' \in Nat, faults' \in Nat
  PROVE  IInv'
<1>1. TypeOK' /\ PathsUnmapped'
  BY DEF IInv, TypeOK, PathsUnmapped, sockets
<1>2. MapCurrent' /\ TcpCurrent'
  <2>1. CASE moved'
    BY <2>1 DEF MapCurrent, TcpCurrent
  <2>2. CASE ~moved'
    <3>1. UNCHANGED <<store, phase, portMap, http, tcp>> /\ ~moved
      BY <2>2 DEF sockets
    <3>2. QED
      BY <3>1 DEF IInv, MapCurrent, TcpCurrent, Open, Conflict, Wanting, MapOfStore,
                  HttpOfStore, HasProtocol, FirstOf, TcpWanted
  <2>3. QED
    BY <2>1, <2>2
<1>3. QED
  BY <1>1, <1>2 DEF IInv

LEMMA CallsIInv ==
  ASSUME IInv, NEW s \in Slots, NEW p \in Projects, Calls(s, p)
  PROVE  IInv'
<1>1. /\ requests' \in Nat /\ faults' \in Nat
      /\ UNCHANGED <<phase, sockets, torn>>
  <2>1. requests' = requests + 1 /\ UNCHANGED <<phase, sockets, torn, faults>>
    BY DEF Calls, Deploy, DeployImage, ChangeMode, Accepts
  <2>2. QED
    BY <2>1 DEF IInv, TypeOK
<1>2. jobs' \subseteq Job
  <2>1. ASSUME NEW l \in Listen, NEW c \in {"building", "starting"}
        PROVE  [id |-> s, p |-> p, listen |-> l, pc |-> c] \in Job
    BY DEF Job
  <2>2. jobs \subseteq Job /\ store[p] \subseteq Listen
    BY DEF IInv, TypeOK
  <2>3. \E l \in Listen, c \in {"building", "starting"} :
          jobs' = jobs \cup {[id |-> s, p |-> p, listen |-> l, pc |-> c]}
    <3>1. CASE \E l \in Listen : Deploy(s, p, l)
      BY <3>1 DEF Deploy
    <3>2. CASE \E l \in Listen : DeployImage(s, p, l)
      BY <3>2 DEF DeployImage
    <3>3. CASE ChangeMode(s, p)
      BY <2>2, <3>3 DEF ChangeMode
    <3>4. QED
      BY <3>1, <3>2, <3>3 DEF Calls
  <2>4. QED
    BY <2>1, <2>2, <2>3
<1>3. /\ store' \in [Projects -> SUBSET Listen] /\ moved' \in BOOLEAN
      /\ Single'
      /\ ~moved' => store' = store /\ ~moved
  <2>1. CASE \E l \in Listen : DeployImage(s, p, l)
    <3>1. PICK l \in Listen : Stores(p, {l})
      BY <2>1 DEF DeployImage
    <3>2. QED
      BY <3>1, Stored
  <2>2. CASE UNCHANGED <<store, moved>>
    BY <2>2 DEF IInv, TypeOK, Single
  <2>3. QED
    BY <2>1, <2>2 DEF Calls, Deploy, ChangeMode
<1>4. QED
  BY <1>1, <1>2, <1>3, HandlerKeeps

LEMMA JobIInv ==
  ASSUME IInv, NEW j \in jobs, Step(j) \/ Fails(j)
  PROVE  IInv'
<1>1. j \in Job /\ j.p \in Projects /\ j.listen \in Listen /\ jobs \subseteq Job
  BY DEF IInv, TypeOK, Job
<1>2. /\ requests' \in Nat /\ faults' \in Nat
      /\ UNCHANGED <<phase, sockets, torn>>
  BY DEF Step, Built, Resaved, Fails, IInv, TypeOK
<1>3. jobs' \subseteq Job
  <2>1. [j EXCEPT !.pc = "starting"] \in Job
    BY <1>1 DEF Job
  <2>2. QED
    BY <1>1, <2>1 DEF Step, Built, Resaved, Fails
<1>4. /\ store' \in [Projects -> SUBSET Listen] /\ moved' \in BOOLEAN
      /\ Single'
      /\ ~moved' => store' = store /\ ~moved
  <2>1. CASE Step(j)
    <3>1. Stores(j.p, {j.listen})
      BY <2>1 DEF Step, Built, Resaved
    <3>2. QED
      BY <1>1, <3>1, Stored
  <2>2. CASE Fails(j)
    BY <2>2 DEF Fails, IInv, TypeOK, Single
  <2>3. QED
    BY <2>1, <2>2
<1>5. QED
  BY <1>2, <1>3, <1>4, HandlerKeeps

LEMMA TeardownIInv ==
  ASSUME IInv, NEW p \in Projects, Teardown(p)
  PROVE  IInv'
<1>1. /\ requests' \in Nat /\ faults' \in Nat /\ jobs' \subseteq Job
      /\ UNCHANGED <<phase, sockets, torn>>
  BY DEF Teardown, Accepts, IInv, TypeOK
<1>2. Stores(p, {})
  BY DEF Teardown
<1>3. QED
  BY <1>1, <1>2, Stored, HandlerKeeps

LEMMA BootIInv ==
  ASSUME IInv, Boot \/ Crash \/ \E p \in Projects : TornSave(p)
  PROVE  IInv'
<1>1. Single'
  <2>1. CASE Boot \/ Crash
    BY <2>1 DEF Boot, Start, RecordUnread, PortsRefused, ReadPorts, BindTcp, BindFails, Crash,
                IInv, Single
  <2>2. CASE \E p \in Projects : TornSave(p)
    BY <2>2 DEF TornSave, IInv, TypeOK, Single
  <2>3. QED
    BY <2>1, <2>2
<1>2. CASE Start \/ RecordUnread \/ PortsRefused
  BY <1>1, <1>2 DEF Start, RecordUnread, PortsRefused, sockets, IInv, TypeOK, Phases, PathsUnmapped,
                    MapCurrent, TcpCurrent, Open
<1>3. CASE ReadPorts
  <2>1. /\ phase' = "binding" /\ ~Conflict
        /\ portMap' = MapOfStore /\ http' = HttpOfStore
        /\ UNCHANGED <<store, torn, jobs, tcp, moved, requests, faults>>
    BY <1>3 DEF ReadPorts, MapOfStore, HttpOfStore
  <2>2. MapOfStore \in [Ports -> SUBSET Projects] /\ HttpOfStore \subseteq Ports
    BY ConstantsAssumption DEF MapOfStore, HttpOfStore, FirstOf, Wanting
  <2>3. TypeOK'
    BY <2>1, <2>2 DEF IInv, TypeOK, Phases
  <2>4. PathsUnmapped'
    BY <2>1, ConstantsAssumption DEF PathsUnmapped, MapOfStore
  <2>5. MapCurrent' /\ TcpCurrent'
    BY <2>1 DEF MapCurrent, TcpCurrent, MapOfStore, HttpOfStore, HasProtocol, Conflict, Wanting,
                FirstOf
  <2>6. QED
    BY <1>1, <2>3, <2>4, <2>5 DEF IInv
<1>4. CASE BindTcp
  <2>1. /\ phase = "binding" /\ phase' = "up" /\ tcp' = TcpWanted
        /\ UNCHANGED <<store, torn, jobs, portMap, http, moved, requests, faults>>
    BY <1>4 DEF BindTcp
  <2>2. TypeOK' /\ PathsUnmapped' /\ TcpCurrent'
    BY <2>1 DEF IInv, TypeOK, Phases, PathsUnmapped, TcpCurrent, TcpWanted, Wanting, HasProtocol
  <2>3. MapCurrent'
    BY <2>1 DEF IInv, MapCurrent, Open, MapOfStore, HttpOfStore, HasProtocol, Conflict, Wanting,
                FirstOf
  <2>4. QED
    BY <1>1, <2>2, <2>3 DEF IInv
<1>5. CASE BindFails \/ Crash \/ \E p \in Projects : TornSave(p)
  <2>1. /\ phase' = "down" /\ Closes /\ jobs' = {} /\ faults' \in Nat
        /\ store' \in [Projects -> SUBSET Listen] /\ torn' \subseteq Projects
        /\ UNCHANGED <<moved, requests>>
    BY <1>5 DEF BindFails, Crash, TornSave, Dies, IInv, TypeOK
  <2>2. QED
    BY <1>1, <2>1, ConstantsAssumption
    DEF Closes, IInv, TypeOK, Phases, PathsUnmapped, MapCurrent, TcpCurrent, Open
<1>6. QED
  BY <1>2, <1>3, <1>4, <1>5 DEF Boot

LEMMA NextIInv == IInv /\ [Next]_vars => IInv'
<1> SUFFICES ASSUME IInv, [Next]_vars PROVE IInv'
  OBVIOUS
<1>1. CASE UNCHANGED vars
  BY <1>1 DEF vars, sockets, IInv, TypeOK, Single, PathsUnmapped, MapCurrent, TcpCurrent,
              Open, Conflict, Wanting, MapOfStore, HttpOfStore, HasProtocol, FirstOf, TcpWanted
<1>2. CASE Next
  BY <1>2, CallsIInv, TeardownIInv, JobIInv, BootIInv DEF Next
<1>3. QED
  BY <1>1, <1>2

\* The invariant that the rest is drawn from.
THEOREM Safety == Spec => []IInv
BY InitIInv, NextIInv, PTL DEF Spec

\* The records, jobs, ports and servers have their types (projects.py:11-14,
\* main.py:209-260).
THEOREM TypeCorrect == Spec => []TypeOK
<1>1. IInv => TypeOK
  BY DEF IInv
<1>2. QED
  BY <1>1, Safety, PTL

-----------------------------------------------------------------------------
\* With the ingress on the port for paths, which main.py:209-212 leaves open, a path
\* reaches the project it names.
THEOREM PathReachesOwnHolds ==
  ASSUME IngressPort = PathPort
  PROVE  Spec => []PathReachesOwn
<1>1. IInv => PathReachesOwn
  <2> SUFFICES ASSUME IInv, NEW r \in Request,
                      r.port = IngressPort, Segment(r) \in Projects, ~ReservedPath(r),
                      store[Segment(r)] # {}
               PROVE  Answers(r) = Segment(r)
    BY DEF PathReachesOwn
  <2>1. portMap[r.port] = {}
    BY DEF IInv, PathsUnmapped
  <2>2. Segment(r) # "_api" /\ Segment(r) # ""
    BY ConstantsAssumption
  <2>3. QED
    BY <2>1, <2>2 DEF Answers, ReservedPath
<1>2. QED
  BY <1>1, Safety, PTL

\* On a port of its own a project answers by itself or, in the shared runtime, as the
\* path names it, and a TCP port is one project's, until a record changes
\* (ingress.py:206-210, 292-330, 381-428; main.py:229-260).
THEOREM PortReachesOwnHolds == Spec => []PortReachesOwn
<1>1. IInv => PortReachesOwn
  <2> SUFFICES ASSUME IInv, phase = "up", ~moved,
                      NEW p \in Projects, NEW l \in store[p], l.port \notin Shared
               PROVE  IF l.protocol = "tcp"
                        THEN /\ {x \in tcp : x[1] = l.port} = {<<l.port, p>>}
                             /\ Backend(p) = "closed" <=> l.kind = "own"
                        ELSE /\ l.port \in http
                             /\ \A r \in Request :
                                  r.port = l.port /\ Answers(r) \notin {"api", "tunnel"} =>
                                  \/ Answers(r) = p /\ (l.kind = "shared" => Segment(r) = p)
                                  \/ /\ l.kind = "shared" /\ Segment(r) # p
                                     /\ \/ Answers(r) = "404"
                                        \/ /\ Answers(r) = Segment(r)
                                           /\ ~HasKind(Segment(r), {"own"})
    BY DEF PortReachesOwn
  <2>1. /\ l \in Listen /\ l.port \in Ports \ Shared
        /\ l.protocol \in {"http", "tcp"} /\ l.kind \in {"own", "isolated", "shared"}
    <3>1. l \in Listen /\ Kinds \subseteq {"own", "isolated", "shared"}
      BY ConstantsAssumption DEF IInv, TypeOK
    <3>2. QED
      BY <3>1 DEF Listen
  <2>2. /\ ~Conflict /\ portMap = MapOfStore /\ http = HttpOfStore /\ tcp = TcpWanted
    BY DEF IInv, MapCurrent, TcpCurrent, Open
  <2>3. Wanting(l.port) = {p}
    BY <2>1, <2>2 DEF Conflict, Wanting
  <2>4. ASSUME NEW K PROVE HasKind(p, K) <=> l.kind \in K
    BY DEF HasKind, IInv, Single
  <2>5. CASE l.protocol = "tcp"
    <3>1. HasProtocol(p, "tcp")
      BY <2>5 DEF HasProtocol
    <3>2. <<l.port, p>> \in tcp
      BY <2>1, <2>2, <2>3, <3>1 DEF TcpWanted
    <3>3. ASSUME NEW x \in tcp, x[1] = l.port
          PROVE  x = <<l.port, p>>
      <4>1. x \in Ports \X Projects /\ x[2] \in Wanting(x[1])
        BY <2>2 DEF TcpWanted
      <4>2. QED
        BY <2>3, <3>3, <4>1
    <3>4. Backend(p) = "closed" <=> l.kind = "own"
      BY <2>1, <2>4 DEF Backend
    <3>5. QED
      BY <2>5, <3>2, <3>3, <3>4
  <2>6. CASE l.protocol = "http"
    <3>1. l.port \in http
      <4>1. HasProtocol(p, "http") /\ p \in Wanting(l.port)
        BY <2>3, <2>6 DEF HasProtocol
      <4>2. QED
        BY <2>1, <2>2, <4>1 DEF HttpOfStore
    <3>2. portMap[l.port] = {p}
      BY <2>1, <2>2, <2>3 DEF MapOfStore, FirstOf, Shared
    <3>3. ASSUME NEW r \in Request, r.port = l.port, Answers(r) \notin {"api", "tunnel"}
          PROVE  \/ Answers(r) = p /\ (l.kind = "shared" => Segment(r) = p)
                 \/ /\ l.kind = "shared" /\ Segment(r) # p
                    /\ \/ Answers(r) = "404"
                       \/ Answers(r) = Segment(r) /\ ~HasKind(Segment(r), {"own"})
      <4>1. portMap[r.port] = {p} /\ store[p] # {}
        BY <3>2, <3>3
      <4>2. (CHOOSE q \in portMap[r.port] : TRUE) = p
        BY <4>1
      <4>3. Answers(r) = OnPort(p, r)
        BY <3>3, <4>1, <4>2 DEF Answers
      <4>4. CASE l.kind # "shared"
        BY <2>4, <4>1, <4>3, <4>4 DEF OnPort
      <4>5. CASE l.kind = "shared"
        <5>1. Answers(r) = FromRouter(Segment(r))
          BY <2>4, <4>1, <4>3, <4>5 DEF OnPort
        <5>2. CASE Segment(r) = p
          BY <2>4, <4>5, <5>1, <5>2 DEF FromRouter
        <5>3. CASE Segment(r) # p
          <6>1. ASSUME Segment(r) \in Projects, HasKind(Segment(r), {"isolated", "shared"})
                PROVE  ~HasKind(Segment(r), {"own"})
            BY <6>1 DEF HasKind, IInv, Single
          <6>2. QED
            BY <4>5, <5>1, <5>3, <6>1 DEF FromRouter
        <5>4. QED
          BY <5>2, <5>3
      <4>6. QED
        BY <4>4, <4>5
    <3>4. QED
      BY <2>6, <3>1, <3>3
  <2>7. QED
    BY <2>1, <2>5, <2>6
<1>2. QED
  BY <1>1, Safety, PTL

\* By path and by port, requests reach the project that they are for, with the ingress
\* on the port for paths (ingress.py:381-408, main.py:209-212, 229-260).
THEOREM ReachesOwnHolds ==
  ASSUME IngressPort = PathPort
  PROVE  Spec => []ReachesOwn
BY PathReachesOwnHolds, PortReachesOwnHolds, PTL DEF ReachesOwn

-----------------------------------------------------------------------------
\* A boot that stops has met a record that cannot be loaded, a number that is no port,
\* two records with one port, raw TCP on a port that the checks leave out, or a record
\* that changed meanwhile (projects.py:100-101; main.py:213-227, 235-260).
LEMMA StopsOnlyFor ==
  ASSUME IInv, Next, BootStops
  PROVE  StaysDown \/ moved
<1>1. RecordUnread \/ PortsRefused \/ BindFails
  <2>1. UNCHANGED phase => FALSE
    BY DEF BootStops
  <2>2. CASE \E s \in Slots, p \in Projects : Calls(s, p)
    BY <2>1, <2>2 DEF Calls, Deploy, DeployImage, ChangeMode
  <2>3. CASE \E p \in Projects : Teardown(p)
    BY <2>1, <2>3 DEF Teardown
  <2>4. CASE \E j \in jobs : Step(j) \/ Fails(j)
    BY <2>1, <2>4 DEF Step, Built, Resaved, Fails
  <2>5. CASE Boot
    BY <2>5 DEF Boot, BootStops, Start, ReadPorts, BindTcp
  <2>6. CASE Crash \/ \E p \in Projects : TornSave(p)
    <3>1. faults \in Nat /\ faults' = faults + 1 /\ faults' = faults
      BY <2>6 DEF Crash, TornSave, Dies, BootStops, IInv, TypeOK
    <3>2. QED
      BY <3>1
  <2>7. QED
    BY <2>2, <2>3, <2>4, <2>5, <2>6 DEF Next
<1>2. ASSUME NEW n \in Ports, n # PathPort, NEW p \in Wanting(n), NEW q \in Wanting(n), p # q
      PROVE  ~PortsNotShared
  BY <1>2 DEF Wanting, PortsNotShared
<1>3. CASE RecordUnread
  BY <1>3 DEF RecordUnread, StaysDown
<1>4. CASE PortsRefused
  BY <1>2, <1>4 DEF PortsRefused, Conflict, Shared, StaysDown
<1>5. CASE BindFails
  <2> SUFFICES ASSUME ~moved, ~TcpOnShared, ~Unlistenable
               PROVE  ~PortsNotShared
    BY DEF StaysDown
  <2>1. http = HttpOfStore
    BY <1>5 DEF IInv, MapCurrent, Open, BindFails
  <2>2. \A n \in http \ {IngressPort} : n \in Ports \ Shared /\ \E p \in Wanting(n) :
          HasProtocol(p, "http")
    BY <2>1 DEF HttpOfStore
  <2>3. \A x \in TcpWanted : /\ x \in Ports \X Projects /\ x[2] \in Wanting(x[1])
                             /\ HasProtocol(x[2], "tcp")
    BY DEF TcpWanted
  <2>4. \A x \in TcpWanted : x[1] \in Ports \ Shared /\ x[1] \notin Unbindable
    BY <2>3 DEF TcpOnShared, Unlistenable
  <2>5. http \cap Unbindable = {}
    BY <2>2, ConstantsAssumption DEF Unlistenable
  <2>6. PICK x \in TcpWanted, y \in TcpWanted : x[1] \in http \/ (x[1] = y[1] /\ x # y)
    BY <1>5, <2>4, <2>5 DEF BindFails, Bindable
  <2>7. CASE x[1] \in http
    <3>1. PICK p \in Wanting(x[1]) : HasProtocol(p, "http")
      BY <2>2, <2>4, <2>7 DEF Shared
    <3>2. p # x[2]
      <4>1. PICK l \in store[x[2]] : l.protocol = "tcp"
        BY <2>3 DEF HasProtocol
      <4>2. PICK m \in store[p] : m.protocol = "http"
        BY <3>1 DEF HasProtocol
      <4>3. l # m
        BY <4>1, <4>2
      <4>4. QED
        BY <2>3, <4>1, <4>2, <4>3 DEF IInv, Single
    <3>3. QED
      BY <1>2, <2>3, <2>4, <3>1, <3>2 DEF Shared
  <2>8. CASE x[1] = y[1] /\ x # y
    <3>1. x[2] # y[2]
      BY <2>3, <2>8
    <3>2. QED
      BY <1>2, <2>3, <2>4, <2>8, <3>1 DEF Shared
  <2>9. QED
    BY <2>6, <2>7, <2>8
<1>6. QED
  BY <1>1, <1>3, <1>4, <1>5

\* A boot stops for these reasons, and for nothing else.
THEOREM BootStopsOnlyForHolds == Spec => BootStopsOnlyFor
<1>1. IInv /\ [Next]_vars => [BootStops => StaysDown \/ moved]_vars
  BY StopsOnlyFor
<1>2. QED
  BY <1>1, Safety, PTL DEF Spec, BootStopsOnlyFor

-----------------------------------------------------------------------------
(* Callers that wait for each other *)

\* There is one handler at most; what it is about to store is still free, or is there.
OneJob == \A j, k \in jobs : j = k
BuildsFree == \A j \in jobs : j.pc = "building" => Free(j.p, j.listen.port)
HasStored == \A j \in jobs : j.pc = "starting" => store[j.p] = {j.listen}

Serial == OneJob /\ BuildsFree /\ HasStored /\ PortsNotShared

LEMMA StoredFree ==
  ASSUME IInv, PortsNotShared, NEW p \in Projects, NEW l \in Listen,
         Free(p, l.port), Stores(p, {l})
  PROVE  PortsNotShared'
<1>1. store' = [store EXCEPT ![p] = {l}] /\ store \in [Projects -> SUBSET Listen]
  BY DEF Stores, IInv, TypeOK
<1>2. l.port = PathPort \/ \A q \in Projects \ {p} : \A m \in store[q] : m.port # l.port
  BY DEF Free, Wanting
<1>3. QED
  BY <1>1, <1>2 DEF PortsNotShared

LEMMA CallsSerial ==
  ASSUME OneAtATime, IInv, Serial, NEW s \in Slots, NEW p \in Projects, Calls(s, p)
  PROVE  Serial'
<1>1. jobs = {}
  BY DEF Calls, Deploy, DeployImage, ChangeMode, Accepts, Ready
<1>2. CASE \E l \in Listen : Deploy(s, p, l)
  <2>1. PICK l \in Listen : Deploy(s, p, l)
    BY <1>2
  <2> DEFINE j == [id |-> s, p |-> p, listen |-> l, pc |-> "building"]
  <2>2. jobs' = {j} /\ store' = store /\ Free(p, l.port)
    BY <1>1, <2>1 DEF Deploy
  <2>3. Free(p, l.port)' /\ PortsNotShared'
    BY <2>2 DEF Free, Wanting, Serial, PortsNotShared
  <2>4. j.p = p /\ j.listen = l /\ j.pc = "building"
    OBVIOUS
  <2>5. QED
    BY <2>2, <2>3, <2>4 DEF Serial, OneJob, BuildsFree, HasStored
<1>3. CASE \E l \in Listen : DeployImage(s, p, l)
  <2>1. PICK l \in Listen : DeployImage(s, p, l)
    BY <1>3
  <2> DEFINE j == [id |-> s, p |-> p, listen |-> l, pc |-> "starting"]
  <2>2. jobs' = {j} /\ Stores(p, {l}) /\ Free(p, l.port)
    BY <1>1, <2>1 DEF DeployImage
  <2>3. PortsNotShared'
    BY <2>2, StoredFree DEF Serial
  <2>4. store'[p] = {l}
    BY <2>2 DEF Stores, IInv, TypeOK
  <2>5. j.p = p /\ j.listen = l /\ j.pc = "starting"
    OBVIOUS
  <2>6. QED
    BY <2>2, <2>3, <2>4, <2>5 DEF Serial, OneJob, BuildsFree, HasStored
<1>4. CASE ChangeMode(s, p)
  <2>1. PICK l \in store[p] :
          /\ jobs' = {[id |-> s, p |-> p, listen |-> l, pc |-> "starting"]}
          /\ store' = store
    BY <1>1, <1>4 DEF ChangeMode
  <2>2. store'[p] = {l}
    BY <2>1 DEF IInv, Single
  <2>3. PortsNotShared'
    BY <2>1 DEF Serial, PortsNotShared
  <2>4. QED
    BY <2>1, <2>2, <2>3 DEF Serial, OneJob, BuildsFree, HasStored
<1>5. QED
  BY <1>2, <1>3, <1>4 DEF Calls

LEMMA JobSerial ==
  ASSUME IInv, Serial, NEW j \in jobs, Step(j) \/ Fails(j)
  PROVE  Serial'
<1>1. j \in Job /\ j.p \in Projects /\ j.listen \in Listen
  BY DEF IInv, TypeOK, Job
<1>2. \A k \in jobs : k = j
  BY DEF Serial, OneJob
<1>3. CASE Built(j)
  <2> DEFINE k == [j EXCEPT !.pc = "starting"]
  <2>1. jobs' = {k} /\ Stores(j.p, {j.listen}) /\ Free(j.p, j.listen.port)
    BY <1>2, <1>3 DEF Built, Serial, BuildsFree
  <2>2. PortsNotShared'
    BY <1>1, <2>1, StoredFree DEF Serial
  <2>3. k.p = j.p /\ k.listen = j.listen /\ k.pc = "starting"
    BY <1>1 DEF Job
  <2>4. store'[j.p] = {j.listen}
    BY <1>1, <2>1 DEF Stores, IInv, TypeOK
  <2>5. QED
    BY <2>1, <2>2, <2>3, <2>4 DEF Serial, OneJob, BuildsFree, HasStored
<1>4. CASE Resaved(j)
  <2>1. jobs' = {} /\ store' = store
    BY <1>1, <1>2, <1>4 DEF Resaved, Stores, Serial, HasStored, IInv, TypeOK
  <2>2. QED
    BY <2>1 DEF Serial, OneJob, BuildsFree, HasStored, PortsNotShared
<1>5. CASE Fails(j)
  <2>1. jobs' = {} /\ store' = store
    BY <1>2, <1>5 DEF Fails
  <2>2. QED
    BY <2>1 DEF Serial, OneJob, BuildsFree, HasStored, PortsNotShared
<1>6. QED
  BY <1>3, <1>4, <1>5 DEF Step

LEMMA RestSerial ==
  ASSUME OneAtATime, IInv, Serial,
         Boot \/ Crash \/ \E p \in Projects : Teardown(p) \/ TornSave(p)
  PROVE  Serial'
<1>1. CASE \E p \in Projects : Teardown(p)
  <2>1. PICK p \in Projects : jobs = {} /\ jobs' = {} /\ Stores(p, {})
    BY <1>1 DEF Teardown, Accepts, Ready
  <2>2. store \in [Projects -> SUBSET Listen] /\ store' = [store EXCEPT ![p] = {}]
    BY <2>1 DEF Stores, IInv, TypeOK
  <2>3. QED
    BY <2>1, <2>2 DEF Serial, OneJob, BuildsFree, HasStored, PortsNotShared
<1>2. CASE Boot \/ Crash
  <2>1. store' = store /\ jobs' \subseteq jobs
    BY <1>2 DEF Boot, Start, RecordUnread, PortsRefused, ReadPorts, BindTcp, BindFails, Crash,
                Dies
  <2>2. QED
    BY <2>1 DEF Serial, OneJob, BuildsFree, HasStored, PortsNotShared, Free, Wanting
<1>3. CASE \E p \in Projects : TornSave(p)
  <2>1. PICK p \in Projects : jobs' = {} /\ store' = [store EXCEPT ![p] = {}]
    BY <1>3 DEF TornSave, Dies
  <2>2. store \in [Projects -> SUBSET Listen]
    BY DEF IInv, TypeOK
  <2>3. QED
    BY <2>1, <2>2 DEF Serial, OneJob, BuildsFree, HasStored, PortsNotShared
<1>4. QED
  BY <1>1, <1>2, <1>3

\* If callers wait for each other and for the boot, no two projects have one port but
\* the port for paths (deploy.py:275-286, 387-392).
THEOREM PortsNotSharedHolds ==
  ASSUME OneAtATime
  PROVE  Spec => []PortsNotShared
<1>1. Init => Serial
  BY DEF Init, Serial, OneJob, BuildsFree, HasStored, PortsNotShared
<1>2. IInv /\ Serial /\ [Next]_vars => Serial'
  <2> SUFFICES ASSUME IInv, Serial, [Next]_vars PROVE Serial'
    OBVIOUS
  <2>1. CASE UNCHANGED vars
    BY <2>1 DEF vars, Serial, OneJob, BuildsFree, HasStored, PortsNotShared, Free, Wanting
  <2>2. CASE Next
    BY <2>2, CallsSerial, JobSerial, RestSerial DEF Next
  <2>3. QED
    BY <2>1, <2>2
<1>3. Serial => PortsNotShared
  BY DEF Serial
<1>4. QED
  BY <1>1, <1>2, <1>3, Safety, PTL DEF Spec

-----------------------------------------------------------------------------
(* Restore, with callers that take no notice of it (R) or that wait (A) *)

LEMMA SameTypes == A!TypeOK <=> R!TypeOK
BY DEF A!TypeOK, R!TypeOK, A!Record, R!Record, A!Entry, R!Entry, A!Job, R!Job

\* What a step is of callers that wait: the others' steps, with no job at a call.
Serially ==
  \/ /\ work = {}
     /\ \/ \E p \in Listed : R!Teardown(p)
        \/ \E s \in Callers : R!Calls(s)
        \/ R!Export
  \/ \E j \in work : R!Step(j) \/ R!CloneFails(j) \/ R!Fails(j)
  \/ \E p \in Listed, c \in Commits : R!Push(p, c)
  \/ \E p \in Listed : R!TornSave(p)
  \/ R!Crash \/ R!NewCVM \/ R!Boot

LEMMA AskedAreRestored == A!Next => Serially /\ R!Next
<1>1. ASSUME NEW s \in Callers, A!Accepts(s)
      PROVE  R!Accepts(s) /\ work = {}
  BY <1>1 DEF A!Accepts, R!Accepts
<1>2. \A p, s, es : A!Carried(p) = R!Carried(p) /\ A!NextEntry(s, es) = R!NextEntry(s, es)
  BY DEF A!Carried, R!Carried, A!NextEntry, R!NextEntry, A!First, R!First, A!Left, R!Left,
         A!NewJob, R!NewJob
<1>3. ASSUME NEW p \in Listed, A!Teardown(p)
      PROVE  R!Teardown(p) /\ work = {}
  BY <1>1, <1>3 DEF A!Teardown, R!Teardown, A!sources, R!sources, A!cvm, R!cvm
<1>4. ASSUME NEW p \in Listed, NEW c \in Commits, A!Push(p, c)
      PROVE  R!Push(p, c)
  BY <1>4 DEF A!Push, R!Push, A!cvm, R!cvm
<1>5. ASSUME NEW s \in Callers, A!Calls(s)
      PROVE  R!Calls(s) /\ work = {}
  BY <1>1, <1>2, <1>5 DEF A!Calls, R!Calls, A!Redeploy, R!Redeploy, A!Deploy, R!Deploy,
     A!Import, R!Import, A!sources, R!sources, A!cvm, R!cvm, A!NewJob, R!NewJob,
     A!Nothing, R!Nothing, A!Left, R!Left
<1>6. ASSUME NEW j \in work, A!Step(j) \/ A!CloneFails(j) \/ A!Fails(j)
      PROVE  R!Step(j) \/ R!CloneFails(j) \/ R!Fails(j)
  BY <1>2, <1>6 DEF A!Step, R!Step, A!CloneFails, R!CloneFails, A!Fails, R!Fails,
     A!Cloned, R!Cloned, A!PinRefused, R!PinRefused, A!Built, R!Built, A!Started, R!Started,
     A!GoesOn, R!GoesOn, A!Becomes, R!Becomes, A!Saves, R!Saves,
     A!sources, R!sources, A!cvm, R!cvm
<1>7. A!Export => R!Export /\ work = {}
  BY <1>1 DEF A!Export, R!Export, A!sources, R!sources, A!cvm, R!cvm
<1>8. /\ A!Crash \/ A!NewCVM \/ A!Boot => R!Crash \/ R!NewCVM \/ R!Boot
      /\ \A p \in Listed : A!TornSave(p) => R!TornSave(p)
  BY <1>2 DEF A!Crash, R!Crash, A!TornSave, R!TornSave, A!Dies, R!Dies, A!NewCVM, R!NewCVM, A!Boot, R!Boot,
     A!sources, R!sources, A!cvm, R!cvm, A!Nothing, R!Nothing
<1>9. A!Next => Serially
  BY <1>3, <1>4, <1>5, <1>6, <1>7, <1>8 DEF A!Next, Serially
<1>10. Serially => R!Next
  BY DEF Serially, R!Next
<1>11. QED
  BY <1>9, <1>10

\* What an import goes on with.
ImportsNext(s, es, k) ==
  /\ k.p \in Listed /\ es[k.p] # {}
  /\ k.id = s /\ k.op = "import" /\ k.gives = FALSE
  /\ k.pin = {e.commit : e \in es[k.p]} /\ k.env = R!Carried(k.p)
  /\ k.rest = [es EXCEPT ![k.p] = {}]

LEMMA NextJob ==
  ASSUME R!TypeOK, NEW s, NEW es \in [Listed -> SUBSET R!Entry], NEW k \in R!NextEntry(s, es)
  PROVE  ImportsNext(s, es, k) /\ (s \in Callers \cup {"boot"} => k \in R!Job)
<1>1. PICK p \in R!First(es) :
        k = R!NewJob(s, "import", p, {e.commit : e \in es[p]}, R!Carried(p), FALSE, FALSE,
                     [es EXCEPT ![p] = {}])
  BY DEF R!NextEntry
<1>2. p \in Listed /\ es[p] # {}
  BY DEF R!First, R!Left
<1>3. k = [id |-> s, op |-> "import", p |-> p, pc |-> "cloning",
           pin |-> {e.commit : e \in es[p]}, env |-> R!Carried(p), gives |-> FALSE,
           egress |-> FALSE, rest |-> [es EXCEPT ![p] = {}]]
  BY <1>1 DEF R!NewJob
<1>4. R!Carried(p) \in Envs
  BY <1>2, RestoreAssumption
     DEF R!Carried, R!TypeOK, R!Record, R!ConstantsAssumption
<1>5. {e.commit : e \in es[p]} \subseteq Commits
  BY <1>2 DEF R!Entry
<1>6. [es EXCEPT ![p] = {}] \in [Listed -> SUBSET R!Entry]
  OBVIOUS
<1>7. s \in Callers \cup {"boot"} => k \in R!Job
  BY <1>2, <1>3, <1>4, <1>5, <1>6 DEF R!Job
<1>8. ImportsNext(s, es, k)
  BY <1>2, <1>3 DEF ImportsNext
<1>9. QED
  BY <1>7, <1>8

\* Until somebody calls, an import is of what is attached: its pin is the commit of an
\* entry, and what it has left to go on with is there too.
Restoring(j) ==
  /\ j.pin # {} /\ \A c \in j.pin : \E e \in attached[j.p] : e.commit = c
  /\ \A p \in Listed : j.rest[p] \subseteq attached[p]

RestoredInv ==
  /\ R!TypeOK
  /\ fresh => \A j \in work : Restoring(j)
  /\ R!RestoredAtPins

LEMMA RestoredInit == R!Init => RestoredInv
<1> SUFFICES ASSUME R!Init
             PROVE  RestoredInv
  OBVIOUS
<1>1. R!Nothing \in [Listed -> SUBSET R!Record] /\ R!Nothing \in [Listed -> SUBSET R!Entry]
  BY DEF R!Nothing
<1>2. head \in [Listed -> Commits] /\ there \in [Listed -> SUBSET Commits]
  BY DEF R!Init
<1>3. {up, fresh, renewed} \subseteq BOOLEAN
  BY DEF R!Init
<1>4. R!TypeOK
  BY <1>1, <1>2, <1>3 DEF R!Init, R!TypeOK
<1>5. QED
  BY <1>4 DEF R!Init, RestoredInv, R!RestoredAtPins

\* An import that goes on with entries that are attached.
LEMMA RestoresNext ==
  ASSUME R!TypeOK, NEW s, NEW es \in [Listed -> SUBSET R!Entry],
         \A p \in Listed : es[p] \subseteq attached[p], NEW k \in R!NextEntry(s, es)
  PROVE  Restoring(k)
<1>1. ImportsNext(s, es, k)
  BY NextJob
<1>2. k.pin # {} /\ \A c \in k.pin : \E e \in attached[k.p] : e.commit = c
  BY <1>1 DEF ImportsNext
<1>3. \A p \in Listed : k.rest[p] \subseteq attached[p]
  BY <1>1 DEF ImportsNext
<1>4. QED
  BY <1>2, <1>3 DEF Restoring

\* Whoever calls ends the time until somebody does.
LEMMA RestoredCalled ==
  ASSUME RestoredInv, ~fresh', R!TypeOK'
  PROVE  RestoredInv'
BY DEF RestoredInv, R!RestoredAtPins

LEMMA RestoredAccepts ==
  ASSUME RestoredInv, NEW s \in Callers, R!Accepts(s)
  PROVE  ~fresh' /\ fresh' \in BOOLEAN /\ requests' \in Nat /\ up
<1>1. requests \in Nat
  BY DEF RestoredInv, R!TypeOK
<1>2. up /\ fresh' = FALSE /\ requests' = requests + 1
  BY DEF R!Accepts
<1>3. ~fresh' /\ fresh' \in BOOLEAN
  BY <1>2
<1>4. requests' \in Nat
  BY <1>1, <1>2
<1>5. QED
  BY <1>2, <1>3, <1>4

LEMMA RestoredCalls ==
  ASSUME RestoredInv, NEW s \in Callers, R!Calls(s)
  PROVE  RestoredInv'
<1>1. R!TypeOK
  BY DEF RestoredInv
<1>2. R!Nothing \in [Listed -> SUBSET R!Entry]
  BY DEF R!Nothing
<1>3. ASSUME NEW p \in Listed, NEW o \in {"deploy", "redeploy"}, NEW e \in Envs,
             NEW g \in BOOLEAN, NEW b \in BOOLEAN
      PROVE  R!NewJob(s, o, p, {}, e, g, b, R!Nothing) \in R!Job
  BY <1>2 DEF R!NewJob, R!Job
<1>4. R!Accepts(s) /\ UNCHANGED <<head, there, pushes, records, bundle, attached, renewed, up,
                                  halved, faults>>
  BY DEF R!Calls, R!Redeploy, R!Deploy, R!Import, R!sources, R!cvm
<1>5. work' \subseteq R!Job
  <2>1. CASE \E p \in Listed : R!Redeploy(s, p)
    <3>1. PICK p \in Listed : \E r \in records[p] :
            work' = work \cup {R!NewJob(s, "redeploy", p, {}, r.env, FALSE, r.egress, R!Nothing)}
      BY <2>1 DEF R!Redeploy
    <3>2. PICK r \in records[p] :
            work' = work \cup {R!NewJob(s, "redeploy", p, {}, r.env, FALSE, r.egress, R!Nothing)}
      BY <3>1
    <3>3. r.env \in Envs /\ r.egress \in BOOLEAN
      BY <1>1 DEF R!TypeOK, R!Record
    <3>4. QED
      BY <1>1, <1>3, <3>2, <3>3 DEF R!TypeOK
  <2>2. CASE \E p \in Listed : \E egress \in BOOLEAN : R!Deploy(s, p, egress)
    <3>1. PICK p \in Listed, egress \in BOOLEAN : R!Deploy(s, p, egress)
      BY <2>2
    <3>2. R!Carried(p) \in Envs
      BY <1>1, RestoreAssumption DEF R!Carried, R!TypeOK, R!Record, R!ConstantsAssumption
    <3>3. \E e \in Envs, g \in BOOLEAN :
            work' = work \cup {R!NewJob(s, "deploy", p, {}, e, g, egress, R!Nothing)}
      BY <3>1, <3>2 DEF R!Deploy
    <3>4. QED
      BY <1>1, <1>3, <3>3 DEF R!TypeOK
  <2>3. CASE R!Import(s)
    <3>1. work' = work \cup R!NextEntry(s, bundle) /\ bundle \in [Listed -> SUBSET R!Entry]
      BY <1>1, <2>3 DEF R!Import, R!TypeOK
    <3>2. R!NextEntry(s, bundle) \subseteq R!Job
      BY <1>1, <3>1, NextJob
    <3>3. QED
      BY <1>1, <3>1, <3>2 DEF R!TypeOK
  <2>4. QED
    BY <2>1, <2>2, <2>3 DEF R!Calls
<1>6. R!TypeOK'
  BY <1>1, <1>4, <1>5, RestoredAccepts DEF R!TypeOK
<1>7. QED
  BY <1>4, <1>6, RestoredAccepts, RestoredCalled

\* What a record that is saved is.
LEMMA RestoredSaves ==
  ASSUME R!TypeOK, NEW j \in work, R!Saves(j)
  PROVE  /\ records' \in [Listed -> SUBSET R!Record]
         /\ \A p \in Listed \ {j.p} : records'[p] = records[p]
         /\ \A r \in records'[j.p] : r.commit \in j.pin /\ r.env = j.env /\ r.egress = j.egress
<1>1. j.p \in Listed /\ j.pin \subseteq Commits /\ j.env \in Envs /\ j.egress \in BOOLEAN
  BY DEF R!TypeOK, R!Job
<1>2. {[commit |-> c, env |-> j.env, egress |-> j.egress] : c \in j.pin} \subseteq R!Record
  BY <1>1 DEF R!Record
<1>3. QED
  BY <1>1, <1>2 DEF R!Saves, R!TypeOK

\* The jobs after a step of one of them.
LEMMA RestoredGoesOn ==
  ASSUME RestoredInv, NEW j \in work, R!GoesOn(j)
  PROVE  /\ work' \subseteq R!Job
         /\ fresh => \A k \in work' : Restoring(k)
<1>1. /\ R!TypeOK /\ j.id \in Callers \cup {"boot"} /\ j.rest \in [Listed -> SUBSET R!Entry]
      /\ work \subseteq R!Job
  BY DEF RestoredInv, R!TypeOK, R!Job
<1>2. work' = (work \ {j}) \cup R!NextEntry(j.id, j.rest)
  BY DEF R!GoesOn
<1>3. \A k \in R!NextEntry(j.id, j.rest) : k \in R!Job
  BY <1>1, NextJob
<1>4. ASSUME fresh, NEW k \in R!NextEntry(j.id, j.rest)
      PROVE  Restoring(k)
  <2>1. \A p \in Listed : j.rest[p] \subseteq attached[p]
    BY <1>4 DEF RestoredInv, Restoring
  <2>2. QED
    BY <1>1, <1>4, <2>1, RestoresNext
<1>5. QED
  BY <1>1, <1>2, <1>3, <1>4 DEF RestoredInv

LEMMA RestoredSteps ==
  ASSUME RestoredInv, NEW j \in work, R!Step(j) \/ R!CloneFails(j) \/ R!Fails(j)
  PROVE  RestoredInv'
<1>1. /\ R!TypeOK /\ j \in R!Job /\ j.p \in Listed
      /\ fresh => Restoring(j) /\ \A k \in work : Restoring(k)
      /\ attached \in [Listed -> SUBSET R!Entry]
  BY DEF RestoredInv, R!TypeOK, R!Job
<1>2. /\ UNCHANGED <<head, there, pushes, bundle, attached, renewed, up, halved, fresh, requests>>
      /\ faults' \in Nat
  BY <1>1 DEF R!Step, R!Cloned, R!PinRefused, R!Built, R!Started, R!CloneFails, R!Fails,
              R!sources, R!cvm, R!TypeOK
<1>3. /\ work' \subseteq R!Job
      /\ fresh => \A k \in work' : Restoring(k)
  <2>1. CASE R!Cloned(j)
    <3>1. PICK k : /\ k = [j EXCEPT !.pc = "building",
                                    !.pin = IF @ = {} THEN {head[j.p]} ELSE @]
                   /\ work' = (work \ {j}) \cup {k}
      BY <2>1 DEF R!Cloned, R!Becomes
    <3>2. head[j.p] \in Commits
      BY <1>1 DEF R!TypeOK
    <3>3. k \in R!Job
      BY <1>1, <3>1, <3>2 DEF R!Job
    <3>4. fresh => Restoring(k)
      BY <1>1, <3>1 DEF Restoring, R!Job
    <3>5. QED
      BY <1>1, <3>1, <3>3, <3>4 DEF R!TypeOK
  <2>2. CASE R!Built(j)
    <3>1. PICK k : k = [j EXCEPT !.pc = "starting"] /\ work' = (work \ {j}) \cup {k}
      BY <2>2 DEF R!Built, R!Becomes
    <3>2. k \in R!Job
      BY <1>1, <3>1 DEF R!Job
    <3>3. fresh => Restoring(k)
      BY <1>1, <3>1 DEF Restoring, R!Job
    <3>4. QED
      BY <1>1, <3>1, <3>2, <3>3 DEF R!TypeOK
  <2>3. CASE R!GoesOn(j)
    BY <2>3, RestoredGoesOn
  <2>4. CASE R!Fails(j)
    BY <1>1, <2>4 DEF R!Fails, R!TypeOK
  <2>5. QED
    BY <2>1, <2>2, <2>3, <2>4 DEF R!Step, R!PinRefused, R!Started, R!CloneFails
<1>4. /\ records' \in [Listed -> SUBSET R!Record]
      /\ \A p \in Listed \ {j.p} : records'[p] = records[p]
      /\ \A r \in records'[j.p] : r \in records[j.p] \/ r.commit \in j.pin
  <2>1. CASE R!Saves(j)
    BY <1>1, <2>1, RestoredSaves
  <2>2. CASE records' = records
    BY <1>1, <2>2 DEF R!TypeOK
  <2>3. QED
    BY <2>1, <2>2 DEF R!Step, R!Cloned, R!PinRefused, R!Built, R!Started, R!CloneFails, R!Fails
<1>5. R!TypeOK'
  BY <1>1, <1>2, <1>3, <1>4 DEF R!TypeOK
<1>6. fresh' => \A k \in work' : Restoring(k)'
  BY <1>2, <1>3 DEF Restoring
<1>7. R!RestoredAtPins'
  <2> SUFFICES ASSUME fresh, NEW p \in Listed, NEW r \in records'[p]
               PROVE  \E e \in attached[p] : e.commit = r.commit
    BY <1>2 DEF R!RestoredAtPins
  <2>1. CASE r \in records[p]
    BY <2>1 DEF RestoredInv, R!RestoredAtPins
  <2>2. CASE p = j.p /\ r.commit \in j.pin
    BY <1>1, <2>2 DEF Restoring
  <2>3. QED
    BY <1>4, <2>1, <2>2
<1>8. QED
  BY <1>5, <1>6, <1>7 DEF RestoredInv

LEMMA RestoredRest ==
  ASSUME RestoredInv,
         \/ \E p \in Listed : R!Teardown(p) \/ R!TornSave(p) \/ \E c \in Commits : R!Push(p, c)
         \/ R!Export \/ R!Crash \/ R!NewCVM \/ R!Boot
  PROVE  RestoredInv'
<1>1. R!TypeOK
  BY DEF RestoredInv
<1>2. CASE \E p \in Listed : R!Teardown(p)
  <2>1. PICK p \in Listed :
          /\ \E s \in Callers : R!Accepts(s)
          /\ records' = [records EXCEPT ![p] = {}]
          /\ UNCHANGED <<head, there, pushes, bundle, attached, renewed, up, halved, work, faults>>
    BY <1>2 DEF R!Teardown, R!sources, R!cvm
  <2>2. R!TypeOK'
    BY <1>1, <2>1, RestoredAccepts DEF R!TypeOK
  <2>3. QED
    BY <2>1, <2>2, RestoredAccepts, RestoredCalled
<1>3. CASE \E p \in Listed, c \in Commits : R!Push(p, c)
  <2>1. PICK p \in Listed, c \in Commits :
          /\ pushes' = pushes + 1 /\ head' = [head EXCEPT ![p] = c]
          /\ \E S \in {there[p] \cup {c}, {c}} : there' = [there EXCEPT ![p] = S]
          /\ UNCHANGED <<records, bundle, attached, renewed, up, halved, work, fresh, requests, faults>>
    BY <1>3 DEF R!Push, R!cvm
  <2>2. PICK S \in {there[p] \cup {c}, {c}} : there' = [there EXCEPT ![p] = S]
    BY <2>1
  <2>3. S \subseteq Commits
    BY <1>1, <2>2 DEF R!TypeOK
  <2>4. R!TypeOK'
    BY <1>1, <2>1, <2>2, <2>3 DEF R!TypeOK
  <2>5. QED
    BY <2>1, <2>4 DEF RestoredInv, R!RestoredAtPins, Restoring
<1>4. CASE R!Export
  <2>1. /\ \E s \in Callers : R!Accepts(s)
        /\ bundle' = [p \in Listed |-> {[commit |-> r.commit] : r \in records[p]}]
        /\ UNCHANGED <<head, there, pushes, records, attached, renewed, up, halved, work, faults>>
    BY <1>4 DEF R!Export, R!sources, R!cvm
  <2>2. bundle' \in [Listed -> SUBSET R!Entry]
    <3>1. \A p \in Listed : {[commit |-> r.commit] : r \in records[p]} \subseteq R!Entry
      BY <1>1 DEF R!TypeOK, R!Record, R!Entry
    <3>2. QED
      BY <2>1, <3>1
  <2>3. R!TypeOK'
    BY <1>1, <2>1, <2>2, RestoredAccepts DEF R!TypeOK
  <2>4. QED
    BY <2>1, <2>3, RestoredAccepts, RestoredCalled
<1>5. CASE R!Crash \/ \E p \in Listed : R!TornSave(p)
  <2>1. /\ work' = {} /\ up' = FALSE /\ faults' = faults + 1
        /\ UNCHANGED <<head, there, pushes, bundle, attached, renewed, fresh, requests>>
    BY <1>5 DEF R!Crash, R!TornSave, R!Dies, R!sources, R!cvm
  <2>2. /\ records' \in [Listed -> SUBSET R!Record] /\ halved' \subseteq Listed
        /\ \A p \in Listed : records'[p] \subseteq records[p]
    BY <1>1, <1>5 DEF R!Crash, R!TornSave, R!TypeOK
  <2>3. faults' \in Nat
    BY <1>1, <2>1 DEF R!TypeOK
  <2>4. {up, fresh, renewed}' \subseteq BOOLEAN
    BY <1>1, <2>1 DEF R!TypeOK
  <2>5. R!TypeOK'
    BY <1>1, <2>1, <2>2, <2>3, <2>4 DEF R!TypeOK
  <2>6. QED
    BY <2>1, <2>2, <2>5 DEF RestoredInv, R!RestoredAtPins
<1>6. CASE R!NewCVM
  <2>1. /\ work' = {} /\ up' = FALSE /\ renewed' = TRUE /\ fresh' = TRUE /\ attached' = bundle
        /\ records' = [p \in Listed |-> {}] /\ halved' = {}
        /\ UNCHANGED <<head, there, pushes, bundle, requests, faults>>
    BY <1>6 DEF R!NewCVM, R!sources, R!Nothing
  <2>2. R!TypeOK'
    BY <1>1, <2>1 DEF R!TypeOK
  <2>3. QED
    BY <2>1, <2>2 DEF RestoredInv, R!RestoredAtPins
<1>7. CASE R!Boot
  <2>1. /\ work' \subseteq R!NextEntry("boot", attached) /\ up' = TRUE
        /\ UNCHANGED <<head, there, pushes, records, halved, bundle, attached, renewed, fresh,
                       requests, faults>>
    BY <1>7 DEF R!Boot, R!sources, R!cvm
  <2>2. attached \in [Listed -> SUBSET R!Entry]
    BY <1>1 DEF R!TypeOK
  <2>3. \A k \in work' : k \in R!Job /\ Restoring(k)
    BY <1>1, <2>1, <2>2, NextJob, RestoresNext
  <2>4. R!TypeOK'
    BY <1>1, <2>1, <2>3 DEF R!TypeOK
  <2>5. QED
    BY <2>1, <2>3, <2>4 DEF RestoredInv, R!RestoredAtPins, Restoring
<1>8. QED
  BY <1>2, <1>3, <1>4, <1>5, <1>6, <1>7

LEMMA RestoredNext ==
  ASSUME RestoredInv, R!Next
  PROVE  RestoredInv'
BY RestoredCalls, RestoredSteps, RestoredRest DEF R!Next

LEMMA RestoredStutter ==
  ASSUME RestoredInv, UNCHANGED restore, (requests \in Nat)', (faults \in Nat)'
  PROVE  RestoredInv'
BY DEF RestoredInv, R!TypeOK, R!RestoredAtPins, Restoring, restore

\* Until somebody calls, what runs on a new CVM runs at its commit in the export, for
\* any number of projects and commits, and whatever was pushed, fails or is restarted
\* meanwhile (deploy.py:627-628).
THEOREM RestoredAtPinsOfAll == R!Spec => [](R!TypeOK /\ R!RestoredAtPins)
<1>1. RestoredInv /\ [R!Next]_(R!vars) => RestoredInv'
  <2>1. RestoredInv /\ UNCHANGED R!vars => RestoredInv'
    BY RestoredStutter
       DEF R!vars, R!sources, R!cvm, restore, RestoredInv, R!TypeOK
  <2>2. QED
    BY <2>1, RestoredNext
<1>2. RestoredInv => R!TypeOK /\ R!RestoredAtPins
  BY DEF RestoredInv
<1>3. QED
  BY RestoredInit, <1>1, <1>2, PTL DEF R!Spec

-----------------------------------------------------------------------------
(* Restore, with callers that wait for each other and for it (A) *)

AtMostOne(S) == \A x, y \in S : x = y

\* What the job at work goes on with is still what is recorded, and a restore of the
\* daemon's own comes to no project that has a record.
Abides(j) ==
  /\ AtMostOne(j.pin) /\ j.rest[j.p] = {} /\ \A p \in Listed : AtMostOne(j.rest[p])
  /\ ~j.gives => \A r \in records[j.p] : r.env = j.env
  /\ j.op = "redeploy" => \A r \in records[j.p] : r.egress = j.egress
  /\ j.id = "boot" =>
       /\ j.pin # {} /\ \A r \in records[j.p] : r.commit \in j.pin
       /\ \A p \in Listed : j.rest[p] # {} => records[p] = {}

OneRecord == \A p \in Listed : AtMostOne(records[p])
OneEntry == \A p \in Listed : AtMostOne(bundle[p]) /\ AtMostOne(attached[p])

AskedInv ==
  /\ AtMostOne(work) /\ OneRecord /\ OneEntry
  /\ \A j \in work : Abides(j)

LEMMA AskedInit == R!Init => AskedInv
BY DEF R!Init, R!Nothing, AskedInv, OneRecord, OneEntry, AtMostOne

\* The env that a job of this project goes on with is that of its record.
LEMMA CarriedIsRecorded ==
  ASSUME OneRecord, NEW p \in Listed, NEW r \in records[p]
  PROVE  r.env = R!Carried(p)
<1>1. (CHOOSE x \in records[p] : TRUE) \in records[p]
  OBVIOUS
<1>2. r = CHOOSE x \in records[p] : TRUE
  BY <1>1 DEF OneRecord, AtMostOne
<1>3. QED
  BY <1>2 DEF R!Carried

\* An import goes on with the first of its entries, if any, which abides.
LEMMA NextAbides ==
  ASSUME R!TypeOK, OneRecord, NEW s, NEW es \in [Listed -> SUBSET R!Entry],
         \A p \in Listed : AtMostOne(es[p]),
         s = "boot" => \A p \in Listed : es[p] # {} => records[p] = {},
         NEW k \in R!NextEntry(s, es)
  PROVE  Abides(k)
<1>1. ImportsNext(s, es, k)
  BY NextJob
<1>2. AtMostOne(k.pin) /\ k.pin # {}
  BY <1>1 DEF ImportsNext, AtMostOne
<1>3. k.rest[k.p] = {} /\ \A p \in Listed : AtMostOne(k.rest[p])
  BY <1>1 DEF ImportsNext, AtMostOne
<1>4. \A r \in records[k.p] : r.env = k.env
  BY <1>1, CarriedIsRecorded DEF ImportsNext
<1>5. k.op # "redeploy"
  BY <1>1 DEF ImportsNext
<1>6. k.id = "boot" => records[k.p] = {} /\ \A p \in Listed : k.rest[p] # {} => records[p] = {}
  BY <1>1 DEF ImportsNext
<1>7. QED
  BY <1>2, <1>3, <1>4, <1>5, <1>6 DEF Abides

LEMMA OneIsNext ==
  ASSUME NEW s, NEW es
  PROVE  AtMostOne(R!NextEntry(s, es))
<1>1. \A p, q \in R!First(es) : p = q
  BY RestoreAssumption DEF R!First, R!Left, R!ConstantsAssumption
<1>2. QED
  BY <1>1 DEF R!NextEntry, AtMostOne

\* It abides as long as the records stay that it has to do with.
LEMMA AbidesStill ==
  ASSUME NEW j, Abides(j),
         \A p : p = j.p \/ (p \in Listed /\ j.rest[p] # {}) => records'[p] = records[p]
  PROVE  Abides(j)'
<1>1. records'[j.p] = records[j.p]
  OBVIOUS
<1>2. \A p \in Listed : j.rest[p] # {} => records'[p] = records[p]
  OBVIOUS
<1>3. AtMostOne(j.pin) /\ j.rest[j.p] = {} /\ \A p \in Listed : AtMostOne(j.rest[p])
  BY DEF Abides
<1>4. QED
  BY <1>1, <1>2, <1>3 DEF Abides

LEMMA AskedCalls ==
  ASSUME RestoredInv, AskedInv, work = {}, NEW s \in Callers, R!Calls(s)
  PROVE  AskedInv'
<1>1. R!TypeOK /\ OneRecord /\ OneEntry /\ s # "boot"
  BY RestoreAssumption DEF RestoredInv, AskedInv, R!ConstantsAssumption
<1>2. UNCHANGED <<records, bundle, attached>>
  BY DEF R!Calls, R!Redeploy, R!Deploy, R!Import, R!cvm
<1>3. ASSUME NEW p \in Listed, NEW o \in {"deploy", "redeploy"}, NEW e, NEW g, NEW b, NEW j,
             j = R!NewJob(s, o, p, {}, e, g, b, R!Nothing),
             ~g => \A r \in records[p] : r.env = e,
             o = "redeploy" => \A r \in records[p] : r.egress = b
      PROVE  Abides(j)
  BY <1>1, <1>3 DEF R!NewJob, R!Nothing, Abides, AtMostOne
<1>4. AtMostOne(work') /\ \A j \in work' : Abides(j)
  <2>1. CASE \E p \in Listed : R!Redeploy(s, p)
    <3>1. PICK p \in Listed : R!Redeploy(s, p)
      BY <2>1
    <3>2. PICK r \in records[p] :
            work' = {R!NewJob(s, "redeploy", p, {}, r.env, FALSE, r.egress, R!Nothing)}
      BY <3>1 DEF R!Redeploy
    <3>3. \A x \in records[p] : x = r
      BY <1>1 DEF OneRecord, AtMostOne
    <3>4. QED
      BY <1>3, <3>2, <3>3 DEF AtMostOne
  <2>2. CASE \E p \in Listed : \E egress \in BOOLEAN : R!Deploy(s, p, egress)
    <3>1. PICK p \in Listed, egress \in BOOLEAN : R!Deploy(s, p, egress)
      BY <2>2
    <3>2. \A r \in records[p] : r.env = R!Carried(p)
      BY <1>1, CarriedIsRecorded
    <3>3. \/ \E e \in Envs :
               work' = {R!NewJob(s, "deploy", p, {}, e, TRUE, egress, R!Nothing)}
          \/ work' = {R!NewJob(s, "deploy", p, {}, R!Carried(p), FALSE, egress, R!Nothing)}
      BY <3>1 DEF R!Deploy
    <3>4. QED
      BY <1>3, <3>2, <3>3 DEF AtMostOne
  <2>3. CASE R!Import(s)
    <3>1. work' = R!NextEntry(s, bundle) /\ bundle \in [Listed -> SUBSET R!Entry]
      BY <1>1, <2>3 DEF R!Import, R!TypeOK
    <3>2. \A k \in R!NextEntry(s, bundle) : Abides(k)
      BY <1>1, <3>1, NextAbides DEF OneEntry
    <3>3. QED
      BY <3>1, <3>2, OneIsNext
  <2>4. QED
    BY <2>1, <2>2, <2>3 DEF R!Calls
<1>5. QED
  BY <1>1, <1>2, <1>4 DEF AskedInv, OneRecord, OneEntry, Abides

\* The saved record is one, and what the job has left to do with it abides.
LEMMA AskedSaves ==
  ASSUME R!TypeOK, OneRecord, NEW j \in work, Abides(j), R!Saves(j)
  PROVE  OneRecord' /\ Abides(j)'
<1>1. /\ records' \in [Listed -> SUBSET R!Record]
      /\ \A p \in Listed \ {j.p} : records'[p] = records[p]
      /\ \A r \in records'[j.p] : r.commit \in j.pin /\ r.env = j.env /\ r.egress = j.egress
  BY RestoredSaves
<1>2. j.p \in Listed
  BY DEF R!TypeOK, R!Job
<1>3. ASSUME NEW p \in Listed, NEW x \in records'[p], NEW y \in records'[p]
      PROVE  x = y
  <2>1. CASE p # j.p
    BY <1>1, <2>1 DEF OneRecord, AtMostOne
  <2>2. CASE p = j.p
    <3>1. x.commit = y.commit /\ x.env = y.env /\ x.egress = y.egress
      BY <1>1, <2>2 DEF Abides, AtMostOne
    <3>2. x \in R!Record /\ y \in R!Record
      BY <1>1
    <3>3. QED
      BY <3>1, <3>2 DEF R!Record
  <2>3. QED
    BY <2>1, <2>2
<1>4. Abides(j)'
  BY <1>1, <1>2 DEF Abides
<1>5. QED
  BY <1>3, <1>4 DEF OneRecord, AtMostOne

LEMMA AskedSteps ==
  ASSUME RestoredInv, AskedInv, NEW j \in work, R!Step(j) \/ R!CloneFails(j) \/ R!Fails(j)
  PROVE  AskedInv'
<1>1. /\ R!TypeOK /\ OneRecord /\ OneEntry /\ Abides(j) /\ work = {j}
      /\ j \in R!Job /\ j.p \in Listed /\ j.rest \in [Listed -> SUBSET R!Entry]
  BY DEF RestoredInv, R!TypeOK, R!Job, AskedInv, AtMostOne
<1>2. UNCHANGED <<bundle, attached>>
  BY DEF R!Step, R!Cloned, R!PinRefused, R!Built, R!Started, R!CloneFails, R!Fails, R!cvm
<1>3. ASSUME NEW k \in R!NextEntry(j.id, j.rest)
      PROVE  Abides(k) /\ k.p # j.p /\ k.rest[j.p] = {}
  <2>1. \A p \in Listed : AtMostOne(j.rest[p])
    BY <1>1 DEF Abides
  <2>2. j.id = "boot" => \A p \in Listed : j.rest[p] # {} => records[p] = {}
    BY <1>1 DEF Abides
  <2>3. Abides(k) /\ ImportsNext(j.id, j.rest, k)
    BY <1>1, <1>3, <2>1, <2>2, NextAbides, NextJob
  <2>4. QED
    BY <1>1, <2>3 DEF Abides, ImportsNext
<1>4. CASE R!Cloned(j)
  <2>1. PICK k : /\ k = [j EXCEPT !.pc = "building",
                                  !.pin = IF @ = {} THEN {head[j.p]} ELSE @]
                 /\ work' = {k} /\ records' = records
    BY <1>1, <1>4 DEF R!Cloned, R!Becomes
  <2>2. Abides(k)
    BY <1>1, <2>1 DEF Abides, AtMostOne, R!Job
  <2>3. QED
    BY <1>1, <1>2, <2>1, <2>2, AbidesStill DEF AskedInv, OneRecord, OneEntry, AtMostOne
<1>5. CASE R!Built(j)
  <2>1. PICK k : k = [j EXCEPT !.pc = "starting"] /\ work' = {k}
    BY <1>1, <1>5 DEF R!Built, R!Becomes
  <2>2. OneRecord' /\ Abides(j)'
    BY <1>1, <1>5, AskedSaves DEF R!Built
  <2>3. Abides(k)'
    BY <1>1, <2>1, <2>2 DEF Abides, R!Job
  <2>4. QED
    BY <1>1, <1>2, <2>1, <2>2, <2>3 DEF AskedInv, OneEntry, AtMostOne
<1>6. CASE R!GoesOn(j) /\ (R!Saves(j) \/ records' = records)
  <2>1. work' = R!NextEntry(j.id, j.rest)
    BY <1>1, <1>6 DEF R!GoesOn
  <2>2. OneRecord' /\ \A p \in Listed \ {j.p} : records'[p] = records[p]
    BY <1>1, <1>6, AskedSaves, RestoredSaves DEF OneRecord
  <2>3. ASSUME NEW k \in work'
        PROVE  Abides(k)'
    <3>1. Abides(k) /\ k.p # j.p /\ k.rest[j.p] = {} /\ k.p \in Listed
      BY <1>1, <1>3, <2>1, <2>3, NextJob DEF ImportsNext
    <3>2. QED
      BY <2>2, <3>1, AbidesStill
  <2>4. QED
    BY <1>1, <1>2, <2>1, <2>2, <2>3, OneIsNext DEF AskedInv, OneEntry
<1>7. CASE R!Fails(j)
  <2>1. work' = {} /\ records' = records
    BY <1>1, <1>7 DEF R!Fails
  <2>2. QED
    BY <1>1, <1>2, <2>1 DEF AskedInv, OneRecord, OneEntry, AtMostOne
<1>8. QED
  BY <1>4, <1>5, <1>6, <1>7 DEF R!Step, R!PinRefused, R!Started, R!CloneFails

LEMMA AskedRest ==
  ASSUME RestoredInv, AskedInv,
         \/ work = {} /\ (R!Export \/ \E p \in Listed : R!Teardown(p))
         \/ \E p \in Listed, c \in Commits : R!Push(p, c)
         \/ R!Crash \/ (\E p \in Listed : R!TornSave(p)) \/ R!NewCVM \/ R!Boot
  PROVE  AskedInv'
<1>1. R!TypeOK /\ OneRecord /\ OneEntry
  BY DEF RestoredInv, AskedInv
<1>2. CASE work = {} /\ R!Export
  <2>1. /\ bundle' = [p \in Listed |-> {[commit |-> r.commit] : r \in records[p]}]
        /\ UNCHANGED <<records, attached, work>>
    BY <1>2 DEF R!Export, R!cvm
  <2>2. \A p \in Listed : AtMostOne(bundle'[p])
    BY <1>1, <2>1 DEF OneRecord, AtMostOne
  <2>3. QED
    BY <1>1, <1>2, <2>1, <2>2 DEF AskedInv, OneRecord, OneEntry, AtMostOne
<1>3. CASE work = {} /\ \E p \in Listed : R!Teardown(p)
  <2>1. PICK p \in Listed :
          records' = [records EXCEPT ![p] = {}] /\ UNCHANGED <<bundle, attached, work>>
    BY <1>3 DEF R!Teardown, R!cvm
  <2>2. OneRecord'
    BY <1>1, <2>1 DEF OneRecord, AtMostOne, R!TypeOK
  <2>3. QED
    BY <1>1, <1>3, <2>1, <2>2 DEF AskedInv, OneEntry, AtMostOne
<1>4. CASE \E p \in Listed, c \in Commits : R!Push(p, c)
  <2>1. UNCHANGED <<records, bundle, attached, work>>
    BY <1>4 DEF R!Push, R!cvm
  <2>2. QED
    BY <2>1 DEF AskedInv, OneRecord, OneEntry, AtMostOne, Abides
<1>5. CASE R!Crash \/ \E p \in Listed : R!TornSave(p)
  <2>1. work' = {} /\ UNCHANGED <<bundle, attached>>
    BY <1>5 DEF R!Crash, R!TornSave, R!Dies, R!cvm
  <2>2. \A p \in Listed : records'[p] \subseteq records[p]
    BY <1>1, <1>5 DEF R!Crash, R!TornSave, R!TypeOK
  <2>3. QED
    BY <1>1, <2>1, <2>2 DEF AskedInv, OneRecord, OneEntry, AtMostOne
<1>6. CASE R!NewCVM
  <2>1. /\ work' = {} /\ records' = [p \in Listed |-> {}]
        /\ attached' = bundle /\ bundle' = bundle
    BY <1>6 DEF R!NewCVM, R!Nothing
  <2>2. QED
    BY <1>1, <2>1 DEF AskedInv, OneRecord, OneEntry, AtMostOne
<1>7. CASE R!Boot
  <2>1. /\ work' = IF records = R!Nothing THEN R!NextEntry("boot", attached) ELSE {}
        /\ UNCHANGED <<records, bundle, attached>>
    BY <1>7 DEF R!Boot, R!cvm
  <2>2. CASE records = R!Nothing
    <3>1. attached \in [Listed -> SUBSET R!Entry] /\ \A p \in Listed : records[p] = {}
      BY <1>1, <2>2 DEF R!TypeOK, R!Nothing
    <3>2. \A k \in R!NextEntry("boot", attached) : Abides(k)
      BY <1>1, <3>1, NextAbides DEF OneEntry
    <3>3. \A k \in work' : Abides(k)'
      BY <2>1, <2>2, <3>2, AbidesStill
    <3>4. QED
      BY <1>1, <2>1, <2>2, <3>3, OneIsNext DEF AskedInv, OneRecord, OneEntry
  <2>3. CASE records # R!Nothing
    BY <1>1, <2>1, <2>3 DEF AskedInv, OneRecord, OneEntry, AtMostOne
  <2>4. QED
    BY <2>2, <2>3
<1>8. QED
  BY <1>2, <1>3, <1>4, <1>5, <1>6, <1>7

LEMMA AskedNext ==
  ASSUME RestoredInv, AskedInv, Serially
  PROVE  AskedInv'
BY AskedCalls, AskedSteps, AskedRest DEF Serially

LEMMA AskedStutter ==
  ASSUME AskedInv, UNCHANGED restore
  PROVE  AskedInv'
BY DEF AskedInv, OneRecord, OneEntry, AtMostOne, Abides, restore

\* What a step changes of a record is asked for.
LEMMA ChangesAsked ==
  ASSUME RestoredInv, AskedInv, Serially,
         NEW p \in Listed, NEW r \in records[p], NEW n \in records'[p]
  PROVE  A!Asked(p, r, n)
<1>1. R!TypeOK /\ OneRecord
  BY DEF RestoredInv, AskedInv
<1>2. CASE records'[p] \in {{}, records[p]}
  BY <1>1, <1>2 DEF OneRecord, AtMostOne, A!Asked
<1>3. CASE \E j \in work : R!Saves(j) /\ j.p = p
  <2>1. PICK j \in work : R!Saves(j) /\ j.p = p
    BY <1>3
  <2>2. Abides(j) /\ n.commit \in j.pin /\ n.env = j.env /\ n.egress = j.egress
    BY <1>1, <2>1, RestoredSaves DEF AskedInv
  <2>3. n.env # r.env => j.gives
    BY <2>1, <2>2 DEF Abides
  <2>4. n.egress # r.egress => j.op # "redeploy"
    BY <2>1, <2>2 DEF Abides
  <2>5. n.commit # r.commit => j.id # "boot"
    BY <2>1, <2>2 DEF Abides, AtMostOne
  <2>6. QED
    BY <2>1, <2>3, <2>4, <2>5 DEF A!Asked
<1>4. records'[p] \in {{}, records[p]} \/ \E j \in work : R!Saves(j) /\ j.p = p
  <2>1. CASE \E j \in work : R!Saves(j)
    BY <1>1, <2>1, RestoredSaves
  <2>2. CASE records' = records
    BY <2>2
  <2>3. CASE \E q \in Listed : R!Teardown(q)
    BY <1>1, <2>3 DEF R!Teardown, R!TypeOK
  <2>4. CASE R!NewCVM
    BY <2>4 DEF R!NewCVM, R!Nothing
  <2>5. CASE \E q \in Listed : R!TornSave(q)
    BY <1>1, <2>5 DEF R!TornSave, R!TypeOK
  <2>6. QED
    BY <2>1, <2>2, <2>3, <2>4, <2>5
       DEF Serially, R!Calls, R!Redeploy, R!Deploy, R!Import, R!Export, R!Step, R!Cloned,
           R!PinRefused, R!Built, R!Started, R!CloneFails, R!Fails, R!Push, R!Crash, R!Boot
<1>5. QED
  BY <1>2, <1>3, <1>4

-----------------------------------------------------------------------------
(* The behaviours that TLC follows, each of Routing or of Restore *)

BootInv == IInv /\ RestoredInv /\ (component = "asked" => AskedInv)

LEMMA RoutingStutter ==
  ASSUME IInv, UNCHANGED routing, (requests \in Nat)', (faults \in Nat)'
  PROVE  IInv'
<1>1. /\ UNCHANGED <<phase, sockets, torn>> /\ store' = store /\ moved' = moved /\ jobs' = jobs
  BY DEF routing
<1>2. /\ store' \in [Projects -> SUBSET Listen] /\ moved' \in BOOLEAN /\ jobs' \subseteq Job
      /\ Single'
  BY <1>1 DEF IInv, TypeOK, Single
<1>3. QED
  BY <1>1, <1>2, HandlerKeeps

LEMMA BootInit == MCInit => BootInv
BY InitIInv, RestoredInit, AskedInit DEF MCInit, BootInv

LEMMA BootNext ==
  ASSUME BootInv, MCNext
  PROVE  BootInv'
<1>1. CASE component = "routing" /\ Next /\ UNCHANGED restore /\ UNCHANGED component
  <2>1. IInv'
    BY <1>1, NextIInv DEF BootInv
  <2>2. (requests \in Nat)' /\ (faults \in Nat)'
    BY <2>1 DEF IInv, TypeOK
  <2>3. RestoredInv'
    BY <1>1, <2>2, RestoredStutter DEF BootInv
  <2>4. QED
    BY <1>1, <2>1, <2>3 DEF BootInv
<1>2. ASSUME BootInv, R!Next, UNCHANGED routing
      PROVE  IInv' /\ RestoredInv'
  <2>1. RestoredInv'
    BY <1>2, RestoredNext DEF BootInv
  <2>2. (requests \in Nat)' /\ (faults \in Nat)'
    BY <2>1 DEF RestoredInv, R!TypeOK
  <2>3. QED
    BY <1>2, <2>1, <2>2, RoutingStutter DEF BootInv
<1>3. CASE component = "restored" /\ R!Next /\ UNCHANGED routing /\ UNCHANGED component
  BY <1>2, <1>3 DEF BootInv
<1>4. CASE component = "asked" /\ A!Next /\ UNCHANGED routing /\ UNCHANGED component
  BY <1>2, <1>4, AskedAreRestored, AskedNext DEF BootInv
<1>5. QED
  BY <1>1, <1>3, <1>4 DEF MCNext

LEMMA BootIdle ==
  ASSUME BootInv, UNCHANGED <<vars, restore, component>>
  PROVE  BootInv'
<1>1. UNCHANGED routing /\ UNCHANGED restore /\ UNCHANGED component
      /\ requests' = requests /\ faults' = faults
  BY DEF vars, routing
<1>2. (requests \in Nat)' /\ (faults \in Nat)'
  BY <1>1 DEF BootInv, IInv, TypeOK
<1>3. QED
  BY <1>1, <1>2, RoutingStutter, RestoredStutter, AskedStutter DEF BootInv

THEOREM BootHolds == MCSpec => []BootInv
<1>1. BootInv /\ [MCNext]_<<vars, restore, component>> => BootInv'
  BY BootNext, BootIdle
<1>2. QED
  BY BootInit, <1>1, PTL DEF MCSpec

\* The records, jobs, ports and exports have their types (projects.py:11-29,
\* main.py:209-260, deploy.py:620-649).
THEOREM BootTypesHold == MCSpec => []TypesOK
<1>1. BootInv => TypesOK
  BY SameTypes DEF BootInv, IInv, RestoredInv, TypesOK
<1>2. QED
  BY <1>1, BootHolds, PTL

\* Until somebody calls, what runs on a new CVM runs at its commit in the export, in the
\* behaviours that TLC follows (deploy.py:627-628).
THEOREM RestoredAtPinsHolds == MCSpec => []RestoredAtPins
<1>1. BootInv => RestoredAtPins
  BY DEF BootInv, RestoredInv, RestoredAtPins
<1>2. QED
  BY <1>1, BootHolds, PTL

\* If callers wait for each other, a project changes by what is asked for only, for any
\* number of projects, commits and envs and whatever fails or is restarted
\* (deploy.py:198-205, 637-640; ingress.py:922; runtimes.py:984-989).
THEOREM ChangesAreAskedHolds == MCSpec => ChangesAreAsked
<1>1. ASSUME BootInv, [MCNext]_<<vars, restore, component>>
      PROVE  [component = "asked" =>
                \A p \in Listed : \A r \in records[p], n \in records'[p] :
                  A!Asked(p, r, n)]_records
  <2>1. CASE component = "asked" /\ A!Next
    BY <1>1, <2>1, AskedAreRestored, ChangesAsked DEF BootInv
  <2>2. CASE component # "asked"
    BY <2>2
  <2>3. CASE UNCHANGED <<vars, restore, component>>
    BY <2>3 DEF restore
  <2>4. QED
    BY <1>1, <2>1, <2>2, <2>3 DEF MCNext
<1>2. QED
  BY <1>1, BootHolds, PTL DEF MCSpec, ChangesAreAsked
=============================================================================
