--------------------------- MODULE SharedRuntimes ---------------------------
(***************************************************************************)
(* The containers that projects share, one for each runtime and mode, and  *)
(* the isolated projects beside them: which containers a change of a       *)
(* record has replaced (proxy/runtimes.py:484-605), which projects each    *)
(* router loads when it starts (277-286, 323-337, 383-400), and to which   *)
(* container a request for a project is sent (888-900).                    *)
(*                                                                         *)
(* Callers wait for each other and for the recovery to end; Lifecycle is   *)
(* about one runtime and callers that do not.  A handler has work to do on *)
(* containers, one at each step.  What a container is made from was built  *)
(* or pulled before.                                                       *)
(***************************************************************************)
EXTENDS Naturals, Sequences

CONSTANTS
  Projects,
  Runtimes,      \* among "deno", "bun" and "node", which stands for python too
  Isolates,      \* whether projects may ask for a container of their own
  MaxRequests,   \* bound on the API calls
  MaxFaults      \* bound on crashes and failing calls

ConstantsAssumption ==
  /\ Runtimes \subseteq {"deno", "bun", "node"}
  /\ Isolates \in BOOLEAN
  /\ {MaxRequests, MaxFaults} \subseteq Nat

VARIABLES
  store,     \* store[p]: the record, or none
  loaded,    \* loaded[k]: the projects that tee-runtime-K loaded, or none: no container
  ips,       \* the keys of runtime_ips
  own,       \* the containers tee-isolated-P-M
  work,      \* what the handler or the recovery in progress has still to do
  queue,     \* what recover_all() has still to start
  up,        \* the daemon process runs
  torn,      \* projects whose project.json was left half written
  spoiled,   \* keys and projects that a failing call left half done (a history variable)
  requests, faults

vars == <<store, loaded, ips, own, work, queue, up, torn, spoiled, requests, faults>>

Modes == {"dev", "attested"}
Keys == {"deno", "bun", "node"} \X Modes
Record == [rt: Runtimes, mode: Modes, own: BOOLEAN]
Own(p, m) == <<"isolated", p, m>>
Owned == {Own(p, m) : p \in Projects, m \in Modes}
Todo == [do: {"drop", "stop", "create"}, at: Keys] \cup [do: {"halt", "start"}, at: Owned]

-----------------------------------------------------------------------------
(* refresh() *)

RuntimesServed(r) == IF r = "deno" THEN {"deno", "bun"} ELSE {r}

\* The projects that a container is needed for.
Listed(k) ==
  {p \in Projects : \E x \in store[p] : x.rt \in RuntimesServed(k[1]) /\ x.mode = k[2] /\ ~x.own}

RefreshMode(k) ==
  IF Listed(k) = {} THEN <<[do |-> "drop", at |-> k]>>
                    ELSE <<[do |-> "stop", at |-> k], [do |-> "create", at |-> k]>>

\* Mutant of Refresh: the second mode is left out.
RefreshDev(r) == RefreshMode(<<r, "dev">>)

\* One mode after the other.
Refresh(r) == RefreshMode(<<r, "dev">>) \o RefreshMode(<<r, "attested">>)

Found(rts) == {p \in Projects : \E x \in store[p] : x.rt \in rts}

\* What a router finds on the disk and loads.  The one for deno and bun is told its
\* mode,
LoadsDeno(m) ==
  {p \in Found({"deno", "bun"}) : \E x \in store[p] : x.mode = m}

\* the others are not, and none looks at isolation.
LoadsNode == Found({"node"})

Loads(k) == IF k[1] = "node" THEN LoadsNode ELSE LoadsDeno(k[2])

\* start_isolated() and stop_isolated(): the second in both modes.
Starts(p, m) == <<[do |-> "halt", at |-> Own(p, m)], [do |-> "start", at |-> Own(p, m)]>>
Halts(p) ==
  <<[do |-> "halt", at |-> Own(p, "dev")], [do |-> "halt", at |-> Own(p, "attested")]>>

-----------------------------------------------------------------------------
(* Handlers *)

Accepts ==
  /\ up /\ work = <<>> /\ queue = {}
  /\ requests < MaxRequests
  /\ requests' = requests + 1

Saves(p, S) == store' = [store EXCEPT ![p] = S]
Rest == UNCHANGED <<loaded, ips, own, queue, up, torn, spoiled, faults>>

\* What was there before is not looked at.  (work' is of the new record.)
Deploy(p, x) ==
  /\ Accepts
  /\ Saves(p, {x})
  /\ work' = IF x.own THEN Starts(p, x.mode) ELSE Refresh(x.rt)'
  /\ Rest

\* The record is stored in its new mode, then what it needs is made.
Promote(p) ==
  \E x \in store[p] :
    /\ Accepts
    /\ x.mode = "dev"
    /\ Saves(p, {[x EXCEPT !.mode = "attested"]})
    /\ work' = IF x.own THEN Halts(p) \o Starts(p, "attested") ELSE Refresh(x.rt)'
    /\ Rest

Unpromote(p) ==
  \E x \in store[p] :
    /\ Accepts
    /\ x.mode = "attested"
    /\ Saves(p, {[x EXCEPT !.mode = "dev"]})
    /\ work' = Refresh(x.rt)'
    /\ Rest

Teardown(p) ==
  \E x \in store[p] :
    /\ Accepts
    /\ Saves(p, {})
    /\ work' = IF x.own THEN Halts(p) ELSE Refresh(x.rt)'
    /\ Rest

\* One container is stopped and removed, or made and started.
Works ==
  /\ up /\ work # <<>>
  /\ LET w == Head(work) IN
       /\ loaded' = CASE w.do \in {"drop", "stop"} -> [loaded EXCEPT ![w.at] = {}]
                      [] w.do = "create" -> [loaded EXCEPT ![w.at] = {Loads(w.at)}]
                      [] OTHER -> loaded
       /\ ips' = CASE w.do = "drop" -> ips \ {w.at}
                   [] w.do = "create" -> ips \cup {w.at}
                   [] OTHER -> ips
       /\ own' = CASE w.do = "halt" -> own \ {w.at}
                   [] w.do = "start" -> own \cup {w.at}
                   [] OTHER -> own
       /\ spoiled' = IF w.do \in {"drop", "create", "start"} THEN spoiled \ {w.at} ELSE spoiled
  /\ work' = Tail(work)
  /\ UNCHANGED <<store, queue, up, torn, requests, faults>>

\* docker fails a call, and the rest is not done.
Fails ==
  /\ up /\ work # <<>> /\ faults < MaxFaults
  /\ faults' = faults + 1
  /\ spoiled' = spoiled \cup {work[i].at : i \in 1..Len(work)}
  /\ work' = <<>>
  /\ UNCHANGED <<store, loaded, ips, own, queue, up, torn, requests>>

\* The process ends, and the containers go on.
Dies ==
  /\ up /\ faults < MaxFaults
  /\ faults' = faults + 1
  /\ up' = FALSE
  /\ spoiled' = spoiled \cup {work[i].at : i \in 1..Len(work)}
  /\ work' = <<>>
  /\ queue' = {}
  /\ ips' = {}
  /\ UNCHANGED <<loaded, own, requests>>

Crash == Dies /\ UNCHANGED <<store, torn>>

\* It ends in the middle of save(), which empties the file before it fills it: at the
\* start of a call for p, or at the end of its deploy.
TornSave(p) ==
  /\ work = <<>> /\ queue = {}
  /\ Dies
  /\ torn' = torn \cup {p}
  /\ Saves(p, {})

\* recover_all(): the runtimes that shared projects name, and the isolated projects.  A
\* boot that finds a record it cannot load does not get there.
Boot ==
  /\ ~up /\ torn = {}
  /\ up' = TRUE
  /\ queue' = {Refresh(x.rt) : x \in {x \in UNION {store[p] : p \in Projects} : ~x.own}}
         \cup {Starts(y[1], y[2]) :
                 y \in {y \in Projects \X Modes : \E x \in store[y[1]] : x.own /\ x.mode = y[2]}}
  /\ UNCHANGED <<store, loaded, ips, own, work, torn, spoiled, requests, faults>>

RecoverNext ==
  /\ up /\ work = <<>>
  /\ \E w \in queue : work' = w /\ queue' = queue \ {w}
  /\ UNCHANGED <<store, loaded, ips, own, up, torn, spoiled, requests, faults>>

-----------------------------------------------------------------------------
Init ==
  /\ store = [p \in Projects |-> {}]
  /\ loaded = [k \in Keys |-> {}]
  /\ ips = {} /\ own = {}
  /\ work = <<>> /\ queue = {}
  /\ up = TRUE /\ torn = {}
  /\ spoiled = {}
  /\ requests = 0 /\ faults = 0

Manifests ==
  {x \in Record : x.own => Isolates /\ x.rt \in {"deno", "bun"}}

Next ==
  \/ \E p \in Projects :
       (\E x \in Manifests : Deploy(p, x)) \/ Promote(p) \/ Unpromote(p) \/ Teardown(p)
  \/ Works \/ Fails \/ Crash \/ (\E p \in Projects : TornSave(p)) \/ Boot \/ RecoverNext

Spec == Init /\ [][Next]_vars

\* docker answers or times out; the daemon is restarted.
Fairness == WF_vars(Works) /\ WF_vars(Boot) /\ WF_vars(RecoverNext)
FairSpec == Spec /\ Fairness

-----------------------------------------------------------------------------
(* Properties *)

TypeOK ==
  /\ store \in [Projects -> SUBSET Record]
  /\ loaded \in [Keys -> SUBSET SUBSET Projects]
  /\ ips \subseteq Keys
  /\ own \subseteq Owned
  /\ work \in Seq(Todo)
  /\ queue \subseteq Seq(Todo)
  /\ up \in BOOLEAN /\ torn \subseteq Projects
  /\ spoiled \subseteq Keys \cup Owned
  /\ requests \in Nat /\ faults \in Nat

AtRest == up /\ work = <<>> /\ queue = {}

\* get_route(): bun is sent to the container for deno.
RouteKey(x) == <<IF x.rt = "bun" THEN "deno" ELSE x.rt, x.mode>>

\* A shared project is loaded in the container that requests for it are sent to.
Served(p, x) == \E S \in loaded[RouteKey(x)] : RouteKey(x) \in ips /\ p \in S

\* runtime_ips tells where projects are: at rest requests for a shared project reach a
\* container that has loaded it, and no address is kept of one that is gone, through
\* changes of mode and kind and restarts, unless a call failed as the container was made
\* (runtimes.py:497-605, 888-900; "single source of truth for project liveness", 905).
\* A project of bun is sent to deno's container, which its own changes do not replace: it
\* is served there from the next change of a deno project on, and spoils none of those.
RoutesAreTrue ==
  AtRest =>
    /\ \A p \in Projects : \A x \in store[p] :
         ~x.own /\ x.rt # "bun" /\ RouteKey(x) \notin spoiled => Served(p, x)
    /\ \A k \in ips \ spoiled : loaded[k] # {}

\* The daemon comes to rest, and every isolated project has its container by then,
\* unless a call failed as it was made (runtimes.py:978-982), or the process ended in the
\* middle of a save: then it does not come back (projects.py:100-101).
OwnRuns ==
  <>[](\/ torn # {}
       \/ AtRest /\ \A p \in Projects : \A x \in store[p] :
                      x.own => \E m \in Modes : Own(p, m) \in own \cup spoiled)
=============================================================================
