---------------------------- MODULE BrowserPool ----------------------------
(***************************************************************************)
(* The pool of warm browsers (proxy/browser_pool.py): a render leases a    *)
(* browser, has its cookie jar injected, drives it, and has it reset before*)
(* it is free again.  A sweeper resets the browser of a lease that is past *)
(* its deadline, whether or not its render is still being driven.          *)
(*                                                                         *)
(* A call over HTTP to a browser takes effect when it is answered; one that*)
(* fails may have taken effect, and an injection that timed out may still  *)
(* take effect later.  Time is left out: a lease may be past its deadline  *)
(* (lease_ttl, 30 s) in any state, as one drive alone may take 90 s.       *)
(***************************************************************************)
EXTENDS Naturals, Sequences, FiniteSets

CONSTANTS
  Renders,     \* calls of render(), each with the jar of its own requester
  Bounded,     \* those that gave a timeout for the wait
  Size,        \* browsers in the pool
  MaxFaults,   \* bound on those failures, crashes and shutdowns
  MaxSweeps    \* bound on the leases found past their deadline

ASSUME ConstantsAssumption ==
  /\ Bounded \subseteq Renders
  /\ {Size, MaxFaults, MaxSweeps} \subseteq Nat

VARIABLES
  phase,     \* the daemon and its pool: down, starting, up, failed (to start)
  warmed,    \* browsers warmed since the daemon started
  free,      \* _free, the queue of slots
  jars,      \* jars[s]: the jars whose cookies the browser of slot s holds
  pc, slot,  \* the await each render is at, and the slot it was given
  leases,    \* _leases: the renders with a live lease
  sweeping,  \* the slot the sweeper waits for, if any
  late,      \* injections that timed out and are still on their way
  seen,      \* seen[c]: the jars that the page rendered for c reflects
  swept,     \* renders whose lease the sweeper took (a history variable)
  failed,    \* the kinds of calls to a browser that have failed (a history variable)
  faults

browsers == <<jars, late, seen>>
clients == <<pc, slot>>
failures == <<failed, faults>>
vars == <<phase, warmed, free, browsers, clients, leases, sweeping, swept, failures>>

Slots == 1..Size
Goes(c, where) == pc' = [pc EXCEPT ![c] = where]
Frees(s) == free' = Append(free, s)

\* A call of one of the kinds "health", "session", "render" and "reset" fails.
Faulty(kind) ==
  /\ faults < MaxFaults
  /\ faults' = faults + 1
  /\ failed' = failed \cup {kind}

-----------------------------------------------------------------------------
(* render(): acquire, drive, release *)

\* A render comes in; acquire() asserts that the pool has started.
Call(c) ==
  /\ phase # "down" /\ pc[c] = "new"
  /\ Goes(c, IF phase = "up" THEN "waiting" ELSE "ended")
  /\ UNCHANGED <<phase, warmed, free, browsers, slot, leases, sweeping, swept, failures>>

\* The queue yields its first slot.
Take(c) ==
  /\ pc[c] = "waiting" /\ free # <<>>
  /\ slot' = [slot EXCEPT ![c] = Head(free)]
  /\ free' = Tail(free)
  /\ Goes(c, "injecting")
  /\ UNCHANGED <<phase, warmed, browsers, leases, sweeping, swept, failures>>

\* LeaseTimeout.
GivesUp(c) ==
  /\ pc[c] = "waiting" /\ c \in Bounded /\ free = <<>>
  /\ Goes(c, "ended")
  /\ UNCHANGED <<phase, warmed, free, browsers, slot, leases, sweeping, swept, failures>>

\* The jar is in; the lease is recorded and the drive sent in the same step.
Injected(c) ==
  /\ pc[c] = "injecting"
  /\ jars' = [jars EXCEPT ![slot[c]] = @ \cup {c}]
  /\ leases' = leases \cup {c}
  /\ Goes(c, "driving")
  /\ UNCHANGED <<phase, warmed, free, late, seen, slot, sweeping, swept, failures>>

\* Mutant of InjectionFails: the slot is stranded.
InjectionStrands(c) ==
  /\ pc[c] = "injecting"
  /\ Faulty("session")
  /\ Goes(c, "ended")
  /\ UNCHANGED <<phase, warmed, free, browsers, slot, leases, sweeping, swept>>

\* The injection fails: the slot is freed and the render ends.
InjectionFails(c) ==
  /\ pc[c] = "injecting"
  /\ Faulty("session")
  /\ Frees(slot[c])
  /\ Goes(c, "ended")
  /\ \/ UNCHANGED <<jars, late>>
     \/ jars' = [jars EXCEPT ![slot[c]] = @ \cup {c}] /\ UNCHANGED late
     \/ late' = late \cup {<<c, slot[c]>>} /\ UNCHANGED jars
  /\ UNCHANGED <<phase, warmed, seen, slot, leases, sweeping, swept>>

\* Mutant of Releases: the lease is not looked up.
ReleasesAgain(c) ==
  /\ leases' = leases \ {c}
  /\ Goes(c, "resetting")

\* release(): a lease that is already gone is left alone.
Releases(c) ==
  /\ leases' = leases \ {c}
  /\ Goes(c, IF c \in leases THEN "resetting" ELSE "ended")

\* The page comes back.
Rendered(c) ==
  /\ pc[c] = "driving"
  /\ seen' = [seen EXCEPT ![c] = jars[slot[c]]]
  /\ Releases(c)
  /\ UNCHANGED <<phase, warmed, free, jars, late, slot, sweeping, swept, failures>>

RenderFails(c) ==
  /\ pc[c] = "driving"
  /\ Faulty("render")
  /\ Releases(c)
  /\ UNCHANGED <<phase, warmed, free, browsers, slot, sweeping, swept>>

\* Mutant of Reset: the slot is freed without it.
ResetSkipped(c) ==
  /\ pc[c] = "resetting"
  /\ Frees(slot[c])
  /\ Goes(c, "ended")
  /\ UNCHANGED <<phase, warmed, browsers, slot, leases, sweeping, swept, failures>>

Reset(c) ==
  /\ pc[c] = "resetting"
  /\ jars' = [jars EXCEPT ![slot[c]] = {}]
  /\ Frees(slot[c])
  /\ Goes(c, "ended")
  /\ UNCHANGED <<phase, warmed, late, seen, slot, leases, sweeping, swept, failures>>

\* The slot is drained: it is not free again before the next start().
ResetFails(c) ==
  /\ pc[c] = "resetting"
  /\ Faulty("reset")
  /\ Goes(c, "ended")
  /\ UNCHANGED <<phase, warmed, free, browsers, slot, leases, sweeping, swept>>

-----------------------------------------------------------------------------
(* The sweeper releases a lease past its deadline, one at a time *)

Sweep(c) ==
  /\ phase = "up" /\ sweeping = {} /\ c \in leases
  /\ Cardinality(swept) < MaxSweeps
  /\ leases' = leases \ {c}
  /\ sweeping' = {slot[c]}
  /\ swept' = swept \cup {c}
  /\ UNCHANGED <<phase, warmed, free, browsers, clients, failures>>

SweepReset(s) ==
  /\ s \in sweeping
  /\ jars' = [jars EXCEPT ![s] = {}]
  /\ Frees(s)
  /\ sweeping' = {}
  /\ UNCHANGED <<phase, warmed, late, seen, clients, leases, swept, failures>>

SweepFails ==
  /\ sweeping # {}
  /\ Faulty("reset")
  /\ sweeping' = {}
  /\ UNCHANGED <<phase, warmed, free, browsers, clients, leases, swept>>

\* A browser gets to an injection whose caller no longer waits for it.
LateInjection(c, s) ==
  /\ <<c, s>> \in late
  /\ late' = late \ {<<c, s>>}
  /\ jars' = [jars EXCEPT ![s] = @ \cup {c}]
  /\ UNCHANGED <<phase, warmed, free, seen, clients, leases, sweeping, swept, failures>>

-----------------------------------------------------------------------------
(* start() and stop() *)

\* The daemon starts; the pool is warmed behind the open API.
Launch ==
  /\ phase = "down"
  /\ phase' = "starting"
  /\ UNCHANGED <<warmed, free, browsers, clients, leases, sweeping, swept, failures>>

\* A browser left from before is replaced, and the new one is free once healthy.
Warm ==
  /\ phase = "starting" /\ warmed < Size
  /\ warmed' = warmed + 1
  /\ jars' = [jars EXCEPT ![warmed + 1] = {}]
  /\ late' = {l \in late : l[2] # warmed + 1}
  /\ Frees(warmed + 1)
  /\ UNCHANGED <<phase, seen, clients, leases, sweeping, swept, failures>>

\* start() raises: what is warm stays, and the pool is never up.
WarmFails ==
  /\ phase = "starting" /\ warmed < Size
  /\ Faulty("health")
  /\ phase' = "failed"
  /\ UNCHANGED <<warmed, free, browsers, clients, leases, sweeping, swept>>

Started ==
  /\ phase = "starting" /\ warmed = Size
  /\ phase' = "up"
  /\ UNCHANGED <<warmed, free, browsers, clients, leases, sweeping, swept, failures>>

\* The process ends, killed (the browsers stay as they are) or by a shutdown, which
\* stops the browsers: with it end the queue, the leases and the renders.
Ends ==
  /\ phase # "down"
  /\ faults < MaxFaults
  /\ faults' = faults + 1
  /\ phase' = "down" /\ warmed' = 0
  /\ free' = <<>> /\ leases' = {} /\ sweeping' = {}
  /\ pc' = [c \in Renders |-> IF pc[c] = "new" THEN "new" ELSE "ended"]
  /\ \/ jars' = [s \in Slots |-> {}] /\ late' = {}
     \/ UNCHANGED <<jars, late>>
  /\ UNCHANGED <<seen, slot, swept, failed>>

-----------------------------------------------------------------------------
Init ==
  /\ phase = "down" /\ warmed = 0
  /\ free = <<>>
  /\ jars = [s \in Slots |-> {}]
  /\ pc = [c \in Renders |-> "new"]
  /\ slot \in [Renders -> {1}]
  /\ leases = {} /\ sweeping = {} /\ late = {}
  /\ seen = [c \in Renders |-> {}]
  /\ swept = {}
  /\ failed = {}
  /\ faults = 0

\* What render() does next when its calls do not fail.
Proceeds(c) == Take(c) \/ GivesUp(c) \/ Injected(c) \/ Rendered(c) \/ Reset(c)

Next ==
  \/ \E c \in Renders : Call(c) \/ Proceeds(c)
  \/ \E c \in Renders : InjectionFails(c) \/ RenderFails(c) \/ ResetFails(c)
  \/ \E c \in Renders : Sweep(c)
  \/ \E s \in Slots : SweepReset(s)
  \/ SweepFails
  \/ \E c \in Renders, s \in Slots : LateInjection(c, s)
  \/ Launch \/ Warm \/ WarmFails \/ Started
  \/ Ends

Spec == Init /\ [][Next]_vars

\* A browser answers or the call times out, and a failed daemon is restarted.  That
\* the queue wakes a waiter is fairness of Take; no lease need ever be swept.
Fairness ==
  /\ \A c \in Renders : WF_vars(Proceeds(c))
  /\ WF_vars(\E s \in Slots : SweepReset(s))
  /\ WF_vars(Launch \/ Warm \/ Started)

FairSpec == Spec /\ Fairness

-----------------------------------------------------------------------------
(* Properties *)

\* The types of the pool's state (browser_pool.py:59-101).
TypeOK ==
  /\ phase \in {"down", "starting", "up", "failed"}
  /\ warmed \in 0..Size
  /\ free \in Seq(Slots)
  /\ jars \in [Slots -> SUBSET Renders]
  /\ pc \in [Renders -> {"new", "waiting", "injecting", "driving", "resetting", "ended"}]
  /\ slot \in [Renders -> Nat]
  /\ leases \subseteq Renders
  /\ sweeping \subseteq Slots
  /\ late \subseteq Renders \X Slots
  /\ seen \in [Renders -> SUBSET Renders]
  /\ swept \subseteq Renders
  /\ failed \subseteq {"health", "session", "render", "reset"}
  /\ faults \in Nat

\* A render has its slot's browser in its hands while it injects, has a lease, or
\* resets; the sweeper while it resets.
Holds(c) == c \in leases \/ pc[c] \in {"injecting", "resetting"}

\* A browser is handed to one render at a time, and is not free meanwhile: the
\* release and the sweep of one lease put its slot back once (browser_pool.py:192-207).
OneHolder ==
  /\ \A i, j \in 1..Len(free) : free[i] = free[j] => i = j
  /\ \A c \in Renders : Holds(c) =>
       /\ slot[c] \notin sweeping
       /\ \A i \in 1..Len(free) : free[i] # slot[c]
       /\ \A d \in Renders : Holds(d) /\ slot[d] = slot[c] => d = c
  /\ \A i \in 1..Len(free) : free[i] \notin sweeping

\* A free browser holds no jar, although leases are swept while they are driven and
\* resets fail (browser_pool.py:196-207), as long as no injection has failed.
FreeIsClean ==
  "session" \notin failed => \A i \in 1..Len(free) : jars[free[i]] = {}

\* A page that a render got before its lease was swept reflects its own jar alone
\* (browser_pool.py:72-79), as long as no injection has failed.
SeesOwnSession ==
  "session" \notin failed => \A c \in Renders \ swept : seen[c] \subseteq {c}

\* As long as resets succeed, every render that waits for a browser gets one, gives up,
\* or ends with the daemon: whatever else fails, slots come back (browser_pool.py:157-181).
WaitersServed ==
  []("reset" \notin failed) => \A c \in Renders : pc[c] = "waiting" ~> pc[c] # "waiting"

-----------------------------------------------------------------------------
(* What the documentation says, and the code does not keep *)

\* "So concurrent callers never see each other's session" (ingress.py:1472-1474).
NobodySeesAnother == \A c \in Renders : seen[c] \subseteq {c}
=============================================================================
