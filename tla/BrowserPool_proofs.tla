------------------------ MODULE BrowserPool_proofs ------------------------
(* For every number of browsers, renders, failures and sweeps: a browser is  *)
(* in one pair of hands at a time and, as long as no injection failed, is    *)
(* clean when it is free and shows an unswept render its own session alone.  *)
EXTENDS BrowserPool, TLAPS

-----------------------------------------------------------------------------
(* The inductive invariant *)

Busy == {"injecting", "driving", "resetting"}

PoolTyped ==
  /\ free \in Seq(Slots)
  /\ jars \in [Slots -> SUBSET Renders]
  /\ pc \in [Renders -> {"new", "waiting", "ended"} \cup Busy]
  /\ slot \in [Renders -> Nat]
  /\ leases \subseteq Renders
  /\ sweeping \subseteq Slots
  /\ seen \in [Renders -> SUBSET Renders]
  /\ warmed \in Nat

\* The slots in the queue.
Queued == {free[i] : i \in 1..Len(free)}
Distinct == \A i, j \in 1..Len(free) : free[i] = free[j] => i = j

\* OneHolder, by the set of queued slots.
Apart ==
  /\ \A c \in Renders : Holds(c) =>
       /\ slot[c] \notin sweeping \cup Queued
       /\ \A d \in Renders : Holds(d) /\ slot[d] = slot[c] => d = c
  /\ Queued \cap sweeping = {}

\* What the lease table, the queue and the phase have to do with the renders: a
\* lease is of a render being driven, and only a sweep ends it sooner.
Places ==
  /\ \A c \in Renders : pc[c] \in Busy => slot[c] \in Slots
  /\ \A c \in leases : pc[c] = "driving"
  /\ \A c \in Renders : pc[c] = "driving" => c \in leases \cup swept
  /\ \A s, t \in sweeping : s = t
  /\ phase \in {"down", "starting"} =>
       /\ \A s \in Queued : s <= warmed
       /\ \A c \in Renders : pc[c] \in {"new", "ended"} /\ ~Holds(c)
       /\ sweeping = {}

\* Before an injection fails nothing is late, and a browser holds at most the jar
\* of the lease it is driven for.
Clean ==
  "session" \notin failed =>
    /\ late = {}
    /\ \A s \in Queued : jars[s] = {}
    /\ \A c \in Renders : pc[c] = "injecting" => jars[slot[c]] = {}
    /\ \A c \in leases : jars[slot[c]] \subseteq {c}
    /\ \A c \in Renders \ swept : seen[c] \subseteq {c}

IInv == PoolTyped /\ Distinct /\ Apart /\ Places /\ Clean

LEMMA InitIInv == Init => IInv
BY ConstantsAssumption
   DEF Init, IInv, PoolTyped, Distinct, Queued, Apart, Places, Clean, Holds, Busy

-----------------------------------------------------------------------------
(* The queue *)

\* A slot that is not in the queue goes in.
LEMMA Freed ==
  ASSUME free \in Seq(Slots), Distinct, NEW s \in Slots, s \notin Queued, Frees(s)
  PROVE  free' \in Seq(Slots) /\ Distinct' /\ Queued' = Queued \cup {s}
<1>1. /\ free' \in Seq(Slots)
      /\ Len(free') = Len(free) + 1
      /\ Len(free) \in Nat
      /\ \A i \in 1..Len(free) : free'[i] = free[i]
      /\ free'[Len(free) + 1] = s
  BY DEF Frees
<1>2. 1..Len(free') = (1..Len(free)) \cup {Len(free) + 1}
  BY <1>1
<1>3. \A i \in 1..Len(free) : free'[i] # s
  BY <1>1 DEF Queued
<1>4. Distinct'
  BY <1>1, <1>2, <1>3 DEF Distinct
<1>5. Queued' = Queued \cup {s}
  BY <1>1, <1>2 DEF Queued
<1>. QED BY <1>1, <1>4, <1>5

\* The first slot comes out.
LEMMA Taken ==
  ASSUME free \in Seq(Slots), Distinct, free # <<>>, free' = Tail(free)
  PROVE  /\ free' \in Seq(Slots) /\ Distinct'
         /\ Head(free) \in Queued /\ Head(free) \in Slots
         /\ Queued' = Queued \ {Head(free)}
<1>1. /\ free' \in Seq(Slots)
      /\ Len(free) \in Nat /\ Len(free) > 0
      /\ Len(free') = Len(free) - 1
      /\ \A i \in 1..Len(free') : free'[i] = free[i + 1]
      /\ Head(free) = free[1] /\ Head(free) \in Slots
  OBVIOUS
<1>2. Distinct'
  <2> SUFFICES ASSUME NEW i \in 1..Len(free'), NEW j \in 1..Len(free'), free'[i] = free'[j]
               PROVE  i = j
    BY DEF Distinct
  <2>1. i + 1 \in 1..Len(free) /\ j + 1 \in 1..Len(free) /\ free[i + 1] = free[j + 1]
    BY <1>1
  <2>. QED BY <1>1, <2>1 DEF Distinct
<1>3. 1 \in 1..Len(free) /\ Head(free) \in Queued
  BY <1>1 DEF Queued
<1>4. Queued' \subseteq Queued \ {Head(free)}
  <2> SUFFICES ASSUME NEW i \in 1..Len(free')
               PROVE  free'[i] \in Queued /\ free'[i] # Head(free)
    BY DEF Queued
  <2>1. i + 1 \in 1..Len(free) /\ i + 1 # 1 /\ free'[i] = free[i + 1]
    BY <1>1
  <2>. QED BY <1>1, <1>3, <2>1 DEF Queued, Distinct
<1>5. Queued \ {Head(free)} \subseteq Queued'
  <2> SUFFICES ASSUME NEW i \in 1..Len(free), free[i] # Head(free)
               PROVE  free[i] \in Queued'
    BY DEF Queued
  <2>1. i - 1 \in 1..Len(free') /\ free'[i - 1] = free[i]
    BY <1>1
  <2>. QED BY <2>1 DEF Queued
<1>. QED BY <1>1, <1>2, <1>3, <1>4, <1>5

\* What is in it are slots, which are numbers.
LEMMA QueuedSlots ==
  ASSUME free \in Seq(Slots)
  PROVE  \A s \in Queued : s \in Slots /\ s \in Nat
<1>1. \A i \in 1..Len(free) : free[i] \in Slots
  OBVIOUS
<1>2. \A s \in Slots : s \in Nat
  BY DEF Slots
<1>. QED BY <1>1, <1>2 DEF Queued

\* It stays as it is.
LEMMA Kept == UNCHANGED free => Queued' = Queued /\ Distinct' = Distinct
BY DEF Queued, Distinct

-----------------------------------------------------------------------------
(* Every step keeps the invariant *)

LEMMA NextIInv == IInv /\ [Next]_vars => IInv'
<1> SUFFICES ASSUME IInv, [Next]_vars PROVE IInv'
  OBVIOUS
<1> USE DEF IInv
<1>1. ASSUME NEW c \in Renders, Call(c) PROVE IInv'
  <2>1. UNCHANGED free /\ Queued' = Queued /\ Distinct'
    BY <1>1, Kept DEF Call, vars
  <2>2. PoolTyped'
    BY <1>1, <2>1 DEF Call, browsers, clients, Goes, PoolTyped, Places, Busy
  <2>3. Apart'
    BY <1>1, <2>1 DEF Call, browsers, clients, Goes, PoolTyped, Places, Apart, Holds, Busy
  <2>4. Places'
    BY <1>1, <2>1 DEF Call, browsers, clients, Goes, PoolTyped, Places, Holds, Busy
  <2>5. Clean'
    BY <1>1, <2>1 DEF Call, browsers, clients, failures, Goes, PoolTyped, Places, Apart, Holds, Busy, Clean
  <2>. QED BY <2>1, <2>2, <2>3, <2>4, <2>5
<1>2. ASSUME NEW c \in Renders, Take(c) PROVE IInv'
  <2>1. /\ free' \in Seq(Slots) /\ Distinct'
        /\ Head(free) \in Queued /\ Head(free) \in Slots
        /\ Queued' = Queued \ {Head(free)}
    BY <1>2, Taken DEF Take, PoolTyped
  <2>2. PoolTyped'
    BY <1>2, <2>1 DEF Take, Slots, browsers, clients, Goes, PoolTyped, Places, Busy
  <2>3. Apart'
    BY <1>2, <2>1 DEF Take, browsers, clients, Goes, PoolTyped, Places, Apart, Holds, Busy
  <2>4. Places'
    BY <1>2, <2>1, <2>2 DEF Take, browsers, clients, Goes, PoolTyped, Places, Holds, Busy
  <2>5. Clean'
    BY <1>2, <2>1 DEF Take, browsers, clients, failures, Goes, PoolTyped, Places, Apart, Holds, Busy, Clean
  <2>. QED BY <2>1, <2>2, <2>3, <2>4, <2>5
<1>3. ASSUME NEW c \in Renders, GivesUp(c) PROVE IInv'
  <2>1. UNCHANGED free /\ Queued' = Queued /\ Distinct'
    BY <1>3, Kept DEF GivesUp, vars
  <2>2. PoolTyped'
    BY <1>3, <2>1 DEF GivesUp, browsers, clients, Goes, PoolTyped, Places, Busy
  <2>3. Apart'
    BY <1>3, <2>1 DEF GivesUp, browsers, clients, Goes, PoolTyped, Places, Apart, Holds, Busy
  <2>4. Places'
    BY <1>3, <2>1 DEF GivesUp, browsers, clients, Goes, PoolTyped, Places, Holds, Busy
  <2>5. Clean'
    BY <1>3, <2>1 DEF GivesUp, browsers, clients, failures, Goes, PoolTyped, Places, Apart, Holds, Busy, Clean
  <2>. QED BY <2>1, <2>2, <2>3, <2>4, <2>5
<1>4. ASSUME NEW c \in Renders, Injected(c) PROVE IInv'
  <2>1. UNCHANGED free /\ Queued' = Queued /\ Distinct'
    BY <1>4, Kept DEF Injected, vars
  <2>2. PoolTyped'
    BY <1>4, <2>1 DEF Injected, browsers, clients, Goes, PoolTyped, Places, Busy
  <2>3. Apart'
    BY <1>4, <2>1 DEF Injected, browsers, clients, Goes, PoolTyped, Places, Apart, Holds, Busy
  <2>4. Places'
    BY <1>4, <2>1 DEF Injected, browsers, clients, Goes, PoolTyped, Places, Holds, Busy
  <2>5. Clean'
    BY <1>4, <2>1 DEF Injected, browsers, clients, failures, Goes, PoolTyped, Places, Apart, Holds, Busy, Clean
  <2>. QED BY <2>1, <2>2, <2>3, <2>4, <2>5
<1>5. ASSUME NEW c \in Renders, InjectionFails(c) PROVE IInv'
  <2>1. free' \in Seq(Slots) /\ Distinct' /\ Queued' = Queued \cup {slot[c]}
    <3>1. slot[c] \in Slots /\ slot[c] \notin Queued /\ Frees(slot[c])
      BY <1>5 DEF InjectionFails, Places, Apart, Holds, Busy
    <3>. QED BY <3>1, Freed DEF PoolTyped
  <2>2. PoolTyped'
    BY <1>5, <2>1 DEF InjectionFails, browsers, clients, Goes, PoolTyped, Places, Busy
  <2>3. Apart'
    BY <1>5, <2>1 DEF InjectionFails, browsers, clients, Goes, PoolTyped, Places, Apart, Holds, Busy
  <2>4. Places'
    BY <1>5, <2>1 DEF InjectionFails, browsers, clients, Goes, PoolTyped, Places, Holds, Busy
  <2>5. Clean'
    BY <1>5, <2>1 DEF InjectionFails, browsers, clients, failures, Goes, Faulty, PoolTyped, Places, Apart, Holds, Busy, Clean
  <2>. QED BY <2>1, <2>2, <2>3, <2>4, <2>5
<1>6. ASSUME NEW c \in Renders, Rendered(c) PROVE IInv'
  <2>1. UNCHANGED free /\ Queued' = Queued /\ Distinct'
    BY <1>6, Kept DEF Rendered, vars
  <2>2. PoolTyped'
    BY <1>6, <2>1 DEF Rendered, browsers, clients, Goes, Releases, PoolTyped, Places, Busy
  <2>3. Apart'
    BY <1>6, <2>1 DEF Rendered, browsers, clients, Goes, Releases, PoolTyped, Places, Apart, Holds, Busy
  <2>4. Places'
    BY <1>6, <2>1 DEF Rendered, browsers, clients, Goes, Releases, PoolTyped, Places, Holds, Busy
  <2>5. Clean'
    BY <1>6, <2>1 DEF Rendered, browsers, clients, failures, Goes, Releases, PoolTyped, Places, Apart, Holds, Busy, Clean
  <2>. QED BY <2>1, <2>2, <2>3, <2>4, <2>5
<1>7. ASSUME NEW c \in Renders, RenderFails(c) PROVE IInv'
  <2>1. UNCHANGED free /\ Queued' = Queued /\ Distinct'
    BY <1>7, Kept DEF RenderFails, vars
  <2>2. PoolTyped'
    BY <1>7, <2>1 DEF RenderFails, browsers, clients, Goes, Releases, PoolTyped, Places, Busy
  <2>3. Apart'
    BY <1>7, <2>1 DEF RenderFails, browsers, clients, Goes, Releases, PoolTyped, Places, Apart, Holds, Busy
  <2>4. Places'
    BY <1>7, <2>1 DEF RenderFails, browsers, clients, Goes, Releases, PoolTyped, Places, Holds, Busy
  <2>5. Clean'
    BY <1>7, <2>1 DEF RenderFails, browsers, clients, failures, Goes, Releases, Faulty, PoolTyped, Places, Apart, Holds, Busy, Clean
  <2>. QED BY <2>1, <2>2, <2>3, <2>4, <2>5
<1>8. ASSUME NEW c \in Renders, Reset(c) PROVE IInv'
  <2>1. free' \in Seq(Slots) /\ Distinct' /\ Queued' = Queued \cup {slot[c]}
    BY <1>8, Freed DEF Reset, PoolTyped, Places, Apart, Holds, Busy
  <2>2. PoolTyped'
    BY <1>8, <2>1 DEF Reset, browsers, clients, Goes, PoolTyped, Places, Busy
  <2>3. Apart'
    BY <1>8, <2>1 DEF Reset, browsers, clients, Goes, PoolTyped, Places, Apart, Holds, Busy
  <2>4. Places'
    BY <1>8, <2>1 DEF Reset, browsers, clients, Goes, PoolTyped, Places, Holds, Busy
  <2>5. Clean'
    BY <1>8, <2>1 DEF Reset, browsers, clients, failures, Goes, PoolTyped, Places, Apart, Holds, Busy, Clean
  <2>. QED BY <2>1, <2>2, <2>3, <2>4, <2>5
<1>9. ASSUME NEW c \in Renders, ResetFails(c) PROVE IInv'
  <2>1. UNCHANGED free /\ Queued' = Queued /\ Distinct'
    BY <1>9, Kept DEF ResetFails, vars
  <2>2. PoolTyped'
    BY <1>9, <2>1 DEF ResetFails, browsers, clients, Goes, PoolTyped, Places, Busy
  <2>3. Apart'
    BY <1>9, <2>1 DEF ResetFails, browsers, clients, Goes, PoolTyped, Places, Apart, Holds, Busy
  <2>4. Places'
    BY <1>9, <2>1 DEF ResetFails, browsers, clients, Goes, PoolTyped, Places, Holds, Busy
  <2>5. Clean'
    BY <1>9, <2>1 DEF ResetFails, browsers, clients, failures, Goes, Faulty, PoolTyped, Places, Apart, Holds, Busy, Clean
  <2>. QED BY <2>1, <2>2, <2>3, <2>4, <2>5
<1>10. ASSUME NEW c \in Renders, Sweep(c) PROVE IInv'
  <2>1. UNCHANGED free /\ Queued' = Queued /\ Distinct'
    BY <1>10, Kept DEF Sweep, vars
  <2>2. PoolTyped'
    BY <1>10, <2>1 DEF Sweep, browsers, clients, Goes, PoolTyped, Places, Busy
  <2>3. Apart'
    BY <1>10, <2>1 DEF Sweep, browsers, clients, Goes, PoolTyped, Places, Apart, Holds, Busy
  <2>4. Places'
    BY <1>10, <2>1 DEF Sweep, browsers, clients, Goes, PoolTyped, Places, Holds, Busy
  <2>5. Clean'
    BY <1>10, <2>1 DEF Sweep, browsers, clients, failures, Goes, PoolTyped, Places, Apart, Holds, Busy, Clean
  <2>. QED BY <2>1, <2>2, <2>3, <2>4, <2>5
<1>11. ASSUME NEW s \in Slots, SweepReset(s) PROVE IInv'
  <2>1. free' \in Seq(Slots) /\ Distinct' /\ Queued' = Queued \cup {s}
    BY <1>11, Freed DEF SweepReset, PoolTyped, Places, Apart, Holds, Busy
  <2>2. PoolTyped'
    BY <1>11, <2>1 DEF SweepReset, browsers, clients, Goes, PoolTyped, Places, Busy
  <2>3. Apart'
    BY <1>11, <2>1 DEF SweepReset, browsers, clients, Goes, PoolTyped, Places, Apart, Holds, Busy
  <2>4. Places'
    BY <1>11, <2>1 DEF SweepReset, browsers, clients, Goes, PoolTyped, Places, Holds, Busy
  <2>5. Clean'
    BY <1>11, <2>1 DEF SweepReset, browsers, clients, failures, Goes, PoolTyped, Places, Apart, Holds, Busy, Clean
  <2>. QED BY <2>1, <2>2, <2>3, <2>4, <2>5
<1>12. CASE SweepFails
  <2>1. UNCHANGED free /\ Queued' = Queued /\ Distinct'
    BY <1>12, Kept DEF SweepFails, vars
  <2>2. PoolTyped'
    BY <1>12, <2>1 DEF SweepFails, browsers, clients, Goes, PoolTyped, Places, Busy
  <2>3. Apart'
    BY <1>12, <2>1 DEF SweepFails, browsers, clients, Goes, PoolTyped, Places, Apart, Holds, Busy
  <2>4. Places'
    BY <1>12, <2>1 DEF SweepFails, browsers, clients, Goes, PoolTyped, Places, Holds, Busy
  <2>5. Clean'
    BY <1>12, <2>1 DEF SweepFails, browsers, clients, failures, Goes, Faulty, PoolTyped, Places, Apart, Holds, Busy, Clean
  <2>. QED BY <2>1, <2>2, <2>3, <2>4, <2>5
<1>13. ASSUME NEW c \in Renders, NEW s \in Slots, LateInjection(c, s) PROVE IInv'
  <2>1. UNCHANGED free /\ Queued' = Queued /\ Distinct'
    BY <1>13, Kept DEF LateInjection, vars
  <2>2. PoolTyped'
    BY <1>13, <2>1 DEF LateInjection, browsers, clients, Goes, PoolTyped, Places, Busy
  <2>3. Apart'
    BY <1>13, <2>1 DEF LateInjection, browsers, clients, Goes, PoolTyped, Places, Apart, Holds, Busy
  <2>4. Places'
    BY <1>13, <2>1 DEF LateInjection, browsers, clients, Goes, PoolTyped, Places, Holds, Busy
  <2>5. Clean'
    BY <1>13, <2>1 DEF LateInjection, browsers, clients, failures, Goes, PoolTyped, Places, Apart, Holds, Busy, Clean
  <2>. QED BY <2>1, <2>2, <2>3, <2>4, <2>5
<1>14. CASE Launch
  <2>1. UNCHANGED free /\ Queued' = Queued /\ Distinct'
    BY <1>14, Kept DEF Launch, vars
  <2>2. PoolTyped'
    BY <1>14, <2>1 DEF Launch, browsers, clients, Goes, PoolTyped, Places, Busy
  <2>3. Apart'
    BY <1>14, <2>1 DEF Launch, browsers, clients, Goes, PoolTyped, Places, Apart, Holds, Busy
  <2>4. Places'
    BY <1>14, <2>1 DEF Launch, browsers, clients, Goes, PoolTyped, Places, Holds, Busy
  <2>5. Clean'
    BY <1>14, <2>1 DEF Launch, browsers, clients, failures, Goes, PoolTyped, Places, Apart, Holds, Busy, Clean
  <2>. QED BY <2>1, <2>2, <2>3, <2>4, <2>5
<1>15. CASE Warm
  <2>s. warmed + 1 \in Slots /\ warmed + 1 \notin Queued
    BY <1>15, ConstantsAssumption DEF Warm, PoolTyped, Places, Slots
  <2>1. free' \in Seq(Slots) /\ Distinct' /\ Queued' = Queued \cup {warmed + 1}
    BY <1>15, <2>s, Freed DEF Warm, PoolTyped, Places, Apart, Holds, Busy
  <2>2. PoolTyped'
    BY <1>15, <2>s, <2>1 DEF Warm, browsers, clients, Goes, PoolTyped, Places, Busy
  <2>3. Apart'
    BY <1>15, <2>1 DEF Warm, browsers, clients, Goes, PoolTyped, Places, Apart, Holds, Busy
  <2>q. \A s \in Queued : s \in Nat
    BY QueuedSlots DEF PoolTyped
  <2>4. Places'
    BY <1>15, <2>q, <2>s, <2>1 DEF Warm, browsers, clients, Goes, PoolTyped, Places, Holds, Busy
  <2>5. Clean'
    BY <1>15, <2>s, <2>1 DEF Warm, browsers, clients, failures, Goes, PoolTyped, Places, Apart, Holds, Busy, Clean
  <2>. QED BY <2>1, <2>2, <2>3, <2>4, <2>5
<1>16. CASE WarmFails
  <2>1. UNCHANGED free /\ Queued' = Queued /\ Distinct'
    BY <1>16, Kept DEF WarmFails, vars
  <2>2. PoolTyped'
    BY <1>16, <2>1 DEF WarmFails, browsers, clients, Goes, PoolTyped, Places, Busy
  <2>3. Apart'
    BY <1>16, <2>1 DEF WarmFails, browsers, clients, Goes, PoolTyped, Places, Apart, Holds, Busy
  <2>4. Places'
    BY <1>16, <2>1 DEF WarmFails, browsers, clients, Goes, PoolTyped, Places, Holds, Busy
  <2>5. Clean'
    BY <1>16, <2>1 DEF WarmFails, browsers, clients, failures, Goes, Faulty, PoolTyped, Places, Apart, Holds, Busy, Clean
  <2>. QED BY <2>1, <2>2, <2>3, <2>4, <2>5
<1>17. CASE Started
  <2>1. UNCHANGED free /\ Queued' = Queued /\ Distinct'
    BY <1>17, Kept DEF Started, vars
  <2>2. PoolTyped'
    BY <1>17, <2>1 DEF Started, browsers, clients, Goes, PoolTyped, Places, Busy
  <2>3. Apart'
    BY <1>17, <2>1 DEF Started, browsers, clients, Goes, PoolTyped, Places, Apart, Holds, Busy
  <2>4. Places'
    BY <1>17, <2>1 DEF Started, browsers, clients, Goes, PoolTyped, Places, Holds, Busy
  <2>5. Clean'
    BY <1>17, <2>1 DEF Started, browsers, clients, failures, Goes, PoolTyped, Places, Apart, Holds, Busy, Clean
  <2>. QED BY <2>1, <2>2, <2>3, <2>4, <2>5
<1>18. CASE Ends
  <2>1. free' \in Seq(Slots) /\ Distinct' /\ Queued' = {}
    BY <1>18 DEF Ends, Distinct, Queued
  <2>2. PoolTyped'
    BY <1>18, <2>1 DEF Ends, browsers, clients, Goes, PoolTyped, Places, Busy
  <2>3. Apart'
    BY <1>18, <2>1 DEF Ends, browsers, clients, Goes, PoolTyped, Places, Apart, Holds, Busy
  <2>4. Places'
    BY <1>18, <2>1 DEF Ends, browsers, clients, Goes, PoolTyped, Places, Holds, Busy
  <2>5. Clean'
    BY <1>18, <2>1 DEF Ends, browsers, clients, failures, Goes, PoolTyped, Places, Apart, Holds, Busy, Clean
  <2>. QED BY <2>1, <2>2, <2>3, <2>4, <2>5
<1>19. CASE UNCHANGED vars
  <2>1. UNCHANGED free /\ Queued' = Queued /\ Distinct'
    BY <1>19, Kept DEF vars
  <2>2. PoolTyped'
    BY <1>19, <2>1 DEF vars, browsers, clients, Goes, PoolTyped, Places, Busy
  <2>3. Apart'
    BY <1>19, <2>1 DEF vars, browsers, clients, Goes, PoolTyped, Places, Apart, Holds, Busy
  <2>4. Places'
    BY <1>19, <2>1 DEF vars, browsers, clients, Goes, PoolTyped, Places, Holds, Busy
  <2>5. Clean'
    BY <1>19, <2>1 DEF vars, browsers, clients, failures, Goes, PoolTyped, Places, Apart, Holds, Busy, Clean
  <2>. QED BY <2>1, <2>2, <2>3, <2>4, <2>5
<1>. QED BY <1>1, <1>2, <1>3, <1>4, <1>5, <1>6, <1>7, <1>8, <1>9, <1>10, <1>11, <1>12, <1>13, <1>14, <1>15, <1>16, <1>17, <1>18, <1>19 DEF Next, Proceeds

-----------------------------------------------------------------------------
(* The theorems *)

\* The invariant holds for every pool, whoever fails, is swept or restarted.
THEOREM Safety == Spec => []IInv
<1>. QED BY InitIInv, NextIInv, PTL DEF Spec

\* The variables that the invariant above says nothing of keep their types.
LEMMA NextTypeOK == IInv /\ IInv' /\ TypeOK /\ [Next]_vars => TypeOK'
<1>. SUFFICES ASSUME IInv, IInv', TypeOK, [Next]_vars PROVE TypeOK'
  OBVIOUS
<1>1. /\ free' \in Seq(Slots)
      /\ jars' \in [Slots -> SUBSET Renders]
      /\ pc' \in [Renders -> {"new", "waiting", "injecting", "driving", "resetting", "ended"}]
      /\ slot' \in [Renders -> Nat]
      /\ leases' \subseteq Renders
      /\ sweeping' \subseteq Slots
      /\ seen' \in [Renders -> SUBSET Renders]
  BY DEF IInv, PoolTyped, Busy
<1>2. phase' \in {"down", "starting", "up", "failed"}
  BY DEF TypeOK, Next, Proceeds, vars, Call, Take, GivesUp, Injected, InjectionFails, Rendered,
         RenderFails, Reset, ResetFails, Sweep, SweepReset, SweepFails, LateInjection, Launch,
         Warm, WarmFails, Started, Ends
<1>3. warmed' \in 0..Size
  <2>1. CASE Warm
    BY <2>1, ConstantsAssumption DEF TypeOK, Warm
  <2>2. CASE Ends
    BY <2>2, ConstantsAssumption DEF Ends
  <2>3. CASE ~Warm /\ ~Ends
    <3>1. warmed' = warmed
      BY <2>3
      DEF Next, Proceeds, vars, Call, Take, GivesUp, Injected, InjectionFails, Rendered, RenderFails,
          Reset, ResetFails, Sweep, SweepReset, SweepFails, LateInjection, Launch, WarmFails, Started
    <3>. QED BY <3>1 DEF TypeOK
  <2>. QED BY <2>1, <2>2, <2>3
<1>4. late' \subseteq Renders \X Slots
  <2>1. ASSUME NEW c \in Renders, InjectionFails(c)
        PROVE  late' \subseteq Renders \X Slots
    BY <2>1 DEF TypeOK, IInv, Places, Busy, InjectionFails
  <2>2. ASSUME ~\E c \in Renders : InjectionFails(c)
        PROVE  late' \subseteq late
    BY <2>2
    DEF Next, Proceeds, vars, browsers, clients, Call, Take, GivesUp, Injected, Rendered,
        RenderFails, Reset, ResetFails, Sweep, SweepReset, SweepFails, LateInjection, Launch,
        Warm, WarmFails, Started, Ends
  <2>. QED BY <2>1, <2>2 DEF TypeOK
<1>5. swept' \subseteq Renders
  BY DEF TypeOK, IInv, PoolTyped, Next, Proceeds, vars, Call, Take, GivesUp, Injected, InjectionFails,
         Rendered, RenderFails, Reset, ResetFails, Sweep, SweepReset, SweepFails, LateInjection,
         Launch, Warm, WarmFails, Started, Ends
<1>6. failed' \subseteq {"health", "session", "render", "reset"} /\ faults' \in Nat
  <2>1. ASSUME NEW kind \in {"health", "session", "render", "reset"}, Faulty(kind)
        PROVE  failed' \subseteq {"health", "session", "render", "reset"} /\ faults' \in Nat
    BY <2>1 DEF TypeOK, Faulty
  <2>2. CASE Ends
    BY <2>2 DEF TypeOK, Ends
  <2>3. CASE failures' = failures
    BY <2>3 DEF TypeOK, failures
  <2>4. \/ failures' = failures
        \/ Ends
        \/ \E kind \in {"health", "session", "render", "reset"} : Faulty(kind)
    BY DEF Next, Proceeds, vars, Call, Take, GivesUp, Injected, InjectionFails, Rendered, RenderFails,
           Reset, ResetFails, Sweep, SweepReset, SweepFails, LateInjection, Launch, Warm, WarmFails,
           Started
  <2>. QED BY <2>1, <2>2, <2>3, <2>4
<1>. QED BY <1>1, <1>2, <1>3, <1>4, <1>5, <1>6 DEF TypeOK

\* Every slot, lease, jar and late injection is one of the pool's, through failures,
\* sweeps and restarts (browser_pool.py:59-101).
THEOREM TypeCorrect == Spec => []TypeOK
<1>1. Init => TypeOK
  BY ConstantsAssumption DEF Init, TypeOK
<1>. QED BY <1>1, Safety, NextTypeOK, PTL DEF Spec

\* A browser is in one pair of hands at a time, and not free meanwhile, whoever
\* fails, is swept or restarted (browser_pool.py:192-207).
THEOREM OneHolderHolds == Spec => []OneHolder
<1>1. IInv => OneHolder
  BY DEF IInv, Apart, Distinct, Queued, OneHolder
<1>. QED BY <1>1, Safety, PTL

\* Where no injection has failed, a free browser holds no jar (browser_pool.py:196-207).
THEOREM FreeIsCleanHolds == Spec => []FreeIsClean
<1>1. IInv => FreeIsClean
  BY DEF IInv, Clean, Queued, FreeIsClean
<1>. QED BY <1>1, Safety, PTL

\* Where no injection has failed, a render whose lease the sweeper left alone saw its own
\* session only (browser_pool.py:72-79).
THEOREM SeesOwnSessionHolds == Spec => []SeesOwnSession
<1>1. IInv => SeesOwnSession
  BY DEF IInv, Clean, SeesOwnSession
<1>. QED BY <1>1, Safety, PTL
=============================================================================
