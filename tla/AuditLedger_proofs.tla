------------------------- MODULE AuditLedger_proofs -------------------------
(* Safety of the audit ledger for every set of projects and contents and     *)
(* every bound.  The inductive invariant joins what each phase of the boot   *)
(* has established (BootInv) with what RTMR3 covers so far (CoverInv).       *)
EXTENDS AuditLedger, SequenceTheorems, TLAPS

-----------------------------------------------------------------------------
(* What appending does to a chain *)

\* The hash of an entry is the sequence of the contents up to it.
LEMMA HashOfEntry ==
  ASSUME NEW f \in Seq(Entry), NEW i \in 0..Len(f)
  PROVE  /\ EntryHash(f, i) \in Hashes
         /\ Len(EntryHash(f, i)) = i
         /\ \A j \in 1..i : EntryHash(f, i)[j] = f[j].content
<1>1. i \in Nat /\ \A j \in 1..i : f[j] \in Entry
  OBVIOUS
<1>2. EntryHash(f, i) \in [1..i -> Contents]
  BY <1>1 DEF EntryHash, Entry
<1>3. EntryHash(f, i) \in Hashes
  BY <1>1, <1>2, SeqDef DEF Hashes
<1>4. \A j \in 1..i : EntryHash(f, i)[j] = f[j].content
  BY DEF EntryHash
<1>5. DOMAIN EntryHash(f, i) = 1..i
  BY DEF EntryHash
<1>6. DOMAIN EntryHash(f, i) = 1..Len(EntryHash(f, i)) /\ Len(EntryHash(f, i)) \in Nat
  BY <1>3, LenProperties DEF Hashes
<1>7. Len(EntryHash(f, i)) = i
  BY <1>1, <1>5, <1>6
<1>. QED BY <1>3, <1>4, <1>7

\* Appending the entry _save_entry builds leaves the hashes of the entries
\* before it alone and gives the new one the hash it carries (audit.py:97-98).
LEMMA AppendHashes ==
  ASSUME NEW f \in Seq(Entry), NEW c \in Contents
  PROVE  /\ Append(f, NextEntry(f, c)) \in Seq(Entry)
         /\ Len(Append(f, NextEntry(f, c))) = Len(f) + 1
         /\ NextEntry(f, c).hash \in Hashes
         /\ \A i \in 0..Len(f) :
              EntryHash(Append(f, NextEntry(f, c)), i) = EntryHash(f, i)
         /\ EntryHash(Append(f, NextEntry(f, c)), Len(f) + 1) = NextEntry(f, c).hash
<1> DEFINE e == NextEntry(f, c)
           g == Append(f, e)
           n == Len(f)
<1>1. n \in Nat /\ \A i \in 1..n : f[i] \in Entry
  OBVIOUS
<1>2. EntryHash(f, n) \in Hashes /\ Len(EntryHash(f, n)) = n
  BY <1>1, HashOfEntry
<1>3. /\ e.hash = Append(EntryHash(f, n), c)
      /\ e.content = c
      /\ e.hash \in Hashes
      /\ e \in Entry
  BY <1>2 DEF NextEntry, Entry, Hashes
<1>4. g \in Seq(Entry) /\ Len(g) = n + 1 /\ g[n + 1] = e /\ \A i \in 1..n : g[i] = f[i]
  BY <1>1, <1>3
<1>5. \A i \in 0..n : EntryHash(g, i) = EntryHash(f, i)
  BY <1>4 DEF EntryHash
<1>6. EntryHash(g, n + 1) = e.hash
  <2>1. /\ EntryHash(g, n + 1) \in Hashes
        /\ Len(EntryHash(g, n + 1)) = n + 1
        /\ \A j \in 1..n + 1 : EntryHash(g, n + 1)[j] = g[j].content
    <3> HIDE DEF g
    <3>. QED BY <1>1, <1>4, HashOfEntry
  <2>2. Len(e.hash) = n + 1 /\ e.hash[n + 1] = c
    BY <1>1, <1>2, <1>3 DEF Hashes
  <2>3. \A j \in 1..n : e.hash[j] = f[j].content
    <3>1. \A j \in 1..n : EntryHash(f, n)[j] = f[j].content
      BY <1>1, HashOfEntry
    <3> HIDE DEF e, g
    <3>. QED BY <1>1, <1>2, <1>3, <3>1 DEF Hashes
  <2> HIDE DEF e, g
  <2>4. \A j \in 1..n + 1 : EntryHash(g, n + 1)[j] = e.hash[j]
    BY <1>1, <1>3, <1>4, <2>1, <2>2, <2>3
  <2>. QED BY <1>3, <2>1, <2>2, <2>4, SeqEqual DEF Hashes
<1>. QED BY <1>3, <1>4, <1>5, <1>6

\* A chain that checks still checks with the new entry, and the new head names it.
LEMMA AppendKeepsChain ==
  ASSUME NEW f \in Seq(Entry), NEW c \in Contents, ChainOK(f)
  PROVE  /\ ChainOK(Append(f, NextEntry(f, c)))
         /\ HeadOK(Append(f, NextEntry(f, c)), {NextEntry(f, c).hash})
<1> DEFINE e == NextEntry(f, c)
           g == Append(f, e)
           n == Len(f)
<1>1. /\ g \in Seq(Entry) /\ Len(g) = n + 1 /\ n \in Nat
      /\ \A i \in 0..n : EntryHash(g, i) = EntryHash(f, i)
      /\ EntryHash(g, n + 1) = e.hash
  BY AppendHashes
<1>2. g[n + 1] = e /\ \A i \in 1..n : g[i] = f[i]
  OBVIOUS
<1>3. e.prev = EntryHash(f, n)
  BY DEF NextEntry
<1> HIDE DEF e, g
<1>4. ASSUME NEW i \in 1..n + 1
      PROVE  \/ Adopted(g, i)
             \/ g[i].prev = EntryHash(g, i - 1) /\ g[i].hash = EntryHash(g, i)
  <2>1. CASE i = n + 1
    <3>1. i - 1 = n /\ n \in 0..n
      BY <2>1, <1>1
    <3>. QED BY <2>1, <3>1, <1>1, <1>2, <1>3
  <2>2. CASE i \in 1..n
    <3>1. \/ Adopted(f, i)
          \/ f[i].prev = EntryHash(f, i - 1) /\ f[i].hash = EntryHash(f, i)
      BY <2>2 DEF ChainOK
    <3>2. Adopted(f, i) => Adopted(g, i)
      BY <2>2, <1>1, <1>2 DEF Adopted
    <3>3. i - 1 \in 0..n /\ i \in 0..n
      BY <2>2, <1>1
    <3>. QED BY <2>2, <3>1, <3>2, <3>3, <1>1, <1>2
  <2>. QED BY <2>1, <2>2, <1>1
<1>5. ChainOK(g)
  BY <1>1, <1>4 DEF ChainOK
<1>6. HeadOK(g, {e.hash})
  BY <1>1 DEF HeadOK
<1>. QED BY <1>5, <1>6 DEF e, g

-----------------------------------------------------------------------------
(* Types *)

LEMMA EventsTyped ==
  ASSUME TypeOK, NEW p \in Projects
  PROVE  EventsOf(p) \subseteq Events
<1>1. file[p] \in Seq(Entry)
  BY DEF TypeOK
<1>2. \A i \in 1..Len(file[p]) : EntryHash(file[p], i) \in Hashes
  BY <1>1, HashOfEntry
<1>. QED BY <1>2 DEF EventsOf, Event, Events

LEMMA InitType == Init => TypeOK
<1> SUFFICES ASSUME Init PROVE TypeOK
  OBVIOUS
<1>1. NoHash \in Hashes
  BY DEF NoHash, Hashes
<1>2. \A c \in Contents : Legacy(c) \in Entry
  BY <1>1 DEF Legacy, Entry
<1>3. LegacyLedgers \subseteq Seq(Entry)
  BY <1>2, BoundsAssumption DEF LegacyLedgers
<1>. QED BY <1>3 DEF Init, TypeOK, Events

LEMMA NextType == TypeOK /\ [Next]_vars => TypeOK'
<1> SUFFICES ASSUME TypeOK, [Next]_vars PROVE TypeOK'
  OBVIOUS
<1> USE DEF TypeOK
<1>1. ASSUME NEW p \in Projects, NEW c \in Contents, Record(p, c)
      PROVE  TypeOK'
  <2>1. file[p] \in Seq(Entry)
    OBVIOUS
  <2>2. /\ Append(file[p], NextEntry(file[p], c)) \in Seq(Entry)
        /\ NextEntry(file[p], c).hash \in Hashes
    BY <2>1, AppendHashes
  <2>. QED BY <1>1, <2>2 DEF Record, boot, Events
<1>2. ASSUME NEW ev \in inflight, EmitDone(ev) PROVE TypeOK'
  BY <1>2 DEF EmitDone, ledgers, boot
<1>3. ASSUME NEW ev \in inflight, EmitFails(ev) PROVE TypeOK'
  BY <1>3 DEF EmitFails, ledgers, boot
<1>4. ASSUME Boot PROVE TypeOK'
  BY <1>4 DEF Boot, ledgers, anchors
<1>5. ASSUME NEW p \in Projects, ReplayLoad(p) PROVE TypeOK'
  BY <1>5, EventsTyped DEF ReplayLoad, ledgers, anchors
<1>6. ASSUME NEW ev \in batch, ReplayEmit(ev) PROVE TypeOK'
  BY <1>6 DEF ReplayEmit, ledgers
<1>7. ASSUME ReplayDone PROVE TypeOK'
  BY <1>7 DEF ReplayDone, ledgers, anchors
<1>8. ASSUME NEW p \in Projects, ReplayRaises(p) PROVE TypeOK'
  BY <1>8 DEF ReplayRaises, Ends, ledgers
<1>9. ASSUME ReplayEmitFails PROVE TypeOK'
  <2>1. faults' \in Nat
    BY <1>9 DEF ReplayEmitFails
  <2>. QED BY <1>9, <2>1 DEF ReplayEmitFails, Ends, ledgers
<1>10. ASSUME Crash PROVE TypeOK'
  <2>1. faults' \in Nat
    BY <1>10 DEF Crash
  <2>2. rtmr' \subseteq Events
    BY <1>10 DEF Crash
  <2>. QED BY <1>10, <2>1, <2>2 DEF Crash, Ends, ledgers
<1>11. ASSUME NEW p \in Projects, NEW c \in Contents, CrashInSave(p, c)
       PROVE  TypeOK'
  <2>1. file[p] \in Seq(Entry) /\ NoHash \in Hashes
    BY DEF NoHash, Hashes
  <2>2. Append(file[p], NextEntry(file[p], c)) \in Seq(Entry)
    BY <2>1, AppendHashes
  <2>3. faults' \in Nat /\ rtmr' \subseteq Events
    BY <1>11 DEF CrashInSave
  <2>4. file' \in [Projects -> Seq(Entry)]
    BY <1>11, <2>2 DEF CrashInSave
  <2>5. head' \in [Projects -> SUBSET Hashes] /\ torn' \in [Projects -> BOOLEAN]
    BY <1>11, <2>1 DEF CrashInSave
  <2>. QED BY <1>11, <2>3, <2>4, <2>5 DEF CrashInSave, Ends
<1>12. CASE UNCHANGED vars
  BY <1>12 DEF vars, ledgers, boot, anchors
<1>. QED
  BY <1>1, <1>2, <1>3, <1>4, <1>5, <1>6, <1>7, <1>8, <1>9, <1>10, <1>11, <1>12
  DEF Next, Replay

\* Type correctness of the ledger, its boot and its anchors.
THEOREM TypeCorrect == Spec => []TypeOK
BY InitType, NextType, PTL DEF Spec

-----------------------------------------------------------------------------
(* The inductive invariant *)

\* A head file exists only beside a ledger with entries.
HeadInv == \A p \in Projects : file[p] = <<>> => head[p] = {}

\* What the boot has checked: the ledgers it is past, then all of them.
BootInv ==
  /\ phase = "replaying" => dstack /\ \A p \in Projects \ todo : Loads(p)
  /\ phase = "up" /\ dstack => \A p \in Projects : Loads(p)

\* What the boot has measured: the ledgers it is past but for the current batch,
\* then all of them; entries recorded meanwhile have calls of their own.
CoverInv ==
  /\ phase = "replaying" =>
       \A p \in Projects \ todo : EventsOf(p) \subseteq rtmr \cup inflight \cup refused \cup batch
  /\ replayed =>
       /\ dstack /\ phase = "up"
       /\ \A p \in Projects : EventsOf(p) \subseteq rtmr \cup inflight \cup refused

\* Events measured or about to be are those of entries on disk.
MeasuredInv ==
  \A ev \in rtmr \cup inflight \cup batch : ev[1] \in Projects /\ ev \in EventsOf(ev[1])

IInv == TypeOK /\ HeadInv /\ BootInv /\ CoverInv /\ MeasuredInv

-----------------------------------------------------------------------------
(* How the parts fare under each kind of step *)

\* A new entry adds its own event to its project and changes no other's.
LEMMA AppendEvents ==
  ASSUME TypeOK, NEW p \in Projects, NEW c \in Contents,
         file' = [file EXCEPT ![p] = Append(@, NextEntry(@, c))]
  PROVE  \A q \in Projects :
           EventsOf(q)' = IF q = p THEN EventsOf(p) \cup {<<p, NextEntry(file[p], c).hash>>}
                                   ELSE EventsOf(q)
<1> DEFINE f == file[p]
           e == NextEntry(f, c)
           g == Append(f, e)
<1>1. f \in Seq(Entry) /\ Len(f) \in Nat
  BY DEF TypeOK
<1>2. /\ Len(g) = Len(f) + 1
      /\ \A i \in 0..Len(f) : EntryHash(g, i) = EntryHash(f, i)
      /\ EntryHash(g, Len(f) + 1) = e.hash
  BY <1>1, AppendHashes
<1>3. file'[p] = g /\ \A q \in Projects : q # p => file'[q] = file[q]
  BY DEF TypeOK
<1> HIDE DEF e, g
<1>4. EventsOf(p)' = EventsOf(p) \cup {<<p, e.hash>>}
  <2>1. EventsOf(p)' = {<<p, EntryHash(g, i)>> : i \in 1..Len(f) + 1}
    BY <1>2, <1>3 DEF EventsOf, Event
  <2>2. EventsOf(p) = {<<p, EntryHash(f, i)>> : i \in 1..Len(f)}
    BY DEF EventsOf, Event
  <2>3. \A i \in 1..Len(f) + 1 : i = Len(f) + 1 \/ i \in 1..Len(f)
    BY <1>1
  <2>4. 1..Len(f) \subseteq 1..Len(f) + 1 /\ Len(f) + 1 \in 1..Len(f) + 1
        /\ 1..Len(f) \subseteq 0..Len(f)
    BY <1>1
  <2> HIDE DEF f
  <2>. QED BY <1>2, <2>1, <2>2, <2>3, <2>4
<1>5. \A q \in Projects : q # p => EventsOf(q)' = EventsOf(q)
  BY <1>3 DEF EventsOf, Event
<1>. QED BY <1>4, <1>5 DEF e

\* Steps that leave the ledger files alone leave what is read from them alone.
LEMMA SameFiles ==
  ASSUME UNCHANGED ledgers, NEW p
  PROVE  (Loads(p)' <=> Loads(p)) /\ EventsOf(p)' = EventsOf(p)
BY DEF ledgers, Loads, EventsOf, Event

\* A ledger without entries loads unless a crash tore its first line.
LEMMA EmptyLoads ==
  ASSUME TypeOK, HeadInv, NEW p \in Projects, file[p] = <<>>, ~torn[p]
  PROVE  Loads(p) /\ EventsOf(p) = {}
BY DEF TypeOK, HeadInv, Loads, ChainOK, HeadOK, EventsOf

\* record() on a ledger that loads leaves a ledger that loads.
LEMMA RecordLoads ==
  ASSUME TypeOK, NEW p \in Projects, NEW c \in Contents, Record(p, c)
  PROVE  /\ Loads(p)'
         /\ \A q \in Projects : q # p => (Loads(q)' <=> Loads(q))
<1>1. file[p] \in Seq(Entry) /\ ChainOK(file[p]) /\ ~torn[p]
  BY DEF Record, Loads, TypeOK
<1>2. /\ file'[p] = Append(file[p], NextEntry(file[p], c))
      /\ head'[p] = {NextEntry(file[p], c).hash}
      /\ torn' = torn
      /\ \A q \in Projects : q # p => file'[q] = file[q] /\ head'[q] = head[q]
  BY DEF Record, TypeOK
<1>3. Loads(p)'
  BY <1>1, <1>2, AppendKeepsChain DEF Loads
<1>. QED BY <1>2, <1>3 DEF Loads

-----------------------------------------------------------------------------
(* The invariant is inductive *)

LEMMA InitIInv == Init => IInv
<1> SUFFICES ASSUME Init PROVE IInv
  OBVIOUS
<1>1. TypeOK
  BY InitType
<1>2. HeadInv /\ BootInv /\ CoverInv /\ MeasuredInv
  BY DEF Init, HeadInv, BootInv, CoverInv, MeasuredInv
<1>. QED BY <1>1, <1>2 DEF IInv

LEMMA RecordIInv ==
  ASSUME IInv, NEW p \in Projects, NEW c \in Contents, Record(p, c)
  PROVE  HeadInv' /\ BootInv' /\ CoverInv' /\ MeasuredInv'
<1> DEFINE ev == <<p, NextEntry(file[p], c).hash>>
<1> USE DEF IInv
<1>1. \A q \in Projects :
        EventsOf(q)' = IF q = p THEN EventsOf(p) \cup {ev} ELSE EventsOf(q)
  BY AppendEvents DEF Record
<1>2. inflight' = IF dstack THEN inflight \cup {ev} ELSE inflight
  BY DEF Record
<1>3. UNCHANGED <<phase, dstack, todo, batch, replayed, rtmr, refused>>
  BY DEF Record, boot
<1>4. Loads(p)' /\ \A q \in Projects : q # p => (Loads(q)' <=> Loads(q))
  BY RecordLoads
<1> HIDE DEF ev
<1>5. HeadInv'
  <2>1. file'[p] # <<>>
    <3>1. file[p] \in Seq(Entry)
      BY DEF TypeOK
    <3>2. Len(Append(file[p], NextEntry(file[p], c))) = Len(file[p]) + 1 /\ Len(file[p]) \in Nat
      BY <3>1, AppendHashes
    <3>. QED BY <3>2 DEF Record, TypeOK
  <2>. QED BY <2>1 DEF HeadInv, Record, TypeOK
<1>6. BootInv'
  BY <1>3, <1>4 DEF BootInv
<1>7. CoverInv'
  <2>1. phase = "replaying" \/ replayed => inflight' = inflight \cup {ev}
    BY <1>2 DEF BootInv, CoverInv
  <2>. QED BY <1>1, <1>2, <1>3, <2>1 DEF CoverInv
<1>8. MeasuredInv'
  <2>1. ev[1] = p /\ ev \in EventsOf(p)'
    BY <1>1 DEF ev
  <2>. QED BY <1>1, <1>2, <1>3, <2>1 DEF MeasuredInv
<1>. QED BY <1>5, <1>6, <1>7, <1>8

\* A crash in a save keeps the old entries, so nothing measured is lost.
LEMMA CrashInSaveIInv ==
  ASSUME IInv, NEW p \in Projects, NEW c \in Contents, CrashInSave(p, c)
  PROVE  HeadInv' /\ BootInv' /\ CoverInv' /\ MeasuredInv'
<1> USE DEF IInv
<1>1. phase' = "down" /\ batch' = {} /\ inflight' = {} /\ replayed' = FALSE /\ rtmr' \subseteq rtmr
  BY DEF CrashInSave, Ends
<1>2. BootInv' /\ CoverInv'
  BY <1>1 DEF BootInv, CoverInv
<1>3. CASE file' = file /\ head' = head
  <2>1. \A q \in Projects : EventsOf(q)' = EventsOf(q)
    BY <1>3 DEF EventsOf, Event
  <2>. QED BY <1>1, <1>2, <1>3, <2>1 DEF HeadInv, MeasuredInv
<1>4. CASE /\ file' = [file EXCEPT ![p] = Append(@, NextEntry(@, c))]
           /\ head' \in {head, [head EXCEPT ![p] = {NoHash}]}
  <2>1. \A q \in Projects : EventsOf(q) \subseteq EventsOf(q)'
    BY <1>4, AppendEvents
  <2>2. file'[p] # <<>>
    <3>1. file[p] \in Seq(Entry)
      BY DEF TypeOK
    <3>2. Len(Append(file[p], NextEntry(file[p], c))) = Len(file[p]) + 1 /\ Len(file[p]) \in Nat
      BY <3>1, AppendHashes
    <3>. QED BY <1>4, <3>2 DEF TypeOK
  <2>3. \A q \in Projects : q # p => file'[q] = file[q] /\ head'[q] = head[q]
    BY <1>4 DEF TypeOK
  <2>4. HeadInv'
    BY <2>2, <2>3 DEF HeadInv
  <2>5. MeasuredInv'
    BY <1>1, <2>1 DEF MeasuredInv
  <2>. QED BY <1>2, <2>4, <2>5
<1>. QED BY <1>3, <1>4 DEF CrashInSave

LEMMA NextIInv == IInv /\ [Next]_vars => IInv'
<1> SUFFICES ASSUME IInv, [Next]_vars PROVE HeadInv' /\ BootInv' /\ CoverInv' /\ MeasuredInv'
  BY NextType DEF IInv
<1> USE DEF IInv
<1>1. ASSUME NEW p \in Projects, NEW c \in Contents, Record(p, c)
      PROVE  HeadInv' /\ BootInv' /\ CoverInv' /\ MeasuredInv'
  BY <1>1, RecordIInv
<1>2. ASSUME NEW ev \in inflight, EmitDone(ev)
      PROVE  HeadInv' /\ BootInv' /\ CoverInv' /\ MeasuredInv'
  BY <1>2, SameFiles DEF EmitDone, ledgers, boot, HeadInv, BootInv, CoverInv, MeasuredInv
<1>3. ASSUME NEW ev \in inflight, EmitFails(ev)
      PROVE  HeadInv' /\ BootInv' /\ CoverInv' /\ MeasuredInv'
  BY <1>3, SameFiles DEF EmitFails, ledgers, boot, HeadInv, BootInv, CoverInv, MeasuredInv
<1>4. ASSUME Boot PROVE HeadInv' /\ BootInv' /\ CoverInv' /\ MeasuredInv'
  <2>1. UNCHANGED ledgers /\ batch' = {} /\ replayed' = FALSE /\ UNCHANGED <<rtmr, inflight>>
    BY <1>4 DEF Boot, anchors
  <2>2. phase' = "replaying" => /\ dstack'
                                /\ \A p \in Projects \ todo' : file[p] = <<>> /\ ~torn[p]
    BY <1>4 DEF Boot
  <2>3. phase' = "up" => ~dstack'
    BY <1>4 DEF Boot
  <2>4. phase' = "replaying" =>
          \A p \in Projects \ todo' : Loads(p)' /\ EventsOf(p)' = {}
    BY <2>1, <2>2, SameFiles, EmptyLoads
  <2>5. HeadInv' /\ MeasuredInv'
    BY <2>1, SameFiles DEF HeadInv, MeasuredInv, ledgers
  <2>6. BootInv' /\ CoverInv'
    BY <2>1, <2>2, <2>3, <2>4 DEF BootInv, CoverInv
  <2>. QED BY <2>5, <2>6
<1>5. ASSUME NEW p \in Projects, ReplayLoad(p)
      PROVE  HeadInv' /\ BootInv' /\ CoverInv' /\ MeasuredInv'
  <2>1. \A ev \in EventsOf(p) : ev[1] = p
    BY DEF EventsOf, Event
  <2>2. /\ UNCHANGED <<ledgers, phase, dstack, replayed, anchors>>
        /\ Loads(p) /\ todo' = todo \ {p} /\ batch = {} /\ batch' = EventsOf(p)
        /\ phase = "replaying"
    BY <1>5 DEF ReplayLoad
  <2>3. HeadInv' /\ MeasuredInv'
    BY <2>1, <2>2, SameFiles DEF HeadInv, MeasuredInv, ledgers, anchors
  <2>4. BootInv' /\ CoverInv'
    BY <2>2, SameFiles DEF BootInv, CoverInv, anchors
  <2>. QED BY <2>3, <2>4
<1>6. ASSUME NEW ev \in batch, ReplayEmit(ev)
      PROVE  HeadInv' /\ BootInv' /\ CoverInv' /\ MeasuredInv'
  BY <1>6, SameFiles DEF ReplayEmit, ledgers, HeadInv, BootInv, CoverInv, MeasuredInv
<1>7. ASSUME ReplayDone PROVE HeadInv' /\ BootInv' /\ CoverInv' /\ MeasuredInv'
  <2>1. /\ UNCHANGED <<ledgers, dstack, todo, batch, inflight, rtmr, refused>>
        /\ phase = "replaying" /\ batch = {} /\ todo = {}
        /\ phase' = "up" /\ replayed' = TRUE
    BY <1>7 DEF ReplayDone, anchors
  <2>2. HeadInv' /\ MeasuredInv'
    BY <2>1, SameFiles DEF ledgers, HeadInv, MeasuredInv
  <2>3. BootInv'
    BY <2>1, SameFiles DEF BootInv
  <2>4. CoverInv'
    <3>1. \A p \in Projects : EventsOf(p) \subseteq rtmr \cup inflight \cup refused
      BY <2>1 DEF CoverInv
    <3>2. dstack' /\ phase' = "up"
      BY <2>1 DEF BootInv
    <3>. QED BY <2>1, <3>1, <3>2, SameFiles DEF CoverInv
  <2>. QED BY <2>2, <2>3, <2>4
<1>8. ASSUME UNCHANGED ledgers, Ends, rtmr' \subseteq rtmr
      PROVE  HeadInv' /\ BootInv' /\ CoverInv' /\ MeasuredInv'
  BY <1>8, SameFiles DEF Ends, ledgers, HeadInv, BootInv, CoverInv, MeasuredInv
<1>9. ASSUME NEW p \in Projects, NEW c \in Contents, CrashInSave(p, c)
      PROVE  HeadInv' /\ BootInv' /\ CoverInv' /\ MeasuredInv'
  BY <1>9, CrashInSaveIInv
<1>10. CASE UNCHANGED vars
  BY <1>10, SameFiles
  DEF vars, ledgers, boot, anchors, HeadInv, BootInv, CoverInv, MeasuredInv
<1>11. (\E p \in Projects : ReplayRaises(p)) \/ ReplayEmitFails \/ Crash =>
          UNCHANGED ledgers /\ Ends /\ rtmr' \subseteq rtmr
  BY DEF ReplayRaises, ReplayEmitFails, Crash
<1>. QED
  BY <1>1, <1>2, <1>3, <1>4, <1>5, <1>6, <1>7, <1>8, <1>9, <1>10, <1>11 DEF Next, Replay

THEOREM Safety == Spec => []IInv
BY InitIInv, NextIInv, PTL DEF Spec

-----------------------------------------------------------------------------
(* The properties *)

\* A daemon that serves with a dstack socket has ledgers that load.
THEOREM UpMeansIntactHolds == Spec => []UpMeansIntact
<1>1. IInv => UpMeansIntact
  BY DEF IInv, BootInv, UpMeansIntact
<1>. QED BY <1>1, Safety, PTL

\* Once attestation_replayed is set, RTMR3 covers the ledgers.
THEOREM ReplayCoversHolds == Spec => []ReplayCovers
<1>1. IInv => ReplayCovers
  BY DEF IInv, CoverInv, ReplayCovers
<1>. QED BY <1>1, Safety, PTL

\* RTMR3 holds no event that the ledger on disk does not account for.
THEOREM MeasuredIsRecordedHolds == Spec => []MeasuredIsRecorded
<1>1. IInv => MeasuredIsRecorded
  BY DEF IInv, MeasuredInv, MeasuredIsRecorded
<1>. QED BY <1>1, Safety, PTL

\* What a ledger with a head file says, another that loads beside that head says too:
\* entry for entry, with or without hashes in them.
LEMMA HeadTellsAll ==
  ASSUME NEW f \in Seq(Entry), NEW g \in Seq(Entry), NEW h, h # {},
         HeadOK(f, h), HeadOK(g, h)
  PROVE  /\ EntryHash(g, Len(g)) = EntryHash(f, Len(f))
         /\ Len(g) = Len(f)
         /\ \A i \in 1..Len(f) : g[i].content = f[i].content
<1>1. EntryHash(g, Len(g)) = EntryHash(f, Len(f))
  BY DEF HeadOK
<1>2. Len(f) \in 0..Len(f) /\ Len(g) \in 0..Len(g)
  OBVIOUS
<1>3. Len(g) = Len(f)
  BY <1>1, <1>2, HashOfEntry
<1>4. \A i \in 1..Len(f) : g[i].content = f[i].content
  BY <1>1, <1>2, <1>3, HashOfEntry
<1>. QED BY <1>1, <1>3, <1>4

\* What any change of a ledger must leave as it is, if the changed one is to load.
SaysTheSame ==
  \A p \in Projects : Loads(p) /\ head[p] # {} =>
    \A g \in Seq(Entry) : ChainOK(g) /\ HeadOK(g, head[p]) =>
      Len(g) = Len(file[p]) /\ \A i \in 1..Len(g) : g[i].content = file[p][i].content

\* As long as the head file is there, a ledger that loads after whatever change, not only
\* after those that a run tries, has the entries it had before, in their order: accepting
\* entries without hashes opens no hole (audit.py:51-55).
THEOREM ChangesAreSeen == Spec => []SaysTheSame
<1>1. TypeOK => SaysTheSame
  BY HeadTellsAll DEF TypeOK, SaysTheSame, Loads
<1>. QED BY <1>1, TypeCorrect, PTL

\* An edited ledger is a sequence of entries, too.
LEMMA EditsAreLedgers ==
  ASSUME NEW f \in Seq(Entry)
  PROVE  Edits(f) \subseteq Seq(Entry)
<1>1. \A n \in 0..Len(f) : SubSeq(f, 1, n) \in Seq(Entry)
  OBVIOUS
<1>2. \A n \in 1..Len(f) : SubSeq(f, 1, n - 1) \o SubSeq(f, n + 1, Len(f)) \in Seq(Entry)
  OBVIOUS
<1>3. \A n \in 1..Len(f), e \in Entry : [f EXCEPT ![n] = e] \in Seq(Entry)
  OBVIOUS
<1>4. ASSUME NEW c \in Contents PROVE Legacy(c) \in Entry
  BY DEF Legacy, Entry, NoHash, Hashes
<1>5. ASSUME NEW n \in 1..Len(f), NEW c \in Contents
      PROVE  [f EXCEPT ![n].content = c] \in Seq(Entry)
  <2>1. f[n] \in Entry
    OBVIOUS
  <2>2. [f[n] EXCEPT !.content = c] \in Entry
    BY <2>1 DEF Entry
  <2>3. [f EXCEPT ![n].content = c] = [f EXCEPT ![n] = [f[n] EXCEPT !.content = c]]
    OBVIOUS
  <2>. QED BY <1>3, <2>2, <2>3
<1>6. ASSUME NEW n \in 1..Len(f), NEW c \in Contents
      PROVE  [f EXCEPT ![n] = NextEntry(SubSeq(f, 1, n - 1), c)] \in Seq(Entry)
  <2>1. SubSeq(f, 1, n - 1) \in Seq(Entry)
    OBVIOUS
  <2>2. NextEntry(SubSeq(f, 1, n - 1), c) \in Entry
    <3> DEFINE h == SubSeq(f, 1, n - 1)
    <3> HIDE DEF h
    <3>1. h \in Seq(Entry)
      BY <2>1 DEF h
    <3>2. EntryHash(h, Len(h)) \in Seq(Contents)
      BY <3>1, HashOfEntry DEF Hashes
    <3>3. NextEntry(h, c) \in Entry
      BY <3>2 DEF NextEntry, Entry, Hashes
    <3>. QED BY <3>3 DEF h
  <2>. QED BY <1>3, <2>2
<1>7. ASSUME NEW k \in 1..Len(f)
      PROVE  [n \in 1..Len(f) |-> IF n <= k THEN Legacy(f[n].content) ELSE f[n]] \in Seq(Entry)
  <2>1. ASSUME NEW n \in 1..Len(f)
        PROVE  (IF n <= k THEN Legacy(f[n].content) ELSE f[n]) \in Entry
    <3>1. f[n] \in Entry
      OBVIOUS
    <3>2. f[n].content \in Contents
      BY <3>1 DEF Entry
    <3>. QED BY <1>4, <3>1, <3>2
  <2>. QED BY <2>1
<1>8. ASSUME NEW g \in Edits(f) PROVE g \in Seq(Entry)
  <2> DEFINE Edited(n, c) ==
               {[f EXCEPT ![n].content = c], [f EXCEPT ![n] = Legacy(c)],
                [f EXCEPT ![n] = NextEntry(SubSeq(f, 1, n - 1), c)]}
             Cut == {SubSeq(f, 1, n) : n \in 0..Len(f)}
             Out == {SubSeq(f, 1, n - 1) \o SubSeq(f, n + 1, Len(f)) : n \in 1..Len(f)}
             Altered == UNION {Edited(n, c) : n \in 1..Len(f), c \in Contents}
             Blanked == {[n \in 1..Len(f) |-> IF n <= k THEN Legacy(f[n].content) ELSE f[n]] :
                         k \in 1..Len(f)}
  <2>1. Edits(f) = Cut \cup Out \cup Altered \cup Blanked
    BY DEF Edits
  <2>2. ASSUME NEW n \in 1..Len(f), NEW c \in Contents
        PROVE  Edited(n, c) \subseteq Seq(Entry)
    BY <1>3, <1>4, <1>5, <1>6, Zenon
  <2>3. Cut \subseteq Seq(Entry) /\ Out \subseteq Seq(Entry) /\ Blanked \subseteq Seq(Entry)
    BY <1>1, <1>2, <1>7
  <2> HIDE DEF Edited
  <2>4. Altered \subseteq Seq(Entry)
    BY <2>2
  <2> HIDE DEF Cut, Out, Altered, Blanked
  <2>. QED BY <1>8, <2>1, <2>3, <2>4
<1>. QED BY <1>8

\* Cut, taken out, altered, stripped of its hashes or given new ones: an entry of a ledger
\* with a head file cannot be changed so that the ledger still loads and says otherwise
\* (audit.py:51-90).
THEOREM EditsDetectedHolds == Spec => []EditsDetected
<1>1. TypeOK /\ SaysTheSame => EditsDetected
  BY EditsAreLedgers DEF TypeOK, SaysTheSame, EditsDetected
<1>. QED BY <1>1, TypeCorrect, ChangesAreSeen, PTL

-----------------------------------------------------------------------------
(* The ledgers implement MeasuredLog *)

\* What was said of a project, to those who read its ledger.
Said(p) == EntryHash(file[p], Len(file[p]))

\* What can be measured of a log are the events of the ledger.
LEMMA ToldIsEvents ==
  ASSUME TypeOK, NEW p \in Projects
  PROVE  Said(p) \in Hashes /\ Log!Told(p) = EventsOf(p)
<1>1. file[p] \in Seq(Entry) /\ Len(file[p]) \in Nat
  BY DEF TypeOK
<1>2. /\ Said(p) \in Hashes /\ Len(Said(p)) = Len(file[p])
      /\ \A j \in 1..Len(file[p]) : Said(p)[j] = file[p][j].content
  BY <1>1, HashOfEntry DEF Said
<1>3. ASSUME NEW n \in 1..Len(file[p])
      PROVE  [j \in 1..n |-> Said(p)[j]] = EntryHash(file[p], n)
  BY <1>1, <1>2 DEF EntryHash
<1>4. Log!Told(p) = {<<p, [j \in 1..n |-> Said(p)[j]]>> : n \in 1..Len(Said(p))}
  BY DEF Log!Told, Said
<1>. QED BY <1>2, <1>3, <1>4 DEF EventsOf, Event

\* An entry that is appended says one thing more of its project, and of no other.
LEMMA AppendSays ==
  ASSUME TypeOK, NEW p \in Projects, NEW c \in Contents,
         file' = [file EXCEPT ![p] = Append(@, NextEntry(@, c))]
  PROVE  Log!Adds(p, c) /\ Said(p)' = NextEntry(file[p], c).hash
<1>1. file[p] \in Seq(Entry) /\ Len(file[p]) \in Nat
  BY DEF TypeOK
<1>2. file'[p] = Append(file[p], NextEntry(file[p], c)) /\ DOMAIN file = Projects
      /\ \A q \in Projects : q # p => file'[q] = file[q]
  BY DEF TypeOK
<1>3. Said(p)' = NextEntry(file[p], c).hash
  BY <1>1, <1>2, AppendHashes DEF Said
<1>4. NextEntry(file[p], c).hash = Append(Said(p), c)
  BY DEF NextEntry, Said
<1>5. \A q \in Projects : q # p => Said(q)' = Said(q)
  BY <1>2 DEF Said
<1>6. [q \in Projects |-> Said(q)'] = [[q \in Projects |-> Said(q)] EXCEPT ![p] = Append(@, c)]
  BY <1>3, <1>4, <1>5
<1>7. Log!Adds(p, c)
  BY <1>6 DEF Log!Adds, Said
<1>. QED BY <1>3, <1>7

LEMMA StepImplements ==
  ASSUME IInv, [Next]_vars
  PROVE  [Log!Next]_Log!vars
<1> USE DEF IInv
<1> DEFINE owed == inflight \cup refused
<1>1. ASSUME NEW p \in Projects, NEW c \in Contents, Record(p, c) PROVE Log!Say(p, c)
  <2>1. Log!Adds(p, c) /\ Said(p)' = NextEntry(file[p], c).hash
    BY <1>1, AppendSays DEF Record
  <2>2. /\ inflight' = IF dstack THEN inflight \cup {<<p, NextEntry(file[p], c).hash>>}
                                 ELSE inflight
        /\ UNCHANGED <<replayed, rtmr, refused>>
    BY <1>1 DEF Record, boot
  <2>3. owed' = owed \cup {<<p, Said(p)'>>} \/ (~replayed /\ owed' = owed)
    BY <2>1, <2>2 DEF CoverInv
  <2>4. [q \in Projects |-> Said(q)'][p] = Said(p)'
    OBVIOUS
  <2>. QED BY <2>1, <2>2, <2>3, <2>4 DEF Log!Say, Said
<1>2. ASSUME NEW ev \in inflight \cup batch, rtmr' = rtmr \cup {ev}, UNCHANGED <<ledgers, replayed>>,
             owed' \in {owed, owed \ {ev}}
      PROVE  \E p \in Projects : Log!Measure(p)
  <2>1. ev[1] \in Projects /\ ev \in EventsOf(ev[1])
    BY DEF MeasuredInv
  <2>2. ev \in Log!Told(ev[1])
    BY <2>1, ToldIsEvents
  <2>. QED BY <1>2, <2>1, <2>2 DEF Log!Measure, ledgers
<1>3. ASSUME NEW ev \in inflight, EmitDone(ev) PROVE \E p \in Projects : Log!Measure(p)
  <2>1. owed' \in {owed, owed \ {ev}}
    BY <1>3 DEF EmitDone
  <2>. QED BY <1>2, <1>3, <2>1 DEF EmitDone, boot
<1>4. ASSUME NEW ev \in batch, ReplayEmit(ev) PROVE \E p \in Projects : Log!Measure(p)
  <2>1. owed' = owed
    BY <1>4 DEF ReplayEmit
  <2>. QED BY <1>2, <1>4, <2>1 DEF ReplayEmit
<1>5. ASSUME ReplayDone PROVE Log!Attest
  <2>1. \A p \in Projects : EventsOf(p) \subseteq rtmr \cup owed
    BY <1>5 DEF ReplayDone, CoverInv
  <2>. QED BY <1>5, <2>1, ToldIsEvents DEF ReplayDone, Log!Attest, ledgers, anchors
<1>6. ASSUME Ends, rtmr' \in {rtmr, {}},
             \/ UNCHANGED ledgers
             \/ file' = file
             \/ \E p \in Projects, c \in Contents :
                  file' = [file EXCEPT ![p] = Append(@, NextEntry(@, c))]
      PROVE  Log!End
  <2>1. replayed' = FALSE /\ owed' = {}
    BY <1>6 DEF Ends
  <2>2. CASE file' = file
    BY <1>6, <2>1, <2>2 DEF Log!End
  <2>3. ASSUME NEW p \in Projects, NEW c \in Contents,
               file' = [file EXCEPT ![p] = Append(@, NextEntry(@, c))]
        PROVE  Log!End
    <3>1. Log!Adds(p, c)
      BY <2>3, AppendSays
    <3>. QED BY <1>6, <2>1, <3>1 DEF Log!End
  <2>. QED BY <1>6, <2>2, <2>3 DEF ledgers
<1>7. ASSUME UNCHANGED <<file, rtmr, replayed>>, owed' = owed PROVE UNCHANGED Log!vars
  BY <1>7 DEF Log!vars
<1>8. ASSUME NEW ev \in inflight, EmitFails(ev) PROVE UNCHANGED Log!vars
  <2>1. owed' = owed
    BY <1>8 DEF EmitFails
  <2>. QED BY <1>7, <1>8, <2>1 DEF EmitFails, ledgers, boot
<1>9. ASSUME Boot PROVE UNCHANGED Log!vars
  <2>1. replayed = FALSE /\ replayed' = FALSE
    BY <1>9 DEF Boot, CoverInv, TypeOK
  <2>. QED BY <1>7, <1>9, <2>1 DEF Boot, ledgers, anchors
<1>10. ASSUME NEW p \in Projects, ReplayLoad(p) PROVE UNCHANGED Log!vars
  BY <1>7, <1>10 DEF ReplayLoad, ledgers, anchors
<1>11. ASSUME (\E p \in Projects : ReplayRaises(p)) \/ ReplayEmitFails \/ Crash PROVE Log!End
  BY <1>6, <1>11 DEF ReplayRaises, ReplayEmitFails, Crash
<1>12. ASSUME NEW p \in Projects, NEW c \in Contents, CrashInSave(p, c) PROVE Log!End
  BY <1>6, <1>12 DEF CrashInSave
<1>13. CASE UNCHANGED vars
  BY <1>7, <1>13 DEF vars, ledgers, boot, anchors
<1>. QED
  BY <1>1, <1>3, <1>4, <1>5, <1>8, <1>9, <1>10, <1>11, <1>12, <1>13 DEF Next, Replay, Log!Next

\* The ledgers and RTMR3 behave as an append-only log that is measured in its order, of
\* whatever projects, through crashes, refused calls and reboots (audit.py:92-164).
THEOREM IsMeasuredLogHolds == Spec => IsMeasuredLog
<1>1. Init => Log!Init
  <2>1. SUFFICES ASSUME Init PROVE Log!Init
    OBVIOUS
  <2>2. TypeOK
    BY <2>1, InitType
  <2>3. \A p \in Projects : Said(p) \in Seq(Contents)
    BY <2>2, ToldIsEvents DEF Hashes
  <2>. QED BY <2>1, <2>3 DEF Init, Log!Init, Said
<1>2. QED
  BY <1>1, StepImplements, Safety, PTL DEF Spec, IsMeasuredLog, Log!Spec
=============================================================================
