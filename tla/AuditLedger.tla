---------------------------- MODULE AuditLedger ----------------------------
(***************************************************************************)
(* The per-project audit ledger of proxy/audit.py and its anchoring in     *)
(* RTMR3.                                                                  *)
(*                                                                         *)
(* A project's ledger is two files: NAME.jsonl, a chain of entries that    *)
(* each carry the hash of the one before, and NAME.head, the hash of the   *)
(* last one.  _save_entry runs without an await, so no other coroutine     *)
(* sees it half done; only the end of the process can come between the     *)
(* append and the write of the head.  The EmitEvent call that extends      *)
(* RTMR3 comes after, and is an await: it can fail, and the process can    *)
(* end, with the entry already on disk.  At boot every entry on disk is    *)
(* emitted again, and a ledger that does not load stops the boot.          *)
(*                                                                         *)
(* SHA-256 is taken to be injective: the hash of an entry is the sequence  *)
(* of contents it commits to, which is all a verifier can learn from it.   *)
(***************************************************************************)
EXTENDS Naturals, Sequences

CONSTANTS
  Projects,     \* project names
  Contents,     \* what an entry can say (its timestamp, action, detail...)
  MaxLegacy,    \* bound on the entries that predate the chain
  MaxEntries,   \* bound on the length of a ledger
  MaxFaults     \* bound on crashes, reboots and refused EmitEvent calls

ASSUME BoundsAssumption == {MaxLegacy, MaxEntries, MaxFaults} \subseteq Nat

VARIABLES
  file,      \* file[p]: the whole lines of p.jsonl
  torn,      \* torn[p]: p.jsonl ends in a part of a line
  head,      \* head[p]: {} when p.head is absent, else the one value it holds
  phase,     \* the daemon process: "down", "replaying" (boot) or "up"
  dstack,    \* this boot found the dstack socket
  todo,      \* the projects replay_anchors has not loaded yet
  batch,     \* the entries it loaded and has still to emit
  replayed,  \* AuditLogManager.replayed
  inflight,  \* record() calls waiting for EmitEvent
  rtmr,      \* events measured in RTMR3 since the CVM booted
  refused,   \* entries of this boot whose EmitEvent call failed
  faults     \* faults so far

ledgers == <<file, torn, head>>
boot == <<phase, dstack, todo, batch, replayed>>
anchors == <<inflight, rtmr, refused>>
vars == <<ledgers, boot, anchors, faults>>

-----------------------------------------------------------------------------
(* The ledger files *)

Hashes == Seq(Contents)
NoHash == <<>>                      \* the empty string in a hash field

\* audit.py:15-24; entries older than the chain have both hash fields empty.
Entry == [content: Contents, prev: Hashes, hash: Hashes]

\* The hash that entry i of a ledger f has, or is given when it is adopted: it
\* covers the entry and, through prev_hash, every entry before it.
EntryHash(f, i) == [j \in 1..i |-> f[j].content]

\* Entry i belongs to the leading run of entries without hashes.
Adopted(f, i) == \A j \in 1..i : f[j].prev = NoHash /\ f[j].hash = NoHash

\* The chain and hash checks, line by line.
ChainOK(f) ==
  \A i \in 1..Len(f) :
    \/ Adopted(f, i)
    \/ /\ f[i].prev = EntryHash(f, i - 1)
       /\ f[i].hash = EntryHash(f, i)

\* Mutant of HeadOK: the head file is not looked at.
HeadUnchecked(f, h) == TRUE

\* The head check: an existing head file must name the last entry.
HeadOK(f, h) == \A x \in h : x = EntryHash(f, Len(f))

\* _load_entries returns the entries instead of raising.
Loads(p) == ~torn[p] /\ ChainOK(file[p]) /\ HeadOK(file[p], head[p])

\* The entry _save_entry appends for content c.
NextEntry(f, c) ==
  [content |-> c, prev |-> EntryHash(f, Len(f)),
   hash |-> Append(EntryHash(f, Len(f)), c)]

\* The event of entry i of project p in RTMR3.
Event(p, i) == <<p, EntryHash(file[p], i)>>
EventsOf(p) == {Event(p, i) : i \in 1..Len(file[p])}

-----------------------------------------------------------------------------
(* A daemon is installed over ledgers that predate the chain, or over none. *)

Legacy(c) == [content |-> c, prev |-> NoHash, hash |-> NoHash]
LegacyLedgers == UNION {[1..n -> {Legacy(c) : c \in Contents}] : n \in 0..MaxLegacy}

Init ==
  /\ file \in [Projects -> LegacyLedgers]
  /\ torn = [p \in Projects |-> FALSE]
  /\ head = [p \in Projects |-> {}]
  /\ phase = "down"
  /\ dstack = FALSE
  /\ todo = {}
  /\ batch = {}
  /\ replayed = FALSE
  /\ inflight = {}
  /\ rtmr = {}
  /\ refused = {}
  /\ faults = 0

-----------------------------------------------------------------------------
(* Recording.  The app socket of the docker proxy records entries while the *)
(* boot is still replaying; the API does once the daemon is up.             *)

Running == phase \in {"replaying", "up"}

\* Mutant of Record: the hash of the entry before is measured.
RecordMeasuresPrev(p, c) ==
  /\ Running
  /\ Loads(p)
  /\ Len(file[p]) < MaxEntries
  /\ LET e == NextEntry(file[p], c) IN
       /\ file' = [file EXCEPT ![p] = Append(@, e)]
       /\ head' = [head EXCEPT ![p] = {e.hash}]
       /\ inflight' = IF dstack THEN inflight \cup {<<p, e.prev>>} ELSE inflight
  /\ UNCHANGED <<torn, boot, rtmr, refused, faults>>

\* record(): load and check, append, write the head, then start EmitEvent.
Record(p, c) ==
  /\ Running
  /\ Loads(p)
  /\ Len(file[p]) < MaxEntries
  /\ LET e == NextEntry(file[p], c) IN
       /\ file' = [file EXCEPT ![p] = Append(@, e)]
       /\ head' = [head EXCEPT ![p] = {e.hash}]
       /\ inflight' = IF dstack THEN inflight \cup {<<p, e.hash>>} ELSE inflight
  /\ UNCHANGED <<torn, boot, rtmr, refused, faults>>

\* EmitEvent answers 200.
EmitDone(ev) ==
  /\ ev \in inflight
  /\ inflight' = inflight \ {ev}
  /\ rtmr' = rtmr \cup {ev}
  /\ UNCHANGED <<ledgers, boot, refused, faults>>

\* EmitEvent does not: record() raises, the entry stays on disk.
EmitFails(ev) ==
  /\ ev \in inflight
  /\ faults < MaxFaults
  /\ inflight' = inflight \ {ev}
  /\ refused' = refused \cup {ev}
  /\ faults' = faults + 1
  /\ UNCHANGED <<ledgers, boot, rtmr>>

-----------------------------------------------------------------------------
(* Boot *)

\* A new process; replay_anchors lists the ledgers when there is a socket.
Boot ==
  /\ phase = "down"
  /\ \E d \in BOOLEAN :
       /\ dstack' = d
       /\ phase' = IF d THEN "replaying" ELSE "up"
       /\ todo' = IF d THEN {p \in Projects : file[p] # <<>> \/ torn[p]} ELSE {}
  /\ batch' = {}
  /\ replayed' = FALSE
  /\ UNCHANGED <<ledgers, anchors, faults>>

\* Mutant of ReplayLoad: the last entry is not emitted again.
ReplayAllButLast(p) ==
  /\ phase = "replaying"
  /\ batch = {}
  /\ p \in todo
  /\ Loads(p)
  /\ todo' = todo \ {p}
  /\ batch' = {Event(p, i) : i \in 1..(Len(file[p]) - 1)}
  /\ UNCHANGED <<ledgers, phase, dstack, replayed, anchors, faults>>

\* The next project's ledger loads.
ReplayLoad(p) ==
  /\ phase = "replaying"
  /\ batch = {}
  /\ p \in todo
  /\ Loads(p)
  /\ todo' = todo \ {p}
  /\ batch' = EventsOf(p)
  /\ UNCHANGED <<ledgers, phase, dstack, replayed, anchors, faults>>

\* EmitEvent answers 200 for an entry of the loaded ledger.
ReplayEmit(ev) ==
  /\ phase = "replaying"
  /\ ev \in batch
  /\ batch' = batch \ {ev}
  /\ rtmr' = rtmr \cup {ev}
  /\ UNCHANGED <<ledgers, phase, dstack, todo, replayed, inflight, refused, faults>>

\* Mutant of ReplayDone: ledgers may be left to load.
ReplayDoneEarly ==
  /\ phase = "replaying"
  /\ batch = {}
  /\ phase' = "up"
  /\ replayed' = TRUE
  /\ UNCHANGED <<ledgers, dstack, todo, batch, anchors, faults>>

ReplayDone ==
  /\ phase = "replaying"
  /\ batch = {} /\ todo = {}
  /\ phase' = "up"
  /\ replayed' = TRUE
  /\ UNCHANGED <<ledgers, dstack, todo, batch, anchors, faults>>

-----------------------------------------------------------------------------
(* The end of the process *)

\* What is left when the process is gone: the files, and RTMR3 unless the CVM
\* rebooted as well.
Ends ==
  /\ phase' = "down"
  /\ todo' = {} /\ batch' = {} /\ replayed' = FALSE
  /\ inflight' = {} /\ refused' = {}
  /\ dstack' = FALSE

\* The boot stops on a ledger that does not load: the exception leaves start().
ReplayRaises(p) ==
  /\ phase = "replaying"
  /\ batch = {}
  /\ p \in todo
  /\ ~Loads(p)
  /\ Ends
  /\ UNCHANGED <<ledgers, rtmr, faults>>

\* The boot stops on an EmitEvent call that fails.
ReplayEmitFails ==
  /\ phase = "replaying"
  /\ batch # {}
  /\ faults < MaxFaults
  /\ faults' = faults + 1
  /\ Ends
  /\ UNCHANGED <<ledgers, rtmr>>

\* The process ends between two steps; RTMR3 is cleared when the CVM reboots.
Crash ==
  /\ Running
  /\ faults < MaxFaults
  /\ faults' = faults + 1
  /\ Ends
  /\ rtmr' \in {rtmr, {}}
  /\ UNCHANGED ledgers

\* The process ends inside _save_entry: within the append, after it, or after
\* the head file was truncated for writing.
CrashInSave(p, c) ==
  /\ Running
  /\ Loads(p)
  /\ Len(file[p]) < MaxEntries
  /\ faults < MaxFaults
  /\ faults' = faults + 1
  /\ \/ /\ torn' = [torn EXCEPT ![p] = TRUE]
        /\ UNCHANGED <<file, head>>
     \/ /\ file' = [file EXCEPT ![p] = Append(@, NextEntry(@, c))]
        /\ head' \in {head, [head EXCEPT ![p] = {NoHash}]}
        /\ UNCHANGED torn
  /\ Ends
  /\ rtmr' \in {rtmr, {}}

-----------------------------------------------------------------------------
Replay ==
  \/ \E p \in Projects : ReplayLoad(p)
  \/ \E ev \in batch : ReplayEmit(ev)
  \/ ReplayDone

Next ==
  \/ \E p \in Projects, c \in Contents : Record(p, c)
  \/ \E ev \in inflight : EmitDone(ev)
  \/ \E ev \in inflight : EmitFails(ev)
  \/ Boot
  \/ Replay
  \/ \E p \in Projects : ReplayRaises(p)
  \/ ReplayEmitFails
  \/ Crash
  \/ \E p \in Projects, c \in Contents : CrashInSave(p, c)

Spec == Init /\ [][Next]_vars

\* The container is restarted when its process ends, start() runs on, and every
\* EmitEvent call returns.
Fairness ==
  /\ WF_vars(Boot)
  /\ WF_vars(Replay)
  /\ WF_vars(\E ev \in inflight : EmitDone(ev))

FairSpec == Spec /\ Fairness

-----------------------------------------------------------------------------
(* Properties *)

Events == Projects \X Hashes

\* The types of the variables (audit.py:15-40).
TypeOK ==
  /\ file \in [Projects -> Seq(Entry)]
  /\ torn \in [Projects -> BOOLEAN]
  /\ head \in [Projects -> SUBSET Hashes]
  /\ phase \in {"down", "replaying", "up"}
  /\ dstack \in BOOLEAN /\ replayed \in BOOLEAN
  /\ todo \subseteq Projects
  /\ batch \subseteq Events
  /\ inflight \subseteq Events
  /\ rtmr \subseteq Events
  /\ refused \subseteq Events
  /\ faults \in Nat

\* A daemon that serves with a dstack socket has ledgers that load, whatever
\* crashes came before: the boot has checked them all, and every record() since
\* left chain and head in agreement (main.py:160, audit.py:109-115).
UpMeansIntact == phase = "up" /\ dstack => \A p \in Projects : Loads(p)

\* attestation_replayed is the truth: once it is set, RTMR3 covers every entry
\* of every ledger but those whose own EmitEvent call is pending or was refused
\* (audit.py:113-115, :198).
ReplayCovers ==
  replayed => \A p \in Projects : EventsOf(p) \subseteq rtmr \cup inflight \cup refused

\* RTMR3 never holds an event that the ledger on disk does not account for: an
\* entry is on disk before it is measured, through every crash (audit.py:142-147).
MeasuredIsRecorded == \A ev \in rtmr \cup inflight : ev \in EventsOf(ev[1])

\* What the ledgers and RTMR3 are to those who read them.
Log == INSTANCE MeasuredLog WITH
         said <- [p \in Projects |-> EntryHash(file[p], Len(file[p]))],
         measured <- rtmr, owed <- inflight \cup refused, attested <- replayed

\* Through crashes within a save or outside, replays that stop and refused calls, the
\* ledgers are an append-only log, of which RTMR3 holds nothing that was not said and, when
\* attestation_replayed is set, all but what a call has still to measure or was refused
\* (audit.py:92-115, 142-164).
IsMeasuredLog == Log!Spec

\* One change to a ledger's file: lines cut from its end, one line dropped, one
\* line's content altered with its hash left or made to fit, hashes blanked.
Edits(f) ==
  {SubSeq(f, 1, n) : n \in 0..Len(f)}
  \cup {SubSeq(f, 1, n - 1) \o SubSeq(f, n + 1, Len(f)) : n \in 1..Len(f)}
  \cup (UNION {{[f EXCEPT ![n].content = c], [f EXCEPT ![n] = Legacy(c)],
               [f EXCEPT ![n] = NextEntry(SubSeq(f, 1, n - 1), c)]} :
              n \in 1..Len(f), c \in Contents})
  \cup {[n \in 1..Len(f) |-> IF n <= k THEN Legacy(f[n].content) ELSE f[n]] :
        k \in 1..Len(f)}

\* Accepting entries without hashes opens no hole: as long as the head file is
\* there, a ledger that loads after any such change says what it said before
\* (the docstring at audit.py:51-55).
EditsDetected ==
  \A p \in Projects : Loads(p) /\ head[p] # {} =>
    \A g \in Edits(file[p]) :
      ChainOK(g) /\ HeadOK(g, head[p]) =>
        Len(g) = Len(file[p]) /\ \A i \in 1..Len(g) : g[i].content = file[p][i].content

\* If no crash leaves a ledger that cannot be loaded, the daemon ends up serving,
\* and then every entry is measured in RTMR3 or its caller got an error
\* (main.py:160, audit.py:109-115).
Converges ==
  [](\A p \in Projects : Loads(p)) =>
    <>[](/\ phase = "up"
         /\ dstack => \A p \in Projects : EventsOf(p) \subseteq rtmr \cup refused)

\* "Audit ledger truncated" (audit.py:85) is raised only of a ledger that lost
\* entries; no step here removes one, so it is never raised.
TruncatedMeansTruncated ==
  \A p \in Projects : ~torn[p] /\ ChainOK(file[p]) => HeadOK(file[p], head[p])
=============================================================================
