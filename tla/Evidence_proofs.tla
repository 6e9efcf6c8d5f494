--------------------------- MODULE Evidence_proofs ---------------------------
(***************************************************************************)
(* What is proved of Lifecycle and Evidence for every set of projects,     *)
(* trees, kinds, calls, slots and hashes: the core types, the agreement of *)
(* a record with its binding, of an entry with the record stored as it is  *)
(* written, and, where nothing is torn down, of a settled project's ledger *)
(* with its record; what a bundle binds and tells, whatever the handlers   *)
(* do while it is put together, and that no leg of its verification falls  *)
(* silent; the remaining types; and, where callers wait for each other,    *)
(* that at rest every project serves the tree that its record names and    *)
(* its ledger tells.                                                       *)
(***************************************************************************)
EXTENDS MCEvidence, SequenceTheorems, FiniteSetTheorems, TLAPS

-----------------------------------------------------------------------------
(* The inductive invariant: the types of the disk and of the jobs, with every *)
(* record, stored or carried by a job, in agreement with its binding          *)

QuotedRecord == {r \in Record : r.bound \subseteq {r.tree}}

JobWith(w) ==
  [id: Slots \cup {"boot"}, p: Projects \cup {Daemon},
   op: {"deploy", "promote", "unpromote", "teardown", "recover"},
   pc: {"cloning", "cloned", "staging", "staged", "adopting", "building", "saved",
        "binding", "emitting", "working"},
   loc: QuotedRecord, pin: SUBSET Trees, work: {w}]

\* Only recovery works for no project, only a deploy clones and builds, and a record has no binding while its
\* tree is still to be read.
Sound(j) ==
  /\ j \in JobWith(j.work)
  /\ j.op # "recover" => j.p \in Projects
  /\ j.op = "recover" => j.pc = "working"
  /\ j.pc \notin {"binding", "emitting", "working"} => j.op = "deploy"
  /\ j.pc \in {"cloning", "cloned", "staging", "staged"} => j.loc.bound = {}

JobsSound == \A j \in jobs : Sound(j)

IInv ==
  /\ store \in [Projects -> SUBSET QuotedRecord]
  /\ files \in [Projects -> Code]
  /\ stage \in [Projects -> Code]
  /\ ledger \in [Projects -> Seq(Entry)]
  /\ JobsSound

LEMMA ManifestSound == \A r \in Manifests : r \in QuotedRecord /\ r.bound = {}
BY DEF Manifests, Manifest, QuotedRecord, Record, Code, Modes

LEMMA ModeSound ==
  ASSUME NEW r \in QuotedRecord, NEW m \in Modes
  PROVE  [r EXCEPT !.mode = m] \in QuotedRecord
BY DEF QuotedRecord, Record

\* A record without a binding takes any tree.
LEMMA TreeSound ==
  ASSUME NEW r \in QuotedRecord, r.bound = {}, NEW t \in Code
  PROVE  [r EXCEPT !.tree = t] \in QuotedRecord /\ [r EXCEPT !.tree = t].bound = {}
BY DEF QuotedRecord, Record

LEMMA EntryTyped ==
  ASSUME NEW r \in Record, NEW a \in {"deploy", "promote", "unpromote", "teardown"}
  PROVE  EntryFor(a, r) \in Entry
BY DEF EntryFor, Entry, Record

LEMMA NewJobSound ==
  ASSUME NEW s \in Slots, NEW p \in Projects,
         NEW o \in {"deploy", "promote", "unpromote", "teardown"},
         NEW pc \in {"cloning", "staging", "building", "binding", "emitting"},
         NEW r \in QuotedRecord, NEW pin \in SUBSET Trees,
         pc \in {"cloning", "staging"} => r.bound = {},
         pc \in {"binding", "emitting"} \/ o = "deploy"
  PROVE  Sound(NewJob(s, p, o, pc, r, pin))
<1> DEFINE j == NewJob(s, p, o, pc, r, pin)
<1>1. j \in JobWith(j.work)
  BY DEF NewJob, JobWith
<1>2. j.op = o /\ j.p = p /\ j.pc = pc /\ j.loc = r
  BY DEF NewJob
<1>. QED BY <1>1, <1>2, Zenon DEF Sound

\* A step that adds one sound job at most keeps the jobs sound.
LEMMA JobsAfter ==
  ASSUME JobsSound, NEW k, Sound(k), jobs' \subseteq jobs \cup {k}
  PROVE  JobsSound'
BY DEF JobsSound, Sound, JobWith

LEMMA FewerJobs == JobsSound /\ jobs' \subseteq jobs => JobsSound'
BY DEF JobsSound, Sound, JobWith

LEMMA InitIInv == Init => IInv
<1> SUFFICES ASSUME Init PROVE IInv
  OBVIOUS
<1>1. PICK r \in [Projects -> {r \in Manifests : Valid(r)}] :
        store = [p \in Projects |->
                   IF files[p] = NoTree THEN {} ELSE {[r[p] EXCEPT !.tree = files[p]]}]
  BY DEF Init
<1>2. files \in [Projects -> Code] /\ stage \in [Projects -> Code]
  BY DEF Init, Code
<1>3. \A p \in Projects : r[p] \in QuotedRecord /\ r[p].bound = {}
  BY ManifestSound
<1>4. \A p \in Projects : [r[p] EXCEPT !.tree = files[p]] \in QuotedRecord
  BY <1>2, <1>3, TreeSound
<1>5. store \in [Projects -> SUBSET QuotedRecord]
  BY <1>1, <1>4
<1>6. \A p \in Projects : store[p] # {} => EntryFor("deploy", Only(store[p])) \in Entry
  BY <1>5, EntryTyped DEF Only, QuotedRecord
<1>7. ledger \in [Projects -> Seq(Entry)]
  BY <1>6 DEF Init
<1>8. JobsSound
  BY DEF Init, JobsSound
<1>. QED BY <1>2, <1>5, <1>7, <1>8 DEF IInv

-----------------------------------------------------------------------------
(* Every step keeps it *)

\* The calls: each adds at most one job, of the record it was given or loaded.
LEMMA CallsIInv ==
  ASSUME IInv, NEW s \in Slots, NEW p \in Projects, Calls(s, p)
  PROVE  IInv'
<1> USE DEF IInv
<1>1. ASSUME NEW r \in Manifests, Deploy(s, p, r) PROVE IInv'
  <2>1. Sound(NewJob(s, p, "deploy", "cloning", r, {}))
    BY ManifestSound, NewJobSound
  <2>2. JobsSound'
    BY <1>1, <2>1, JobsAfter DEF Deploy, NewJob
  <2>. QED BY <1>1, <2>2 DEF Deploy, Code
<1>2. ASSUME NEW r \in Manifests, NEW t \in Trees, Upload(s, p, r, t) PROVE IInv'
  <2>1. [r EXCEPT !.tree = t] \in QuotedRecord
    BY ManifestSound, TreeSound DEF Code
  <2>2. Sound(NewJob(s, p, "deploy", "building", [r EXCEPT !.tree = t], {}))
    BY <2>1, NewJobSound
  <2>3. JobsSound'
    BY <1>2, <2>2, JobsAfter, FewerJobs DEF Upload, NewJob
  <2>. QED BY <1>2, <2>3 DEF Upload, Code
<1>3. ASSUME NEW r \in Manifests, NEW t \in Trees, Import(s, p, r, t) PROVE IInv'
  <2>1. Sound(NewJob(s, p, "deploy", "staging", r, {t}))
    BY ManifestSound, NewJobSound
  <2>2. JobsSound'
    BY <1>3, <2>1, JobsAfter DEF Import, NewJob
  <2>. QED BY <1>3, <2>2 DEF Import, Code
<1>4. ASSUME Redeploy(s, p) PROVE IInv'
  <2>1. PICK r \in store[p] :
          /\ files' = [files EXCEPT ![p] = NoTree]
          /\ jobs' = jobs \cup
               {NewJob(s, p, "deploy", "cloning", Manifest(r.mode, r.kind, r.caps), {})}
          /\ UNCHANGED <<store, stage, ledger>>
    BY <1>4 DEF Redeploy
  <2>2. /\ Manifest(r.mode, r.kind, r.caps) \in QuotedRecord
        /\ Manifest(r.mode, r.kind, r.caps).bound = {}
    BY DEF Manifest, QuotedRecord, Record, Code
  <2>3. Sound(NewJob(s, p, "deploy", "cloning", Manifest(r.mode, r.kind, r.caps), {}))
    BY <2>2, NewJobSound
  <2>4. JobsSound'
    BY <2>1, <2>3, JobsAfter DEF NewJob
  <2>. QED BY <2>1, <2>4 DEF Code
<1>5. ASSUME Promote(s, p) PROVE IInv'
  <2>1. PICK r \in store[p] :
          /\ Saves(p, [r EXCEPT !.mode = "attested"])
          /\ jobs' = jobs \cup
               {NewJob(s, p, "promote", "binding", [r EXCEPT !.mode = "attested"], {})}
          /\ UNCHANGED <<files, stage, ledger>>
    BY <1>5, Zenon DEF Promote, Saves, Accepts, disk
  <2>2. [r EXCEPT !.mode = "attested"] \in QuotedRecord
    BY ModeSound DEF Modes
  <2>3. Sound(NewJob(s, p, "promote", "binding", [r EXCEPT !.mode = "attested"], {}))
    BY <2>2, NewJobSound
  <2>4. JobsSound'
    BY <2>1, <2>3, JobsAfter DEF NewJob
  <2>. QED BY <2>1, <2>2, <2>4 DEF Saves
<1>6. ASSUME Unpromote(s, p) PROVE IInv'
  <2>1. PICK r \in store[p] :
          /\ Saves(p, [r EXCEPT !.mode = "dev"])
          /\ Appends(p, EntryFor("unpromote", [r EXCEPT !.mode = "dev"]))
          /\ jobs' = jobs \cup
               {NewJob(s, p, "unpromote", "emitting", [r EXCEPT !.mode = "dev"], {})}
          /\ UNCHANGED <<files, stage>>
    BY <1>6, Zenon DEF Unpromote, Saves, Appends, Accepts
  <2>2. [r EXCEPT !.mode = "dev"] \in QuotedRecord
    BY ModeSound DEF Modes
  <2>3. EntryFor("unpromote", [r EXCEPT !.mode = "dev"]) \in Entry
    BY <2>2, EntryTyped DEF QuotedRecord
  <2>4. Sound(NewJob(s, p, "unpromote", "emitting", [r EXCEPT !.mode = "dev"], {}))
    BY <2>2, NewJobSound
  <2>5. JobsSound'
    BY <2>1, <2>4, JobsAfter DEF NewJob
  <2>. QED BY <2>1, <2>2, <2>3, <2>5 DEF Saves, Appends
<1>7. ASSUME Teardown(s, p) PROVE IInv'
  <2>1. PICK r \in store[p] :
          /\ Appends(p, EntryFor("teardown", r))
          /\ jobs' = jobs \cup {NewJob(s, p, "teardown", "emitting", r, {})}
          /\ UNCHANGED <<store, files, stage>>
    BY <1>7 DEF Teardown
  <2>2. EntryFor("teardown", r) \in Entry
    BY EntryTyped DEF QuotedRecord
  <2>3. Sound(NewJob(s, p, "teardown", "emitting", r, {}))
    BY NewJobSound
  <2>4. JobsSound'
    BY <2>1, <2>3, JobsAfter DEF NewJob
  <2>. QED BY <2>1, <2>2, <2>4 DEF Appends
<1>. QED BY <1>1, <1>2, <1>3, <1>4, <1>5, <1>6, <1>7 DEF Calls

\* What a step makes of its job.
LEMMA Moved ==
  ASSUME NEW j, Sound(j),
         NEW pc \in {"cloned", "staged", "building", "saved", "emitting"},
         j.op = "deploy",
         pc \in {"cloned", "staged"} => j.loc.bound = {}
  PROVE  Sound([j EXCEPT !.pc = pc])
<1> DEFINE k == [j EXCEPT !.pc = pc]
<1>1. k \in JobWith(k.work)
  BY DEF Sound, JobWith
<1>2. k.op = j.op /\ k.p = j.p /\ k.pc = pc /\ k.loc = j.loc
  BY DEF Sound, JobWith
<1>. QED BY <1>1, <1>2 DEF Sound

LEMMA Reread ==
  ASSUME NEW j, Sound(j), j.pc \in {"cloned", "staged"},
         NEW t \in Code, NEW pc \in {"building", "adopting"}
  PROVE  Sound([j EXCEPT !.pc = pc, !.loc.tree = t])
<1>1. [j.loc EXCEPT !.tree = t] \in QuotedRecord
  BY TreeSound DEF Sound, JobWith
<1>. QED BY <1>1 DEF Sound, JobWith

LEMMA Working ==
  ASSUME NEW j, Sound(j), NEW w
  PROVE  /\ Sound([j EXCEPT !.pc = "working", !.work = w])
         /\ j.pc = "working" => Sound([j EXCEPT !.work = w])
BY DEF Sound, JobWith

LEMMA SkipStartSound ==
  ASSUME JobsSound, NEW j \in jobs, j.pc = "working", SkipStart(j)
  PROVE  JobsSound'
<1>1. PICK w : Becomes(j, [j EXCEPT !.work = w])
  BY Zenon DEF SkipStart
<1>. QED BY <1>1, Working, JobsAfter DEF JobsSound, Becomes

\* The steps of a job when no call fails.
LEMMA StepsIInv ==
  ASSUME IInv, NEW j \in jobs, Step(j)
  PROVE  IInv'
<1> USE DEF IInv
<1>s. Sound(j)
  BY DEF JobsSound
<1>d. /\ j.loc \in QuotedRecord
      /\ j.pc # "working" \/ j.op = "deploy" => (j.p \in Projects /\ j.op # "recover")
  BY <1>s DEF Sound, JobWith
<1>1. ASSUME NEW t \in Trees, Cloned(j, t) PROVE IInv'
  <2>1. Sound([j EXCEPT !.pc = "cloned"])
    BY <1>1, <1>s, <1>d, Moved DEF Cloned, Sound
  <2>2. JobsSound'
    BY <1>1, <2>1, JobsAfter, FewerJobs DEF Cloned, Raises, Finishes, GoesTo, Becomes
  <2>. QED BY <1>1, <2>2 DEF Cloned, Code
<1>2. ASSUME NEW t \in Trees, Staged(j, t) PROVE IInv'
  <2>1. Sound([j EXCEPT !.pc = "staged"])
    BY <1>2, <1>s, <1>d, Moved DEF Staged, Sound
  <2>2. JobsSound'
    BY <1>2, <2>1, JobsAfter, FewerJobs DEF Staged, Finishes, GoesTo, Becomes
  <2>. QED BY <1>2, <2>2 DEF Staged, Code
<1>3. CASE AcceptManifest(j)
  <2>1. Sound([j EXCEPT !.pc = "building", !.loc.tree = files[j.p]])
    BY <1>3, <1>s, <1>d, Reread DEF AcceptManifest
  <2>2. JobsSound'
    BY <1>3, <2>1, JobsAfter DEF AcceptManifest, Becomes
  <2>. QED BY <1>3, <2>2 DEF AcceptManifest, disk
<1>4. CASE RejectManifest(j)
  <2>1. JobsSound'
    BY <1>4, FewerJobs DEF RejectManifest, Raises, Finishes
  <2>. QED BY <1>4, <2>1 DEF RejectManifest, disk
<1>5. CASE ReadStage(j)
  <2>1. Sound([j EXCEPT !.pc = "adopting", !.loc.tree = stage[j.p]])
    BY <1>5, <1>s, <1>d, Reread DEF ReadStage
  <2>2. JobsSound'
    BY <1>5, <2>1, JobsAfter DEF ReadStage, Becomes
  <2>. QED BY <1>5, <2>2 DEF ReadStage, disk
<1>6. CASE RejectPin(j)
  <2>1. JobsSound'
    BY <1>6, FewerJobs DEF RejectPin, Finishes
  <2>. QED BY <1>6, <2>1 DEF RejectPin, Code
<1>7. CASE AdoptPin(j)
  <2>1. Sound([j EXCEPT !.pc = "building"])
    BY <1>7, <1>s, Moved DEF AdoptPin, Sound
  <2>2. JobsSound'
    BY <1>7, <2>1, JobsAfter, FewerJobs DEF AdoptPin, Raises, Finishes, GoesTo, Becomes
  <2>3. stage[j.p] \in Code
    BY <1>7, <1>d DEF AdoptPin
  <2>. QED BY <1>7, <2>2, <2>3 DEF AdoptPin, Code
<1>8. CASE Built(j)
  <2>1. Sound([j EXCEPT !.pc = "saved"])
    BY <1>8, <1>s, Moved DEF Built, Sound
  <2>2. JobsSound'
    BY <1>8, <2>1, JobsAfter DEF Built, GoesTo, Becomes
  <2>. QED BY <1>8, <1>d, <2>2 DEF Built, Saves
<1>9. CASE Brokered(j)
  <2>1. PICK w : Becomes(j, [j EXCEPT !.pc = "working", !.work = w])
    BY <1>9, Zenon DEF Brokered
  <2>2. JobsSound'
    BY <1>s, <2>1, Working, JobsAfter DEF Becomes
  <2>. QED BY <1>9, <2>2 DEF Brokered, disk
<1>10. CASE Recorded(j)
  <2>1. /\ j.p \in Projects
        /\ Sound([j EXCEPT !.pc = "emitting"])
    BY <1>10, <1>s, <1>d, Moved DEF Recorded
  <2>2. JobsSound'
    BY <1>10, <2>1, JobsAfter DEF Recorded, GoesTo, Becomes
  <2>3. EntryFor("deploy", j.loc) \in Entry
    BY <1>d, EntryTyped DEF QuotedRecord
  <2>. QED BY <1>10, <1>d, <2>2, <2>3 DEF Recorded, Saves, Appends
<1>11. CASE Bound(j)
  <2> DEFINE b == [j.loc EXCEPT !.bound = {j.loc.tree}]
             k == [j EXCEPT !.pc = "emitting", !.loc = b]
  <2>1. /\ store' = [store EXCEPT ![j.p] = {b}]
        /\ ledger' = [ledger EXCEPT ![j.p] = Append(@, EntryFor("promote", b))]
        /\ jobs' = (jobs \ {j}) \cup {k}
        /\ j.pc = "binding"
        /\ UNCHANGED <<files, stage>>
    BY <1>11, Zenon DEF Bound, Saves, Appends, Becomes
  <2>2. b \in QuotedRecord
    BY <1>d DEF QuotedRecord, Record
  <2>3. EntryFor("promote", b) \in Entry
    BY <2>2, EntryTyped DEF QuotedRecord
  <2>4. Sound(k)
    BY <1>s, <2>1, <2>2 DEF Sound, JobWith
  <2>5. JobsSound'
    BY <2>1, <2>4, JobsAfter
  <2>. QED BY <1>d, <2>1, <2>2, <2>3, <2>5
<1>12. CASE DeployEmitted(j)
  <2>1. JobsSound'
    BY <1>12, FewerJobs DEF DeployEmitted, Finishes
  <2>. QED BY <1>12, <2>1 DEF DeployEmitted, disk
<1>13. CASE ModeEmitted(j)
  <2>1. PICK w : Becomes(j, [j EXCEPT !.pc = "working", !.work = w])
    BY <1>13, Zenon DEF ModeEmitted
  <2>2. JobsSound'
    BY <1>s, <2>1, Working, JobsAfter DEF Becomes
  <2>. QED BY <1>13, <2>2 DEF ModeEmitted, disk
<1>14. CASE TeardownEmitted(j)
  <2>1. PICK w : \/ UNCHANGED <<store, files, stage>> /\ Raises(j)
                 \/ /\ store' = [store EXCEPT ![j.p] = {}]
                    /\ files' = [files EXCEPT ![j.p] = NoTree]
                    /\ stage' = [stage EXCEPT ![j.p] = NoTree]
                    /\ Becomes(j, [j EXCEPT !.pc = "working", !.work = w])
    BY <1>14, Zenon DEF TeardownEmitted
  <2>2. JobsSound'
    BY <1>s, <2>1, Working, JobsAfter, FewerJobs DEF Raises, Finishes, Becomes
  <2>. QED BY <1>14, <2>1, <2>2 DEF TeardownEmitted, Code
<1>15. ASSUME Becomes(j, [j EXCEPT !.work = Tail(@)]), j.pc = "working", UNCHANGED disk
       PROVE  IInv'
  <2>1. JobsSound'
    BY <1>s, <1>15, Working, JobsAfter DEF Becomes
  <2>. QED BY <1>15, <2>1 DEF disk
<1>16. CASE StopContainer(j)
  BY <1>15, <1>16 DEF StopContainer, NextWork
<1>17. CASE CreateContainer(j)
  BY <1>15, <1>17 DEF CreateContainer, NextWork
<1>18. CASE NameTaken(j)
  <2>1. JobsSound'
    BY <1>s, <1>18, SkipStartSound, FewerJobs DEF NameTaken, Raises, Finishes
  <2>. QED BY <1>18, <2>1 DEF NameTaken, disk
<1>19. CASE Done(j)
  <2>1. JobsSound'
    BY <1>19, FewerJobs DEF Done, Finishes
  <2>. QED BY <1>19, <2>1 DEF Done, disk
<1>. QED BY <1>1, <1>2, <1>3, <1>4, <1>5, <1>6, <1>7, <1>8, <1>9, <1>10, <1>11, <1>12,
            <1>13, <1>14, <1>16, <1>17, <1>18, <1>19 DEF Step

LEMMA NextIInv == IInv /\ [Next]_vars => IInv'
<1> SUFFICES ASSUME IInv, [Next]_vars PROVE IInv'
  OBVIOUS
<1>1. ASSUME NEW s \in Slots, NEW p \in Projects, Calls(s, p) PROVE IInv'
  BY <1>1, CallsIInv
<1>2. ASSUME NEW j \in jobs, Step(j) PROVE IInv'
  BY <1>2, StepsIInv
<1>3. ASSUME NEW j \in jobs, Fails(j) PROVE IInv'
  <2>1. Sound(j) /\ (j.op = "recover" => j.pc = "working")
    BY DEF IInv, JobsSound, Sound
  <2>2. JobsSound'
    BY <1>3, <2>1, SkipStartSound, FewerJobs DEF Fails, Raises, Finishes, IInv
  <2>. QED BY <1>3, <2>2 DEF Fails, disk, IInv
<1>4. ASSUME NEW m \in Modes, NEW p \in Projects, Respawn(m, p) PROVE IInv'
  <2>1. UNCHANGED <<disk, jobs>>
    BY <1>4 DEF Respawn
  <2>. QED BY <2>1 DEF IInv, JobsSound, disk
<1>5. CASE Crash
  BY <1>5 DEF Crash, Dies, IInv, JobsSound, disk
<1>8. ASSUME NEW p \in Projects, TornSave(p) PROVE IInv'
  BY <1>8 DEF TornSave, Dies, IInv, JobsSound
<1>6. CASE Boot
  <2> DEFINE loc == Manifest("dev", Only(Kinds), FALSE)
             boot == NewJob("boot", Daemon, "recover", "working", loc, {})
  <2>1. PICK w : jobs' = {[boot EXCEPT !.work = w]}
    BY <1>6, Zenon DEF Boot
  <2>2. Only(Kinds) \in Kinds
    BY ConstantsAssumption DEF Only
  <2>3. loc \in QuotedRecord
    BY <2>2 DEF Manifest, QuotedRecord, Record, Code, Modes
  <2>4. Sound([boot EXCEPT !.work = w])
    BY <2>3 DEF NewJob, Sound, JobWith
  <2>5. JobsSound'
    BY <2>1, <2>4, JobsAfter DEF IInv
  <2>. QED BY <1>6, <2>5 DEF Boot, disk, IInv
<1>7. CASE UNCHANGED vars
  BY <1>7 DEF vars, disk, IInv, JobsSound
<1>. QED BY <1>1, <1>2, <1>3, <1>4, <1>5, <1>6, <1>7, <1>8 DEF Next

-----------------------------------------------------------------------------
(* The theorems *)

\* The invariant holds in every behaviour, whatever overlaps, fails or crashes.
THEOREM Safety == Spec => []IInv
<1>. QED BY InitIInv, NextIInv, PTL DEF Spec

\* A stored binding quote is for the tree that its own record names
\* (deploy.py:546-548).
THEOREM BindingMatchesRecordHolds == Spec => []BindingMatchesRecord
<1>1. IInv => BindingMatchesRecord
  BY DEF IInv, BindingMatchesRecord, QuotedRecord
<1>. QED BY <1>1, Safety, PTL

LEMMA LastAppended ==
  ASSUME NEW S, NEW l \in Seq(S), NEW e \in S
  PROVE  Last(Append(l, e)) = e /\ Append(l, e) # <<>>
BY DEF Last

\* Storing a record and appending an entry for it, in one step.
LEMMA Tells ==
  ASSUME IInv, NEW p \in Projects, NEW r \in QuotedRecord,
         NEW a \in {"deploy", "promote", "unpromote"},
         Saves(p, r), Appends(p, EntryFor(a, r))
  PROVE  /\ store'[p] = {r}
         /\ Last(ledger'[p]) = EntryFor(a, r)
         /\ ledger'[p] # <<>>
         /\ \A q \in Projects \ {p} : store'[q] = store[q] /\ ledger'[q] = ledger[q]
<1>1. EntryFor(a, r) \in Entry
  BY EntryTyped DEF QuotedRecord
<1>2. ledger[p] \in Seq(Entry)
  BY DEF IInv
<1>3. ledger'[p] = Append(ledger[p], EntryFor(a, r))
  BY DEF Appends, IInv
<1>4. Last(ledger'[p]) = EntryFor(a, r) /\ ledger'[p] # <<>>
  BY <1>1, <1>2, <1>3, LastAppended
<1>. QED BY <1>4 DEF Saves, Appends, IInv

\* The four steps that write an entry, and what they write.
LEMMA LedgerWriters ==
  ASSUME IInv, [Next]_vars, UNCHANGED ledger => FALSE
  PROVE  \E p \in Projects :
           \/ \E r \in QuotedRecord, a \in {"deploy", "promote", "unpromote"} :
                Saves(p, r) /\ Appends(p, EntryFor(a, r))
           \/ \E r \in QuotedRecord : Appends(p, EntryFor("teardown", r))
<1> DEFINE Writes ==
      \E p \in Projects :
         \/ \E r \in QuotedRecord, a \in {"deploy", "promote", "unpromote"} :
              Saves(p, r) /\ Appends(p, EntryFor(a, r))
         \/ \E r \in QuotedRecord : Appends(p, EntryFor("teardown", r))
<1>1. ASSUME NEW s \in Slots, NEW p \in Projects, Calls(s, p) PROVE Writes
  <2>1. CASE Unpromote(s, p)
    <3>1. PICK r \in store[p] :
            /\ Saves(p, [r EXCEPT !.mode = "dev"])
            /\ Appends(p, EntryFor("unpromote", [r EXCEPT !.mode = "dev"]))
      BY <2>1, Zenon DEF Unpromote, Saves, Appends, Accepts
    <3>2. [r EXCEPT !.mode = "dev"] \in QuotedRecord
      BY ModeSound DEF Modes, IInv
    <3>. QED BY <3>1, <3>2
  <2>2. CASE Teardown(s, p)
    BY <2>2 DEF Teardown, IInv
  <2>3. CASE Promote(s, p)
    <3>1. UNCHANGED ledger
      BY <2>3, Zenon DEF Promote
    <3>. QED BY <3>1
  <2>. QED BY <1>1, <2>1, <2>2, <2>3 DEF Calls, Deploy, Redeploy, Import, Upload
<1>2. ASSUME NEW j \in jobs, Step(j) PROVE Writes
  <2>1. Sound(j)
    BY DEF IInv, JobsSound
  <2>2. j.loc \in QuotedRecord
    BY <2>1 DEF Sound, JobWith
  <2>3. CASE Recorded(j)
    BY <2>1, <2>2, <2>3 DEF Recorded, Sound
  <2>4. CASE Bound(j)
    <3> DEFINE b == [j.loc EXCEPT !.bound = {j.loc.tree}]
    <3>1. Saves(j.p, b) /\ Appends(j.p, EntryFor("promote", b)) /\ j.pc = "binding"
      BY <2>4, Zenon DEF Bound
    <3>2. b \in QuotedRecord
      BY <2>2 DEF QuotedRecord, Record
    <3>3. j.p \in Projects
      BY <2>1, <3>1 DEF Sound
    <3>. QED BY <3>1, <3>2, <3>3
  <2>5. CASE StopContainer(j) \/ CreateContainer(j) \/ TeardownEmitted(j) \/ ModeEmitted(j)
    <3>1. UNCHANGED ledger
      BY <2>5, Zenon DEF StopContainer, CreateContainer, TeardownEmitted, ModeEmitted, disk
    <3>. QED BY <3>1
  <2>. QED BY <1>2, <2>3, <2>4, <2>5 DEF Step, disk, Cloned, Staged, AcceptManifest,
         RejectManifest, ReadStage, RejectPin, AdoptPin, Built, Brokered, DeployEmitted,
         NameTaken, Done
<1>3. ASSUME NEW j \in jobs, Fails(j) PROVE Writes
  BY <1>3 DEF Fails, disk
<1>4. ASSUME NEW m \in Modes, NEW p \in Projects, Respawn(m, p) PROVE Writes
  BY <1>4 DEF Respawn, disk
<1>5. CASE Crash \/ (\E p \in Projects : TornSave(p)) \/ Boot \/ UNCHANGED vars
  BY <1>5 DEF Crash, TornSave, Boot, vars, disk
<1>. QED BY <1>1, <1>2, <1>3, <1>4, <1>5 DEF Next

\* An entry that tells of a deploy or a change of mode tells of the record stored
\* in the same step (deploy.py:328-338, 548-567, 594-613).
THEOREM EntryTellsRecordHolds == Spec => EntryTellsRecord
<1> DEFINE Told(p) ==
      ledger'[p] # ledger[p] /\ Last(ledger'[p]).act # "teardown" =>
        \E r \in store'[p] : Last(ledger'[p]) = EntryFor(Last(ledger'[p]).act, r)
<1>1. ASSUME IInv, [Next]_vars, NEW q \in Projects PROVE Told(q)
  <2>1. CASE UNCHANGED ledger
    BY <2>1
  <2>2. CASE ~UNCHANGED ledger
    <3>1. PICK p \in Projects :
            \/ \E r \in QuotedRecord, a \in {"deploy", "promote", "unpromote"} :
                 Saves(p, r) /\ Appends(p, EntryFor(a, r))
            \/ \E r \in QuotedRecord : Appends(p, EntryFor("teardown", r))
      BY <1>1, <2>2, LedgerWriters
    <3>2. ASSUME NEW r \in QuotedRecord, NEW a \in {"deploy", "promote", "unpromote"},
                 Saves(p, r), Appends(p, EntryFor(a, r))
          PROVE  Told(q)
      <4>1. /\ store'[p] = {r}
            /\ Last(ledger'[p]) = EntryFor(a, r)
            /\ \A x \in Projects \ {p} : ledger'[x] = ledger[x]
        BY <1>1, <3>2, Tells
      <4>2. EntryFor(a, r).act = a
        BY DEF EntryFor
      <4>3. r \in store'[p] /\ Last(ledger'[p]) = EntryFor(Last(ledger'[p]).act, r)
        BY <4>1, <4>2
      <4>. QED BY <4>1, <4>3, Zenon
    <3>3. ASSUME NEW r \in QuotedRecord, Appends(p, EntryFor("teardown", r))
          PROVE  Told(q)
      <4>1. EntryFor("teardown", r) \in Entry
        BY EntryTyped DEF QuotedRecord
      <4>2. ledger[p] \in Seq(Entry)
        BY <1>1 DEF IInv
      <4>3. Last(Append(ledger[p], EntryFor("teardown", r))).act = "teardown"
        BY <4>1, <4>2, LastAppended DEF EntryFor
      <4>. QED BY <1>1, <3>3, <4>3 DEF Appends, IInv
    <3>. QED BY <3>1, <3>2, <3>3
  <2>. QED BY <2>1, <2>2
<1>2. IInv /\ [Next]_vars => [\A p \in Projects : Told(p)]_vars
  BY <1>1
<1>. QED BY <1>2, Safety, PTL DEF Spec, EntryTellsRecord

-----------------------------------------------------------------------------
(* What a step does to the record and the ledger of a project *)

\* A handler that has stored a record whose entry it has still to write.
Writing(j) ==
  \/ j.pc \in {"saved", "binding"}
  \/ j.pc = "working" /\ j.op = "deploy"

Writers(p) == \E j \in jobs : j.p = p /\ Writing(j)

\* Record and ledger stay as they are, but for a teardown, and so do those who write.
Stays(p) ==
  /\ Writers(p) => Writers(p)'
  /\ \/ store'[p] = store[p] /\ ledger'[p] = ledger[p]
     \/ store'[p] \subseteq store[p] /\ \E j \in jobs' : j.p = p /\ j.op = "teardown"

\* A record is stored and its entry written.
IsTold(p) ==
  \E r \in QuotedRecord, a \in {"deploy", "promote", "unpromote"} :
    store'[p] = {r} /\ ledger'[p] = Append(ledger[p], EntryFor(a, r))

\* Where neither holds somebody has still to write, or was cut short.
Accounts ==
  /\ spoiled \subseteq spoiled'
  /\ \A j \in jobs' : j.op = "teardown" => "teardown" \in Ops \/ \E i \in jobs : i.op = "teardown"
  /\ \A p \in Projects \ spoiled' : Stays(p) \/ IsTold(p) \/ Writers(p)'

\* Storing a record with its entry tells of p, and of no other.
LEMMA TellsTold ==
  ASSUME IInv, NEW p \in Projects, NEW r \in QuotedRecord,
         NEW a \in {"deploy", "promote", "unpromote"},
         Saves(p, r), Appends(p, EntryFor(a, r))
  PROVE  IsTold(p) /\ \A q \in Projects \ {p} : store'[q] = store[q] /\ ledger'[q] = ledger[q]
<1>1. store'[p] = {r} /\ ledger'[p] = Append(ledger[p], EntryFor(a, r))
  BY DEF Saves, Appends, IInv
<1>. QED BY <1>1, Tells DEF IsTold

\* A job moves on, or begins, and keeps what it has still to write.
LEMMA Moves ==
  ASSUME NEW j, NEW k, k.p = j.p, Writing(j) => Writing(k),
         k.op = "teardown" => "teardown" \in Ops \/ \E i \in jobs : i.op = "teardown",
         jobs' = (jobs \ {j}) \cup {k}, spoiled \subseteq spoiled',
         \A p \in Projects :
           \/ store'[p] = store[p] /\ ledger'[p] = ledger[p]
           \/ k.p = p /\ (Writing(k) \/ IsTold(p))
           \/ k.p = p /\ k.op = "teardown" /\ store'[p] \subseteq store[p]
  PROVE  Accounts
<1>1. \A i \in jobs' : i.op = "teardown" => "teardown" \in Ops \/ \E x \in jobs : x.op = "teardown"
  OBVIOUS
<1>2. \A p : Writers(p) => Writers(p)'
  BY DEF Writers
<1>3. \A p : k.p = p /\ Writing(k) => Writers(p)'
  BY DEF Writers
<1>4. k \in jobs'
  OBVIOUS
<1>. QED BY <1>1, <1>2, <1>3, <1>4 DEF Accounts, Stays

\* A job ends with nothing to write, or is cut short.
LEMMA Quits ==
  ASSUME NEW j \in jobs, jobs' = jobs \ {j}, spoiled \subseteq spoiled',
         ~Writing(j) \/ j.p \in spoiled', UNCHANGED <<store, ledger>>
  PROVE  Accounts
<1>1. \A p \in Projects \ spoiled' : Writers(p) => Writers(p)'
  BY DEF Writers
<1>. QED BY <1>1 DEF Accounts, Stays

\* A call begins a job that has nothing to write yet, or has just promoted p.
LEMMA Begins ==
  ASSUME NEW s, NEW p, NEW o, NEW pc, NEW r, NEW pin, o = "teardown" => "teardown" \in Ops,
         jobs' = jobs \cup {NewJob(s, p, o, pc, r, pin)}, UNCHANGED spoiled,
         \A q \in Projects :
           \/ store'[q] = store[q] /\ ledger'[q] = ledger[q]
           \/ q = p /\ (pc = "binding" \/ IsTold(p))
           \/ q = p /\ o = "teardown" /\ store'[q] \subseteq store[q]
  PROVE  Accounts
<1>1. PICK k : k = NewJob(s, p, o, pc, r, pin)
  OBVIOUS
<1>2. k.p = p /\ k.op = o /\ k.pc = pc
  BY <1>1 DEF NewJob
<1>3. jobs' = (jobs \ {k}) \cup {k}
  BY <1>1
<1>4. pc = "binding" => Writing(k)
  BY <1>2 DEF Writing
<1>. QED BY <1>2, <1>3, <1>4, Moves

LEMMA CallsAccount ==
  ASSUME IInv, NEW s \in Slots, NEW p \in Projects, Calls(s, p)
  PROVE  Accounts
<1>1. ASSUME NEW r \in Manifests, Deploy(s, p, r) PROVE Accounts
  BY <1>1, Begins DEF Deploy
<1>2. ASSUME NEW r \in Manifests, NEW t \in Trees, Import(s, p, r, t) PROVE Accounts
  BY <1>2, Begins DEF Import
<1>3. ASSUME NEW r \in Manifests, NEW t \in Trees, Upload(s, p, r, t) PROVE Accounts
  <2>1. CASE /\ jobs' = jobs \cup {NewJob(s, p, "deploy", "building", [r EXCEPT !.tree = t], {})}
             /\ UNCHANGED spoiled
    BY <1>3, <2>1, Begins DEF Upload
  <2>2. CASE spoiled' = spoiled \cup {p} /\ UNCHANGED jobs
    <3>1. UNCHANGED <<store, ledger, jobs>>
      BY <1>3, <2>2 DEF Upload
    <3>. QED BY <2>2, <3>1 DEF Accounts, Stays, Writers
  <2>. QED BY <1>3, <2>1, <2>2 DEF Upload
<1>4. CASE Redeploy(s, p)
  <2>1. PICK r : /\ jobs' = jobs \cup {NewJob(s, p, "deploy", "cloning", r, {})}
                 /\ UNCHANGED <<store, ledger, spoiled>>
    BY <1>4, Zenon DEF Redeploy
  <2>. QED BY <2>1, Begins
<1>5. CASE Promote(s, p)
  <2>1. PICK a : /\ Saves(p, a)
                 /\ jobs' = jobs \cup {NewJob(s, p, "promote", "binding", a, {})}
                 /\ UNCHANGED <<ledger, spoiled>>
    BY <1>5, Zenon DEF Promote
  <2>2. \A q \in Projects \ {p} : store'[q] = store[q]
    BY <2>1 DEF Saves, IInv
  <2>. QED BY <2>1, <2>2, Begins
<1>6. CASE Unpromote(s, p)
  <2>1. PICK r \in store[p] :
          /\ Saves(p, [r EXCEPT !.mode = "dev"])
          /\ Appends(p, EntryFor("unpromote", [r EXCEPT !.mode = "dev"]))
          /\ jobs' = jobs \cup
               {NewJob(s, p, "unpromote", "emitting", [r EXCEPT !.mode = "dev"], {})}
          /\ UNCHANGED spoiled
    BY <1>6, Zenon DEF Unpromote, Saves, Appends, Accepts
  <2>2. [r EXCEPT !.mode = "dev"] \in QuotedRecord
    BY ModeSound DEF Modes, IInv
  <2>3. IsTold(p) /\ \A q \in Projects \ {p} : store'[q] = store[q] /\ ledger'[q] = ledger[q]
    BY <2>1, <2>2, TellsTold
  <2>. QED BY <2>1, <2>3, Begins
<1>7. CASE Teardown(s, p)
  <2>1. PICK r : /\ jobs' = jobs \cup {NewJob(s, p, "teardown", "emitting", r, {})}
                 /\ Appends(p, EntryFor("teardown", r))
                 /\ UNCHANGED <<store, spoiled>> /\ "teardown" \in Ops
    BY <1>7, Zenon DEF Teardown, Accepts
  <2>2. \A q \in Projects \ {p} : ledger'[q] = ledger[q]
    BY <2>1 DEF Appends, IInv
  <2>. QED BY <2>1, <2>2, Begins
<1>. QED BY <1>1, <1>2, <1>3, <1>4, <1>5, <1>6, <1>7 DEF Calls

\* The step that writes the entry settles the job's project.
LEMMA SettledBy ==
  ASSUME NEW j \in jobs, NEW k, Becomes(j, k), k.p = j.p, k.op = j.op,
         UNCHANGED spoiled, IsTold(j.p),
         \A q \in Projects \ {j.p} : store'[q] = store[q] /\ ledger'[q] = ledger[q]
  PROVE  Accounts
<1>1. \A i \in jobs' : i.op = "teardown" => \E x \in jobs : x.op = "teardown"
  BY DEF Becomes
<1>2. \A p \in Projects \ {j.p} : Writers(p) => Writers(p)'
  BY DEF Becomes, Writers
<1>. QED BY <1>1, <1>2 DEF Accounts, Stays

\* The steps of a job: each keeps what it has still to write, writes it, or fails.
LEMMA StepsAccount ==
  ASSUME IInv, NEW j \in jobs, Step(j)
  PROVE  Accounts
<1>s. Sound(j)
  BY DEF IInv, JobsSound
<1>f. /\ \A pc : /\ [j EXCEPT !.pc = pc].p = j.p
                  /\ [j EXCEPT !.pc = pc].op = j.op
                  /\ [j EXCEPT !.pc = pc].pc = pc
      /\ \A w : /\ [j EXCEPT !.work = w].p = j.p
                 /\ [j EXCEPT !.work = w].op = j.op
                 /\ [j EXCEPT !.work = w].pc = j.pc
      /\ \A pc, w : /\ [j EXCEPT !.pc = pc, !.work = w].p = j.p
                     /\ [j EXCEPT !.pc = pc, !.work = w].op = j.op
                     /\ [j EXCEPT !.pc = pc, !.work = w].pc = pc
      /\ \A pc, l : /\ [j EXCEPT !.pc = pc, !.loc = l].p = j.p
                     /\ [j EXCEPT !.pc = pc, !.loc = l].op = j.op
                     /\ [j EXCEPT !.pc = pc, !.loc = l].pc = pc
  BY <1>s DEF Sound, JobWith
\* The steps that move a job on without the store or the ledger.
<1>1. ASSUME NEW k, Becomes(j, k), k.p = j.p, k.op = j.op, Writing(j) => Writing(k),
             UNCHANGED <<store, ledger>>, spoiled \subseteq spoiled'
      PROVE  Accounts
  BY <1>1, <1>s, Moves DEF Becomes
\* Those that end it.
<1>2. ASSUME Raises(j), UNCHANGED <<store, ledger>> PROVE Accounts
  BY <1>2, Quits DEF Raises, Finishes
<1>3. ASSUME Finishes(j), ~Writing(j), UNCHANGED <<store, ledger, spoiled>> PROVE Accounts
  BY <1>3, Quits DEF Finishes
<1>4. ASSUME NEW pc, GoesTo(j, pc), ~Writing(j), UNCHANGED <<store, ledger, spoiled>>
      PROVE  Accounts
  <2>1. PICK k : k = [j EXCEPT !.pc = pc]
    OBVIOUS
  <2>. QED BY <1>4, <1>f, <1>1, <2>1 DEF GoesTo
<1>5. ASSUME NEW t \in Trees, Cloned(j, t) \/ Staged(j, t) PROVE Accounts
  <2>1. ~Writing(j)
    BY <1>5 DEF Cloned, Staged, Writing
  <2>. QED BY <1>5, <2>1, <1>2, <1>3, <1>4 DEF Cloned, Staged, history
<1>6. CASE AcceptManifest(j) \/ ReadStage(j)
  <2>1. PICK pc, l : Becomes(j, [j EXCEPT !.pc = pc, !.loc = l])
    BY <1>6, <1>s DEF AcceptManifest, ReadStage
  <2>2. ~Writing(j) /\ UNCHANGED <<store, ledger, spoiled>>
    BY <1>6 DEF AcceptManifest, ReadStage, Writing, disk, history
  <2>3. PICK k : k = [j EXCEPT !.pc = pc, !.loc = l]
    OBVIOUS
  <2>. QED BY <1>f, <1>1, <2>1, <2>2, <2>3
<1>7. CASE RejectManifest(j)
  BY <1>7, <1>2 DEF RejectManifest, disk
<1>8. CASE RejectPin(j)
  BY <1>8, <1>3 DEF RejectPin, Writing, history
<1>9. CASE AdoptPin(j)
  BY <1>9, <1>2, <1>4 DEF AdoptPin, Writing
<1>10. CASE Built(j)
  <2>1. PICK k : k = [j EXCEPT !.pc = "saved"]
    OBVIOUS
  <2>2. Writing(k) /\ k.p = j.p /\ k.op = j.op
    BY <1>s, <1>f, <2>1 DEF Writing
  <2>3. \A p \in Projects : p # j.p => store'[p] = store[p] /\ ledger'[p] = ledger[p]
    BY <1>10 DEF Built, Saves, IInv
  <2>4. jobs' = (jobs \ {j}) \cup {k} /\ UNCHANGED <<spoiled, ledger>>
    BY <1>10, <2>1 DEF Built, GoesTo, Becomes, history
  <2>. QED BY <2>2, <2>3, <2>4, Moves
<1>11. CASE Brokered(j)
  <2>1. PICK w : Becomes(j, [j EXCEPT !.pc = "working", !.work = w])
    BY <1>11, Zenon DEF Brokered
  <2>2. PICK k : k = [j EXCEPT !.pc = "working", !.work = w]
    OBVIOUS
  <2>4. Becomes(j, k) /\ k.p = j.p /\ k.op = j.op /\ k.pc = "working"
    BY <1>f, <2>1, <2>2
  <2>3. Writing(j) => Writing(k)
    BY <1>11, <1>s, <2>4 DEF Brokered, Writing, Sound
  <2>. QED BY <1>11, <1>1, <2>3, <2>4 DEF Brokered, disk, history
<1>12. CASE Recorded(j)
  <2>1. j.loc \in QuotedRecord /\ j.p \in Projects
    BY <1>12, <1>s DEF Recorded, Sound, JobWith
  <2>2. IsTold(j.p) /\ \A q \in Projects \ {j.p} : store'[q] = store[q] /\ ledger'[q] = ledger[q]
    BY <1>12, <2>1, TellsTold DEF Recorded
  <2>3. PICK k : k = [j EXCEPT !.pc = "emitting"]
    OBVIOUS
  <2>4. Becomes(j, k) /\ k.p = j.p /\ k.op = j.op /\ UNCHANGED spoiled
    BY <1>12, <1>f, <2>3 DEF Recorded, GoesTo, history
  <2>. QED BY <1>s, <2>2, <2>4, SettledBy
<1>13. CASE Bound(j)
  <2> DEFINE b == [j.loc EXCEPT !.bound = {j.loc.tree}]
  <2>1. /\ Saves(j.p, b) /\ Appends(j.p, EntryFor("promote", b))
        /\ Becomes(j, [j EXCEPT !.pc = "emitting", !.loc = b])
        /\ j.pc = "binding" /\ UNCHANGED spoiled
    BY <1>13, Zenon DEF Bound, history
  <2>2. b \in QuotedRecord /\ j.p \in Projects
    BY <1>s, <2>1 DEF Sound, JobWith, QuotedRecord, Record
  <2>3. IsTold(j.p) /\ \A q \in Projects \ {j.p} : store'[q] = store[q] /\ ledger'[q] = ledger[q]
    BY <2>1, <2>2, TellsTold
  <2>4. PICK k : k = [j EXCEPT !.pc = "emitting", !.loc = b]
    OBVIOUS
  <2>5. Becomes(j, k) /\ k.p = j.p /\ k.op = j.op
    BY <1>f, <2>1, <2>4
  <2>. QED BY <1>s, <2>1, <2>3, <2>5, SettledBy
<1>14. CASE DeployEmitted(j)
  BY <1>14, <1>3 DEF DeployEmitted, Writing, disk, history
<1>15. CASE ModeEmitted(j)
  <2>1. PICK w : Becomes(j, [j EXCEPT !.pc = "working", !.work = w])
    BY <1>15, Zenon DEF ModeEmitted
  <2>2. PICK k : k = [j EXCEPT !.pc = "working", !.work = w]
    OBVIOUS
  <2>4. Becomes(j, k) /\ k.p = j.p /\ k.op = j.op /\ k.pc = "working"
    BY <1>f, <2>1, <2>2
  <2>3. ~Writing(j)
    BY <1>15 DEF ModeEmitted, Writing
  <2>. QED BY <1>15, <1>1, <2>3, <2>4 DEF ModeEmitted, disk, history
<1>16. CASE TeardownEmitted(j)
  <2>1. j.pc = "emitting" /\ j.op = "teardown" /\ UNCHANGED ledger
    BY <1>16, Zenon DEF TeardownEmitted
  <2>2. CASE Raises(j) /\ UNCHANGED store
    BY <1>2, <2>1, <2>2
  <2>3. CASE store' = [store EXCEPT ![j.p] = {}] /\ UNCHANGED spoiled
             /\ \E w : Becomes(j, [j EXCEPT !.pc = "working", !.work = w])
    <3>1. PICK w : Becomes(j, [j EXCEPT !.pc = "working", !.work = w])
      BY <2>3
    <3>2. PICK k : k = [j EXCEPT !.pc = "working", !.work = w]
      OBVIOUS
    <3>3. Becomes(j, k) /\ k.p = j.p /\ k.op = "teardown"
      BY <1>f, <2>1, <3>1, <3>2
    <3>4. \A p \in Projects : IF p = j.p THEN store'[p] \subseteq store[p] ELSE store'[p] = store[p]
      BY <2>3 DEF IInv
    <3>5. ~Writing(j)
      BY <2>1 DEF Writing
    <3>. QED BY <2>1, <2>3, <3>3, <3>4, <3>5, Moves DEF Becomes
  <2>. QED BY <1>16, <2>2, <2>3, Zenon DEF TeardownEmitted
<1>17. ASSUME NEW w, Becomes(j, [j EXCEPT !.work = w]), UNCHANGED <<store, ledger>>,
              spoiled \subseteq spoiled'
       PROVE  Accounts
  <2>1. PICK k : k = [j EXCEPT !.work = w]
    OBVIOUS
  <2>2. Writing(j) => Writing(k)
    BY <1>f, <2>1 DEF Writing
  <2>. QED BY <1>17, <1>f, <1>1, <2>1, <2>2
<1>18. CASE StopContainer(j)
  BY <1>17, <1>18 DEF StopContainer, NextWork, disk, history
<1>19. CASE CreateContainer(j)
  BY <1>17, <1>19 DEF CreateContainer, NextWork, disk, history
<1>20. CASE NameTaken(j)
  <2>1. CASE SkipStart(j)
    <3>1. PICK w : Becomes(j, [j EXCEPT !.work = w]) /\ spoiled \subseteq spoiled'
      BY <2>1, Zenon DEF SkipStart
    <3>. QED BY <1>17, <1>20, <3>1 DEF NameTaken, disk
  <2>. QED BY <1>2, <1>20, <2>1 DEF NameTaken, disk
<1>21. CASE Done(j)
  BY <1>21, <1>3 DEF Done, Writing, disk, history
<1>. QED BY <1>5, <1>6, <1>7, <1>8, <1>9, <1>10, <1>11, <1>12, <1>13, <1>14, <1>15, <1>16,
            <1>18, <1>19, <1>20, <1>21 DEF Step

\* No handler outlives the daemon's process.
NoneWhileDown == up \/ jobs = {}

LEMMA NextDown == NoneWhileDown /\ [Next]_vars => NoneWhileDown'
<1> SUFFICES ASSUME NoneWhileDown, [Next]_vars PROVE NoneWhileDown'
  OBVIOUS
<1>1. ASSUME NEW s \in Slots, NEW p \in Projects, Calls(s, p) PROVE up /\ UNCHANGED up
  <2>1. CASE Promote(s, p) \/ Unpromote(s, p)
    BY <2>1, Zenon DEF Promote, Unpromote, Accepts
  <2>. QED BY <1>1, <2>1 DEF Calls, Deploy, Upload, Import, Redeploy, Teardown, Accepts
<1>2. ASSUME NEW j \in jobs, Step(j) \/ Fails(j) PROVE up /\ UNCHANGED up
  <2>1. up
    BY DEF NoneWhileDown
  <2>2. CASE Bound(j) \/ ModeEmitted(j) \/ TeardownEmitted(j) \/ StopContainer(j) \/ CreateContainer(j)
    BY <2>1, <2>2, Zenon DEF Bound, ModeEmitted, TeardownEmitted, StopContainer, CreateContainer
  <2>. QED BY <1>2, <2>1, <2>2 DEF Step, Fails, Cloned, Staged, AcceptManifest, RejectManifest,
         ReadStage, RejectPin, AdoptPin, Built, Brokered, Recorded, DeployEmitted, NameTaken, Done
<1>3. CASE \E m \in Modes, p \in Projects : Respawn(m, p)
  BY <1>3 DEF Respawn, NoneWhileDown
<1>4. CASE Crash \/ (\E p \in Projects : TornSave(p)) \/ Boot
  BY <1>4 DEF Crash, TornSave, Dies, Boot, NoneWhileDown
<1>5. CASE UNCHANGED vars
  BY <1>5 DEF vars, NoneWhileDown
<1>. QED BY <1>1, <1>2, <1>3, <1>4, <1>5 DEF Next, NoneWhileDown

LEMMA NextAccounts ==
  IInv /\ NoneWhileDown /\ [Next]_vars => Accounts
<1> SUFFICES ASSUME IInv, NoneWhileDown, [Next]_vars PROVE Accounts
  OBVIOUS
<1>1. ASSUME NEW s \in Slots, NEW p \in Projects, Calls(s, p) PROVE Accounts
  BY <1>1, CallsAccount
<1>2. ASSUME NEW j \in jobs, Step(j) PROVE Accounts
  BY <1>2, StepsAccount
<1>3. ASSUME NEW j \in jobs, Fails(j) PROVE Accounts
  <2>1. CASE j.op = "recover" /\ SkipStart(j)
    <3>1. Sound(j)
      BY DEF IInv, JobsSound
    <3>2. PICK w : Becomes(j, [j EXCEPT !.work = w]) /\ spoiled \subseteq spoiled'
      BY <2>1, Zenon DEF SkipStart
    <3>3. PICK k : k = [j EXCEPT !.work = w]
      OBVIOUS
    <3>4. k.p = j.p /\ k.op = "recover" /\ k.pc = j.pc
      BY <2>1, <3>1, <3>3 DEF Sound, JobWith
    <3>5. Writing(j) => Writing(k)
      BY <2>1, <3>4 DEF Writing
    <3>6. jobs' = (jobs \ {j}) \cup {k} /\ UNCHANGED <<store, ledger>>
      BY <1>3, <3>2, <3>3 DEF Becomes, Fails, disk
    <3>. QED BY <3>2, <3>4, <3>5, <3>6, Moves
  <2>2. CASE Raises(j)
    BY <1>3, <2>2, Quits DEF Fails, Raises, Finishes, disk
  <2>. QED BY <1>3, <2>1, <2>2 DEF Fails
<1>4. ASSUME NEW m \in Modes, NEW p \in Projects, Respawn(m, p) PROVE Accounts
  <2>1. UNCHANGED <<store, ledger, jobs, spoiled>>
    BY <1>4 DEF Respawn, disk, history
  <2>. QED BY <2>1 DEF Accounts, Stays, Writers
<1>5. CASE Crash
  <2>1. /\ UNCHANGED <<store, ledger>> /\ jobs' = {}
        /\ spoiled' = spoiled \cup {j.p : j \in jobs}
    BY <1>5 DEF Crash, Dies, disk
  <2>2. \A p \in Projects \ spoiled', j \in jobs : j.p # p
    BY <2>1
  <2>. QED BY <2>1, <2>2 DEF Accounts, Stays, Writers
<1>8. ASSUME NEW q \in Projects, TornSave(q) PROVE Accounts
  <2>1. /\ UNCHANGED ledger /\ jobs' = {} /\ store' = [store EXCEPT ![q] = {}]
        /\ spoiled' = spoiled \cup {q} \cup {j.p : j \in jobs}
    BY <1>8 DEF TornSave, Dies
  <2>2. \A p \in Projects \ spoiled' : store'[p] = store[p] /\ \A j \in jobs : j.p # p
    BY <2>1 DEF IInv
  <2>. QED BY <2>1, <2>2 DEF Accounts, Stays, Writers
<1>6. CASE Boot
  <2> DEFINE loc == Manifest("dev", Only(Kinds), FALSE)
             boot == NewJob("boot", Daemon, "recover", "working", loc, {})
  <2>1. PICK w : jobs' = {[boot EXCEPT !.work = w]}
    BY <1>6, Zenon DEF Boot
  <2>2. UNCHANGED <<store, ledger, spoiled>>
    BY <1>6 DEF Boot, disk, history
  <2>3. \A j \in jobs' : j.op # "teardown"
    BY <2>1 DEF NewJob
  <2>4. jobs = {}
    BY <1>6 DEF Boot, NoneWhileDown
  <2>. QED BY <2>2, <2>3, <2>4 DEF Accounts, Stays, Writers
<1>7. CASE UNCHANGED vars
  BY <1>7 DEF vars, disk, history, Accounts, Stays, Writers
<1>. QED BY <1>1, <1>2, <1>3, <1>4, <1>5, <1>6, <1>7, <1>8 DEF Next

-----------------------------------------------------------------------------
(* A settled project's ledger tells its record, where nothing is torn down *)

\* What the ledger says of p agrees with the store.
Told(p) ==
  /\ \A r \in store[p] :
       ledger[p] # <<>> /\ Last(ledger[p]) \in {EntryFor(a, r) : a \in {"deploy", "promote", "unpromote"}}
  /\ store[p] = {} => ledger[p] = <<>> \/ Last(ledger[p]).act = "teardown"

\* Where the ledger lags behind the store, a handler still has to write, or one
\* was cut short.
LedgerInv ==
  /\ \A j \in jobs : j.op # "teardown"
  /\ \A p \in Projects \ spoiled : Told(p) \/ Writers(p)

LEMMA InitLedger == Init => LedgerInv
<1> SUFFICES ASSUME Init, NEW p \in Projects PROVE Told(p)
  BY DEF LedgerInv, Init
<1>1. IInv
  BY InitIInv
<1>2. PICK r \in [Projects -> Manifests] :
        store[p] = IF files[p] = NoTree THEN {} ELSE {[r[p] EXCEPT !.tree = files[p]]}
  BY DEF Init
<1>3. ASSUME NEW x, store[p] = {x} PROVE Told(p)
  <2>1. ledger[p] = <<EntryFor("deploy", x)>>
    BY <1>3 DEF Init, Only
  <2>2. Last(ledger[p]) = EntryFor("deploy", x) /\ ledger[p] # <<>>
    BY <2>1 DEF Last
  <2>. QED BY <1>3, <2>2 DEF Told
<1>4. CASE store[p] = {}
  BY <1>4 DEF Told, Init
<1>. QED BY <1>2, <1>3, <1>4

LEMMA ToldKept ==
  ASSUME IInv, Accounts, NEW p \in Projects \ spoiled', \A j \in jobs' : j.p = p => j.op # "teardown",
         Told(p) \/ Writers(p)
  PROVE  Told(p)' \/ Writers(p)'
<1>1. Stays(p) \/ IsTold(p) \/ Writers(p)'
  BY DEF Accounts
<1>2. CASE Stays(p)
  BY <1>2 DEF Stays, Told
<1>3. CASE IsTold(p)
  <2>1. PICK r \in QuotedRecord, a \in {"deploy", "promote", "unpromote"} :
          store'[p] = {r} /\ ledger'[p] = Append(ledger[p], EntryFor(a, r))
    BY <1>3 DEF IsTold
  <2>2. EntryFor(a, r) \in Entry /\ ledger[p] \in Seq(Entry)
    BY EntryTyped DEF QuotedRecord, IInv
  <2>3. Last(ledger'[p]) = EntryFor(a, r) /\ ledger'[p] # <<>>
    BY <2>1, <2>2, LastAppended
  <2>. QED BY <2>1, <2>3 DEF Told
<1>. QED BY <1>1, <1>2, <1>3

LEMMA NextLedger ==
  "teardown" \notin Ops /\ IInv /\ LedgerInv /\ Accounts => LedgerInv'
<1> SUFFICES ASSUME "teardown" \notin Ops, IInv, LedgerInv, Accounts PROVE LedgerInv'
  OBVIOUS
<1>1. \A j \in jobs' : j.op # "teardown"
  BY DEF LedgerInv, Accounts
<1>2. \A p \in Projects \ spoiled' : Told(p) \/ Writers(p)
  BY DEF LedgerInv, Accounts
<1>. QED BY <1>1, <1>2, ToldKept DEF LedgerInv

\* Where no call tears a project down, the last entry of a project that no handler
\* works on, or was cut short on, tells its stored record (deploy.py:328-338,
\* 548-567, 594-613): a handler that stores a record has still to write its entry.
THEOREM LedgerTellsRecordHolds == "teardown" \notin Ops /\ Spec => []LedgerTellsRecord
<1>1. Init => NoneWhileDown
  BY DEF Init, NoneWhileDown
<1>2. LedgerInv => LedgerTellsRecord
  BY DEF LedgerInv, LedgerTellsRecord, Settled, Told, Writers
<1>3. ASSUME "teardown" \notin Ops PROVE Spec => []LedgerTellsRecord
  <2>1. IInv /\ NoneWhileDown /\ LedgerInv /\ [Next]_vars => LedgerInv'
    BY <1>3, NextLedger, NextAccounts
  <2>. QED BY <1>1, <1>2, <2>1, Safety, InitLedger, NextDown, PTL DEF Spec
<1>. QED BY <1>3

-----------------------------------------------------------------------------
(* The bundle of a project, and the verification that asks for it *)

\* The record that a verification carries agrees with its binding, as every stored
\* record does.
CheckWith(calm) ==
  [p: Projects, by: {"library", "cli"}, at: {"looked", "quoting", "keying"},
   project: SUBSET Modes, loc: SUBSET QuotedRecord, quoted: BOOLEAN, calm: {calm}]

Carries(c) == c \in CheckWith(c.calm)

\* What a bundle must be for BundleBindsItsSource.
Binds(b) ==
  b.attestation_kind # "" =>
    BindingVerified(b) /\ \A k \in b.binding : k.name = b.project /\ k.tree_hash = b.tree_hash

EInv ==
  /\ IInv
  /\ \A c \in check : Carries(c)
  /\ BundleBindsItsSource

\* With the handlers' steps alone the store is as Lifecycle says.
LEMMA StoreKept == IInv /\ UNCHANGED vars => IInv'
<1> SUFFICES ASSUME IInv, UNCHANGED vars PROVE IInv'
  OBVIOUS
<1>. QED BY NextIInv

LEMMA LoadedCarries ==
  ASSUME IInv, NEW p \in Projects
  PROVE  store[p] \subseteq QuotedRecord /\ Attested(p) \subseteq QuotedRecord
BY DEF IInv, Attested

\* Without a bundle, or with one of a record that agrees with its binding, a report
\* tells of a binding to the source that the bundle names.
LEMMA BundleBinds ==
  ASSUME NEW c, NEW r \in QuotedRecord, NEW key
  PROVE  Binds(Bundle(c, r, key))
<1> DEFINE b == Bundle(c, r, key)
<1>1. r.bound \subseteq {r.tree}
  BY DEF QuotedRecord
<1>2. /\ b.project = c.p /\ b.tree_hash = r.tree
      /\ b.attestation_kind = AttestationKind(r)
      /\ b.binding = {AppBinding(c.p, t) : t \in r.bound}
  BY DEF Bundle
<1>3. ASSUME b.attestation_kind # "" PROVE BindingVerified(b)
  <2>1. PICK t \in r.bound : TRUE
    BY <1>2, <1>3 DEF AttestationKind
  <2>2. AppBinding(c.p, t) \in b.binding
    BY <1>2
  <2>3. AppBinding(c.p, t).quoted =
          AppReportData(AppBinding(c.p, t).app_id, AppBinding(c.p, t).name,
                        AppBinding(c.p, t).tree_hash, AppBinding(c.p, t).app_pubkey)
    BY DEF AppBinding
  <2>. QED BY <1>3, <2>2, <2>3 DEF BindingVerified
<1>4. \A k \in b.binding : k.name = b.project /\ k.tree_hash = b.tree_hash
  BY <1>1, <1>2 DEF AppBinding
<1>. QED BY <1>3, <1>4 DEF Binds

\* What a request begins with, and what it goes on with once the record is loaded.
LEMMA Begun ==
  ASSUME NEW p \in Projects, NEW by \in {"library", "cli"}, NEW at \in {"looked", "quoting"},
         NEW project \in SUBSET Modes, NEW loc \in SUBSET QuotedRecord, NEW calm
  PROVE  Carries([p |-> p, by |-> by, at |-> at, loc |-> loc, quoted |-> FALSE,
                  project |-> project, calm |-> calm])
BY DEF Carries, CheckWith

LEMMA Loaded ==
  ASSUME NEW c, Carries(c), NEW loc \in SUBSET QuotedRecord, NEW calm
  PROVE  Carries([c EXCEPT !.at = "quoting", !.loc = loc, !.calm = calm])
BY DEF Carries, CheckWith

LEMMA ReportsBind ==
  ASSUME NEW c, NEW data, Reports(c, data),
         \A b \in data : Binds(b)
  PROVE  check' = {} /\ BundleBindsItsSource'
<1>1. PICK project, status :
        report' = {[p |-> c.p, by |-> c.by, calm |-> c.calm, project |-> project, data |-> data,
                    status |-> status]}
  BY Zenon DEF Reports
<1>2. \A x \in report' : x.data = data
  <2>1. PICK x : /\ x = [p |-> c.p, by |-> c.by, calm |-> c.calm, project |-> project,
                         data |-> data, status |-> status]
                 /\ report' = {x}
    BY <1>1, Zenon
  <2>2. x.data = data
    BY <2>1
  <2>. QED BY <2>1, <2>2, Zenon
<1>3. check' = {}
  BY Zenon DEF Reports
<1>. QED BY <1>2, <1>3 DEF BundleBindsItsSource, Binds

LEMMA ReportsNothing ==
  ASSUME NEW c, Reports(c, {})
  PROVE  check' = {} /\ BundleBindsItsSource'
<1>1. PICK data : data = {}
  OBVIOUS
<1>2. Reports(c, data) /\ \A b \in data : Binds(b)
  BY <1>1
<1>. QED BY <1>2, ReportsBind

-----------------------------------------------------------------------------
(* Every step keeps it *)

LEMMA CliLooksEInv ==
  ASSUME EInv, NEW p \in Projects, NEW token \in BOOLEAN, CliLooks(p, token)
  PROVE  EInv'
<1>1. IInv'
  BY StoreKept DEF EInv, CliLooks
<1>2. PICK c : /\ Carries(c) /\ c.loc = {}
               /\ Reports(c, {}) \/ (check' = {c} /\ UNCHANGED report)
  <2> DEFINE c == [p |-> p, by |-> "cli", at |-> "looked", loc |-> {}, quoted |-> FALSE,
                   project |-> {r.mode : r \in IF token THEN store[p] ELSE Attested(p)},
                   calm |-> Settled(p)]
  <2>1. Reports(c, {}) \/ (check' = {c} /\ UNCHANGED report)
    <3>1. IF c.project = {"dev"} THEN Reports(c, {}) ELSE check' = {c} /\ UNCHANGED report
      BY DEF CliLooks
    <3>. QED BY <3>1, Zenon
  <2>2. c.project \in SUBSET Modes
    <3>1. store[p] \subseteq QuotedRecord /\ Attested(p) \subseteq QuotedRecord
      BY LoadedCarries DEF EInv
    <3>. QED BY <3>1 DEF QuotedRecord, Record
  <2>3. Carries(c)
    BY <2>2, Begun, Zenon
  <2>. QED BY <2>1, <2>3
<1>3. CASE Reports(c, {})
  <2>1. check' = {} /\ BundleBindsItsSource'
    BY <1>3, ReportsNothing, Zenon
  <2>. QED BY <1>1, <2>1 DEF EInv
<1>4. CASE check' = {c} /\ UNCHANGED report
  BY <1>1, <1>2, <1>4 DEF EInv, BundleBindsItsSource
<1>. QED BY <1>2, <1>3, <1>4

LEMMA LibraryAsksEInv ==
  ASSUME EInv, NEW p \in Projects, LibraryAsks(p)
  PROVE  EInv'
<1>1. IInv' /\ UNCHANGED report
  BY StoreKept DEF EInv, LibraryAsks
<1> DEFINE c == [p |-> p, by |-> "library", at |-> "quoting", project |-> {},
                 loc |-> Attested(p), quoted |-> FALSE, calm |-> Settled(p)]
<1>2. check' = {c}
  BY Zenon DEF LibraryAsks
<1>3. Attested(p) \in SUBSET QuotedRecord
  BY LoadedCarries DEF EInv
<1>4. Carries(c)
  BY <1>3, Begun, Zenon
<1>. QED BY <1>1, <1>2, <1>4 DEF EInv, BundleBindsItsSource

LEMMA CliAsksEInv ==
  ASSUME EInv, NEW c \in check, CliAsks(c)
  PROVE  EInv'
<1>1. IInv'
  BY StoreKept DEF EInv, CliAsks
<1>2. CASE Reports(c, {})
  <2>1. check' = {} /\ BundleBindsItsSource'
    BY <1>2, ReportsNothing, Zenon
  <2>. QED BY <1>1, <2>1 DEF EInv
<1>3. CASE /\ check' = {[c EXCEPT !.at = "quoting", !.loc = Attested(c.p), !.calm = @ /\ Settled(c.p)]}
           /\ UNCHANGED report
  <2>1. Carries(c)
    BY DEF EInv
  <2>2. Attested(c.p) \in SUBSET QuotedRecord
    BY <2>1, LoadedCarries DEF EInv, Carries, CheckWith
  <2>3. Carries([c EXCEPT !.at = "quoting", !.loc = Attested(c.p), !.calm = @ /\ Settled(c.p)])
    BY <2>1, <2>2, Loaded, Zenon
  <2>4. \A d \in check' : Carries(d)
    BY <1>3, <2>3, Zenon
  <2>. QED BY <1>1, <1>3, <2>4 DEF EInv, BundleBindsItsSource
<1>. QED BY <1>2, <1>3, Zenon DEF CliAsks

LEMMA QuotedEInv ==
  ASSUME EInv, NEW c \in check, NEW answered \in BOOLEAN, Quoted(c, answered)
  PROVE  EInv'
<1>1. IInv' /\ UNCHANGED report
  BY StoreKept DEF EInv, Quoted
<1>2. Carries(c) /\ check' = {[c EXCEPT !.at = "keying", !.quoted = answered]}
  BY DEF EInv, Quoted
<1>3. \A d \in check' : Carries(d)
  BY <1>2 DEF Carries, CheckWith
<1>. QED BY <1>1, <1>3 DEF EInv, BundleBindsItsSource

LEMMA KeyedEInv ==
  ASSUME EInv, NEW c \in check, NEW key \in {"", "key"}, Keyed(c, key)
  PROVE  EInv'
<1>1. IInv'
  BY StoreKept DEF EInv, Keyed
<1>2. Reports(c, {Bundle(c, r, key) : r \in c.loc})
  BY DEF Keyed
<1>3. c.loc \subseteq QuotedRecord
  BY DEF EInv, Carries, CheckWith
<1>4. \A b \in {Bundle(c, r, key) : r \in c.loc} : Binds(b)
  <2>1. TAKE b \in {Bundle(c, r, key) : r \in c.loc}
  <2>2. PICK r \in QuotedRecord : b = Bundle(c, r, key)
    BY <1>3
  <2>. QED BY <2>2, BundleBinds
<1>5. check' = {} /\ BundleBindsItsSource'
  BY <1>2, <1>4, ReportsBind
<1>. QED BY <1>1, <1>5 DEF EInv

LEMMA HandedEInv ==
  ASSUME EInv, NEW e \in Consumers, Handed(e)
  PROVE  EInv'
<1>1. IInv' /\ UNCHANGED <<check, report>>
  BY StoreKept DEF EInv, Handed
<1>. QED BY <1>1 DEF EInv, BundleBindsItsSource

\* The handlers step as in Lifecycle, and at most end a verification.
LEMMA HandlersEInv == EInv /\ Handlers => EInv'
<1> SUFFICES ASSUME EInv, Handlers PROVE EInv'
  OBVIOUS
<1>1. IInv'
  BY NextIInv DEF EInv, Handlers
<1>. QED BY <1>1 DEF EInv, Handlers, BundleBindsItsSource

LEMMA NextEInv == EInv /\ [EvidenceNext]_<<vars, evidence>> => EInv'
<1> SUFFICES ASSUME EInv, [EvidenceNext]_<<vars, evidence>> PROVE EInv'
  OBVIOUS
<1>1. CASE Handlers
  BY <1>1, HandlersEInv
<1>2. CASE \E p \in Projects, token \in BOOLEAN : CliLooks(p, token)
  BY <1>2, CliLooksEInv
<1>3. CASE \E p \in Projects : LibraryAsks(p)
  BY <1>3, LibraryAsksEInv
<1>4. CASE \E c \in check : CliAsks(c)
  BY <1>4, CliAsksEInv
<1>5. CASE \E c \in check, answered \in BOOLEAN : Quoted(c, answered)
  BY <1>5, QuotedEInv
<1>6. CASE \E c \in check, key \in {"", "key"} : Keyed(c, key)
  BY <1>6, KeyedEInv
<1>7. CASE \E e \in Consumers : Handed(e)
  BY <1>7, HandedEInv
<1>8. CASE UNCHANGED <<vars, evidence>>
  BY <1>8, StoreKept DEF EInv, evidence, BundleBindsItsSource
<1>. QED BY <1>1, <1>2, <1>3, <1>4, <1>5, <1>6, <1>7, <1>8 DEF EvidenceNext

-----------------------------------------------------------------------------
(* The theorem *)

\* A bundle that claims a binding has one that verifies and is for the project and the
\* tree that the bundle names, whatever is deployed and promoted while it is put
\* together, and wherever dstack fails (ingress.py:1128-1151, evidence.py:152-171).
THEOREM BundleBindsItsSourceHolds == EvidenceSpec => []BundleBindsItsSource
<1>1. EvidenceInit => EInv
  BY InitIInv DEF EvidenceInit, EInv, BundleBindsItsSource
<1>2. EInv => BundleBindsItsSource
  BY DEF EInv
<1>. QED BY <1>1, <1>2, NextEInv, PTL DEF EvidenceSpec

-----------------------------------------------------------------------------
(* What a ledger has told of a project, which is never taken back *)

TreeTold(p, t) ==
  \E i \in DOMAIN ledger[p] : ledger[p][i].act # "teardown" /\ ledger[p][i].tree = t

BindingTold(p) == \E i \in DOMAIN ledger[p] : ledger[p][i].act = "promote"

Grows ==
  \A p \in Projects : ledger'[p] = ledger[p] \/ \E e \in Entry : ledger'[p] = Append(ledger[p], e)

LEMMA NextGrows == IInv /\ [Next]_vars => Grows
<1> SUFFICES ASSUME IInv, [Next]_vars PROVE Grows
  OBVIOUS
<1>1. CASE UNCHANGED ledger
  BY <1>1 DEF Grows
<1>2. ASSUME NEW p \in Projects, NEW r \in QuotedRecord,
             NEW a \in {"deploy", "promote", "unpromote", "teardown"},
             Appends(p, EntryFor(a, r))
      PROVE  Grows
  <2>1. EntryFor(a, r) \in Entry
    BY EntryTyped DEF QuotedRecord
  <2>2. ledger'[p] = Append(ledger[p], EntryFor(a, r))
    BY <1>2 DEF Appends, IInv
  <2>3. \A q \in Projects \ {p} : ledger'[q] = ledger[q]
    BY <1>2 DEF Appends, IInv
  <2>. QED BY <2>1, <2>2, <2>3 DEF Grows
<1>3. CASE ~UNCHANGED ledger
  <2>1. PICK p \in Projects :
           \/ \E r \in QuotedRecord, a \in {"deploy", "promote", "unpromote"} :
                Saves(p, r) /\ Appends(p, EntryFor(a, r))
           \/ \E r \in QuotedRecord : Appends(p, EntryFor("teardown", r))
    BY <1>3, LedgerWriters
  <2>. QED BY <1>2, <2>1
<1>. QED BY <1>1, <1>3

LEMMA ToldAppended ==
  ASSUME NEW l \in Seq(Entry), NEW e \in Entry
  PROVE  /\ \A i \in DOMAIN l : i \in DOMAIN Append(l, e) /\ Append(l, e)[i] = l[i]
         /\ \E i \in DOMAIN Append(l, e) : Append(l, e)[i] = e
<1>1. Len(l) + 1 \in DOMAIN Append(l, e) /\ Append(l, e)[Len(l) + 1] = e
  OBVIOUS
<1>. QED BY <1>1

LEMMA ToldStays ==
  ASSUME IInv, Grows, NEW p \in Projects
  PROVE  /\ \A t : TreeTold(p, t) => TreeTold(p, t)'
         /\ BindingTold(p) => BindingTold(p)'
<1>1. ledger[p] \in Seq(Entry)
  BY DEF IInv
<1>2. \A i \in DOMAIN ledger[p] : i \in DOMAIN ledger'[p] /\ ledger'[p][i] = ledger[p][i]
  BY <1>1, ToldAppended DEF Grows
<1>. QED BY <1>2 DEF TreeTold, BindingTold

-----------------------------------------------------------------------------
(* Some entry tells the tree of a stored record, whatever is torn down *)

TreesInv ==
  \A p \in Projects \ spoiled : Writers(p) \/ \A r \in store[p] : TreeTold(p, r.tree)

LEMMA InitTrees == Init => TreesInv
<1> SUFFICES ASSUME Init, NEW p \in Projects, NEW r \in store[p] PROVE TreeTold(p, r.tree)
  BY DEF TreesInv
<1>1. PICK m \in [Projects -> Manifests] :
        store[p] = IF files[p] = NoTree THEN {} ELSE {[m[p] EXCEPT !.tree = files[p]]}
  BY DEF Init
<1>2. store[p] = {r}
  BY <1>1
<1>3. ledger[p] = <<EntryFor("deploy", r)>>
  BY <1>2 DEF Init, Only
<1>4. 1 \in DOMAIN ledger[p] /\ ledger[p][1] = EntryFor("deploy", r)
  BY <1>3
<1>. QED BY <1>4 DEF TreeTold, EntryFor

LEMMA NextTrees == IInv /\ Accounts /\ Grows /\ TreesInv => TreesInv'
<1> SUFFICES ASSUME IInv, Accounts, Grows, TreesInv, NEW p \in Projects \ spoiled', ~Writers(p)',
                    NEW r \in store'[p]
             PROVE  TreeTold(p, r.tree)'
  BY DEF TreesInv
<1>1. p \notin spoiled /\ (Stays(p) \/ IsTold(p))
  BY DEF Accounts
<1>2. CASE Stays(p)
  <2>1. r \in store[p] /\ ~Writers(p)
    BY <1>2 DEF Stays
  <2>. QED BY <1>1, <2>1, ToldStays DEF TreesInv
<1>3. CASE IsTold(p)
  <2>1. PICK a \in {"deploy", "promote", "unpromote"} :
          r \in QuotedRecord /\ ledger'[p] = Append(ledger[p], EntryFor(a, r))
    BY <1>3 DEF IsTold
  <2>2. EntryFor(a, r) \in Entry /\ ledger[p] \in Seq(Entry)
    BY <2>1, EntryTyped DEF QuotedRecord, IInv
  <2>3. PICK i \in DOMAIN ledger'[p] : ledger'[p][i] = EntryFor(a, r)
    BY <2>1, <2>2, ToldAppended
  <2>. QED BY <2>3 DEF TreeTold, EntryFor
<1>. QED BY <1>1, <1>2, <1>3

-----------------------------------------------------------------------------
(* Wherever there is a binding, an entry tells of a promotion *)

Bindings(p) == (\E r \in store[p] : r.bound # {}) \/ \E j \in jobs : j.p = p /\ j.loc.bound # {}

BindingsInv == \A p \in Projects : Bindings(p) => BindingTold(p)

\* A binding comes from one that was there, or with its entry.
Lineage == \A p \in Projects : Bindings(p)' => Bindings(p) \/ BindingTold(p)'

LEMMA Inherits ==
  ASSUME \A k \in jobs' : k \in jobs \/ (k.loc.bound # {} => Bindings(k.p)),
         \A p \in Projects : \A r \in store'[p] : r \in store[p] \/ (r.bound # {} => Bindings(p))
  PROVE  Lineage
BY DEF Lineage, Bindings

LEMMA CallsLineage ==
  ASSUME IInv, NEW s \in Slots, NEW p \in Projects, Calls(s, p)
  PROVE  Lineage
<1>1. ASSUME NEW o, NEW pc, NEW r, NEW pin, jobs' = jobs \cup {NewJob(s, p, o, pc, r, pin)},
             r.bound # {} => Bindings(p),
             \A q \in Projects : store'[q] = store[q] \/ (q = p /\ store'[q] = {r})
      PROVE  Lineage
  <2>1. PICK k : k = NewJob(s, p, o, pc, r, pin)
    OBVIOUS
  <2>2. k.p = p /\ k.loc = r /\ jobs' = jobs \cup {k}
    BY <1>1, <2>1 DEF NewJob
  <2>. QED BY <1>1, <2>2, Inherits
<1>2. ASSUME NEW r \in Manifests, Deploy(s, p, r) PROVE Lineage
  BY <1>1, <1>2, ManifestSound DEF Deploy
<1>3. ASSUME NEW r \in Manifests, NEW t \in Trees, Import(s, p, r, t) PROVE Lineage
  BY <1>1, <1>3, ManifestSound DEF Import
<1>4. ASSUME NEW r \in Manifests, NEW t \in Trees, Upload(s, p, r, t) PROVE Lineage
  <2>1. [r EXCEPT !.tree = t].bound = {}
    BY ManifestSound, TreeSound DEF Code
  <2>2. CASE jobs' = jobs \cup {NewJob(s, p, "deploy", "building", [r EXCEPT !.tree = t], {})}
    BY <1>1, <1>4, <2>1, <2>2 DEF Upload
  <2>3. CASE UNCHANGED jobs
    BY <1>4, <2>3, Inherits DEF Upload
  <2>. QED BY <1>4, <2>2, <2>3 DEF Upload
<1>5. CASE Redeploy(s, p)
  <2>1. PICK r \in store[p] :
          /\ jobs' = jobs \cup {NewJob(s, p, "deploy", "cloning", Manifest(r.mode, r.kind, r.caps), {})}
          /\ UNCHANGED store
    BY <1>5, Zenon DEF Redeploy
  <2>2. Manifest(r.mode, r.kind, r.caps).bound = {}
    BY DEF Manifest
  <2>. QED BY <1>1, <2>1, <2>2
<1>6. ASSUME NEW r \in store[p], NEW m, NEW o, NEW pc,
             Saves(p, [r EXCEPT !.mode = m]),
             jobs' = jobs \cup {NewJob(s, p, o, pc, [r EXCEPT !.mode = m], {})}
      PROVE  Lineage
  <2>1. r \in QuotedRecord
    BY DEF IInv
  <2>2. [r EXCEPT !.mode = m].bound # {} => Bindings(p)
    BY <2>1 DEF QuotedRecord, Record, Bindings
  <2>3. \A q \in Projects : store'[q] = store[q] \/ (q = p /\ store'[q] = {[r EXCEPT !.mode = m]})
    BY <1>6 DEF Saves, IInv
  <2>. QED BY <1>1, <1>6, <2>2, <2>3
<1>7. CASE Promote(s, p)
  <2>1. PICK r \in store[p] :
          /\ Saves(p, [r EXCEPT !.mode = "attested"])
          /\ jobs' = jobs \cup {NewJob(s, p, "promote", "binding", [r EXCEPT !.mode = "attested"], {})}
    BY <1>7, Zenon DEF Promote
  <2>. QED BY <1>6, <2>1
<1>8. CASE Unpromote(s, p)
  <2>1. PICK r \in store[p] :
          /\ Saves(p, [r EXCEPT !.mode = "dev"])
          /\ jobs' = jobs \cup {NewJob(s, p, "unpromote", "emitting", [r EXCEPT !.mode = "dev"], {})}
    BY <1>8, Zenon DEF Unpromote
  <2>. QED BY <1>6, <2>1
<1>9. CASE Teardown(s, p)
  <2>1. PICK r \in store[p] :
          /\ jobs' = jobs \cup {NewJob(s, p, "teardown", "emitting", r, {})}
          /\ UNCHANGED store
    BY <1>9, Zenon DEF Teardown
  <2>2. r.bound # {} => Bindings(p)
    BY DEF Bindings
  <2>. QED BY <1>1, <2>1, <2>2
<1>. QED BY <1>2, <1>3, <1>4, <1>5, <1>7, <1>8, <1>9 DEF Calls

LEMMA StepsLineage ==
  ASSUME IInv, NEW j \in jobs, Step(j)
  PROVE  Lineage
<1>s. Sound(j) /\ (j.loc.bound # {} => Bindings(j.p))
  BY DEF IInv, JobsSound, Bindings
<1>1. ASSUME NEW k, Becomes(j, k), k.p = j.p, k.loc.bound # {} => j.loc.bound # {},
             \A p \in Projects : \A r \in store'[p] : r \in store[p] \/ (p = j.p /\ r = j.loc)
      PROVE  Lineage
  BY <1>1, <1>s, Inherits DEF Becomes
<1>2. ASSUME Finishes(j), UNCHANGED store PROVE Lineage
  BY <1>2, Inherits DEF Finishes
<1>3. ASSUME NEW pc, GoesTo(j, pc),
             \A p \in Projects : \A r \in store'[p] : r \in store[p] \/ (p = j.p /\ r = j.loc)
      PROVE  Lineage
  <2>1. PICK k : k = [j EXCEPT !.pc = pc]
    OBVIOUS
  <2>2. k.p = j.p /\ k.loc = j.loc
    BY <1>s, <2>1 DEF Sound, JobWith
  <2>. QED BY <1>1, <1>3, <2>1, <2>2 DEF GoesTo
<1>4. ASSUME NEW pc, NEW w, Becomes(j, [j EXCEPT !.pc = pc, !.work = w]),
             \A p \in Projects : store'[p] \subseteq store[p]
      PROVE  Lineage
  <2>1. PICK k : k = [j EXCEPT !.pc = pc, !.work = w]
    OBVIOUS
  <2>2. k.p = j.p /\ k.loc = j.loc
    BY <1>s, <2>1 DEF Sound, JobWith
  <2>. QED BY <1>1, <1>4, <2>1, <2>2
<1>5. ASSUME NEW w, Becomes(j, [j EXCEPT !.work = w]), UNCHANGED store PROVE Lineage
  <2>1. PICK k : k = [j EXCEPT !.work = w]
    OBVIOUS
  <2>2. k.p = j.p /\ k.loc = j.loc
    BY <1>s, <2>1 DEF Sound, JobWith
  <2>. QED BY <1>1, <1>5, <2>1, <2>2
<1>6. ASSUME NEW t \in Trees, Cloned(j, t) \/ Staged(j, t) PROVE Lineage
  BY <1>2, <1>3, <1>6 DEF Cloned, Staged, Raises
<1>7. CASE AcceptManifest(j) \/ ReadStage(j)
  <2>1. PICK pc, t : Becomes(j, [j EXCEPT !.pc = pc, !.loc.tree = t])
    BY <1>7, Zenon DEF AcceptManifest, ReadStage
  <2>2. PICK k : k = [j EXCEPT !.pc = pc, !.loc.tree = t]
    OBVIOUS
  <2>3. k.p = j.p /\ k.loc.bound = j.loc.bound
    BY <1>s, <2>2 DEF Sound, JobWith, QuotedRecord, Record
  <2>4. UNCHANGED store
    BY <1>7, Zenon DEF AcceptManifest, ReadStage, disk
  <2>. QED BY <1>1, <2>1, <2>2, <2>3, <2>4
<1>8. CASE RejectManifest(j) \/ RejectPin(j) \/ DeployEmitted(j) \/ Done(j)
  BY <1>2, <1>8 DEF RejectManifest, RejectPin, DeployEmitted, Done, Raises, disk
<1>9. CASE AdoptPin(j)
  BY <1>2, <1>3, <1>9 DEF AdoptPin, Raises
<1>10. CASE Built(j) \/ Recorded(j)
  <2>1. \A p \in Projects : \A r \in store'[p] : r \in store[p] \/ (p = j.p /\ r = j.loc)
    BY <1>10 DEF Built, Recorded, Saves, IInv
  <2>. QED BY <1>3, <1>10, <2>1 DEF Built, Recorded
<1>11. CASE Brokered(j) \/ ModeEmitted(j)
  <2>1. PICK w : Becomes(j, [j EXCEPT !.pc = "working", !.work = w])
    BY <1>11, Zenon DEF Brokered, ModeEmitted
  <2>2. UNCHANGED store
    BY <1>11, Zenon DEF Brokered, ModeEmitted, disk
  <2>. QED BY <1>4, <2>1, <2>2
<1>12. CASE Bound(j)
  <2> DEFINE b == [j.loc EXCEPT !.bound = {j.loc.tree}]
  <2>1. /\ Saves(j.p, b) /\ Appends(j.p, EntryFor("promote", b))
        /\ Becomes(j, [j EXCEPT !.pc = "emitting", !.loc = b]) /\ j.pc = "binding"
    BY <1>12, Zenon DEF Bound
  <2>2. b \in QuotedRecord /\ j.p \in Projects
    BY <1>s, <2>1 DEF Sound, JobWith, QuotedRecord, Record
  <2>3. BindingTold(j.p)'
    <3>1. EntryFor("promote", b) \in Entry /\ ledger[j.p] \in Seq(Entry)
      BY <2>2, EntryTyped DEF QuotedRecord, IInv
    <3>2. ledger'[j.p] = Append(ledger[j.p], EntryFor("promote", b))
      BY <2>1, <2>2 DEF Appends, IInv
    <3>3. PICK i \in DOMAIN ledger'[j.p] : ledger'[j.p][i] = EntryFor("promote", b)
      BY <3>1, <3>2, ToldAppended
    <3>. QED BY <3>3 DEF BindingTold, EntryFor
  <2>4. PICK k : k = [j EXCEPT !.pc = "emitting", !.loc = b]
    OBVIOUS
  <2>5. k.p = j.p /\ jobs' = (jobs \ {j}) \cup {k}
    BY <1>s, <2>1, <2>4 DEF Sound, JobWith, Becomes
  <2>6. \A q \in Projects : q # j.p => store'[q] = store[q]
    BY <2>1, <2>2 DEF Saves, IInv
  <2>7. \A q \in Projects : q # j.p => (Bindings(q)' => Bindings(q))
    BY <2>5, <2>6 DEF Bindings
  <2>. QED BY <2>3, <2>7 DEF Lineage
<1>13. CASE TeardownEmitted(j)
  <2>1. CASE Raises(j) /\ UNCHANGED store
    BY <1>2, <2>1 DEF Raises
  <2>2. CASE /\ store' = [store EXCEPT ![j.p] = {}]
             /\ \E w : Becomes(j, [j EXCEPT !.pc = "working", !.work = w])
    <3>1. \A p \in Projects : store'[p] \subseteq store[p]
      BY <2>2 DEF IInv
    <3>. QED BY <1>4, <2>2, <3>1
  <2>. QED BY <1>13, <2>1, <2>2, Zenon DEF TeardownEmitted
<1>14. CASE StopContainer(j) \/ CreateContainer(j)
  <2>1. Becomes(j, [j EXCEPT !.work = Tail(@)]) /\ UNCHANGED store
    BY <1>14, Zenon DEF StopContainer, CreateContainer, NextWork, disk
  <2>. QED BY <1>5, <2>1
<1>15. CASE NameTaken(j)
  <2>1. CASE SkipStart(j)
    <3>1. PICK w : Becomes(j, [j EXCEPT !.work = w])
      BY <2>1, Zenon DEF SkipStart
    <3>. QED BY <1>5, <1>15, <3>1 DEF NameTaken, disk
  <2>. QED BY <1>2, <1>15, <2>1 DEF NameTaken, Raises, disk
<1>. QED BY <1>6, <1>7, <1>8, <1>9, <1>10, <1>11, <1>12, <1>13, <1>14, <1>15 DEF Step

LEMMA NextLineage == IInv /\ [Next]_vars => Lineage
<1> SUFFICES ASSUME IInv, [Next]_vars PROVE Lineage
  OBVIOUS
<1>1. ASSUME NEW s \in Slots, NEW p \in Projects, Calls(s, p) PROVE Lineage
  BY <1>1, CallsLineage
<1>2. ASSUME NEW j \in jobs, Step(j) PROVE Lineage
  BY <1>2, StepsLineage
<1>3. ASSUME NEW j \in jobs, Fails(j) PROVE Lineage
  <2>1. CASE SkipStart(j)
    <3>1. PICK k : k.p = j.p /\ k.loc = j.loc /\ Becomes(j, k)
      <4>1. PICK w : Becomes(j, [j EXCEPT !.work = w])
        BY <2>1, Zenon DEF SkipStart
      <4>2. PICK k : k = [j EXCEPT !.work = w]
        OBVIOUS
      <4>. QED BY <4>1, <4>2 DEF IInv, JobsSound, Sound, JobWith
    <3>2. k.loc.bound # {} => Bindings(k.p)
      BY <3>1 DEF Bindings
    <3>. QED BY <1>3, <3>1, <3>2, Inherits DEF Fails, Becomes, disk
  <2>2. CASE Raises(j)
    BY <1>3, <2>2, Inherits DEF Fails, Raises, Finishes, disk
  <2>. QED BY <1>3, <2>1, <2>2 DEF Fails
<1>4. ASSUME NEW m \in Modes, NEW p \in Projects, Respawn(m, p) PROVE Lineage
  BY <1>4, Inherits DEF Respawn, disk
<1>5. CASE Crash
  BY <1>5, Inherits DEF Crash, Dies, disk
<1>8. ASSUME NEW p \in Projects, TornSave(p) PROVE Lineage
  BY <1>8, Inherits DEF TornSave, Dies, IInv
<1>6. CASE Boot
  <2> DEFINE boot == NewJob("boot", Daemon, "recover", "working", Manifest("dev", Only(Kinds), FALSE), {})
  <2>1. PICK w : jobs' = {[boot EXCEPT !.work = w]}
    BY <1>6, Zenon DEF Boot
  <2>2. \A k \in jobs' : k.loc.bound = {}
    BY <2>1 DEF NewJob, Manifest
  <2>. QED BY <1>6, <2>2, Inherits DEF Boot, disk
<1>7. CASE UNCHANGED vars
  BY <1>7, Inherits DEF vars, disk
<1>. QED BY <1>1, <1>2, <1>3, <1>4, <1>5, <1>6, <1>7, <1>8 DEF Next

-----------------------------------------------------------------------------
(* What a bundle of a project at rest tells *)

\* What the ledger must have told for the records that a verification carries.
ChecksTold ==
  \A c \in check : c.calm =>
    \A r \in c.loc : TreeTold(c.p, r.tree) /\ (r.bound # {} => BindingTold(c.p))

\* What a bundle must be for CalmBundleIsTold.
BundleTold(b) == AllowlistPolicy(b, AuditedTrees(b)) /\ (b.binding # {} => ~NoPromote(b))

CalmInv ==
  /\ EInv /\ NoneWhileDown /\ TreesInv /\ BindingsInv
  /\ ChecksTold
  /\ CalmBundleIsTold

\* The audit log is read last, and what the record's entry told is still in it.
LEMMA BundleTells ==
  ASSUME NEW c, NEW r \in Record, NEW key,
         TreeTold(c.p, r.tree), r.bound # {} => BindingTold(c.p)
  PROVE  BundleTold(Bundle(c, r, key))
<1> DEFINE b == Bundle(c, r, key)
<1>1. /\ b.tree_hash = r.tree /\ b.audit = Trail(c.p)
      /\ b.binding = {AppBinding(c.p, t) : t \in r.bound}
  BY DEF Bundle
<1>2. AllowlistPolicy(b, AuditedTrees(b))
  <2>1. PICK i \in DOMAIN ledger[c.p] :
          ledger[c.p][i].act # "teardown" /\ ledger[c.p][i].tree = r.tree
    BY DEF TreeTold
  <2>2. Shown(ledger[c.p][i]) \in Trail(c.p) /\ Shown(ledger[c.p][i]).tree_hash = r.tree
    BY <2>1 DEF Trail, Shown
  <2>3. r.tree # ""
    BY HashesAssumption DEF Record
  <2>. QED BY <1>1, <2>2, <2>3 DEF AllowlistPolicy, AuditedTrees
<1>3. ASSUME b.binding # {} PROVE ~NoPromote(b)
  <2>1. PICK i \in DOMAIN ledger[c.p] : ledger[c.p][i].act = "promote"
    BY <1>1, <1>3 DEF BindingTold
  <2>2. Shown(ledger[c.p][i]) \in Trail(c.p) /\ Shown(ledger[c.p][i]).action = "promote"
    BY <2>1 DEF Trail, Shown
  <2>. QED BY <1>1, <2>2 DEF NoPromote
<1>. QED BY <1>2, <1>3 DEF BundleTold

LEMMA ReportsTell ==
  ASSUME NEW c, NEW data, Reports(c, data), c.calm => \A b \in data : BundleTold(b)
  PROVE  ChecksTold' /\ CalmBundleIsTold'
<1>1. PICK project, status :
        report' = {[p |-> c.p, by |-> c.by, calm |-> c.calm, project |-> project, data |-> data,
                    status |-> status]}
  BY Zenon DEF Reports
<1>2. \A x \in report' : x.data = data /\ x.calm = c.calm
  <2>1. PICK x : /\ x = [p |-> c.p, by |-> c.by, calm |-> c.calm, project |-> project,
                         data |-> data, status |-> status]
                 /\ report' = {x}
    BY <1>1, Zenon
  <2>2. x.data = data /\ x.calm = c.calm
    BY <2>1
  <2>. QED BY <2>1, <2>2, Zenon
<1>3. check' = {}
  BY Zenon DEF Reports
<1>4. CalmBundleIsTold'
  BY <1>2 DEF CalmBundleIsTold, BundleTold
<1>. QED BY <1>3, <1>4 DEF ChecksTold

\* Reading or writing nothing of the ledger, and reporting nothing.
LEMMA SameTold ==
  ASSUME CalmInv, UNCHANGED <<vars, report>>,
         \A d \in check' : d.calm =>
           \A r \in d.loc : TreeTold(d.p, r.tree) /\ (r.bound # {} => BindingTold(d.p))
  PROVE  ChecksTold' /\ CalmBundleIsTold'
<1>1. UNCHANGED ledger
  BY DEF vars, disk
<1>2. ChecksTold'
  BY <1>1 DEF ChecksTold, TreeTold, BindingTold
<1>3. CalmBundleIsTold'
  BY DEF CalmInv, CalmBundleIsTold
<1>. QED BY <1>2, <1>3

\* The record of a project that nobody is at work on has been told of.
LEMMA SettledTold ==
  ASSUME CalmInv, NEW p \in Projects, Settled(p), NEW r \in Attested(p)
  PROVE  TreeTold(p, r.tree) /\ (r.bound # {} => BindingTold(p))
<1>1. r \in store[p] /\ p \notin spoiled /\ ~Writers(p)
  BY DEF Attested, Settled, Writers
<1>. QED BY <1>1 DEF CalmInv, TreesInv, BindingsInv, Bindings

LEMMA NextDisk ==
  ASSUME CalmInv, [Next]_vars
  PROVE  NoneWhileDown' /\ TreesInv' /\ BindingsInv' /\ Grows
<1>1. IInv
  BY DEF CalmInv, EInv
<1>2. Grows /\ Accounts /\ Lineage
  BY <1>1, NextGrows, NextAccounts, NextLineage DEF CalmInv
<1>3. BindingsInv'
  BY <1>1, <1>2, ToldStays DEF CalmInv, BindingsInv, Lineage
<1>. QED BY <1>1, <1>2, <1>3, NextTrees, NextDown DEF CalmInv

LEMMA NextCalm == CalmInv /\ [EvidenceNext]_<<vars, evidence>> => CalmInv'
<1> SUFFICES ASSUME CalmInv, [EvidenceNext]_<<vars, evidence>> PROVE CalmInv'
  OBVIOUS
<1>1. EInv'
  BY NextEInv DEF CalmInv
<1>2. [Next]_vars
  BY DEF EvidenceNext, Handlers, CliLooks, LibraryAsks, CliAsks, Quoted, Keyed, Handed, evidence
<1>3. NoneWhileDown' /\ TreesInv' /\ BindingsInv' /\ Grows
  BY <1>2, NextDisk
<1>4. ASSUME NEW c \in check PROVE c.p \in Projects /\ c.loc \subseteq QuotedRecord
  BY DEF CalmInv, EInv, Carries, CheckWith
<1>5. CASE Handlers
  <2>1. check' \subseteq check /\ UNCHANGED report
    BY <1>5 DEF Handlers
  <2>2. IInv
    BY DEF CalmInv, EInv
  <2>3. ChecksTold'
    <3>1. ASSUME NEW c \in check', c.calm, NEW r \in c.loc
          PROVE  TreeTold(c.p, r.tree)' /\ (r.bound # {} => BindingTold(c.p)')
      <4>1. c \in check /\ c.p \in Projects
        BY <1>4, <2>1
      <4>. QED BY <1>3, <2>2, <3>1, <4>1, ToldStays DEF CalmInv, ChecksTold
    <3>. QED BY <3>1, Zenon DEF ChecksTold
  <2>4. CalmBundleIsTold'
    BY <2>1 DEF CalmInv, CalmBundleIsTold
  <2>. QED BY <1>1, <1>3, <2>3, <2>4 DEF CalmInv
<1>6. ASSUME NEW p \in Projects, NEW token \in BOOLEAN, CliLooks(p, token) PROVE CalmInv'
  <2>1. PICK c : c.loc = {} /\ (Reports(c, {}) \/ (check' = {c} /\ UNCHANGED report))
    <3> DEFINE c == [p |-> p, by |-> "cli", at |-> "looked", loc |-> {}, quoted |-> FALSE,
                     project |-> {r.mode : r \in IF token THEN store[p] ELSE Attested(p)},
                     calm |-> Settled(p)]
    <3>1. IF c.project = {"dev"} THEN Reports(c, {}) ELSE check' = {c} /\ UNCHANGED report
      BY <1>6 DEF CliLooks
    <3>2. Reports(c, {}) \/ (check' = {c} /\ UNCHANGED report)
      BY <3>1, Zenon
    <3>. QED BY <3>2
  <2>2. CASE Reports(c, {})
    <3>1. PICK data : data = {}
      OBVIOUS
    <3>2. Reports(c, data) /\ \A b \in data : BundleTold(b)
      BY <2>2, <3>1
    <3>. QED BY <1>1, <1>3, <3>2, ReportsTell DEF CalmInv
  <2>3. CASE check' = {c} /\ UNCHANGED report
    <3>1. UNCHANGED vars
      BY <1>6, Zenon DEF CliLooks
    <3>. QED BY <1>1, <1>3, <2>1, <2>3, <3>1, SameTold DEF CalmInv
  <2>. QED BY <2>1, <2>2, <2>3
<1>7. ASSUME NEW p \in Projects, LibraryAsks(p) PROVE CalmInv'
  <2>1. PICK c : /\ c.p = p /\ c.loc = Attested(p) /\ c.calm = Settled(p)
                 /\ check' = {c} /\ UNCHANGED <<vars, report>>
    BY <1>7 DEF LibraryAsks
  <2>2. c.calm => \A r \in c.loc : TreeTold(c.p, r.tree) /\ (r.bound # {} => BindingTold(c.p))
    BY <2>1, SettledTold
  <2>. QED BY <1>1, <1>3, <2>1, <2>2, SameTold DEF CalmInv
<1>8. ASSUME NEW c \in check, CliAsks(c) PROVE CalmInv'
  <2>1. CASE Reports(c, {})
    <3>1. PICK data : data = {}
      OBVIOUS
    <3>2. Reports(c, data) /\ \A b \in data : BundleTold(b)
      BY <2>1, <3>1
    <3>. QED BY <1>1, <1>3, <3>2, ReportsTell DEF CalmInv
  <2>2. CASE /\ check' = {[c EXCEPT !.at = "quoting", !.loc = Attested(c.p), !.calm = @ /\ Settled(c.p)]}
             /\ UNCHANGED report
    <3>1. PICK d : d = [c EXCEPT !.at = "quoting", !.loc = Attested(c.p), !.calm = @ /\ Settled(c.p)]
      OBVIOUS
    <3>2. d.p = c.p /\ d.loc = Attested(c.p) /\ (d.calm => Settled(c.p))
      BY <3>1 DEF CalmInv, EInv, Carries, CheckWith
    <3>3. d.calm => \A r \in d.loc : TreeTold(d.p, r.tree) /\ (r.bound # {} => BindingTold(d.p))
      BY <1>4, <3>2, SettledTold
    <3>4. UNCHANGED vars
      BY <1>8, Zenon DEF CliAsks
    <3>. QED BY <1>1, <1>3, <2>2, <3>1, <3>3, <3>4, SameTold DEF CalmInv
  <2>. QED BY <1>8, <2>1, <2>2, Zenon DEF CliAsks
<1>9. ASSUME NEW c \in check, NEW answered \in BOOLEAN, Quoted(c, answered) PROVE CalmInv'
  <2>1. PICK d : d = [c EXCEPT !.at = "keying", !.quoted = answered]
    OBVIOUS
  <2>2. d.p = c.p /\ d.loc = c.loc /\ d.calm = c.calm
    BY <2>1 DEF CalmInv, EInv, Carries, CheckWith
  <2>3. check' = {d} /\ UNCHANGED <<vars, report>>
    BY <1>9, <2>1 DEF Quoted
  <2>4. d.calm => \A r \in d.loc : TreeTold(d.p, r.tree) /\ (r.bound # {} => BindingTold(d.p))
    BY <2>2 DEF CalmInv, ChecksTold
  <2>. QED BY <1>1, <1>3, <2>3, <2>4, SameTold DEF CalmInv
<1>10. ASSUME NEW c \in check, NEW key \in {"", "key"}, Keyed(c, key) PROVE CalmInv'
  <2>1. PICK data : Reports(c, data) /\ data = {Bundle(c, r, key) : r \in c.loc}
    BY <1>10 DEF Keyed
  <2>2. ASSUME c.calm, NEW b \in data PROVE BundleTold(b)
    <3>1. PICK r \in c.loc : b = Bundle(c, r, key)
      BY <2>1, <2>2
    <3>2. r \in Record
      BY <1>4 DEF QuotedRecord
    <3>3. TreeTold(c.p, r.tree) /\ (r.bound # {} => BindingTold(c.p))
      BY <2>2 DEF CalmInv, ChecksTold
    <3>. QED BY <3>1, <3>2, <3>3, BundleTells
  <2>. QED BY <1>1, <1>3, <2>1, <2>2, ReportsTell DEF CalmInv
<1>11. ASSUME NEW e \in Consumers, Handed(e) PROVE CalmInv'
  <2>1. UNCHANGED <<vars, report, check>>
    BY <1>11 DEF Handed
  <2>. QED BY <1>1, <1>3, <2>1, SameTold DEF CalmInv, ChecksTold
<1>12. CASE UNCHANGED <<vars, evidence>>
  <2>1. UNCHANGED <<vars, report, check>>
    BY <1>12 DEF evidence
  <2>. QED BY <1>1, <1>3, <2>1, SameTold DEF CalmInv, ChecksTold
<1>. QED BY <1>5, <1>6, <1>7, <1>8, <1>9, <1>10, <1>11, <1>12 DEF EvidenceNext

\* The bundle of a project that nobody was at work on when it was asked for names a tree
\* that the audit log in it tells, and a promotion if it is bound, although the log is read
\* after the record, and whatever is called, torn down and cut short meanwhile
\* (ingress.py:1151-1156, facts.py:470-485).
THEOREM CalmBundleIsToldHolds == EvidenceSpec => []CalmBundleIsTold
<1>1. EvidenceInit => CalmInv
  <2>1. Init => BindingsInv
    <3>1. IInv /\ Init => \A p \in Projects : \A r \in store[p] : r.bound = {}
      <4> SUFFICES ASSUME Init, NEW p \in Projects, NEW r \in store[p] PROVE r.bound = {}
        OBVIOUS
      <4>1. PICK m \in [Projects -> Manifests] :
              store[p] = IF files[p] = NoTree THEN {} ELSE {[m[p] EXCEPT !.tree = files[p]]}
        BY DEF Init
      <4>2. r = [m[p] EXCEPT !.tree = files[p]]
        BY <4>1
      <4>3. m[p] \in QuotedRecord /\ m[p].bound = {}
        BY ManifestSound
      <4>. QED BY <4>2, <4>3 DEF QuotedRecord, Record
    <3>. QED BY <3>1, InitIInv DEF Init, BindingsInv, Bindings
  <2>2. EvidenceInit => EInv
    BY InitIInv DEF EvidenceInit, EInv, BundleBindsItsSource
  <2>3. Init => NoneWhileDown
    BY DEF Init, NoneWhileDown
  <2>. QED BY <2>1, <2>2, <2>3, InitTrees DEF EvidenceInit, CalmInv, ChecksTold, CalmBundleIsTold
<1>2. CalmInv => CalmBundleIsTold
  BY DEF CalmInv
<1>. QED BY <1>1, <1>2, NextCalm, PTL DEF EvidenceSpec

-----------------------------------------------------------------------------
(* No leg falls silent *)

\* What a bundle is that no leg has an error about, for a consumer of whatever kind.
LEMMA ValidMeans ==
  ASSUME NEW b, NEW e, IsValid(b, e)
  PROVE  /\ QuoteValid(b, e) /\ b.zt_cert_ref # "" /\ ~NoPromote(b) /\ ~BindingError(b)
         /\ ~MeasurementError(b, e) /\ ~OnchainError(b, e) /\ ~SourceError(b)
BY DEF IsValid, Errors

\* One of the legs that rest on the quote, the certificate, the trail and the preimage
\* tells whatever is missing.
LEMMA InvalidIf ==
  ASSUME NEW b, NEW e,
         ~QuoteValid(b, e) \/ b.zt_cert_ref = "" \/ NoPromote(b) \/ BindingError(b)
  PROVE  ~IsValid(b, e)
BY ValidMeans

LEMMA SpoiltIsInvalid ==
  ASSUME NEW b \in Bundles, NEW e, IsValid(b, e), NEW c \in Spoilt(b)
  PROVE  ~IsValid(c, e)
<1>1. ~BindingError(b)
  BY ValidMeans
<1>2. PICK q \in b.platform_quote :
        q.report_data = {TextPreimage(b.webhost_app_id, b.project, b.tree_hash, b.pubkey)}
  BY <1>1 DEF BindingError
<1>3. b.platform_quote = {q} /\ b.webhost_app_id = "app"
  <2>1. b.platform_quote \in {{}} \cup {{x} : x \in Quotes} /\ b.webhost_app_id = "app"
    BY DEF Bundles
  <2>2. PICK x : b.platform_quote = {x}
    BY <1>2, <2>1
  <2>. QED BY <1>2, <2>1, <2>2
<1>4. CASE c = [b EXCEPT !.platform_quote = {}]
  <2>1. c.platform_quote = {}
    BY <1>4 DEF Bundles
  <2>. QED BY <2>1, InvalidIf DEF QuoteValid
<1>5. CASE c = [b EXCEPT !.webhost_app_id = ""]
  <2>1. /\ c.webhost_app_id = "" /\ c.platform_quote = {q}
        /\ c.project = b.project /\ c.tree_hash = b.tree_hash /\ c.pubkey = b.pubkey
    BY <1>3, <1>5 DEF Bundles
  <2>2. TextPreimage("", b.project, b.tree_hash, b.pubkey)
          # TextPreimage("app", b.project, b.tree_hash, b.pubkey)
    BY DEF TextPreimage
  <2>3. BindingError(c)
    BY <1>2, <1>3, <2>1, <2>2 DEF BindingError
  <2>. QED BY <2>3, InvalidIf
<1>6. CASE c = [b EXCEPT !.zt_cert_ref = ""]
  BY <1>6, InvalidIf DEF Bundles
<1>7. CASE \/ c = [b EXCEPT !.project = ""] \/ c = [b EXCEPT !.tree_hash = ""]
           \/ c = [b EXCEPT !.pubkey = ""]
  <2>1. "" \in {c.project, c.tree_hash, c.pubkey}
    BY <1>7 DEF Bundles
  <2>. QED BY <2>1, InvalidIf DEF BindingError
<1>8. CASE c = [b EXCEPT !.audit = {}]
  <2>1. c.audit = {}
    BY <1>8 DEF Bundles
  <2>. QED BY <2>1, InvalidIf DEF NoPromote
<1>9. ASSUME NEW t \in Hashes \ {b.tree_hash}, c = [b EXCEPT !.tree_hash = t]
      PROVE  ~IsValid(c, e)
  <2>1. /\ c.webhost_app_id = b.webhost_app_id /\ c.platform_quote = {q}
        /\ c.project = b.project /\ c.tree_hash = t /\ c.pubkey = b.pubkey
    BY <1>3, <1>9 DEF Bundles
  <2>2. TextPreimage(b.webhost_app_id, b.project, t, b.pubkey)
          # TextPreimage(b.webhost_app_id, b.project, b.tree_hash, b.pubkey)
    BY <1>9 DEF TextPreimage
  <2>3. BindingError(c)
    BY <1>2, <2>1, <2>2 DEF BindingError
  <2>. QED BY <2>3, InvalidIf
<1>. QED BY <1>4, <1>5, <1>6, <1>7, <1>8, <1>9, Zenon DEF Spoilt

\* What a bundle declares of a chain, the strict policy does not read: approval takes a
\* configuration, and with one the chain is what the endpoint says.
LEMMA StrictAsksTheChain ==
  ASSUME NEW b \in Bundles, NEW e, NEW o, NEW chain
  PROVE  StrictPolicy(b, e, chain) = StrictPolicy([b EXCEPT !.onchain = o], e, chain)
<1> DEFINE d == [b EXCEPT !.onchain = o]
<1>1. /\ d.platform_quote = b.platform_quote /\ d.webhost_app_id = b.webhost_app_id
      /\ d.zt_cert_ref = b.zt_cert_ref
  BY DEF Bundles
<1>2. QuoteValid(b, e) <=> QuoteValid(d, e)
  BY <1>1 DEF QuoteValid
<1>3. \A c : RpcAnswers(b, c) <=> RpcAnswers(d, c)
  BY <1>1 DEF RpcAnswers
<1>4. Approved(b, e) <=> Approved(d, e)
  BY <1>3 DEF Approved
<1>5. e.config # {} => ChainId(b, e) = ChainId(d, e)
  BY <1>3 DEF ChainId
<1>6. Approved(b, e) => e.config # {}
  BY DEF Approved
<1>7. /\ StrictPolicy(b, e, chain) \in BOOLEAN
      /\ StrictPolicy(d, e, chain) \in BOOLEAN
      /\ StrictPolicy(b, e, chain) <=> StrictPolicy(d, e, chain)
  BY <1>1, <1>2, <1>4, <1>5, <1>6 DEF StrictPolicy
<1>. QED BY <1>7

\* Whichever part of a bundle without errors is lost, or tree claimed instead, some leg
\* has an error; and what a bundle declares of its chain makes no difference to the
\* strict policy: for every set of hashes, bundle and consumer (facts.py:249-252,
\* 398-422, 488-570).
THEOREM NoLegFallsSilentHolds == EvidenceSpec => []NoLegFallsSilent
<1>1. ASSUME NEW e \in consumer, NEW b \in Bundles
      PROVE  /\ IsValid(b, e) => \A c \in Spoilt(b) : ~IsValid(c, e)
             /\ StrictPolicy(b, e, Base) =
                  StrictPolicy([b EXCEPT !.onchain = [chain_id |-> NotAnchored,
                                                      allowed_compose_hash |-> ""]], e, Base)
  <2>1. IsValid(b, e) => \A c \in Spoilt(b) : ~IsValid(c, e)
    BY SpoiltIsInvalid
  <2>2. PICK o : o = [chain_id |-> NotAnchored, allowed_compose_hash |-> ""]
    OBVIOUS
  <2>3. StrictPolicy(b, e, Base) = StrictPolicy([b EXCEPT !.onchain = o], e, Base)
    BY StrictAsksTheChain
  <2>. QED BY <2>1, <2>2, <2>3
<1>2. NoLegFallsSilent
  BY <1>1, Zenon DEF NoLegFallsSilent
<1>. QED BY <1>2, PTL

-----------------------------------------------------------------------------
(* The work on containers *)

\* What is to be done is done to containers that there can be.
LEMMA ItemsTyped ==
  ASSUME NEW n \in Names, NEW c \in BOOLEAN
  PROVE  /\ Stop(n) \in Todo /\ Stop(n).do = "stop" /\ Stop(n).at = n
         /\ Drop(n) \in Todo /\ Drop(n).do = "drop" /\ Drop(n).at = n
         /\ Create(n, c) \in Todo /\ Create(n, c).do = "create" /\ Create(n, c).at = n
BY DEF Stop, Drop, Create, Todo

LEMMA NamesAre ==
  /\ \A m \in Modes : <<Daemon, m>> \in Names
  /\ \A p \in Projects, m \in Modes : <<p, m>> \in Names
  /\ \A n \in Names : /\ n[1] \in Projects \cup {Daemon} /\ n[2] \in Modes
                      /\ n = <<n[1], n[2]>>
BY DEF Names

\* What a refresh does, by what the store lists.
LEMMA RefreshModeIs ==
  ASSUME NEW m \in Modes
  PROVE  /\ RefreshMode(m) \in Seq(Todo)
         /\ \A i \in 1..Len(RefreshMode(m)) : RefreshMode(m)[i].at = <<Daemon, m>>
         /\ Len(RefreshMode(m)) \in {1, 2}
         /\ Listed(m) # {} => /\ Len(RefreshMode(m)) = 2
                              /\ RefreshMode(m)[2].do = "create"
<1> DEFINE n == <<Daemon, m>>
<1>1. n \in Names
  BY NamesAre
<1> HIDE DEF n
<1>2. CASE Listed(m) = {}
  <2>1. RefreshMode(m) = <<Drop(n)>>
    BY <1>2 DEF RefreshMode, n
  <2>2. Drop(n) \in Todo /\ Drop(n).at = n
    BY <1>1, ItemsTyped
  <2>. QED BY <1>2, <2>1, <2>2 DEF n
<1>3. CASE Listed(m) # {}
  <2>1. RefreshMode(m) = <<Stop(n), Create(n, FALSE)>>
    BY <1>3 DEF RefreshMode, n
  <2>2. /\ Stop(n) \in Todo /\ Stop(n).at = n
        /\ Create(n, FALSE) \in Todo /\ Create(n, FALSE).at = n /\ Create(n, FALSE).do = "create"
    BY <1>1, ItemsTyped
  <2> DEFINE x == Stop(n)
             y == Create(n, FALSE)
  <2> HIDE DEF x, y
  <2>3. RefreshMode(m) = <<x, y>> /\ x \in Todo /\ x.at = n /\ y \in Todo /\ y.at = n /\ y.do = "create"
    BY <2>1, <2>2 DEF x, y
  <2>4. \A i \in 1..2 : <<x, y>>[i].at = n
    BY <2>3
  <2>. QED BY <2>3, <2>4 DEF n
<1>. QED BY <1>2, <1>3

LEMMA StartIsolatedIs ==
  ASSUME NEW p \in Projects, NEW r \in Record
  PROVE  /\ StartIsolated(p, r) \in Seq(Todo)
         /\ Len(StartIsolated(p, r)) = 2
         /\ \A i \in 1..2 : StartIsolated(p, r)[i].at = <<p, r.mode>>
         /\ StartIsolated(p, r)[2].do = "create"
<1> DEFINE n == <<p, r.mode>>
           c == r.caps /\ r.mode = "attested"
<1>1. n \in Names /\ c \in BOOLEAN
  BY NamesAre DEF Record
<1>2. StartIsolated(p, r) = <<Stop(n), Create(n, c)>>
  BY DEF StartIsolated
<1> HIDE DEF n, c
<1>3. /\ Stop(n) \in Todo /\ Stop(n).at = n
      /\ Create(n, c) \in Todo /\ Create(n, c).at = n /\ Create(n, c).do = "create"
  BY <1>1, ItemsTyped
<1>. QED BY <1>2, <1>3 DEF n

LEMMA StopIsolatedIs ==
  ASSUME NEW p \in Projects
  PROVE  /\ StopIsolated(p) \in Seq(Todo)
         /\ Len(StopIsolated(p)) = 2
         /\ \A i \in 1..2 : StopIsolated(p)[i].at \in {p} \X Modes
<1> DEFINE d == <<p, "dev">>
           a == <<p, "attested">>
<1>1. d \in Names /\ a \in Names /\ d \in {p} \X Modes /\ a \in {p} \X Modes
  BY NamesAre DEF Modes
<1>2. StopIsolated(p) = <<Stop(d), Drop(a)>>
  BY DEF StopIsolated
<1> HIDE DEF d, a
<1>3. /\ Stop(d) \in Todo /\ Stop(d).at = d
      /\ Drop(a) \in Todo /\ Drop(a).at = a
  BY <1>1, ItemsTyped
<1>. QED BY <1>1, <1>2, <1>3

\* Work that leaves the names N alone, and work that ends with one of them running.
Spares(W, N) == \A i \in 1..Len(W) : W[i].at \notin N
Restores(W, N) ==
  \E k \in 1..Len(W) :
    /\ W[k].do = "create" /\ W[k].at \in N
    /\ \A i \in k + 1..Len(W) : W[i].at \notin N

RefreshServes ==
  /\ Refresh \in Seq(Todo)
  /\ \A i \in 1..Len(Refresh) : Refresh[i].at[1] = Daemon
  /\ \A m \in Modes : Listed(m) # {} => Restores(Refresh, {<<Daemon, m>>})

LEMMA RefreshIs == RefreshServes
<1> DEFINE A == RefreshMode("dev")
           B == RefreshMode("attested")
<1>1. /\ A \in Seq(Todo) /\ B \in Seq(Todo) /\ Refresh = A \o B
      /\ Len(A) \in {1, 2} /\ Len(B) \in {1, 2}
      /\ \A i \in 1..Len(A) : A[i].at = <<Daemon, "dev">>
      /\ \A i \in 1..Len(B) : B[i].at = <<Daemon, "attested">>
      /\ Listed("dev") # {} => Len(A) = 2 /\ A[2].do = "create"
      /\ Listed("attested") # {} => Len(B) = 2 /\ B[2].do = "create"
  BY RefreshModeIs DEF Modes, Refresh
<1> HIDE DEF A, B
<1>2. /\ Refresh \in Seq(Todo) /\ Len(Refresh) = Len(A) + Len(B)
      /\ \A i \in 1..Len(A) : Refresh[i] = A[i]
      /\ \A i \in 1..Len(B) : Refresh[Len(A) + i] = B[i]
      /\ \A i \in Len(A) + 1..Len(Refresh) : Refresh[i] = B[i - Len(A)]
  BY <1>1
<1>3. \A i \in 1..Len(Refresh) : Refresh[i].at \in {<<Daemon, "dev">>, <<Daemon, "attested">>}
  <2> TAKE i \in 1..Len(Refresh)
  <2>1. CASE i \in 1..Len(A)
    BY <1>1, <1>2, <2>1
  <2>2. CASE i \in Len(A) + 1..Len(Refresh)
    <3>1. i - Len(A) \in 1..Len(B)
      BY <1>1, <1>2, <2>2
    <3>. QED BY <1>1, <1>2, <2>2, <3>1
  <2>. QED BY <1>1, <1>2, <2>1, <2>2
<1>4. ASSUME Listed("dev") # {} PROVE Restores(Refresh, {<<Daemon, "dev">>})
  <2>1. Refresh[2].do = "create" /\ Refresh[2].at = <<Daemon, "dev">> /\ 2 \in 1..Len(Refresh)
    BY <1>1, <1>2, <1>4
  <2>2. ASSUME NEW i \in 2 + 1..Len(Refresh) PROVE Refresh[i].at # <<Daemon, "dev">>
    <3>1. Len(A) = 2
      BY <1>1, <1>4
    <3>2. Len(B) \in Nat /\ Len(Refresh) = 2 + Len(B)
      BY <1>1, <1>2, <3>1
    <3>3. i - 2 \in 1..Len(B) /\ i \in Len(A) + 1..Len(Refresh)
      BY <3>1, <3>2
    <3>4. Refresh[i] = B[i - 2]
      BY <1>2, <3>1, <3>3
    <3>. QED BY <1>1, <3>3, <3>4
  <2>. QED BY <2>1, <2>2 DEF Restores
<1>5. ASSUME Listed("attested") # {} PROVE Restores(Refresh, {<<Daemon, "attested">>})
  <2>1. Len(A) + 2 = Len(Refresh) /\ Len(A) + 2 \in 1..Len(Refresh)
    BY <1>1, <1>2, <1>5
  <2>2. Refresh[Len(A) + 2].do = "create" /\ Refresh[Len(A) + 2].at = <<Daemon, "attested">>
    BY <1>1, <1>2, <1>5
  <2>. QED BY <1>1, <2>1, <2>2 DEF Restores
<1>. QED BY <1>2, <1>3, <1>4, <1>5 DEF Modes, RefreshServes

LEMMA RefreshThen == RefreshServes'
BY RefreshIs, PTL

\* What recovery starts, one project after the other.
LEMMA RestartsAre ==
  ASSUME NEW own \in SUBSET Projects, NEW order \in SetToSeqs(own),
         \A p \in own : Only(store[p]) \in Record
  PROVE  /\ Restarts(order) \in Seq(Todo)
         /\ \A i \in 1..Len(Restarts(order)) : Restarts(order)[i].at \in own \X Modes
         /\ \A p \in own : Restores(Restarts(order), {p} \X Modes)
<1> DEFINE N == Cardinality(own)
           W == Restarts(order)
<1>1. N \in Nat /\ IsFiniteSet(own)
  BY ConstantsAssumption, FS_Subset, FS_CardinalityType
<1>2. order \in [1..N -> own] /\ \A i, k \in 1..N : i # k => order[i] # order[k]
  BY DEF SetToSeqs
<1>3. Len(order) = N
  BY <1>1, <1>2
<1>4. \A p \in own : \E k \in 1..N : order[k] = p
  <2>1. order \in Injection(1..N, own)
    BY <1>2 DEF Injection, IsInjective
  <2>2. Cardinality(1..N) = N
    BY <1>1, FS_Interval
  <2>3. order \in Surjection(1..N, own)
    BY <1>1, <2>1, <2>2, FS_Injection
  <2>. QED BY <2>3 DEF Surjection
<1> DEFINE At(i) == order[(i + 1) \div 2]
           Starts(p) == StartIsolated(p, Only(store[p]))
<1> HIDE DEF N
<1>5. W = [i \in 1..2 * N |-> Starts(At(i))[2 - (i % 2)]]
  BY <1>3 DEF Restarts
<1>6. \A i \in 1..2 * N : (i + 1) \div 2 \in 1..N /\ 2 - (i % 2) \in 1..2
  BY <1>1
<1>7. ASSUME NEW p \in own
      PROVE  /\ \A i \in 1..2 : Starts(p)[i] \in Todo /\ Starts(p)[i].at \in {p} \X Modes
             /\ Starts(p)[2].do = "create"
  <2>1. Only(store[p]).mode \in Modes
    BY DEF Record
  <2>2. /\ Starts(p) \in Seq(Todo) /\ Len(Starts(p)) = 2
        /\ \A i \in 1..2 : Starts(p)[i].at = <<p, Only(store[p]).mode>>
        /\ Starts(p)[2].do = "create"
    BY StartIsolatedIs
  <2> HIDE DEF Starts
  <2>. QED BY <2>1, <2>2
<1> HIDE DEF Starts
<1>8. \A i \in 1..2 * N : At(i) \in own
  BY <1>2, <1>6
<1>9. \A i \in 1..2 * N : W[i] \in Todo /\ W[i].at \in {At(i)} \X Modes
  <2> HIDE DEF At, W
  <2>1. \A i \in 1..2 * N : W[i] = Starts(At(i))[2 - (i % 2)]
    BY <1>5
  <2>. QED BY <1>6, <1>7, <1>8, <2>1
<1>10. W \in Seq(Todo) /\ Len(W) = 2 * N
  <2>1. W \in [1..2 * N -> Todo]
    BY <1>5, <1>9
  <2>2. 2 * N \in Nat
    BY <1>1
  <2>. QED BY <2>1, <2>2
<1>11. ASSUME NEW p \in own PROVE Restores(W, {p} \X Modes)
  <2>1. PICK k \in 1..N : order[k] = p
    BY <1>4
  <2>2. 2 * k \in 1..2 * N /\ (2 * k + 1) \div 2 = k /\ 2 - ((2 * k) % 2) = 2
    BY <1>1
  <2>3. W[2 * k] = Starts(p)[2]
    BY <1>5, <2>1, <2>2
  <2>4. W[2 * k].do = "create" /\ W[2 * k].at \in {p} \X Modes
    BY <1>7, <2>3
  <2>5. ASSUME NEW i \in 2 * k + 1..2 * N PROVE W[i].at \notin {p} \X Modes
    <3>1. i \in 1..2 * N /\ (i + 1) \div 2 \in 1..N /\ (i + 1) \div 2 # k
      BY <1>1
    <3>2. At(i) # p
      BY <1>2, <2>1, <3>1
    <3> HIDE DEF At, W
    <3>. QED BY <1>9, <3>1, <3>2
  <2> HIDE DEF W
  <2>. QED BY <1>10, <2>2, <2>4, <2>5 DEF Restores
<1>. QED
  <2> HIDE DEF At, W
  <2>1. \A i \in 1..Len(W) : W[i].at \in own \X Modes
    BY <1>8, <1>9, <1>10
  <2>. QED BY <1>10, <1>11, <2>1 DEF W

\* Only a handler that is at work on containers has work to do.
WorkInv ==
  \A j \in jobs : j.work \in Seq(Todo) /\ (j.pc # "working" => j.work = <<>>)

\* Containers, routes, addresses and counters have their types.
PlacesInv ==
  /\ ctr \in [Names -> SUBSET Container]
  /\ route \in [Projects -> SUBSET Modes]
  /\ ips \subseteq Modes
  /\ up \in BOOLEAN
  /\ spoiled \subseteq Projects \cup {Daemon}
  /\ requests \in Nat /\ faults \in Nat

LEMMA WorkAfter ==
  ASSUME WorkInv, NEW k, jobs' \subseteq jobs \cup {k},
         k.work \in Seq(Todo), k.pc # "working" => k.work = <<>>
  PROVE  WorkInv'
BY DEF WorkInv

LEMMA FewerWork == WorkInv /\ jobs' \subseteq jobs => WorkInv'
BY DEF WorkInv

\* A handler that gets to another await, with the same work.
LEMMA WorkMoves ==
  ASSUME WorkInv, NEW j \in jobs, NEW k, k.work = j.work, k.pc # "working" => j.work = <<>>,
         jobs' \subseteq jobs \cup {k}
  PROVE  WorkInv'
BY WorkAfter DEF WorkInv

\* A handler that has other work.
LEMMA WorkGiven ==
  ASSUME WorkInv, NEW j, Sound(j), NEW w \in Seq(Todo),
         Becomes(j, [j EXCEPT !.pc = "working", !.work = w])
         \/ (j.pc = "working" /\ Becomes(j, [j EXCEPT !.work = w]))
  PROVE  WorkInv'
<1>1. PICK k : /\ k = [j EXCEPT !.pc = "working", !.work = w] \/ k = [j EXCEPT !.work = w]
               /\ k.pc = "working"
               /\ jobs' = (jobs \ {j}) \cup {k}
  BY DEF Becomes, Sound, JobWith
<1>2. k.work = w
  BY <1>1 DEF Sound, JobWith
<1>. QED BY <1>1, <1>2, WorkAfter

LEMMA CallsWork ==
  ASSUME WorkInv, NEW s \in Slots, NEW p \in Projects, Calls(s, p)
  PROVE  WorkInv'
<1>k. ASSUME NEW pc \in {"cloning", "staging", "building", "binding", "emitting"},
             NEW o, NEW r, NEW pin, jobs' = jobs \cup {NewJob(s, p, o, pc, r, pin)}
      PROVE  WorkInv'
  <2> DEFINE k == NewJob(s, p, o, pc, r, pin)
  <2>1. k.work = <<>>
    BY DEF NewJob
  <2> HIDE DEF k
  <2>2. jobs' \subseteq jobs \cup {k}
    BY <1>k DEF k
  <2>3. k.work \in Seq(Todo)
    BY <2>1
  <2>. QED BY <2>1, <2>2, <2>3, WorkAfter
<1>1. ASSUME NEW r, Deploy(s, p, r) PROVE WorkInv'
  BY <1>1, <1>k DEF Deploy
<1>2. ASSUME NEW r, NEW t, Upload(s, p, r, t) PROVE WorkInv'
  BY <1>2, <1>k, FewerWork DEF Upload
<1>3. ASSUME NEW r, NEW t, Import(s, p, r, t) PROVE WorkInv'
  BY <1>3, <1>k DEF Import
<1>4. CASE Redeploy(s, p)
  <2>1. PICK r : jobs' = jobs \cup {NewJob(s, p, "deploy", "cloning", r, {})}
    BY <1>4, Zenon DEF Redeploy
  <2>. QED BY <2>1, <1>k
<1>5. CASE Promote(s, p)
  <2>1. PICK r : jobs' = jobs \cup {NewJob(s, p, "promote", "binding", r, {})}
    BY <1>5, Zenon DEF Promote
  <2>. QED BY <2>1, <1>k
<1>6. CASE Unpromote(s, p)
  <2>1. PICK r : jobs' = jobs \cup {NewJob(s, p, "unpromote", "emitting", r, {})}
    BY <1>6, Zenon DEF Unpromote
  <2>. QED BY <2>1, <1>k
<1>7. CASE Teardown(s, p)
  <2>1. PICK r : jobs' = jobs \cup {NewJob(s, p, "teardown", "emitting", r, {})}
    BY <1>7, Zenon DEF Teardown
  <2>. QED BY <2>1, <1>k
<1>. QED BY <1>1, <1>2, <1>3, <1>4, <1>5, <1>6, <1>7 DEF Calls

LEMMA SkipStartWork ==
  ASSUME WorkInv, NEW j \in jobs, Sound(j), j.pc = "working", SkipStart(j)
  PROVE  WorkInv'
<1>1. PICK k \in 1..Len(j.work) : Becomes(j, [j EXCEPT !.work = SubSeq(@, k + 1, Len(@))])
  BY Zenon DEF SkipStart
<1>2. SubSeq(j.work, k + 1, Len(j.work)) \in Seq(Todo)
  BY DEF WorkInv
<1>. QED BY <1>1, <1>2, WorkGiven

LEMMA StepsWork ==
  ASSUME IInv, WorkInv, NEW j \in jobs, Step(j)
  PROVE  WorkInv'
<1>s. Sound(j) /\ j.work \in Seq(Todo) /\ (j.pc # "working" => j.work = <<>>)
  BY DEF IInv, JobsSound, WorkInv
<1>d. j.loc \in QuotedRecord /\ (j.pc # "working" => j.p \in Projects)
  BY <1>s DEF Sound, JobWith
<1>m. \A k : k.work = j.work /\ jobs' \subseteq jobs \cup {k} /\ (k.pc # "working" => j.work = <<>>) => WorkInv'
  BY WorkMoves
<1>g. ASSUME NEW pc, j.work = <<>>, GoesTo(j, pc) PROVE WorkInv'
  <2>1. PICK k : k = [j EXCEPT !.pc = pc] /\ jobs' = (jobs \ {j}) \cup {k}
    BY <1>g DEF GoesTo, Becomes
  <2>2. k.work = j.work
    BY <1>s, <2>1 DEF Sound, JobWith
  <2>. QED BY <1>g, <1>m, <2>1, <2>2
<1>f. Finishes(j) \/ Raises(j) => WorkInv'
  BY FewerWork DEF Finishes, Raises
<1>1. ASSUME NEW t \in Trees, Cloned(j, t) \/ Staged(j, t) PROVE WorkInv'
  BY <1>1, <1>s, <1>g, <1>f DEF Cloned, Staged
<1>2. CASE AcceptManifest(j) \/ ReadStage(j)
  <2>1. PICK pc : Becomes(j, [j EXCEPT !.pc = pc, !.loc.tree = files[j.p]])
                  \/ Becomes(j, [j EXCEPT !.pc = pc, !.loc.tree = stage[j.p]])
    BY <1>2 DEF AcceptManifest, ReadStage
  <2>2. PICK k : k.work = j.work /\ jobs' = (jobs \ {j}) \cup {k}
    BY <1>s, <2>1 DEF Becomes, Sound, JobWith
  <2>3. j.work = <<>>
    BY <1>2, <1>s DEF AcceptManifest, ReadStage
  <2>. QED BY <1>m, <2>2, <2>3
<1>3. CASE RejectManifest(j) \/ RejectPin(j) \/ DeployEmitted(j) \/ Done(j)
  BY <1>3, <1>f DEF RejectManifest, RejectPin, DeployEmitted, Done
<1>4. CASE AdoptPin(j)
  BY <1>4, <1>s, <1>g, <1>f DEF AdoptPin
<1>5. CASE Built(j) \/ Recorded(j)
  BY <1>5, <1>s, <1>g DEF Built, Recorded
<1>6. CASE Brokered(j)
  <2>1. PICK w : /\ Becomes(j, [j EXCEPT !.pc = "working", !.work = w])
                 /\ w \in {StartIsolated(j.p, j.loc), Refresh, <<>>}
    <3>1. j.loc.kind \in {"isolated", "shared", "static"}
      BY <1>d, ConstantsAssumption DEF QuotedRecord, Record, AllKinds
    <3>. QED BY <1>6, <3>1 DEF Brokered
  <2>2. j.p \in Projects /\ j.loc \in Record
    BY <1>6, <1>d DEF Brokered, QuotedRecord
  <2>3. /\ StartIsolated(j.p, j.loc) \in Seq(Todo) /\ Refresh \in Seq(Todo)
        /\ <<>> \in Seq(Todo)
    BY <2>2, StartIsolatedIs, RefreshIs DEF RefreshServes
  <2>4. w \in Seq(Todo)
    BY <2>1, <2>3
  <2>. QED BY <1>s, <2>1, <2>4, WorkGiven
<1>7. CASE Bound(j)
  <2>1. PICK b : Becomes(j, [j EXCEPT !.pc = "emitting", !.loc = b])
    BY <1>7, Zenon DEF Bound
  <2>2. PICK k : k.work = j.work /\ jobs' = (jobs \ {j}) \cup {k}
    BY <1>s, <2>1 DEF Becomes, Sound, JobWith
  <2>. QED BY <1>7, <1>s, <1>m, <2>2 DEF Bound
<1>8. CASE ModeEmitted(j)
  <2>1. PICK w : /\ Becomes(j, [j EXCEPT !.pc = "working", !.work = w])
                 /\ w \in {StopIsolated(j.p) \o StartIsolated(j.p, j.loc), Refresh, <<>>}
    BY <1>8 DEF ModeEmitted
  <2>2. j.p \in Projects
    BY <1>8, <1>d DEF ModeEmitted
  <2>3. /\ StopIsolated(j.p) \in Seq(Todo) /\ StartIsolated(j.p, j.loc) \in Seq(Todo)
        /\ Refresh \in Seq(Todo)
    BY <1>d, <2>2, StopIsolatedIs, StartIsolatedIs, RefreshIs DEF QuotedRecord, RefreshServes
  <2>4. StopIsolated(j.p) \o StartIsolated(j.p, j.loc) \in Seq(Todo) /\ <<>> \in Seq(Todo)
    BY <2>3
  <2>5. w \in Seq(Todo)
    BY <2>1, <2>3, <2>4
  <2>. QED BY <1>s, <2>1, <2>5, WorkGiven
<1>9. CASE TeardownEmitted(j)
  <2>1. CASE Raises(j)
    BY <1>f, <2>1
  <2>2. CASE ~Raises(j)
    <3>1. PICK w : /\ Becomes(j, [j EXCEPT !.pc = "working", !.work = w])
                   /\ w \in {StopIsolated(j.p), Refresh', <<>>}
      <4>1. j.loc.kind \in {"isolated", "shared", "static"}
        BY <1>d, ConstantsAssumption DEF QuotedRecord, Record, AllKinds
      <4>. QED BY <1>9, <2>2, <4>1 DEF TeardownEmitted
    <3>2. Refresh' \in Seq(Todo)
      BY RefreshThen DEF RefreshServes
    <3>3. StopIsolated(j.p) \in Seq(Todo) /\ <<>> \in Seq(Todo)
      BY <1>9, <1>d, StopIsolatedIs DEF TeardownEmitted
    <3>. QED BY <1>s, <3>1, <3>2, <3>3, WorkGiven
  <2>. QED BY <2>1, <2>2
<1>10. CASE StopContainer(j) \/ CreateContainer(j)
  <2>1. NextWork(j) /\ j.pc = "working" /\ j.work # <<>>
    BY <1>10 DEF StopContainer, CreateContainer
  <2>2. Tail(j.work) \in Seq(Todo)
    BY <1>s, <2>1
  <2>. QED BY <1>s, <2>1, <2>2, WorkGiven DEF NextWork
<1>11. CASE NameTaken(j)
  BY <1>11, <1>s, <1>f, SkipStartWork DEF NameTaken
<1>. QED BY <1>1, <1>2, <1>3, <1>4, <1>5, <1>6, <1>7, <1>8, <1>9, <1>10, <1>11 DEF Step

LEMMA NextWorkInv == IInv /\ WorkInv /\ [Next]_vars => WorkInv'
<1> SUFFICES ASSUME IInv, WorkInv, [Next]_vars
             PROVE  WorkInv'
  OBVIOUS
<1>1. ASSUME NEW s \in Slots, NEW p \in Projects, Calls(s, p) PROVE WorkInv'
  BY <1>1, CallsWork
<1>2. ASSUME NEW j \in jobs, Step(j) PROVE WorkInv'
  BY <1>2, StepsWork
<1>3. ASSUME NEW j \in jobs, Fails(j) PROVE WorkInv'
  <2>1. Sound(j) /\ (j.op = "recover" => j.pc = "working")
    BY DEF IInv, JobsSound, Sound
  <2>. QED BY <1>3, <2>1, SkipStartWork, FewerWork DEF Fails, Raises, Finishes
<1>4. ASSUME NEW m \in Modes, NEW p \in Projects, Respawn(m, p) PROVE WorkInv'
  BY <1>4, FewerWork DEF Respawn
<1>5. CASE Crash \/ \E p \in Projects : TornSave(p)
  BY <1>5, FewerWork DEF Crash, TornSave, Dies
<1>6. CASE Boot
  <2> DEFINE own == {p \in Projects : \E r \in store[p] : r.kind = "isolated"}
             boot == NewJob("boot", Daemon, "recover", "working", Manifest("dev", Only(Kinds), FALSE), {})
  <2>1. PICK order \in SetToSeqs(own) : \E w :
          /\ w \in {Refresh \o Restarts(order), <<>> \o Restarts(order)}
          /\ jobs' = {[boot EXCEPT !.work = w]}
    BY <1>6, Zenon DEF Boot
  <2>0. PICK w : /\ w \in {Refresh \o Restarts(order), <<>> \o Restarts(order)}
                 /\ jobs' = {[boot EXCEPT !.work = w]}
    BY <2>1
  <2>2. \A p \in own : Only(store[p]) \in Record
    BY DEF Only, IInv, QuotedRecord
  <2>3. Restarts(order) \in Seq(Todo)
    BY <2>2, RestartsAre
  <2>4. Refresh \in Seq(Todo)
    BY RefreshIs DEF RefreshServes
  <2>5. w \in Seq(Todo)
    <3>1. Refresh \o Restarts(order) \in Seq(Todo)
      BY <2>3, <2>4
    <3>2. <<>> \o Restarts(order) \in Seq(Todo)
      BY <2>3
    <3>. QED BY <2>0, <3>1, <3>2
  <2>6. PICK k : k = [boot EXCEPT !.work = w]
    OBVIOUS
  <2>7. k.work = w /\ k.pc = "working"
    BY <2>6 DEF NewJob
  <2>. QED BY <2>0, <2>5, <2>6, <2>7 DEF WorkInv
<1>7. CASE UNCHANGED vars
  BY <1>7, FewerWork DEF vars
<1>. QED BY <1>1, <1>2, <1>3, <1>4, <1>5, <1>6, <1>7 DEF Next

\* What a container is started with.
LEMMA ServedTyped ==
  ASSUME IInv, NEW n \in Names, NEW c \in BOOLEAN
  PROVE  [serves |-> ServedAt(n), caps |-> c] \in Container
<1>1. CASE n[1] = Daemon
  <2> DEFINE S == {q \in {q \in Found(n[2]) : files[q] # NoTree} : TRUE}
  <2>1. S \subseteq Projects
    BY DEF Found
  <2>2. ServedAt(n) = [q \in S |-> files[q]]
    BY <1>1 DEF ServedAt
  <2>3. ServedAt(n) \in [S -> Code]
    BY <2>1, <2>2 DEF IInv
  <2>. QED BY <2>1, <2>3 DEF Container
<1>2. CASE n[1] # Daemon
  <2>1. n[1] \in Projects
    BY <1>2, NamesAre
  <2>2. ServedAt(n) = [q \in {n[1]} |-> files[q]]
    BY <1>2 DEF ServedAt
  <2>3. ServedAt(n) \in [{n[1]} -> Code]
    BY <2>1, <2>2 DEF IInv
  <2>. QED BY <2>1, <2>3 DEF Container
<1>. QED BY <1>1, <1>2

\* A step that touches no container, and counts what it does.
LEMMA PlacesKept ==
  ASSUME PlacesInv, UNCHANGED <<serving>>, up' \in BOOLEAN,
         spoiled' \subseteq Projects \cup {Daemon}, requests' \in Nat, faults' \in Nat
  PROVE  PlacesInv'
BY DEF PlacesInv, serving

LEMMA SkipStartSpoils ==
  ASSUME PlacesInv, WorkInv, NEW j \in jobs, j.work # <<>>, SkipStart(j)
  PROVE  spoiled' \subseteq Projects \cup {Daemon}
<1>1. Head(j.work) \in Todo
  BY DEF WorkInv
<1>2. Head(j.work).at \in Names
  BY <1>1 DEF Todo
<1>3. spoiled' = spoiled \cup {Head(j.work).at[1]}
  BY Zenon DEF SkipStart
<1>. QED BY <1>2, <1>3, NamesAre DEF PlacesInv

LEMMA StepsPlaces ==
  ASSUME IInv, WorkInv, PlacesInv, NEW j \in jobs, Step(j)
  PROVE  PlacesInv'
<1>s. Sound(j) /\ j.p \in Projects \cup {Daemon} /\ j.work \in Seq(Todo)
  BY DEF IInv, JobsSound, WorkInv, Sound, JobWith
<1>r. Raises(j) => spoiled' \subseteq Projects \cup {Daemon}
  BY <1>s DEF Raises, PlacesInv
<1>k. /\ up \in BOOLEAN /\ requests \in Nat /\ faults \in Nat
      /\ spoiled \subseteq Projects \cup {Daemon}
  BY DEF PlacesInv
<1>1. ASSUME NEW t \in Trees, Cloned(j, t) PROVE PlacesInv'
  BY <1>1, <1>r, <1>k, PlacesKept DEF Cloned
<1>2. ASSUME NEW t \in Trees, Staged(j, t) PROVE PlacesInv'
  BY <1>2, <1>k, PlacesKept DEF Staged, history
<1>3. CASE AcceptManifest(j) \/ ReadStage(j) \/ RejectPin(j) \/ Built(j) \/ Brokered(j)
           \/ Recorded(j) \/ Bound(j) \/ DeployEmitted(j) \/ ModeEmitted(j) \/ Done(j)
  <2>1. UNCHANGED <<serving, up, history>>
    BY <1>3, Zenon DEF AcceptManifest, ReadStage, RejectPin, Built, Brokered, Recorded, Bound,
                       DeployEmitted, ModeEmitted, Done
  <2>. QED BY <1>k, <2>1, PlacesKept DEF history
<1>4. CASE RejectManifest(j)
  BY <1>4, <1>r, <1>k, PlacesKept DEF RejectManifest
<1>5. CASE AdoptPin(j)
  BY <1>5, <1>r, <1>k, PlacesKept DEF AdoptPin
<1>6. CASE TeardownEmitted(j)
  BY <1>6, <1>r, <1>k, PlacesKept DEF TeardownEmitted
<1>7. CASE NameTaken(j)
  BY <1>7, <1>r, <1>k, PlacesKept, SkipStartSpoils DEF NameTaken
<1>8. CASE StopContainer(j)
  <2>1. PICK n \in Names : /\ ctr' = [ctr EXCEPT ![n] = {}]
                           /\ Unrouted(n) \/ UNCHANGED <<route, ips>>
    <3>1. Head(j.work) \in Todo
      BY <1>8, <1>s DEF StopContainer
    <3>2. Head(j.work).at \in Names
      BY <3>1 DEF Todo
    <3>. QED BY <1>8, <3>2, Zenon DEF StopContainer
  <2>2. UNCHANGED <<up, history>>
    BY <1>8 DEF StopContainer
  <2>3. route' \in [Projects -> SUBSET Modes] /\ ips' \subseteq Modes
    BY <2>1 DEF PlacesInv, Unrouted
  <2>. QED BY <1>k, <2>1, <2>2, <2>3 DEF PlacesInv, history
<1>9. CASE CreateContainer(j)
  <2>1. PICK n \in Names, c \in BOOLEAN :
          /\ ctr' = [ctr EXCEPT ![n] = {[serves |-> ServedAt(n), caps |-> c]}]
          /\ IF n[1] = Daemon
               THEN ips' = ips \cup {n[2]} /\ UNCHANGED route
               ELSE route' = [route EXCEPT ![n[1]] = {n[2]}] /\ UNCHANGED ips
    <3>1. Head(j.work) \in Todo
      BY <1>9, <1>s DEF CreateContainer
    <3>2. Head(j.work).at \in Names /\ Head(j.work).caps \in BOOLEAN
      BY <3>1 DEF Todo
    <3>. QED BY <1>9, <3>2, Zenon DEF CreateContainer
  <2>2. UNCHANGED <<up, history>>
    BY <1>9 DEF CreateContainer
  <2>3. route' \in [Projects -> SUBSET Modes] /\ ips' \subseteq Modes
    BY <2>1, NamesAre DEF PlacesInv
  <2>4. ctr' \in [Names -> SUBSET Container]
    BY <2>1, ServedTyped DEF PlacesInv
  <2>. QED BY <1>k, <2>2, <2>3, <2>4 DEF PlacesInv, history
<1>. QED BY <1>1, <1>2, <1>3, <1>4, <1>5, <1>6, <1>7, <1>8, <1>9 DEF Step

LEMMA NextPlaces == IInv /\ WorkInv /\ PlacesInv /\ [Next]_vars => PlacesInv'
<1> SUFFICES ASSUME IInv, WorkInv, PlacesInv, [Next]_vars PROVE PlacesInv'
  BY Zenon
<1>k. /\ up \in BOOLEAN /\ requests \in Nat /\ faults \in Nat
      /\ spoiled \subseteq Projects \cup {Daemon}
  BY DEF PlacesInv
<1>1. ASSUME NEW s \in Slots, NEW p \in Projects, Calls(s, p) PROVE PlacesInv'
  <2>1. /\ UNCHANGED <<serving, up, faults>>
        /\ spoiled' \subseteq spoiled \cup {p}
        /\ requests' = requests + 1
    <3>1. ASSUME NEW r, Deploy(s, p, r) PROVE UNCHANGED <<serving, up, faults, spoiled>> /\ requests' = requests + 1
      BY <3>1, Zenon DEF Deploy, Accepts
    <3>2. ASSUME NEW r, NEW t, Import(s, p, r, t) PROVE UNCHANGED <<serving, up, faults, spoiled>> /\ requests' = requests + 1
      BY <3>2, Zenon DEF Import, Accepts
    <3>3. ASSUME NEW r, NEW t, Upload(s, p, r, t)
          PROVE  UNCHANGED <<serving, up, faults>> /\ requests' = requests + 1 /\ spoiled' \subseteq spoiled \cup {p}
      BY <3>3 DEF Upload, Accepts
    <3>4. ASSUME Redeploy(s, p) \/ Promote(s, p) \/ Unpromote(s, p) \/ Teardown(s, p)
          PROVE  UNCHANGED <<serving, up, faults, spoiled>> /\ requests' = requests + 1
      BY <3>4, Zenon DEF Redeploy, Promote, Unpromote, Teardown, Accepts
    <3>. QED BY <1>1, <3>1, <3>2, <3>3, <3>4 DEF Calls
  <2>. QED BY <1>k, <2>1, PlacesKept
<1>2. ASSUME NEW j \in jobs, Step(j) PROVE PlacesInv'
  BY <1>2, StepsPlaces
<1>3. ASSUME NEW j \in jobs, Fails(j) PROVE PlacesInv'
  <2>1. j.p \in Projects \cup {Daemon}
    BY DEF IInv, JobsSound, Sound, JobWith
  <2>2. spoiled' \subseteq Projects \cup {Daemon}
    BY <1>3, <1>k, <2>1, SkipStartSpoils DEF Fails, Raises
  <2>. QED BY <1>3, <1>k, <2>2, PlacesKept DEF Fails
<1>4. ASSUME NEW m \in Modes, NEW p \in Projects, Respawn(m, p) PROVE PlacesInv'
  <2> DEFINE n == <<Daemon, m>>
  <2>1. PICK c \in ctr[n] : /\ p \in DOMAIN c.serves
                            /\ ctr' = [ctr EXCEPT ![n] = {[c EXCEPT !.serves[p] = files[p]]}]
    BY <1>4, Zenon DEF Respawn
  <2>2. n \in Names
    BY NamesAre
  <2>3. c \in Container
    BY <2>1, <2>2 DEF PlacesInv
  <2>4. PICK S \in SUBSET Projects : c.serves \in [S -> Code]
    BY <2>3 DEF Container
  <2>5. [c.serves EXCEPT ![p] = files[p]] \in [S -> Code]
    BY <2>1, <2>4 DEF IInv
  <2>6. [c EXCEPT !.serves[p] = files[p]] = [serves |-> [c.serves EXCEPT ![p] = files[p]], caps |-> c.caps]
    BY <2>3 DEF Container
  <2>7. [c EXCEPT !.serves[p] = files[p]] \in Container
    BY <2>3, <2>5, <2>6 DEF Container
  <2>8. ctr' \in [Names -> SUBSET Container]
    BY <2>1, <2>2, <2>7 DEF PlacesInv
  <2>9. UNCHANGED <<route, ips, up, history>>
    BY <1>4 DEF Respawn
  <2>. QED BY <1>k, <2>8, <2>9 DEF PlacesInv, history
<1>5. CASE Crash
  <2>1. \A j \in jobs : j.p \in Projects \cup {Daemon}
    BY DEF IInv, JobsSound, Sound, JobWith
  <2>2. /\ faults' = faults + 1 /\ up' = FALSE /\ spoiled' = spoiled \cup {j.p : j \in jobs}
        /\ route' = [p \in Projects |-> {}] /\ ips' = {} /\ UNCHANGED <<ctr, requests>>
    BY <1>5 DEF Crash, Dies
  <2>3. spoiled' \subseteq Projects \cup {Daemon}
    BY <1>k, <2>1, <2>2
  <2>4. route' \in [Projects -> SUBSET Modes] /\ ips' \subseteq Modes /\ faults' \in Nat
    BY <1>k, <2>2
  <2>5. ctr' \in [Names -> SUBSET Container] /\ requests' \in Nat /\ up' \in BOOLEAN
    BY <1>k, <2>2 DEF PlacesInv
  <2>. QED BY <2>3, <2>4, <2>5 DEF PlacesInv
<1>6. CASE Boot
  BY <1>6, <1>k, PlacesKept DEF Boot, history
<1>7. CASE UNCHANGED vars
  BY <1>7, <1>k, PlacesKept DEF vars, history
<1>8. ASSUME NEW q \in Projects, TornSave(q) PROVE PlacesInv'
  <2>1. \A j \in jobs : j.p \in Projects \cup {Daemon}
    BY DEF IInv, JobsSound, Sound, JobWith
  <2>2. /\ faults' = faults + 1 /\ up' = FALSE
        /\ spoiled' = spoiled \cup {q} \cup {j.p : j \in jobs}
        /\ route' = [p \in Projects |-> {}] /\ ips' = {} /\ UNCHANGED <<ctr, requests>>
    BY <1>8 DEF TornSave, Dies
  <2>3. spoiled' \subseteq Projects \cup {Daemon}
    BY <1>k, <2>1, <2>2
  <2>4. route' \in [Projects -> SUBSET Modes] /\ ips' \subseteq Modes /\ faults' \in Nat
    BY <1>k, <2>2
  <2>5. ctr' \in [Names -> SUBSET Container] /\ requests' \in Nat /\ up' \in BOOLEAN
    BY <1>k, <2>2 DEF PlacesInv
  <2>. QED BY <2>3, <2>4, <2>5 DEF PlacesInv
<1>. QED BY <1>1, <1>2, <1>3, <1>4, <1>5, <1>6, <1>7, <1>8 DEF Next

\* A record is torn by a save alone, and stays so.
LEMMA NextTorn ==
  ASSUME [Next]_vars
  PROVE  torn' = torn \/ \E p \in Projects : torn' = torn \cup {p}
<1>1. ASSUME NEW s \in Slots, NEW p \in Projects, Calls(s, p) PROVE UNCHANGED torn
  <2>1. ASSUME NEW r, NEW t, Deploy(s, p, r) \/ Upload(s, p, r, t) \/ Import(s, p, r, t) PROVE UNCHANGED torn
    BY <2>1, Zenon DEF Deploy, Upload, Import
  <2>2. CASE Redeploy(s, p) \/ Promote(s, p) \/ Unpromote(s, p) \/ Teardown(s, p)
    BY <2>2, Zenon DEF Redeploy, Promote, Unpromote, Teardown
  <2>3. ASSUME NEW r, Deploy(s, p, r) PROVE UNCHANGED torn
    BY <2>3, Zenon DEF Deploy
  <2>. QED BY <1>1, <2>1, <2>2, <2>3, Zenon DEF Calls
<1>2. ASSUME NEW j \in jobs, Step(j) PROVE UNCHANGED torn
  <2>1. ASSUME NEW t, Cloned(j, t) \/ Staged(j, t) PROVE UNCHANGED torn
    BY <2>1, Zenon DEF Cloned, Staged
  <2>2. CASE AcceptManifest(j) \/ RejectManifest(j) \/ ReadStage(j) \/ RejectPin(j) \/ AdoptPin(j)
    BY <2>2, Zenon DEF AcceptManifest, RejectManifest, ReadStage, RejectPin, AdoptPin
  <2>3. CASE Built(j) \/ Brokered(j) \/ Recorded(j) \/ Bound(j) \/ DeployEmitted(j)
    BY <2>3, Zenon DEF Built, Brokered, Recorded, Bound, DeployEmitted
  <2>4. CASE ModeEmitted(j) \/ TeardownEmitted(j) \/ StopContainer(j) \/ CreateContainer(j)
             \/ NameTaken(j) \/ Done(j)
    BY <2>4, Zenon DEF ModeEmitted, TeardownEmitted, StopContainer, CreateContainer, NameTaken, Done
  <2>. QED BY <1>2, <2>1, <2>2, <2>3, <2>4, Zenon DEF Step
<1>3. ASSUME (\E j \in jobs : Fails(j)) \/ (\E m \in Modes, p \in Projects : Respawn(m, p)) \/ Crash
             \/ Boot \/ UNCHANGED vars
      PROVE  UNCHANGED torn
  BY <1>3, Zenon DEF Fails, Respawn, Crash, Boot, vars
<1>4. ASSUME NEW p \in Projects, TornSave(p) PROVE torn' = torn \cup {p}
  BY <1>4, Zenon DEF TornSave
<1>. QED BY <1>1, <1>2, <1>3, <1>4, Zenon DEF Next

-----------------------------------------------------------------------------
(* The types *)

TypeInv == IInv /\ WorkInv /\ PlacesInv /\ torn \subseteq Projects

LEMMA InitTypeInv == Init => TypeInv
<1> SUFFICES ASSUME Init PROVE TypeInv
  OBVIOUS
<1>1. IInv /\ WorkInv
  BY InitIInv DEF Init, WorkInv
<1>2. PlacesInv
  BY DEF Init, PlacesInv
<1>3. torn \subseteq Projects
  BY DEF Init
<1>. QED BY <1>1, <1>2, <1>3 DEF TypeInv

LEMMA NextTypeInv == TypeInv /\ [Next]_vars => TypeInv'
<1> SUFFICES ASSUME TypeInv, [Next]_vars PROVE TypeInv'
  OBVIOUS
<1>1. IInv' /\ WorkInv' /\ PlacesInv'
  BY NextIInv, NextWorkInv, NextPlaces DEF TypeInv
<1>2. (torn \subseteq Projects)'
  BY NextTorn DEF TypeInv
<1>. QED BY <1>1, <1>2 DEF TypeInv

LEMMA TypesFollow == TypeInv => TypeOK
<1> SUFFICES ASSUME TypeInv PROVE TypeOK
  OBVIOUS
<1>1. store \in [Projects -> SUBSET Record]
  BY DEF TypeInv, IInv, QuotedRecord
<1>2. jobs \subseteq Job
  <2> SUFFICES ASSUME NEW j \in jobs PROVE j \in Job
    OBVIOUS
  <2>1. j \in JobWith(j.work) /\ j.work \in Seq(Todo)
    BY DEF TypeInv, IInv, JobsSound, Sound, WorkInv
  <2>. QED BY <2>1 DEF JobWith, Job, QuotedRecord
<1>. QED BY <1>1, <1>2 DEF TypeInv, IInv, PlacesInv, TypeOK

\* Records, jobs, containers and counters have their types, whatever overlaps, fails or
\* ends (projects.py:29-83, audit.py:15-24).
THEOREM TypeCorrect == Spec => []TypeOK
BY InitTypeInv, NextTypeInv, TypesFollow, PTL DEF Spec

LEMMA ReportsTyped ==
  ASSUME NEW c, NEW data, Reports(c, data),
         \A b \in data : b.project = c.p /\ b.tree_hash \in Code
  PROVE  EvidenceTypeOK'
<1>1. PICK project, status :
        report' = {[p |-> c.p, by |-> c.by, calm |-> c.calm, project |-> project, data |-> data,
                    status |-> status]}
  BY Zenon DEF Reports
<1>2. \A x \in report' : x.data = data /\ x.p = c.p
  <2>1. PICK x : /\ x = [p |-> c.p, by |-> c.by, calm |-> c.calm, project |-> project,
                         data |-> data, status |-> status]
                 /\ report' = {x}
    BY <1>1, Zenon
  <2>2. x.data = data /\ x.p = c.p
    BY <2>1
  <2>. QED BY <2>1, <2>2, Zenon
<1>3. check' = {}
  BY Zenon DEF Reports
<1>. QED BY <1>2, <1>3 DEF EvidenceTypeOK

\* A verification has its type, carries what the store had, and knows if it was calm.
Checks(c) ==
  c \in Check /\ (c.at = "looked" <=> c.loc = {}) /\ \A r \in c.loc : r.mode = "attested"

LEMMA ChecksTyped ==
  ASSUME NEW c, Checks(c), check' = {c}, UNCHANGED report, EvidenceTypeOK
  PROVE  EvidenceTypeOK'
BY DEF Checks, EvidenceTypeOK

LEMMA SettledIsBoolean == \A p : Settled(p) \in BOOLEAN
BY Zenon DEF Settled

LEMMA EvidenceStepsTyped ==
  ASSUME IInv, EvidenceTypeOK, EvidenceNext
  PROVE  EvidenceTypeOK'
<1>r. \A p \in Projects : store[p] \subseteq Record /\ Attested(p) \subseteq Record
  BY LoadedCarries DEF QuotedRecord
<1>1. ASSUME NEW p \in Projects, NEW token \in BOOLEAN, CliLooks(p, token)
      PROVE  EvidenceTypeOK'
  <2> DEFINE c == [p |-> p, by |-> "cli", at |-> "looked", loc |-> {}, quoted |-> FALSE,
                   project |-> {r.mode : r \in IF token THEN store[p] ELSE Attested(p)},
                   calm |-> Settled(p)]
  <2>1. Reports(c, {}) \/ (check' = {c} /\ UNCHANGED report)
    <3>1. IF c.project = {"dev"} THEN Reports(c, {}) ELSE check' = {c} /\ UNCHANGED report
      BY <1>1 DEF CliLooks
    <3>. QED BY <3>1, Zenon
  <2>2. c.project \in SUBSET Modes
    BY <1>r DEF Record
  <2>3. Checks(c)
    <3>1. Settled(p) \in BOOLEAN
      BY SettledIsBoolean
    <3> HIDE DEF Settled
    <3>. QED BY <2>2, <3>1 DEF Checks, Check
  <2> HIDE DEF c
  <2>4. CASE Reports(c, {})
    BY <2>4, ReportsTyped
  <2>. QED BY <2>1, <2>3, <2>4, ChecksTyped
<1>2. ASSUME NEW p \in Projects, LibraryAsks(p) PROVE EvidenceTypeOK'
  <2> DEFINE c == [p |-> p, by |-> "library", at |-> "quoting", project |-> {},
                   loc |-> Attested(p), quoted |-> FALSE, calm |-> Settled(p)]
  <2>1. check' = {c} /\ UNCHANGED report /\ Attested(p) # {}
    BY <1>2, Zenon DEF LibraryAsks
  <2>2. Checks(c)
    <3>1. Settled(p) \in BOOLEAN
      BY SettledIsBoolean
    <3>2. \A r \in Attested(p) : r.mode = "attested"
      BY DEF Attested
    <3>. QED BY <1>r, <2>1, <3>1, <3>2 DEF Checks, Check
  <2>. QED BY <2>1, <2>2, ChecksTyped
<1>3. ASSUME NEW c \in check, CliAsks(c) PROVE EvidenceTypeOK'
  <2>0. Checks(c)
    BY DEF EvidenceTypeOK, Checks
  <2>1. CASE Attested(c.p) = {}
    <3>1. Reports(c, {})
      BY <1>3, <2>1 DEF CliAsks
    <3>. QED BY <3>1, ReportsTyped
  <2>2. CASE Attested(c.p) # {}
    <3> DEFINE calm == c.calm /\ Settled(c.p)
               d == [c EXCEPT !.at = "quoting", !.loc = Attested(c.p), !.calm = calm]
    <3>1. check' = {d} /\ UNCHANGED report
      BY <1>3, <2>2 DEF CliAsks
    <3>2. calm \in BOOLEAN
      BY Zenon
    <3> HIDE DEF calm
    <3>3. \A r \in Attested(c.p) : r.mode = "attested"
      BY DEF Attested
    <3>4. Checks(d)
      BY <1>r, <2>0, <2>2, <3>2, <3>3 DEF Checks, Check
    <3>. QED BY <3>1, <3>4, ChecksTyped
  <2>. QED BY <2>1, <2>2
<1>4. ASSUME NEW c \in check, NEW answered \in BOOLEAN, Quoted(c, answered)
      PROVE  EvidenceTypeOK'
  <2>1. Checks(c) /\ c.at = "quoting" /\ UNCHANGED report
    BY <1>4 DEF EvidenceTypeOK, Checks, Quoted
  <2>2. PICK d : d = [c EXCEPT !.at = "keying", !.quoted = answered] /\ check' = {d}
    BY <1>4 DEF Quoted
  <2>3. Checks(d)
    BY <2>1, <2>2 DEF Checks, Check
  <2>. QED BY <2>1, <2>2, <2>3, ChecksTyped
<1>5. ASSUME NEW c \in check, NEW key \in {"", "key"}, Keyed(c, key)
      PROVE  EvidenceTypeOK'
  <2>1. c.loc \subseteq Record
    BY DEF EvidenceTypeOK, Check
  <2>2. ASSUME NEW r \in c.loc
        PROVE  Bundle(c, r, key).project = c.p /\ Bundle(c, r, key).tree_hash \in Code
    BY <2>1 DEF Bundle, Record
  <2>3. PICK data : data = {Bundle(c, r, key) : r \in c.loc}
    OBVIOUS
  <2>4. \A b \in data : b.project = c.p /\ b.tree_hash \in Code
    BY <2>2, <2>3
  <2>5. Reports(c, data)
    BY <1>5, <2>3 DEF Keyed
  <2>. QED BY <2>4, <2>5, ReportsTyped
<1>6. CASE Handlers
  BY <1>6 DEF Handlers, EvidenceTypeOK
<1>7. ASSUME NEW e \in Consumers, Handed(e) PROVE EvidenceTypeOK'
  BY <1>7 DEF Handed, EvidenceTypeOK
<1>. QED BY <1>1, <1>2, <1>3, <1>4, <1>5, <1>6, <1>7 DEF EvidenceNext

\* The same, and of a verification beside them (projects.py:29-83, verify/bundle.py:33-74).
THEOREM EvidenceTypesHold == MCSpec => []TypesOK
<1> DEFINE Inv == TypeInv /\ EvidenceTypeOK
<1>1. MCInit => Inv
  BY InitTypeInv DEF MCInit, EvidenceInit, EvidenceTypeOK
<1>2. Inv /\ [MCNext]_<<vars, evidence, component>> => Inv'
  <2> SUFFICES ASSUME Inv, [MCNext]_<<vars, evidence, component>> PROVE Inv'
    OBVIOUS
  <2>1. EvidenceNext => [Next]_vars
    BY Zenon DEF EvidenceNext, Handlers, CliLooks, LibraryAsks, CliAsks, Quoted, Keyed, Handed
  <2>2. CASE EvidenceNext
    BY <2>1, <2>2, NextTypeInv, EvidenceStepsTyped DEF TypeInv
  <2>3. CASE Next /\ UNCHANGED evidence
    BY <2>3, NextTypeInv DEF evidence, EvidenceTypeOK
  <2>4. CASE UNCHANGED <<vars, evidence, component>>
    BY <2>4, NextTypeInv DEF evidence, EvidenceTypeOK
  <2>. QED BY <2>2, <2>3, <2>4 DEF MCNext
<1>3. Inv => TypesOK
  BY TypesFollow DEF TypesOK
<1>. QED BY <1>1, <1>2, <1>3, PTL DEF MCSpec

-----------------------------------------------------------------------------
(* What is served is what is recorded, where callers wait for each other *)

\* The names of the containers that p can be served from.
Needs(p, r) == IF r.kind = "shared" THEN {<<Daemon, r.mode>>} ELSE {p} \X Modes

\* One of them runs p's files, and a request finds it.
Runs(p, r) ==
  \E n \in Needs(p, r) : \E c \in ctr[n] :
    /\ ctr[n] = {c}
    /\ p \in DOMAIN c.serves /\ c.serves[p] = files[p]
    /\ IF r.kind = "shared" THEN r.mode \in ips ELSE route[p] = {n[2]}

\* Handlers that will start it, or have a refresh done, later on.
Clones(j) == j.op = "deploy" /\ j.pc \in {"cloning", "cloned", "building"}
Deploys(j) == Clones(j) \/ (j.op = "deploy" /\ j.pc = "saved")
Switches(j) == j.op \in {"promote", "unpromote"} /\ j.pc \in {"binding", "emitting"}
Sees(j, p, r) == j.p = p /\ (Deploys(j) \/ (Switches(j) /\ r.kind = "shared"))

\* A project runs, and whoever is at work leaves it alone; or somebody will start it.
Provided(p, r) ==
  \/ r.kind = "static"
  \/ Runs(p, r) /\ \A j \in jobs : Spares(j.work, Needs(p, r))
  \/ \E j \in jobs : Restores(j.work, Needs(p, r)) \/ Sees(j, p, r)

ServedInv ==
  up /\ Daemon \notin spoiled =>
    \A p \in Projects \ spoiled : \A r \in store[p] : Provided(p, r)

\* What a handler has read is as it read it.
JobTells(j) ==
  /\ j.pc = "cloned" => files[j.p] \in Trees
  /\ j.pc = "adopting" => j.loc.tree = stage[j.p]
  /\ j.op = "deploy" /\ j.pc \in {"building", "saved", "working", "emitting"} =>
       files[j.p] = j.loc.tree /\ j.loc.tree \in Trees
  /\ j.op = "deploy" /\ j.pc \in {"saved", "working", "emitting"} => store[j.p] = {j.loc}
  /\ j.pc = "binding" => j.op = "promote"
  /\ Switches(j) => store[j.p] = {j.loc}

\* The files are those of the record, or a handler is about to store one of theirs.
Right(p, r) ==
  (files[p] = r.tree /\ r.tree \in Trees) \/ \E j \in jobs : j.p = p /\ Clones(j)

Alone == \A j, k \in jobs : j = k
DiskInv ==
  /\ \A p \in Projects : \A r, s \in store[p] : r = s
  /\ \A j \in jobs : JobTells(j)
  /\ \A p \in Projects \ spoiled : \A r \in store[p] : Right(p, r)

-----------------------------------------------------------------------------
(* A step of a handler of q leaves the others as they are *)

LEMMA DiskAfter ==
  ASSUME DiskInv, NEW q, \A j \in jobs : j.p = q,
         \A p \in Projects \ {q} : store'[p] = store[p] /\ files'[p] = files[p],
         spoiled \subseteq spoiled',
         \A k \in jobs' : JobTells(k)',
         q \in Projects => \A r, s \in store'[q] : r = s,
         q \in Projects \ spoiled' => \A r \in store'[q] : Right(q, r)'
  PROVE  DiskInv'
<1>1. ASSUME NEW p \in Projects, NEW r \in store'[p], NEW s \in store'[p] PROVE r = s
  BY DEF DiskInv
<1>2. ASSUME NEW p \in Projects, p \notin spoiled', NEW r \in store'[p] PROVE Right(p, r)'
  <2>1. CASE p = q
    BY <1>2, <2>1
  <2>2. CASE p # q
    <3>1. r \in store[p] /\ p \notin spoiled /\ files'[p] = files[p]
      BY <1>2, <2>2
    <3>2. Right(p, r) /\ \A j \in jobs : j.p # p
      BY <2>2, <3>1 DEF DiskInv
    <3>. QED BY <3>1, <3>2 DEF Right
  <2>. QED BY <2>1, <2>2
<1>. QED BY <1>1, <1>2 DEF DiskInv

LEMMA NothingSpares == \A N : Spares(<<>>, N) /\ ~Restores(<<>>, N)
BY DEF Spares, Restores

\* A project whose own handlers have nothing to do runs.
LEMMA RunsAlready ==
  ASSUME ServedInv, up, Daemon \notin spoiled,
         NEW p \in Projects \ spoiled, NEW r \in store[p], r.kind # "static",
         \A j \in jobs : ~Sees(j, p, r) /\ j.work = <<>>
  PROVE  Runs(p, r)
BY NothingSpares DEF ServedInv, Provided

\* Containers and files as they were serve a record of the same kind, in any mode if
\* the container is the project's own.
LEMMA RunsStill ==
  ASSUME NEW p, NEW r, NEW s, Runs(p, r), s.kind = r.kind,
         s.mode = r.mode \/ r.kind # "shared",
         UNCHANGED serving, files'[p] = files[p]
  PROVE  Runs(p, s)'
<1>1. Needs(p, s) = Needs(p, r)
  BY DEF Needs
<1>. QED BY <1>1 DEF Runs, serving

\* Handlers without work on containers, before and after.
LEMMA ServedAside ==
  ASSUME ServedInv, NEW q, \A j \in jobs : j.p = q /\ j.work = <<>>,
         UNCHANGED <<serving, up>>,
         \A p \in Projects \ {q} : store'[p] = store[p] /\ files'[p] = files[p],
         spoiled \subseteq spoiled',
         \A k \in jobs' : k.work = <<>>,
         up /\ q \in Projects \ spoiled' /\ Daemon \notin spoiled' =>
           \A r \in store'[q] : Provided(q, r)'
  PROVE  ServedInv'
<1> SUFFICES ASSUME up', Daemon \notin spoiled', NEW p \in Projects, p \notin spoiled',
                    NEW r \in store'[p]
             PROVE  Provided(p, r)'
  BY DEF ServedInv
<1>1. CASE p = q
  BY <1>1
<1>2. CASE p # q
  <2>1. r \in store[p] /\ p \notin spoiled /\ Daemon \notin spoiled /\ up /\ files'[p] = files[p]
    BY <1>2
  <2>2. \A j \in jobs : ~Sees(j, p, r)
    BY <1>2 DEF Sees
  <2>3. CASE r.kind = "static"
    BY <2>3 DEF Provided
  <2>4. CASE r.kind # "static"
    <3>1. Runs(p, r)
      BY <2>1, <2>2, <2>4, RunsAlready
    <3>2. Runs(p, r)'
      BY <2>1, <3>1, RunsStill
    <3>3. \A k \in jobs' : Spares(k.work, Needs(p, r))
      BY NothingSpares
    <3>4. Needs(p, r)' = Needs(p, r) /\ \A k : Spares(k.work, Needs(p, r))' = Spares(k.work, Needs(p, r))
      BY DEF Needs, Spares
    <3>. QED BY <3>2, <3>3, <3>4 DEF Provided
  <2>. QED BY <2>3, <2>4
<1>. QED BY <1>1, <1>2

\* A call begins: nobody is at work, and one handler is afterwards, or none.
LEMMA CallBegins ==
  ASSUME NEW k, jobs = {}, jobs' = {k}, DiskInv, ServedInv,
         k.p \in Projects, k.work = <<>>, JobTells(k)',
         UNCHANGED <<serving, up>>, spoiled \subseteq spoiled',
         \A p \in Projects \ {k.p} : store'[p] = store[p] /\ files'[p] = files[p],
         \A r, s \in store'[k.p] : r = s,
         \A r \in store'[k.p] :
           \/ Clones(k)
           \/ /\ files'[k.p] = files[k.p]
              /\ \E s \in store[k.p] :
                   /\ r.tree = s.tree /\ r.kind = s.kind
                   /\ r.mode = s.mode \/ r.kind # "shared" \/ Switches(k)
  PROVE  DiskInv' /\ ServedInv'
<1> DEFINE q == k.p
<1>1. ASSUME q \notin spoiled', NEW r \in store'[q] PROVE Right(q, r)'
  <2>1. CASE Clones(k)
    BY <2>1 DEF Right, Clones
  <2>2. CASE \E s \in store[q] : r.tree = s.tree /\ files'[q] = files[q]
    <3>1. PICK s \in store[q] : r.tree = s.tree /\ files'[q] = files[q]
      BY <2>2
    <3>2. Right(q, s)
      BY <1>1 DEF DiskInv
    <3>. QED BY <3>1, <3>2 DEF Right
  <2>. QED BY <1>1, <2>1, <2>2
<1>2. DiskInv'
  BY <1>1, DiskAfter
<1>3. ASSUME up, q \notin spoiled', Daemon \notin spoiled', NEW r \in store'[q]
      PROVE  Provided(q, r)'
  <2>1. CASE Clones(k) \/ (Switches(k) /\ r.kind = "shared")
    <3>1. Sees(k, q, r)
      BY <2>1 DEF Sees, Deploys
    <3>2. Sees(k, q, r)'
      BY <3>1 DEF Sees, Deploys, Clones, Switches
    <3>. QED BY <3>2 DEF Provided
  <2>2. CASE r.kind = "static"
    BY <2>2 DEF Provided
  <2>3. ASSUME ~Clones(k), ~(Switches(k) /\ r.kind = "shared"), r.kind # "static"
        PROVE  Provided(q, r)'
    <3>1. PICK s \in store[q] : /\ r.kind = s.kind
                                /\ r.mode = s.mode \/ r.kind # "shared"
                                /\ files'[q] = files[q]
      BY <1>3, <2>3
    <3>2. Runs(q, s)
      BY <1>3, <2>3, <3>1, RunsAlready
    <3>3. Runs(q, r)'
      BY <3>1, <3>2, RunsStill
    <3>4. \A j \in jobs' : Spares(j.work, Needs(q, r))'
      BY NothingSpares DEF Spares
    <3>. QED BY <3>3, <3>4 DEF Provided
  <2>. QED BY <2>1, <2>2, <2>3
<1>4. ServedInv'
  BY <1>3, ServedAside
<1>. QED BY <1>2, <1>4

LEMMA CallsServed ==
  ASSUME IInv, OneAtATime, DiskInv, ServedInv, NEW s \in Slots, NEW p \in Projects, Calls(s, p)
  PROVE  DiskInv' /\ ServedInv'
<1>j. /\ \A o, pc, r, pin : /\ NewJob(s, p, o, pc, r, pin).p = p
                            /\ NewJob(s, p, o, pc, r, pin).op = o
                            /\ NewJob(s, p, o, pc, r, pin).pc = pc
                            /\ NewJob(s, p, o, pc, r, pin).loc = r
                            /\ NewJob(s, p, o, pc, r, pin).work = <<>>
  BY DEF NewJob
<1>a. \A o : Accepts(o, s) => jobs = {}
  BY DEF Accepts
<1>t. store[p] \subseteq QuotedRecord /\ \A r, x \in store[p] : r = x
  BY DEF IInv, DiskInv
<1>f. files \in [Projects -> Code] /\ store \in [Projects -> SUBSET QuotedRecord]
  BY DEF IInv
<1>1. ASSUME NEW r, Deploy(s, p, r) \/ (r = r /\ Redeploy(s, p)) PROVE DiskInv' /\ ServedInv'
  <2>1. PICK k : /\ k.p = p /\ k.op = "deploy" /\ k.pc = "cloning" /\ k.work = <<>>
                 /\ jobs = {} /\ jobs' = {k}
    <3>1. jobs = {}
      BY <1>1, <1>a, Zenon DEF Deploy, Redeploy
    <3>2. \E l : jobs' = jobs \cup {NewJob(s, p, "deploy", "cloning", l, {})}
      BY <1>1, Zenon DEF Deploy, Redeploy
    <3>. QED BY <1>j, <3>1, <3>2
  <2>2. /\ files' = [files EXCEPT ![p] = NoTree]
        /\ UNCHANGED <<store, stage, serving, up, spoiled>>
    BY <1>1, Zenon DEF Deploy, Redeploy
  <2>3. JobTells(k)' /\ Clones(k)
    BY <2>1 DEF JobTells, Clones, Switches
  <2>. QED BY <1>t, <1>f, <2>1, <2>2, <2>3, CallBegins
<1>2. ASSUME NEW r, NEW t, Import(s, p, r, t) PROVE DiskInv' /\ ServedInv'
  <2>1. PICK k : /\ k.p = p /\ k.op = "deploy" /\ k.pc = "staging" /\ k.work = <<>>
                 /\ jobs = {} /\ jobs' = {k}
    BY <1>2, <1>j, <1>a DEF Import
  <2>2. UNCHANGED <<store, files, serving, up, spoiled>>
    BY <1>2 DEF Import
  <2>3. JobTells(k)'
    BY <2>1 DEF JobTells, Switches
  <2>. QED BY <1>t, <1>f, <2>1, <2>2, <2>3, CallBegins
<1>3. ASSUME NEW r \in Manifests, NEW t \in Trees, Upload(s, p, r, t) PROVE DiskInv' /\ ServedInv'
  <2>1. /\ jobs = {} /\ files' = [files EXCEPT ![p] = t]
        /\ UNCHANGED <<store, stage, serving, up>>
    BY <1>3, <1>a DEF Upload
  <2>2. CASE jobs' = jobs \cup {NewJob(s, p, "deploy", "building", [r EXCEPT !.tree = t], {})} /\ UNCHANGED spoiled
    <3>0. [r EXCEPT !.tree = t].tree = t
      BY ManifestSound DEF QuotedRecord, Record
    <3>1. PICK l : l = [r EXCEPT !.tree = t] /\ l.tree = t
      BY <3>0, Zenon
    <3>2. PICK k : /\ k.p = p /\ k.op = "deploy" /\ k.pc = "building" /\ k.work = <<>>
                   /\ k.loc.tree = t /\ jobs' = {k}
      <4>1. jobs' = {NewJob(s, p, "deploy", "building", l, {})}
        BY <2>1, <2>2, <3>1
      <4>2. PICK k : k = NewJob(s, p, "deploy", "building", l, {})
        OBVIOUS
      <4>3. k.p = p /\ k.op = "deploy" /\ k.pc = "building" /\ k.work = <<>> /\ k.loc = l
        BY <1>j, <4>2
      <4>. QED BY <3>1, <4>1, <4>2, <4>3
    <3>3. JobTells(k)' /\ Clones(k)
      BY <1>f, <2>1, <3>2 DEF JobTells, Clones, Switches
    <3>. QED BY <1>t, <1>f, <2>1, <2>2, <3>2, <3>3, CallBegins
  <2>3. CASE spoiled' = spoiled \cup {p} /\ UNCHANGED jobs
    <3>1. DiskInv'
      BY <1>t, <1>f, <2>1, <2>3, DiskAfter
    <3>2. ServedInv'
      BY <1>t, <1>f, <2>1, <2>3, ServedAside
    <3>. QED BY <3>1, <3>2
  <2>. QED BY <1>3, <2>2, <2>3 DEF Upload
<1>4. ASSUME NEW x \in store[p], NEW o \in {"promote", "unpromote"}, NEW pc \in {"binding", "emitting"},
             pc = "binding" => o = "promote",
             NEW m \in Modes, jobs = {}, Saves(p, [x EXCEPT !.mode = m]),
             jobs' = jobs \cup {NewJob(s, p, o, pc, [x EXCEPT !.mode = m], {})},
             UNCHANGED <<files, stage, serving, up, spoiled>>
      PROVE  DiskInv' /\ ServedInv'
  <2> DEFINE a == [x EXCEPT !.mode = m]
  <2>1. a.tree = x.tree /\ a.kind = x.kind
    BY <1>t DEF QuotedRecord, Record
  <2> HIDE DEF a
  <2>2. store' = [store EXCEPT ![p] = {a}]
    BY <1>4 DEF Saves, a
  <2>3. PICK k : /\ k.p = p /\ k.op = o /\ k.pc = pc /\ k.work = <<>> /\ k.loc = a
                 /\ jobs' = {k}
    BY <1>j, <1>4 DEF a
  <2>4. Switches(k) /\ store'[p] = {a}
    BY <1>f, <2>2, <2>3 DEF Switches
  <2>5. JobTells(k)'
    BY <1>4, <2>3, <2>4 DEF JobTells, Switches
  <2>. QED BY <1>f, <1>4, <2>1, <2>2, <2>3, <2>4, <2>5, CallBegins
<1>5. CASE Promote(s, p)
  <2>1. PICK x \in store[p] :
          LET a == [x EXCEPT !.mode = "attested"] IN
            /\ Saves(p, a) /\ jobs' = jobs \cup {NewJob(s, p, "promote", "binding", a, {})}
            /\ jobs = {}
            /\ UNCHANGED <<files, stage, serving, up, spoiled>>
    BY <1>5, <1>a, Zenon DEF Promote
  <2>. QED BY <1>4, <2>1 DEF Modes
<1>6. CASE Unpromote(s, p)
  <2>1. PICK x \in store[p] :
          LET a == [x EXCEPT !.mode = "dev"] IN
            /\ Saves(p, a) /\ jobs' = jobs \cup {NewJob(s, p, "unpromote", "emitting", a, {})}
            /\ jobs = {}
            /\ UNCHANGED <<files, stage, serving, up, spoiled>>
    BY <1>6, <1>a, Zenon DEF Unpromote
  <2>. QED BY <1>4, <2>1 DEF Modes
<1>7. CASE Teardown(s, p)
  <2>1. PICK k : /\ k.p = p /\ k.op = "teardown" /\ k.pc = "emitting" /\ k.work = <<>>
                 /\ jobs = {} /\ jobs' = {k}
    <3>1. jobs = {}
      BY <1>7, <1>a, Zenon DEF Teardown
    <3>2. \E l : jobs' = jobs \cup {NewJob(s, p, "teardown", "emitting", l, {})}
      BY <1>7, Zenon DEF Teardown
    <3>. QED BY <1>j, <3>1, <3>2
  <2>2. UNCHANGED <<store, files, stage, serving, up, spoiled>>
    BY <1>7, Zenon DEF Teardown
  <2>3. JobTells(k)'
    BY <2>1 DEF JobTells, Switches
  <2>. QED BY <1>t, <1>f, <2>1, <2>2, <2>3, CallBegins
<1>8. CASE Redeploy(s, p)
  BY <1>1, <1>8
<1>. QED BY <1>1, <1>2, <1>3, <1>5, <1>6, <1>7, <1>8 DEF Calls

-----------------------------------------------------------------------------
(* A handler that has nothing to do to the containers *)

\* The only handler gets to another await, with nothing to do to the containers, or ends.
LEMMA MovesOn ==
  ASSUME NEW j, NEW k, jobs = {j}, jobs' \subseteq {k}, j.work = <<>>, k.work = <<>>,
         k.p = j.p, DiskInv, ServedInv, jobs' # {} => JobTells(k)',
         UNCHANGED <<serving, up>>, spoiled \subseteq spoiled',
         \A p \in Projects \ {j.p} : store'[p] = store[p] /\ files'[p] = files[p],
         j.p \in Projects => \A r, s \in store'[j.p] : r = s,
         j.p \in Projects \ spoiled' => \A r \in store'[j.p] :
           \/ Clones(k) /\ jobs' = {k}
           \/ Deploys(k) /\ jobs' = {k} /\ files'[j.p] = r.tree /\ r.tree \in Trees
           \/ /\ ~Clones(j) /\ files'[j.p] = files[j.p]
              /\ \E s \in store[j.p] :
                   /\ r.tree = s.tree /\ r.kind = s.kind
                   /\ r.mode = s.mode \/ r.kind # "shared"
                   /\ ~Sees(j, j.p, s) \/ (Switches(k) /\ r.kind = "shared" /\ jobs' = {k})
  PROVE  DiskInv' /\ ServedInv'
<1> DEFINE q == j.p
<1>k. /\ Clones(k) => Clones(k)'
      /\ Switches(k) => Switches(k)'
      /\ Deploys(k) => Deploys(k)'
      /\ k.p = q
  BY DEF Clones, Switches, Deploys
<1> HIDE DEF q
<1>1. ASSUME q \in Projects \ spoiled', NEW r \in store'[q]
      PROVE  Right(q, r)' /\ (up /\ Daemon \notin spoiled' => Provided(q, r)')
  <2>1. CASE Clones(k) /\ jobs' = {k}
    BY <1>k, <2>1 DEF Right, Provided, Sees, Deploys
  <2>2. CASE Deploys(k) /\ jobs' = {k} /\ files'[q] = r.tree /\ r.tree \in Trees
    BY <1>k, <2>2 DEF Right, Provided, Sees
  <2>3. ASSUME ~Clones(j), files'[q] = files[q],
               NEW s \in store[q],
               /\ r.tree = s.tree /\ r.kind = s.kind
               /\ r.mode = s.mode \/ r.kind # "shared"
               /\ ~Sees(j, q, s) \/ (Switches(k) /\ r.kind = "shared" /\ jobs' = {k})
        PROVE  Right(q, r)' /\ (up /\ Daemon \notin spoiled' => Provided(q, r)')
    <3>1. Right(q, s) /\ q \in Projects \ spoiled
      BY <1>1 DEF DiskInv
    <3>2. Right(q, r)'
      BY <2>3, <3>1 DEF Right
    <3>3. CASE Switches(k) /\ r.kind = "shared" /\ jobs' = {k}
      BY <1>k, <3>2, <3>3 DEF Provided, Sees
    <3>4. CASE r.kind = "static"
      BY <3>2, <3>4 DEF Provided
    <3>5. ASSUME ~Sees(j, q, s), r.kind # "static", up, Daemon \notin spoiled'
          PROVE  Provided(q, r)'
      <4>1. Runs(q, s)
        BY <2>3, <3>1, <3>5, RunsAlready
      <4>2. Runs(q, r)'
        BY <2>3, <4>1, RunsStill
      <4>3. \A i \in jobs' : Spares(i.work, Needs(q, r))'
        BY NothingSpares DEF Spares
      <4>. QED BY <4>2, <4>3 DEF Provided
    <3>. QED BY <2>3, <3>2, <3>3, <3>4, <3>5
  <2>. QED BY <1>1, <2>1, <2>2, <2>3 DEF q
<1>2. \A i \in jobs : i.p = q /\ i.work = <<>>
  BY DEF q
<1>3. /\ \A p \in Projects \ {q} : store'[p] = store[p] /\ files'[p] = files[p]
      /\ q \in Projects => \A r, s \in store'[q] : r = s
  BY DEF q
<1>4. DiskInv'
  <2>1. \A i \in jobs' : JobTells(i)'
    OBVIOUS
  <2>. QED BY <1>1, <1>2, <1>3, <2>1, DiskAfter
<1>5. ServedInv'
  BY <1>1, <1>2, <1>3, ServedAside
<1>. QED BY <1>4, <1>5

\* OneAtATime: a handler begins when no other is in progress.
LEMMA NextAlone ==
  ASSUME OneAtATime, NoneWhileDown, Alone, [Next]_vars
  PROVE  Alone'
<1>1. ASSUME NEW s \in Slots, NEW p \in Projects, Calls(s, p) PROVE \E k : jobs' \subseteq {k}
  <2>a. \A o : Accepts(o, s) => jobs = {}
    BY DEF Accepts
  <2>1. ASSUME NEW r, Deploy(s, p, r) PROVE \E k : jobs' \subseteq {k}
    BY <2>a, <2>1, Zenon DEF Deploy
  <2>2. ASSUME NEW r, NEW t, Import(s, p, r, t) PROVE \E k : jobs' \subseteq {k}
    BY <2>a, <2>2, Zenon DEF Import
  <2>3. ASSUME NEW r, NEW t, Upload(s, p, r, t) PROVE \E k : jobs' \subseteq {k}
    BY <2>a, <2>3 DEF Upload
  <2>4. ASSUME Redeploy(s, p) \/ Promote(s, p) \/ Unpromote(s, p) \/ Teardown(s, p)
        PROVE  \E k : jobs' \subseteq {k}
    <3>1. jobs = {} /\ \E k : jobs' = jobs \cup {k}
      BY <2>a, <2>4, Zenon DEF Redeploy, Promote, Unpromote, Teardown
    <3>. QED BY <3>1
  <2>. QED BY <1>1, <2>1, <2>2, <2>3, <2>4 DEF Calls
<1>2. ASSUME NEW j \in jobs, Step(j) \/ Fails(j) PROVE \E k : jobs' \subseteq {k}
  <2>1. jobs = {j}
    BY DEF Alone
  <2>2. ASSUME NEW k, Becomes(j, k) PROVE \E i : jobs' \subseteq {i}
    BY <2>1, <2>2 DEF Becomes
  <2>3. CASE Finishes(j) \/ Raises(j)
    BY <2>1, <2>3 DEF Finishes, Raises
  <2>4. (\E k : Becomes(j, k)) \/ Finishes(j) \/ Raises(j)
    <3>1. CASE Step(j)
      <4>1. ASSUME NEW t, Cloned(j, t) \/ Staged(j, t) PROVE (\E k : Becomes(j, k)) \/ Finishes(j) \/ Raises(j)
        BY <4>1, Zenon DEF Cloned, Staged, GoesTo
      <4>2. CASE AcceptManifest(j) \/ RejectManifest(j) \/ ReadStage(j) \/ RejectPin(j) \/ AdoptPin(j)
                 \/ Built(j) \/ Brokered(j) \/ Recorded(j) \/ Bound(j) \/ DeployEmitted(j)
        BY <4>2, Zenon DEF AcceptManifest, RejectManifest, ReadStage, RejectPin, AdoptPin, GoesTo,
                           Built, Brokered, Recorded, Bound, DeployEmitted
      <4>3. CASE ModeEmitted(j) \/ TeardownEmitted(j) \/ StopContainer(j) \/ CreateContainer(j)
                 \/ NameTaken(j) \/ Done(j)
        BY <4>3, Zenon DEF ModeEmitted, TeardownEmitted, StopContainer, CreateContainer,
                           NameTaken, Done, SkipStart, NextWork
      <4>. QED BY <3>1, <4>1, <4>2, <4>3, Zenon DEF Step
    <3>2. CASE Fails(j)
      BY <3>2, Zenon DEF Fails, SkipStart
    <3>. QED BY <1>2, <3>1, <3>2
  <2>. QED BY <2>2, <2>3, <2>4
<1>3. ASSUME NEW m \in Modes, NEW p \in Projects, Respawn(m, p) PROVE UNCHANGED jobs
  BY <1>3 DEF Respawn
<1>4. CASE Crash
  BY <1>4 DEF Crash, Dies, Alone
<1>8. ASSUME NEW p \in Projects, TornSave(p) PROVE Alone'
  BY <1>8 DEF TornSave, Dies, Alone
<1>5. CASE Boot
  <2>1. \E k : jobs' = {k}
    BY <1>5, Zenon DEF Boot
  <2>. QED BY <2>1 DEF Alone
<1>6. CASE UNCHANGED vars
  BY <1>6 DEF vars, Alone
<1>7. (\E k : jobs' \subseteq {k}) \/ jobs' = jobs => Alone'
  BY DEF Alone
<1>. QED BY <1>1, <1>2, <1>3, <1>4, <1>5, <1>6, <1>7, <1>8 DEF Next

LEMMA GetsTo ==
  ASSUME NEW j, Sound(j), NEW pc, jobs = {j}, GoesTo(j, pc)
  PROVE  \E k : /\ jobs' = {k} /\ k.pc = pc
                /\ k.p = j.p /\ k.op = j.op /\ k.loc = j.loc /\ k.work = j.work
<1>1. PICK k : k = [j EXCEPT !.pc = pc] /\ jobs' = {k}
  BY DEF GoesTo, Becomes
<1>2. k.pc = pc /\ k.p = j.p /\ k.op = j.op /\ k.loc = j.loc /\ k.work = j.work
  BY <1>1 DEF Sound, JobWith
<1>. QED BY <1>1, <1>2

\* The only handler ends: with its project spoiled, or with nothing left to do for it.
LEMMA Ends ==
  ASSUME NEW j, jobs = {j}, j.work = <<>>, jobs' = {}, DiskInv, ServedInv,
         UNCHANGED <<store, serving, up>>, spoiled \subseteq spoiled',
         \A p \in Projects \ {j.p} : files'[p] = files[p],
         \/ j.p \in spoiled'
         \/ UNCHANGED files /\ ~Deploys(j) /\ ~Switches(j)
  PROVE  DiskInv' /\ ServedInv'
<1>1. \A r : ~Deploys(j) /\ ~Switches(j) => ~Sees(j, j.p, r)
  BY DEF Sees
<1>2. ~Deploys(j) => ~Clones(j)
  BY DEF Deploys
<1>3. j.p \in Projects => \A r, s \in store'[j.p] : r = s
  BY DEF DiskInv
<1>. QED BY <1>1, <1>2, <1>3, MovesOn

LEMMA StepsAside ==
  ASSUME IInv, WorkInv, DiskInv, ServedInv, NEW j, jobs = {j},
         \/ \E t \in Trees : Cloned(j, t) \/ Staged(j, t)
         \/ AcceptManifest(j) \/ RejectManifest(j) \/ ReadStage(j) \/ RejectPin(j) \/ AdoptPin(j)
         \/ Built(j) \/ Recorded(j) \/ Bound(j) \/ DeployEmitted(j) \/ Done(j)
  PROVE  DiskInv' /\ ServedInv'
<1> DEFINE p == j.p
<1>s. /\ Sound(j) /\ JobTells(j) /\ (j.pc # "working" => j.work = <<>>)
      /\ j.op # "recover" => p \in Projects
      /\ j.loc \in QuotedRecord
  BY DEF IInv, JobsSound, WorkInv, DiskInv, Sound, JobWith
<1>c. j.pc \in {"cloning", "cloned", "staging", "staged", "adopting", "building", "saved"} =>
        j.op = "deploy" /\ p \in Projects
  BY <1>s DEF Sound
<1>t. /\ files \in [Projects -> Code] /\ stage \in [Projects -> Code]
      /\ store \in [Projects -> SUBSET QuotedRecord]
      /\ \A q \in Projects : \A r, s \in store[q] : r = s
      /\ NoTree \notin Trees
  BY ConstantsAssumption DEF IInv, DiskInv
<1>f. Finishes(j) => jobs' = {}
  BY DEF Finishes
<1>r. Raises(j) => jobs' = {} /\ p \in spoiled' /\ spoiled \subseteq spoiled'
  BY DEF Raises, Finishes
<1> HIDE DEF p
<1>p. p = j.p
  BY DEF p
<1>1. ASSUME NEW t \in Trees, Cloned(j, t) PROVE DiskInv' /\ ServedInv'
  <2>0. p \in Projects /\ j.op = "deploy" /\ j.work = <<>> /\ UNCHANGED <<store, serving, up>>
    BY <1>1, <1>c, <1>s DEF Cloned
  <2>1. CASE files' = [files EXCEPT ![p] = t] /\ GoesTo(j, "cloned") /\ UNCHANGED spoiled
    <3>1. PICK k : /\ jobs' = {k} /\ k.pc = "cloned"
                   /\ k.p = p /\ k.op = j.op /\ k.loc = j.loc /\ k.work = j.work
      BY <1>s, <1>p, <2>1, GetsTo
    <3>2. JobTells(k)' /\ Clones(k)
      BY <1>t, <2>0, <2>1, <3>1 DEF JobTells, Clones, Switches
    <3>. QED BY <1>t, <1>p, <2>0, <2>1, <3>1, <3>2, MovesOn
  <2>2. CASE Raises(j) /\ UNCHANGED files
    BY <1>r, <1>p, <2>0, <2>2, Ends
  <2>. QED BY <1>1, <2>1, <2>2, <1>p DEF Cloned
<1>2. ASSUME NEW t \in Trees, Staged(j, t) PROVE DiskInv' /\ ServedInv'
  <2>0. /\ p \in Projects /\ j.op = "deploy" /\ j.pc = "staging" /\ j.work = <<>>
        /\ UNCHANGED <<store, files, serving, up, spoiled>>
    BY <1>2, <1>c, <1>s DEF Staged, history
  <2>a. ~Deploys(j) /\ ~Switches(j)
    BY <2>0 DEF Deploys, Clones, Switches
  <2>1. CASE GoesTo(j, "staged")
    <3>1. PICK k : /\ jobs' = {k} /\ k.pc = "staged"
                   /\ k.p = p /\ k.op = j.op /\ k.loc = j.loc /\ k.work = j.work
      BY <1>s, <1>p, <2>1, GetsTo
    <3>2. JobTells(k)'
      BY <2>0, <3>1 DEF JobTells, Switches
    <3>3. ~Clones(j) /\ \A r : ~Sees(j, p, r)
      BY <2>a DEF Deploys, Sees
    <3>. QED BY <1>t, <1>p, <2>0, <3>1, <3>2, <3>3, MovesOn
  <2>2. CASE Finishes(j)
    BY <1>f, <1>p, <2>0, <2>a, <2>2, Ends
  <2>. QED BY <1>2, <2>1, <2>2 DEF Staged
<1>3. CASE AcceptManifest(j)
  <2>0. /\ p \in Projects /\ j.op = "deploy" /\ j.pc = "cloned" /\ j.work = <<>>
        /\ UNCHANGED <<store, files, stage, serving, up, spoiled>>
    BY <1>3, <1>c, <1>s DEF AcceptManifest, disk, history
  <2>1. files[p] \in Trees
    BY <1>s, <1>p, <2>0 DEF JobTells
  <2>2. PICK k : k = [j EXCEPT !.pc = "building", !.loc.tree = files[p]] /\ jobs' = {k}
    BY <1>3, <1>p DEF AcceptManifest, Becomes
  <2>3. /\ k.p = p /\ k.op = j.op /\ k.work = <<>> /\ k.pc = "building"
        /\ k.loc.tree = files[p]
    BY <1>s, <1>p, <2>0, <2>2 DEF Sound, JobWith, QuotedRecord, Record
  <2>4. JobTells(k)' /\ Clones(k)
    BY <2>0, <2>1, <2>3 DEF JobTells, Clones, Switches
  <2>. QED BY <1>t, <1>p, <2>0, <2>2, <2>3, <2>4, MovesOn
<1>4. CASE RejectManifest(j)
  <2>0. /\ j.work = <<>> /\ UNCHANGED <<store, files, serving, up>>
    BY <1>4, <1>s DEF RejectManifest, disk
  <2>. QED BY <1>4, <1>r, <1>p, <2>0, Ends DEF RejectManifest
<1>5. CASE ReadStage(j)
  <2>0. /\ p \in Projects /\ j.op = "deploy" /\ j.pc = "staged" /\ j.work = <<>>
        /\ UNCHANGED <<store, files, stage, serving, up, spoiled>>
    BY <1>5, <1>c, <1>s DEF ReadStage, disk, history
  <2>2. PICK k : k = [j EXCEPT !.pc = "adopting", !.loc.tree = stage[p]] /\ jobs' = {k}
    BY <1>5, <1>p DEF ReadStage, Becomes
  <2>3. /\ k.p = p /\ k.op = j.op /\ k.work = <<>> /\ k.pc = "adopting"
        /\ k.loc.tree = stage[p]
    BY <1>s, <1>p, <2>0, <2>2 DEF Sound, JobWith, QuotedRecord, Record
  <2>4. JobTells(k)'
    BY <2>0, <2>3 DEF JobTells, Switches
  <2>5. ~Clones(j) /\ \A r : ~Sees(j, p, r)
    BY <2>0 DEF Deploys, Sees, Clones, Switches
  <2>. QED BY <1>t, <1>p, <2>0, <2>2, <2>3, <2>4, <2>5, MovesOn
<1>6. CASE RejectPin(j)
  <2>0. /\ j.op = "deploy" /\ j.pc = "adopting" /\ j.work = <<>>
        /\ UNCHANGED <<store, files, serving, up, spoiled>>
    BY <1>6, <1>c, <1>s DEF RejectPin, history
  <2>a. ~Deploys(j) /\ ~Switches(j)
    BY <2>0 DEF Deploys, Clones, Switches
  <2>. QED BY <1>6, <1>f, <1>p, <2>0, <2>a, Ends DEF RejectPin
<1>7. CASE AdoptPin(j)
  <2>0. /\ p \in Projects /\ j.op = "deploy" /\ j.pc = "adopting" /\ j.work = <<>>
        /\ UNCHANGED <<store, serving, up>>
        /\ files' = [files EXCEPT ![p] = stage[p]]
    BY <1>7, <1>c, <1>s, <1>p DEF AdoptPin
  <2>1. CASE stage[p] # NoTree /\ GoesTo(j, "building") /\ UNCHANGED spoiled
    <3>1. PICK k : /\ jobs' = {k} /\ k.pc = "building"
                   /\ k.p = p /\ k.op = j.op /\ k.loc = j.loc /\ k.work = j.work
      BY <1>s, <1>p, <2>1, GetsTo
    <3>2. j.loc.tree = stage[p] /\ stage[p] \in Trees
      BY <1>s, <1>t, <1>p, <2>0, <2>1 DEF JobTells, Code
    <3>3. JobTells(k)' /\ Clones(k)
      BY <1>t, <2>0, <3>1, <3>2 DEF JobTells, Clones, Switches
    <3>. QED BY <1>t, <1>p, <2>0, <2>1, <3>1, <3>3, MovesOn
  <2>2. CASE Raises(j)
    BY <1>t, <1>r, <1>p, <2>0, <2>2, Ends
  <2>. QED BY <1>7, <1>p, <2>1, <2>2 DEF AdoptPin
<1>8. CASE Built(j)
  <2>0. /\ p \in Projects /\ j.op = "deploy" /\ j.pc = "building" /\ j.work = <<>>
        /\ UNCHANGED <<files, stage, serving, up, spoiled>>
        /\ store' = [store EXCEPT ![p] = {j.loc}]
    BY <1>8, <1>c, <1>s, <1>p DEF Built, Saves, history
  <2>1. PICK k : /\ jobs' = {k} /\ k.pc = "saved"
                 /\ k.p = p /\ k.op = j.op /\ k.loc = j.loc /\ k.work = j.work
    BY <1>8, <1>s, <1>p, GetsTo DEF Built
  <2>2. files[p] = j.loc.tree /\ j.loc.tree \in Trees
    BY <1>s, <1>p, <2>0 DEF JobTells
  <2>3. store'[p] = {j.loc} /\ Deploys(k) /\ ~Switches(k)
    BY <1>t, <2>0, <2>1 DEF Deploys, Switches
  <2>4. JobTells(k)'
    BY <2>0, <2>1, <2>2, <2>3 DEF JobTells, Switches
  <2>. QED BY <1>t, <1>p, <2>0, <2>1, <2>2, <2>3, <2>4, MovesOn
<1>9. CASE Recorded(j)
  <2>0. /\ p \in Projects /\ j.op = "deploy" /\ j.pc = "working" /\ j.work = <<>>
        /\ UNCHANGED <<files, stage, serving, up, spoiled>>
        /\ store' = [store EXCEPT ![p] = {j.loc}]
    BY <1>9, <1>s, <1>p DEF Recorded, Saves, history
  <2>1. PICK k : /\ jobs' = {k} /\ k.pc = "emitting"
                 /\ k.p = p /\ k.op = j.op /\ k.loc = j.loc /\ k.work = j.work
    BY <1>9, <1>s, <1>p, GetsTo DEF Recorded
  <2>2. files[p] = j.loc.tree /\ j.loc.tree \in Trees /\ store[p] = {j.loc}
    BY <1>s, <1>p, <2>0 DEF JobTells
  <2>3. store'[p] = {j.loc}
    BY <1>t, <2>0
  <2>4. JobTells(k)'
    BY <2>0, <2>1, <2>2, <2>3 DEF JobTells, Switches
  <2>5. ~Clones(j) /\ \A r : ~Sees(j, p, r)
    BY <2>0 DEF Deploys, Sees, Clones, Switches
  <2>. QED BY <1>t, <1>p, <2>0, <2>1, <2>2, <2>3, <2>4, <2>5, MovesOn
<1>10. CASE Bound(j)
  <2>1. PICK b : b = [j.loc EXCEPT !.bound = {j.loc.tree}]
    OBVIOUS
  <2>2. b.tree = j.loc.tree /\ b.kind = j.loc.kind /\ b.mode = j.loc.mode
    BY <1>s, <2>1 DEF QuotedRecord, Record
  <2>3. /\ j.pc = "binding" /\ j.op = "promote" /\ j.work = <<>> /\ p \in Projects
        /\ store[p] = {j.loc}
    BY <1>10, <1>s, <1>p DEF Bound, JobTells, Switches
  <2>4. /\ UNCHANGED <<files, stage, serving, up, spoiled>>
        /\ store' = [store EXCEPT ![p] = {b}]
        /\ Becomes(j, [j EXCEPT !.pc = "emitting", !.loc = b])
    BY <1>10, <1>p, <2>1, Zenon DEF Bound, Saves, history
  <2>5. PICK k : k = [j EXCEPT !.pc = "emitting", !.loc = b] /\ jobs' = {k}
    BY <2>4 DEF Becomes
  <2>6. k.p = p /\ k.op = "promote" /\ k.work = <<>> /\ k.pc = "emitting" /\ k.loc = b
    BY <1>s, <1>p, <2>3, <2>5 DEF Sound, JobWith
  <2>7. store'[p] = {b} /\ Switches(k) /\ ~Clones(j)
    BY <1>t, <2>3, <2>4, <2>6 DEF Switches, Clones
  <2>8. JobTells(k)'
    BY <2>6, <2>7 DEF JobTells, Switches
  <2>9. b.kind # "shared" => ~Sees(j, p, j.loc)
    BY <2>2, <2>3 DEF Sees, Deploys, Clones
  <2>10. \A q \in Projects \ {p} : store'[q] = store[q] /\ files'[q] = files[q]
    BY <1>t, <2>4
  <2>11. /\ ~Clones(j) /\ files'[p] = files[p]
         /\ ~Sees(j, p, j.loc) \/ (Switches(k) /\ b.kind = "shared" /\ jobs' = {k})
    BY <2>4, <2>5, <2>7, <2>9
  <2>15. UNCHANGED <<serving, up, spoiled>> /\ jobs' = {k}
    BY <2>4, <2>5
  <2>12. \E s \in store[p] :
           /\ b.tree = s.tree /\ b.kind = s.kind
           /\ b.mode = s.mode \/ b.kind # "shared"
           /\ ~Sees(j, p, s) \/ (Switches(k) /\ b.kind = "shared" /\ jobs' = {k})
    BY <2>2, <2>3, <2>11
  <2>13. \A r, s \in store'[p] : r = s
    BY <2>7
  <2>14. \A r \in store'[p] : r = b
    BY <2>7
  <2>. QED BY <1>p, <2>3, <2>6, <2>8, <2>10, <2>11, <2>12, <2>13, <2>14, <2>15, MovesOn
<1>11. CASE DeployEmitted(j)
  <2>0. /\ j.op = "deploy" /\ j.pc = "emitting" /\ j.work = <<>>
        /\ UNCHANGED <<store, files, serving, up, spoiled>>
    BY <1>11, <1>s DEF DeployEmitted, history, disk
  <2>a. ~Deploys(j) /\ ~Switches(j)
    BY <2>0 DEF Deploys, Clones, Switches
  <2>. QED BY <1>11, <1>f, <1>p, <2>0, <2>a, Ends DEF DeployEmitted
<1>12. CASE Done(j)
  <2>0. /\ j.pc = "working" /\ j.work = <<>>
        /\ UNCHANGED <<store, files, serving, up, spoiled>>
    BY <1>12, <1>s DEF Done, history, disk
  <2>a. ~Deploys(j) /\ ~Switches(j)
    BY <2>0 DEF Deploys, Clones, Switches
  <2>. QED BY <1>12, <1>f, <1>p, <2>0, <2>a, Ends DEF Done
<1>. QED BY <1>1, <1>2, <1>3, <1>4, <1>5, <1>6, <1>7, <1>8, <1>9, <1>10, <1>11, <1>12

-----------------------------------------------------------------------------
(* A handler that is handed its work, and what is left of it *)

\* Only a project's own containers and its mode's runtime are needed.
LEMMA OthersSpare ==
  ASSUME NEW q \in Projects \cup {Daemon}, NEW W \in Seq(Todo),
         \A i \in 1..Len(W) : W[i].at \in {q} \X Modes,
         NEW p \in Projects, NEW r, p # q, r.kind = "shared" => q # Daemon
  PROVE  Spares(W, Needs(p, r))
BY DEF Spares, Needs

LEMMA RefreshSpares ==
  ASSUME NEW W, \A i \in 1..Len(W) : W[i].at[1] = Daemon,
         NEW p \in Projects, NEW r, r.kind # "shared"
  PROVE  Spares(W, Needs(p, r))
BY ConstantsAssumption DEF Spares, Needs

LEMMA RestoresLast ==
  ASSUME NEW A \in Seq(Todo), NEW B \in Seq(Todo), NEW N
  PROVE  /\ Restores(B, N) => Restores(A \o B, N)
         /\ Restores(A, N) /\ Spares(B, N) => Restores(A \o B, N)
<1>1. /\ Len(A) \in Nat /\ Len(B) \in Nat /\ Len(A \o B) = Len(A) + Len(B)
      /\ \A i \in 1..Len(A) : (A \o B)[i] = A[i]
      /\ \A i \in 1..Len(B) : (A \o B)[Len(A) + i] = B[i]
      /\ \A i \in Len(A) + 1..Len(A) + Len(B) : (A \o B)[i] = B[i - Len(A)] /\ i - Len(A) \in 1..Len(B)
  OBVIOUS
<1> DEFINE C == A \o B
<1> HIDE DEF C
<1>c. /\ Len(A) \in Nat /\ Len(B) \in Nat /\ Len(C) = Len(A) + Len(B)
      /\ \A i \in 1..Len(A) : C[i] = A[i]
      /\ \A i \in 1..Len(B) : C[Len(A) + i] = B[i]
      /\ \A i \in Len(A) + 1..Len(A) + Len(B) : C[i] = B[i - Len(A)] /\ i - Len(A) \in 1..Len(B)
  BY <1>1 DEF C
<1>2. ASSUME Restores(B, N) PROVE Restores(C, N)
  <2>1. PICK k \in 1..Len(B) : /\ B[k].do = "create" /\ B[k].at \in N
                               /\ \A i \in k + 1..Len(B) : B[i].at \notin N
    BY <1>2 DEF Restores
  <2>2. Len(A) + k \in 1..Len(C) /\ C[Len(A) + k] = B[k]
    BY <1>c
  <2>3. ASSUME NEW i \in (Len(A) + k) + 1..Len(C) PROVE C[i].at \notin N
    <3>1. C[i] = B[i - Len(A)] /\ i - Len(A) \in k + 1..Len(B)
      BY <1>c
    <3>. QED BY <2>1, <3>1
  <2>. QED BY <2>1, <2>2, <2>3 DEF Restores
<1>3. ASSUME Restores(A, N), Spares(B, N) PROVE Restores(C, N)
  <2>1. PICK k \in 1..Len(A) : /\ A[k].do = "create" /\ A[k].at \in N
                               /\ \A i \in k + 1..Len(A) : A[i].at \notin N
    BY <1>3 DEF Restores
  <2>2. k \in 1..Len(C) /\ C[k] = A[k]
    BY <1>c
  <2>3. ASSUME NEW i \in k + 1..Len(C) PROVE C[i].at \notin N
    <3>1. CASE i \in k + 1..Len(A)
      <4>1. C[i] = A[i]
        BY <1>c, <3>1
      <4>. QED BY <2>1, <3>1, <4>1
    <3>2. CASE i \in Len(A) + 1..Len(A) + Len(B)
      <4>1. C[i] = B[i - Len(A)] /\ i - Len(A) \in 1..Len(B)
        BY <1>c, <3>2
      <4>. QED BY <1>3, <4>1 DEF Spares
    <3>. QED BY <1>c, <3>1, <3>2
  <2>. QED BY <2>1, <2>2, <2>3 DEF Restores
<1>. QED BY <1>2, <1>3 DEF C

\* What is left of the work, when the first m things of it are behind.
LEMMA WorkLeft ==
  ASSUME NEW W \in Seq(Todo), NEW m \in 1..Len(W), NEW N
  PROVE  LET R == SubSeq(W, m + 1, Len(W)) IN
           /\ Spares(W, N) => Spares(R, N)
           /\ Restores(W, N) =>
                \/ Restores(R, N)
                \/ \E k \in 1..m : W[k].do = "create" /\ W[k].at \in N /\ Spares(R, N)
                                   /\ \A i \in k + 1..m : W[i].at \notin N
<1> DEFINE R == SubSeq(W, m + 1, Len(W))
<1>1. /\ R \in Seq(Todo) /\ Len(W) \in Nat /\ Len(R) = Len(W) - m
      /\ \A i \in 1..Len(W) - m : R[i] = W[m + i]
  OBVIOUS
<1> HIDE DEF R
<1>2. ASSUME Spares(W, N) PROVE Spares(R, N)
  <2>1. \A i \in 1..Len(R) : R[i] = W[m + i] /\ m + i \in 1..Len(W)
    BY <1>1
  <2>. QED BY <1>2, <2>1 DEF Spares
<1>3. ASSUME NEW k \in 1..Len(W), W[k].do = "create", W[k].at \in N,
             \A i \in k + 1..Len(W) : W[i].at \notin N
      PROVE  \/ Restores(R, N)
             \/ \E l \in 1..m : W[l].do = "create" /\ W[l].at \in N /\ Spares(R, N)
                                /\ \A i \in l + 1..m : W[i].at \notin N
  <2>1. CASE k \in 1..m
    <3>1. \A i \in 1..Len(R) : R[i] = W[m + i] /\ m + i \in k + 1..Len(W)
      BY <1>1, <2>1
    <3>2. Spares(R, N)
      BY <1>3, <3>1 DEF Spares
    <3>3. \A i \in k + 1..m : W[i].at \notin N
      BY <1>1, <1>3
    <3>. QED BY <1>3, <2>1, <3>2, <3>3
  <2>2. CASE k \in m + 1..Len(W)
    <3>1. k - m \in 1..Len(R) /\ R[k - m] = W[k]
      BY <1>1, <2>2
    <3>2. \A i \in (k - m) + 1..Len(R) : R[i] = W[m + i] /\ m + i \in k + 1..Len(W)
      BY <1>1, <2>2
    <3>3. \A i \in (k - m) + 1..Len(R) : R[i].at \notin N
      BY <1>3, <3>2
    <3>. QED BY <1>3, <3>1, <3>3 DEF Restores
  <2>. QED BY <1>1, <2>1, <2>2
<1>. QED BY <1>2, <1>3 DEF R, Restores

LEMMA WorkTail ==
  ASSUME NEW W \in Seq(Todo), W # <<>>, NEW N
  PROVE  /\ Spares(W, N) => Spares(Tail(W), N) /\ Head(W).at \notin N
         /\ Restores(W, N) =>
              \/ Restores(Tail(W), N)
              \/ Head(W).do = "create" /\ Head(W).at \in N /\ Spares(Tail(W), N)
<1>1. Len(W) \in Nat /\ 1 \in 1..Len(W) /\ Head(W) = W[1]
  OBVIOUS
<1>. QED
  <2> DEFINE R == SubSeq(W, 1 + 1, Len(W))
  <2>1. /\ Spares(W, N) => Spares(R, N)
        /\ Restores(W, N) =>
             \/ Restores(R, N)
             \/ \E k \in 1..1 : W[k].do = "create" /\ W[k].at \in N /\ Spares(R, N)
    BY <1>1, WorkLeft
  <2>a. /\ Len(R) = Len(W) - 1
        /\ \A i \in 1..Len(W) - 1 : R[i] = W[1 + i]
    <3>1. ASSUME NEW m \in 1..Len(W)
          PROVE  /\ Len(SubSeq(W, m + 1, Len(W))) = Len(W) - m
                 /\ \A i \in 1..Len(W) - m : SubSeq(W, m + 1, Len(W))[i] = W[m + i]
      OBVIOUS
    <3>. QED BY <1>1, <3>1
  <2>b. /\ Len(Tail(W)) = Len(W) - 1
        /\ \A i \in 1..Len(W) - 1 : Tail(W)[i] = W[i + 1]
    OBVIOUS
  <2> HIDE DEF R
  <2>2. Spares(R, N) = Spares(Tail(W), N) /\ Restores(R, N) = Restores(Tail(W), N)
    <3> DEFINE T == Tail(W)
    <3>1. Len(T) = Len(R) /\ Len(R) \in Nat /\ \A i \in 1..Len(R) : T[i] = R[i]
      BY <1>1, <2>a, <2>b
    <3> HIDE DEF T
    <3>2. Spares(R, N) = Spares(T, N)
      BY <3>1 DEF Spares
    <3>3. Restores(R, N) <=> Restores(T, N)
      BY <3>1 DEF Restores
    <3>4. Restores(R, N) \in BOOLEAN /\ Restores(T, N) \in BOOLEAN
      BY Zenon DEF Restores
    <3>. QED BY <3>2, <3>3, <3>4 DEF T
  <2>3. Spares(W, N) => W[1].at \notin N
    BY <1>1 DEF Spares
  <2>. QED BY <1>1, <2>1, <2>2, <2>3

\* The only handler, or recovery when there is none, is handed its work: whatever has to
\* run is restored by it, or runs and is spared.
LEMMA WorkHanded ==
  ASSUME NEW k, \A j \in jobs : j.work = <<>>, jobs' = {k}, ServedInv,
         UNCHANGED serving, spoiled \subseteq spoiled',
         up' /\ Daemon \notin spoiled' =>
           \A p \in Projects \ spoiled' : \A r \in store'[p] :
             r.kind # "static" =>
               \/ Restores(k.work, Needs(p, r))
               \/ /\ up /\ r \in store[p] /\ files'[p] = files[p]
                  /\ Spares(k.work, Needs(p, r))
                  /\ \A j \in jobs : ~Sees(j, p, r)
  PROVE  ServedInv'
<1> SUFFICES ASSUME up', Daemon \notin spoiled', NEW p \in Projects, p \notin spoiled',
                    NEW r \in store'[p], r.kind # "static"
             PROVE  Provided(p, r)'
  BY DEF ServedInv, Provided
<1>1. Needs(p, r)' = Needs(p, r) /\ \A N : Restores(k.work, N)' = Restores(k.work, N)
  BY DEF Needs, Restores
<1>2. CASE Restores(k.work, Needs(p, r))
  BY <1>1, <1>2 DEF Provided
<1>3. CASE /\ up /\ r \in store[p] /\ files'[p] = files[p]
           /\ Spares(k.work, Needs(p, r))
           /\ \A j \in jobs : ~Sees(j, p, r)
  <2>1. Runs(p, r)
    BY <1>3, RunsAlready
  <2>2. Runs(p, r)'
    BY <1>3, <2>1, RunsStill
  <2>3. \A j \in jobs' : Spares(j.work, Needs(p, r))'
    BY <1>3, <1>1 DEF Spares
  <2>. QED BY <2>2, <2>3 DEF Provided
<1>. QED BY <1>2, <1>3

\* A refresh restores the shared projects of the store it lists.
RefreshProvides ==
  \A p \in Projects : \A r \in store[p] :
    r.mode \in Modes /\ r.kind = "shared" => Restores(Refresh, Needs(p, r))

LEMMA RefreshProvided == RefreshProvides
<1> SUFFICES ASSUME NEW p \in Projects, NEW r \in store[p], r.mode \in Modes, r.kind = "shared"
             PROVE  Restores(Refresh, Needs(p, r))
  BY DEF RefreshProvides
<1>1. Listed(r.mode) # {}
  BY DEF Listed
<1>2. Needs(p, r) = {<<Daemon, r.mode>>}
  BY DEF Needs
<1>. QED BY <1>1, <1>2, RefreshIs DEF RefreshServes

LEMMA RefreshProvidedThen == RefreshProvides'
BY RefreshProvided, PTL

LEMMA RecordHas ==
  ASSUME NEW r \in QuotedRecord
  PROVE  r.mode \in Modes /\ r.kind \in {"static", "shared", "isolated"} /\ r \in Record
BY ConstantsAssumption DEF QuotedRecord, Record, AllKinds

LEMMA StartRestores ==
  ASSUME NEW p \in Projects, NEW r \in Record
  PROVE  /\ StartIsolated(p, r) \in Seq(Todo)
         /\ \A i \in 1..Len(StartIsolated(p, r)) : StartIsolated(p, r)[i].at \in {p} \X Modes
         /\ Restores(StartIsolated(p, r), {p} \X Modes)
<1> DEFINE W == StartIsolated(p, r)
<1>1. /\ W \in Seq(Todo) /\ Len(W) = 2 /\ W[2].do = "create"
      /\ \A i \in 1..2 : W[i].at = <<p, r.mode>>
  BY StartIsolatedIs
<1>2. r.mode \in Modes
  BY DEF Record
<1> HIDE DEF W
<1>3. \A i \in 1..2 : W[i].at \in {p} \X Modes
  BY <1>1, <1>2
<1>4. Restores(W, {p} \X Modes)
  BY <1>1, <1>3 DEF Restores
<1>. QED BY <1>1, <1>3, <1>4 DEF W

\* A stop and a start of the project's own containers, one after the other.
LEMMA RestartRestores ==
  ASSUME NEW p \in Projects, NEW r \in Record
  PROVE  LET W == StopIsolated(p) \o StartIsolated(p, r) IN
           /\ W \in Seq(Todo)
           /\ \A i \in 1..Len(W) : W[i].at \in {p} \X Modes
           /\ Restores(W, {p} \X Modes)
<1> DEFINE A == StopIsolated(p)
           B == StartIsolated(p, r)
<1>1. /\ A \in Seq(Todo) /\ B \in Seq(Todo)
      /\ \A i \in 1..Len(A) : A[i].at \in {p} \X Modes
      /\ \A i \in 1..Len(B) : B[i].at \in {p} \X Modes
      /\ Restores(B, {p} \X Modes)
  BY StartRestores, StopIsolatedIs
<1> HIDE DEF A, B
<1>2. \A i \in 1..Len(A \o B) : (A \o B)[i].at \in {p} \X Modes
  <2>1. /\ Len(A) \in Nat /\ Len(A \o B) = Len(A) + Len(B)
        /\ \A i \in 1..Len(A) : (A \o B)[i] = A[i]
        /\ \A i \in Len(A) + 1..Len(A) + Len(B) : (A \o B)[i] = B[i - Len(A)] /\ i - Len(A) \in 1..Len(B)
    BY <1>1
  <2> DEFINE C == A \o B
  <2> HIDE DEF C
  <2> TAKE i \in 1..Len(A \o B)
  <2>2. CASE i \in 1..Len(A)
    BY <1>1, <2>1, <2>2
  <2>3. CASE i \in Len(A) + 1..Len(A) + Len(B)
    BY <1>1, <2>1, <2>3
  <2>. QED BY <1>1, <2>1, <2>2, <2>3
<1>3. A \o B \in Seq(Todo) /\ Restores(A \o B, {p} \X Modes)
  BY <1>1, RestoresLast
<1>. QED BY <1>2, <1>3 DEF A, B

\* The handler comes to its work on the containers.
GivenWork(j, w) == Becomes(j, [j EXCEPT !.pc = "working", !.work = w])

LEMMA HandsWork ==
  ASSUME NEW j, Sound(j), jobs = {j}, NEW w, GivenWork(j, w)
  PROVE  \E k : /\ jobs' = {k} /\ k.pc = "working" /\ k.work = w
                /\ k.p = j.p /\ k.op = j.op /\ k.loc = j.loc
<1>1. PICK k : k = [j EXCEPT !.pc = "working", !.work = w] /\ jobs' = {k}
  BY DEF GivenWork, Becomes
<1>2. k.pc = "working" /\ k.p = j.p /\ k.op = j.op /\ k.loc = j.loc /\ k.work = w
  BY <1>1 DEF Sound, JobWith
<1>. QED BY <1>1, <1>2

LEMMA BrokeredServed ==
  ASSUME IInv, WorkInv, DiskInv, ServedInv, NEW j, jobs = {j}, Brokered(j)
  PROVE  DiskInv' /\ ServedInv'
<1> DEFINE q == j.p
<1>s. /\ Sound(j) /\ JobTells(j) /\ j.work = <<>> /\ j.pc = "saved" /\ j.op = "deploy"
      /\ q \in Projects /\ j.loc \in QuotedRecord
      /\ UNCHANGED <<store, files, stage, serving, up, spoiled>>
  BY DEF IInv, JobsSound, WorkInv, DiskInv, Sound, JobWith, Brokered, disk, history
<1>t. /\ store[q] = {j.loc} /\ files[q] = j.loc.tree /\ j.loc.tree \in Trees
      /\ ~Clones(j) /\ \A r : \A p \in Projects : Sees(j, p, r) => p = q
  BY <1>s DEF JobTells, Clones, Sees
<1> HIDE DEF q
<1>q. q = j.p
  BY DEF q
<1>l. j.loc.mode \in Modes /\ j.loc.kind \in {"static", "shared", "isolated"} /\ j.loc \in Record
  BY <1>s, RecordHas
<1>r. \A p \in Projects : \A r \in store[p] : r.mode \in Modes /\ r.kind \in {"static", "shared", "isolated"}
  BY RecordHas DEF IInv
<1>1. PICK w : /\ Becomes(j, [j EXCEPT !.pc = "working", !.work = w])
               /\ w = CASE j.loc.kind = "isolated" -> StartIsolated(q, j.loc)
                        [] j.loc.kind = "shared" -> Refresh
                        [] j.loc.kind = "static" -> <<>>
  BY <1>q, Zenon DEF Brokered
<1>2. PICK k : /\ jobs' = {k} /\ k.pc = "working" /\ k.work = w
               /\ k.p = q /\ k.op = "deploy" /\ k.loc = j.loc
  <2>1. GivenWork(j, w)
    BY <1>1 DEF GivenWork
  <2>2. Sound(j) /\ jobs = {j}
    BY <1>s
  <2>3. \E k : /\ jobs' = {k} /\ k.pc = "working" /\ k.work = w
               /\ k.p = j.p /\ k.op = j.op /\ k.loc = j.loc
    BY <2>1, <2>2, HandsWork
  <2>. QED BY <1>s, <1>q, <2>3
<1>3. DiskInv'
  <2>1. JobTells(k)'
    BY <1>s, <1>t, <1>2 DEF JobTells, Switches
  <2>2. \A r \in store[q] : Right(q, r)'
    BY <1>s, <1>t DEF Right
  <2>. QED BY <1>s, <1>t, <1>2, <1>q, <2>1, <2>2, DiskAfter
<1>b. ASSUME j.loc.kind = "isolated"
      PROVE  /\ w \in Seq(Todo)
             /\ \A i \in 1..Len(w) : w[i].at \in {q} \X Modes
             /\ Restores(w, {q} \X Modes)
  <2>1. w = StartIsolated(q, j.loc)
    BY <1>1, <1>b
  <2>2. q \in Projects
    BY <1>s, <1>q
  <2>. QED BY <1>l, <2>1, <2>2, StartRestores
<1>4. ASSUME NEW p \in Projects, NEW r \in store[p], r.kind # "static"
      PROVE  Restores(w, Needs(p, r)) \/ (Spares(w, Needs(p, r)) /\ ~Sees(j, p, r))
  <2>1. CASE p = q
    <3>1. r = j.loc
      BY <1>t, <2>1
    <3>2. CASE r.kind = "isolated"
      <4>1. Needs(p, r) = {q} \X Modes
        BY <2>1, <3>2 DEF Needs
      <4>. QED BY <1>b, <3>1, <3>2, <4>1
    <3>3. CASE r.kind = "shared"
      <4>1. w = Refresh
        BY <1>1, <3>1, <3>3
      <4>. QED BY <1>r, <3>3, <4>1, RefreshProvided DEF RefreshProvides
    <3>. QED BY <1>r, <1>4, <3>2, <3>3
  <2>2. CASE p # q
    <3>0. ~Sees(j, p, r)
      BY <1>t, <2>2
    <3>1. CASE j.loc.kind = "isolated"
      <4>1. q \in Projects \cup {Daemon} /\ q # Daemon
        BY <1>s, <1>q, ConstantsAssumption
      <4>2. Spares(w, Needs(p, r))
        BY <1>b, <2>2, <3>1, <4>1, OthersSpare
      <4>. QED BY <3>0, <4>2
    <3>2. CASE j.loc.kind = "shared"
      <4>1. w = Refresh
        BY <1>1, <3>2
      <4>2. CASE r.kind = "shared"
        BY <1>r, <4>1, <4>2, RefreshProvided DEF RefreshProvides
      <4>3. CASE r.kind = "isolated"
        BY <3>0, <4>1, <4>3, RefreshSpares, RefreshIs DEF RefreshServes
      <4>. QED BY <1>r, <1>4, <4>2, <4>3
    <3>3. CASE j.loc.kind = "static"
      <4>1. w = <<>>
        BY <1>1, <3>3
      <4>. QED BY <3>0, <4>1, NothingSpares
    <3>. QED BY <1>l, <3>1, <3>2, <3>3
  <2>. QED BY <2>1, <2>2
<1>5. ServedInv'
  BY <1>s, <1>2, <1>4, WorkHanded
<1>. QED BY <1>3, <1>5

LEMMA ModeEmittedServed ==
  ASSUME IInv, WorkInv, DiskInv, ServedInv, NEW j, jobs = {j}, ModeEmitted(j)
  PROVE  DiskInv' /\ ServedInv'
<1> DEFINE q == j.p
<1>s. /\ Sound(j) /\ JobTells(j) /\ j.work = <<>> /\ j.pc = "emitting"
      /\ j.op \in {"promote", "unpromote"}
      /\ q \in Projects /\ j.loc \in QuotedRecord
      /\ UNCHANGED <<store, files, stage, serving, up, spoiled>>
  <2>1. j.pc = "emitting" /\ j.op \in {"promote", "unpromote"} /\ UNCHANGED <<disk, serving, up, history>>
    BY Zenon DEF ModeEmitted
  <2>. QED BY <2>1 DEF IInv, JobsSound, WorkInv, DiskInv, Sound, JobWith, disk, history
<1>t. /\ store[q] = {j.loc}
      /\ ~Clones(j) /\ \A r : \A p \in Projects : Sees(j, p, r) => p = q /\ r.kind = "shared"
  BY <1>s DEF JobTells, Switches, Clones, Deploys, Sees
<1> HIDE DEF q
<1>q. q = j.p
  BY DEF q
<1>l. j.loc.mode \in Modes /\ j.loc.kind \in {"static", "shared", "isolated"} /\ j.loc \in Record
  BY <1>s, RecordHas
<1>r. \A p \in Projects : \A r \in store[p] : r.mode \in Modes /\ r.kind \in {"static", "shared", "isolated"}
  BY RecordHas DEF IInv
<1>1. PICK w : /\ Becomes(j, [j EXCEPT !.pc = "working", !.work = w])
               /\ w = IF j.loc.kind = "static" THEN <<>>
                      ELSE IF j.op = "promote" /\ j.loc.kind = "isolated"
                           THEN StopIsolated(q) \o StartIsolated(q, j.loc)
                           ELSE Refresh
  BY <1>q, Zenon DEF ModeEmitted
<1>2. PICK k : /\ jobs' = {k} /\ k.pc = "working" /\ k.work = w
               /\ k.p = q /\ k.op = j.op /\ k.loc = j.loc
  <2>1. GivenWork(j, w)
    BY <1>1 DEF GivenWork
  <2>2. Sound(j) /\ jobs = {j}
    BY <1>s
  <2>3. \E k : /\ jobs' = {k} /\ k.pc = "working" /\ k.work = w
               /\ k.p = j.p /\ k.op = j.op /\ k.loc = j.loc
    BY <2>1, <2>2, HandsWork
  <2>. QED BY <1>s, <1>q, <2>3
<1>3. DiskInv'
  <2>1. JobTells(k)'
    BY <1>s, <1>t, <1>2 DEF JobTells, Switches
  <2>2. q \in Projects \ spoiled' => \A r \in store'[q] : Right(q, r)'
    BY <1>s, <1>t DEF DiskInv, Right
  <2>. QED BY <1>s, <1>t, <1>2, <1>q, <2>1, <2>2, DiskAfter
<1>4. ASSUME NEW p \in Projects, NEW r \in store[p], r.kind # "static"
      PROVE  Restores(w, Needs(p, r)) \/ (Spares(w, Needs(p, r)) /\ ~Sees(j, p, r))
  <2>1. CASE j.loc.kind = "static"
    <3>1. p # q
      BY <1>t, <1>4, <2>1
    <3>. QED BY <1>t, <1>1, <2>1, <3>1, NothingSpares
  <2>2. CASE w = Refresh
    <3>1. CASE r.kind = "shared"
      BY <1>r, <2>2, <3>1, RefreshProvided DEF RefreshProvides
    <3>2. CASE r.kind = "isolated"
      BY <1>t, <2>2, <3>2, RefreshSpares, RefreshIs DEF RefreshServes
    <3>. QED BY <1>r, <1>4, <3>1, <3>2
  <2>3. CASE j.loc.kind = "isolated" /\ w = StopIsolated(q) \o StartIsolated(q, j.loc)
    <3>1. /\ w \in Seq(Todo)
          /\ \A i \in 1..Len(w) : w[i].at \in {q} \X Modes
          /\ Restores(w, {q} \X Modes)
      BY <1>s, <1>l, <2>3, RestartRestores
    <3>2. CASE p = q
      <4>1. Needs(p, r) = {q} \X Modes
        BY <1>t, <2>3, <3>2 DEF Needs
      <4>. QED BY <3>1, <4>1
    <3>3. CASE p # q
      BY <1>s, <1>t, <3>1, <3>3, OthersSpare, ConstantsAssumption
    <3>. QED BY <3>2, <3>3
  <2>. QED BY <1>1, <2>1, <2>2, <2>3
<1>5. ServedInv'
  BY <1>s, <1>2, <1>4, WorkHanded
<1>. QED BY <1>3, <1>5

LEMMA TeardownEmittedServed ==
  ASSUME IInv, WorkInv, DiskInv, ServedInv, NEW j, jobs = {j}, TeardownEmitted(j)
  PROVE  DiskInv' /\ ServedInv'
<1> DEFINE q == j.p
<1>s. /\ Sound(j) /\ j.work = <<>> /\ j.pc = "emitting" /\ j.op = "teardown"
      /\ q \in Projects /\ j.loc \in QuotedRecord
      /\ UNCHANGED <<serving, up>>
  <2>1. j.pc = "emitting" /\ j.op = "teardown" /\ UNCHANGED <<serving, up>>
    BY Zenon DEF TeardownEmitted
  <2>. QED BY <2>1 DEF IInv, JobsSound, WorkInv, Sound, JobWith
<1>t. ~Deploys(j) /\ ~Switches(j) /\ ~Clones(j) /\ \A p, r : ~Sees(j, p, r)
  BY <1>s DEF Deploys, Switches, Clones, Sees
<1> HIDE DEF q
<1>q. q = j.p
  BY DEF q
<1>l. j.loc.mode \in Modes /\ j.loc.kind \in {"static", "shared", "isolated"} /\ j.loc \in Record
  BY <1>s, RecordHas
<1>1. CASE Raises(j) /\ UNCHANGED <<store, files, stage>>
  <2>1. jobs' = {} /\ q \in spoiled' /\ spoiled \subseteq spoiled'
    BY <1>1, <1>q DEF Raises, Finishes
  <2>. QED BY <1>s, <1>1, <1>q, <2>1, Ends
<1>2. CASE /\ store' = [store EXCEPT ![q] = {}]
           /\ files' = [files EXCEPT ![q] = NoTree]
           /\ UNCHANGED spoiled
           /\ Becomes(j, [j EXCEPT !.pc = "working",
                 !.work = CASE j.loc.kind = "isolated" -> StopIsolated(q)
                            [] j.loc.kind = "shared" -> Refresh'
                            [] j.loc.kind = "static" -> <<>>])
  <2>0. /\ store'[q] = {} /\ UNCHANGED spoiled
        /\ \A p \in Projects \ {q} : store'[p] = store[p] /\ files'[p] = files[p]
    BY <1>s, <1>2 DEF IInv
  <2>1. PICK w : /\ Becomes(j, [j EXCEPT !.pc = "working", !.work = w])
                 /\ w = CASE j.loc.kind = "isolated" -> StopIsolated(q)
                          [] j.loc.kind = "shared" -> Refresh'
                          [] j.loc.kind = "static" -> <<>>
    BY <1>2, Zenon
  <2>2. PICK k : /\ jobs' = {k} /\ k.pc = "working" /\ k.work = w
                 /\ k.p = q /\ k.op = "teardown" /\ k.loc = j.loc
    <3>1. GivenWork(j, w)
      BY <2>1 DEF GivenWork
    <3>2. Sound(j) /\ jobs = {j}
      BY <1>s
    <3>3. \E k : /\ jobs' = {k} /\ k.pc = "working" /\ k.work = w
                 /\ k.p = j.p /\ k.op = j.op /\ k.loc = j.loc
      BY <3>1, <3>2, HandsWork
    <3>. QED BY <1>s, <1>q, <3>3
  <2>3. DiskInv'
    <3>1. JobTells(k)'
      BY <2>2 DEF JobTells, Switches
    <3>. QED BY <1>s, <2>0, <2>2, <1>q, <3>1, DiskAfter
  <2>4. ASSUME NEW p \in Projects, NEW r \in store'[p], r.kind # "static"
        PROVE  /\ Restores(w, Needs(p, r)) \/ Spares(w, Needs(p, r))
               /\ r \in store[p] /\ files'[p] = files[p]
    <3>0. p # q /\ r \in store[p] /\ files'[p] = files[p]
      BY <2>0
    <3>r. r.mode \in Modes /\ r.kind \in {"shared", "isolated"}
      BY <2>4, <3>0, RecordHas DEF IInv
    <3>1. CASE j.loc.kind = "isolated"
      <4>1. w = StopIsolated(q)
        BY <2>1, <3>1
      <4>2. \A i \in 1..Len(w) : w[i].at \in {q} \X Modes
        BY <1>s, <4>1, StopIsolatedIs
      <4>3. w \in Seq(Todo) /\ q # Daemon
        BY <1>s, <4>1, StopIsolatedIs, ConstantsAssumption
      <4>. QED BY <1>s, <3>0, <4>2, <4>3, OthersSpare
    <3>2. CASE j.loc.kind = "shared"
      <4>1. w = Refresh'
        BY <2>1, <3>2
      <4>2. CASE r.kind = "shared"
        <5>1. Restores(Refresh', Needs(p, r))
          BY <2>4, <3>r, <4>2, RefreshProvidedThen DEF RefreshProvides, Needs, Restores
        <5>. QED BY <3>0, <4>1, <5>1
      <4>3. CASE r.kind = "isolated"
        BY <3>0, <4>1, <4>3, RefreshSpares, RefreshThen DEF RefreshServes
      <4>. QED BY <3>r, <4>2, <4>3
    <3>3. CASE j.loc.kind = "static"
      <4>1. w = <<>>
        BY <2>1, <3>3
      <4>. QED BY <3>0, <4>1, NothingSpares
    <3>. QED BY <1>l, <3>1, <3>2, <3>3
  <2>5. up' => up
    BY <1>s
  <2>6. ServedInv'
    BY <1>s, <1>t, <2>0, <2>2, <2>4, <2>5, WorkHanded
  <2>. QED BY <2>3, <2>6
<1>. QED BY <1>1, <1>2, <1>q, Zenon DEF TeardownEmitted

LEMMA BootServed ==
  ASSUME IInv, NoneWhileDown, DiskInv, ServedInv, Boot
  PROVE  DiskInv' /\ ServedInv'
<1> DEFINE own == {p \in Projects : \E r \in store[p] : r.kind = "isolated"}
           boot == NewJob("boot", Daemon, "recover", "working", Manifest("dev", Only(Kinds), FALSE), {})
<1>1. /\ jobs = {} /\ UNCHANGED <<store, files, stage, serving, spoiled>>
  BY DEF Boot, NoneWhileDown, disk, history
<1>2. PICK order \in SetToSeqs(own) : \E w :
        /\ w = (IF \E m \in Modes : Listed(m) # {} THEN Refresh ELSE <<>>) \o Restarts(order)
        /\ jobs' = {[boot EXCEPT !.work = w]}
  BY Zenon DEF Boot
<1>3. PICK w : /\ w = (IF \E m \in Modes : Listed(m) # {} THEN Refresh ELSE <<>>) \o Restarts(order)
               /\ jobs' = {[boot EXCEPT !.work = w]}
  BY <1>2
<1>4. PICK k : k = [boot EXCEPT !.work = w] /\ jobs' = {k}
  BY <1>3
<1>5. k.p = Daemon /\ k.op = "recover" /\ k.pc = "working" /\ k.work = w
  BY <1>4 DEF NewJob
<1>6. DiskInv'
  <2>1. JobTells(k)'
    BY <1>5 DEF JobTells, Switches
  <2>2. Daemon \notin Projects
    BY ConstantsAssumption
  <2>. QED BY <1>1, <1>4, <2>1, <2>2, DiskAfter
<1>r. \A p \in Projects : \A r \in store[p] :
        r.mode \in Modes /\ r.kind \in {"static", "shared", "isolated"} /\ r \in Record
  BY RecordHas DEF IInv
<1>7. /\ Restarts(order) \in Seq(Todo)
      /\ \A i \in 1..Len(Restarts(order)) : Restarts(order)[i].at \in own \X Modes
      /\ \A p \in own : Restores(Restarts(order), {p} \X Modes)
  <2>1. \A p \in own : Only(store[p]) \in Record
    BY <1>r DEF Only
  <2>. QED BY <2>1, RestartsAre
<1>8. ASSUME NEW p \in Projects, NEW r \in store[p], r.kind # "static"
      PROVE  Restores(w, Needs(p, r))
  <2> DEFINE A == IF \E m \in Modes : Listed(m) # {} THEN Refresh ELSE <<>>
             B == Restarts(order)
  <2>1. A \in Seq(Todo) /\ B \in Seq(Todo) /\ w = A \o B
    <3>1. Refresh \in Seq(Todo) /\ <<>> \in Seq(Todo)
      BY RefreshIs DEF RefreshServes
    <3>. QED BY <1>3, <1>7, <3>1
  <2>2. CASE r.kind = "isolated"
    <3>1. p \in own /\ Needs(p, r) = {p} \X Modes
      BY <2>2 DEF Needs
    <3>2. Restores(B, Needs(p, r))
      BY <1>7, <3>1
    <3> HIDE DEF A, B
    <3>. QED BY <2>1, <3>2, RestoresLast
  <2>3. CASE r.kind = "shared"
    <3>1. p \in Listed(r.mode) /\ r.mode \in Modes
      BY <1>r, <2>3 DEF Listed
    <3>2. A = Refresh
      BY <3>1
    <3>3. Restores(A, Needs(p, r))
      BY <1>r, <2>3, <3>2, RefreshProvided DEF RefreshProvides
    <3>4. Needs(p, r) = {<<Daemon, r.mode>>} /\ own \subseteq Projects
      BY <2>3 DEF Needs
    <3>5. Spares(B, Needs(p, r))
      <4>1. \A n \in own \X Modes : n \notin Needs(p, r)
        BY <3>4, ConstantsAssumption
      <4>. QED BY <1>7, <4>1 DEF Spares
    <3> HIDE DEF A, B
    <3>. QED BY <2>1, <3>3, <3>5, RestoresLast
  <2>. QED BY <1>r, <1>8, <2>2, <2>3
<1>9. ServedInv'
  <2>1. \A j \in jobs : j.work = <<>>
    BY <1>1
  <2>2. jobs' = {k}
    BY <1>4
  <2>3. \A p \in Projects : \A r \in store'[p] : r.kind # "static" => Restores(k.work, Needs(p, r))
    BY <1>1, <1>5, <1>8
  <2>. QED BY <1>1, <2>1, <2>2, <2>3, WorkHanded
<1>. QED BY <1>6, <1>9

-----------------------------------------------------------------------------
(* A handler at work, and what can happen to it *)

\* What a container is started with, for the projects that need it.
LEMMA StartedServes ==
  ASSUME IInv, NEW p \in Projects, NEW r \in store[p], r.kind # "static",
         files[p] # NoTree, NEW n \in Needs(p, r)
  PROVE  p \in DOMAIN ServedAt(n) /\ ServedAt(n)[p] = files[p]
<1>1. CASE r.kind = "shared"
  <2>1. n[1] = Daemon /\ n[2] = r.mode
    BY <1>1 DEF Needs
  <2>2. p \in Found(n[2])
    BY <1>1, <2>1 DEF Found
  <2> DEFINE S == {q \in Found(n[2]) : files[q] # NoTree}
  <2>3. p \in S /\ ServedAt(n) = [q \in S |-> files[q]]
    BY <2>1, <2>2 DEF ServedAt
  <2> HIDE DEF S
  <2>. QED BY <2>3
<1>2. CASE r.kind # "shared"
  <2>1. n[1] = p /\ p # Daemon
    BY <1>2, ConstantsAssumption DEF Needs
  <2>2. ServedAt(n) = [q \in {p} |-> files[q]]
    BY <2>1 DEF ServedAt
  <2>. QED BY <2>2
<1>. QED BY <1>1, <1>2

LEMMA NextTodo ==
  ASSUME NEW j, Sound(j), jobs = {j}, NextWork(j)
  PROVE  \E k : /\ jobs' = {k} /\ k.pc = j.pc /\ k.work = Tail(j.work)
                /\ k.p = j.p /\ k.op = j.op /\ k.loc = j.loc
<1>1. PICK k : k = [j EXCEPT !.work = Tail(@)] /\ jobs' = {k}
  BY DEF NextWork, Becomes
<1>2. k.pc = j.pc /\ k.p = j.p /\ k.op = j.op /\ k.loc = j.loc /\ k.work = Tail(j.work)
  BY <1>1 DEF Sound, JobWith
<1>. QED BY <1>1, <1>2

\* A container is stopped or started: the projects that need it are started, later or now.
LEMMA WorkServed ==
  ASSUME IInv, WorkInv, PlacesInv, DiskInv, ServedInv, NEW j, jobs = {j},
         StopContainer(j) \/ CreateContainer(j)
  PROVE  DiskInv' /\ ServedInv'
<1> DEFINE q == j.p
           x == Head(j.work)
<1>s. /\ Sound(j) /\ JobTells(j) /\ j.work # <<>> /\ j.pc = "working" /\ NextWork(j)
      /\ j.work \in Seq(Todo) /\ x \in Todo /\ x.at \in Names
      /\ UNCHANGED <<store, files, stage, up, spoiled>>
  <2>1. /\ j.pc = "working" /\ j.work # <<>> /\ NextWork(j) /\ UNCHANGED <<disk, up, history>>
    BY Zenon DEF StopContainer, CreateContainer
  <2>2. /\ Sound(j) /\ JobTells(j) /\ j.work \in Seq(Todo)
    BY DEF IInv, JobsSound, WorkInv, DiskInv
  <2>3. x \in Todo
    BY <2>1, <2>2
  <2>. QED BY <2>1, <2>2, <2>3 DEF disk, history, Todo
<1>t. /\ ~Clones(j) /\ ~Deploys(j) /\ ~Switches(j)
      /\ \A p, r : ~Sees(j, p, r)
  BY <1>s DEF Clones, Deploys, Switches, Sees
<1>1. PICK k : /\ jobs' = {k} /\ k.pc = j.pc /\ k.work = Tail(j.work)
               /\ k.p = j.p /\ k.op = j.op /\ k.loc = j.loc
  <2>1. Sound(j) /\ NextWork(j)
    BY <1>s
  <2>. QED BY <2>1, NextTodo
<1> HIDE DEF q, x
<1>2. DiskInv'
  <2>1. JobTells(k)'
    BY <1>s, <1>1 DEF JobTells, Switches
  <2>2. j.p \in Projects \ spoiled' => \A r \in store'[j.p] : Right(j.p, r)'
    BY <1>s, <1>t DEF DiskInv, Right
  <2>3. j.p \in Projects => \A r, s \in store'[j.p] : r = s
    BY <1>s DEF DiskInv
  <2>. QED BY <1>s, <1>1, <2>1, <2>2, <2>3, DiskAfter
<1>a. /\ \A n \in Names : n # x.at => ctr'[n] = ctr[n]
      /\ x.at[1] # Daemon => ips' = ips /\ \A p \in Projects : p # x.at[1] => route'[p] = route[p]
      /\ x.at[1] = Daemon => route' = route /\ \A m \in Modes : m # x.at[2] => (m \in ips' <=> m \in ips)
  <2>1. CASE StopContainer(j)
    <3>1. /\ ctr' = [ctr EXCEPT ![x.at] = {}]
          /\ Unrouted(x.at) \/ UNCHANGED <<route, ips>>
      BY <2>1, Zenon DEF StopContainer, x
    <3>. QED BY <1>s, <3>1 DEF Unrouted, PlacesInv
  <2>2. CASE CreateContainer(j)
    <3>1. /\ \E c : ctr' = [ctr EXCEPT ![x.at] = c]
          /\ IF x.at[1] = Daemon
               THEN ips' = ips \cup {x.at[2]} /\ UNCHANGED route
               ELSE route' = [route EXCEPT ![x.at[1]] = {x.at[2]}] /\ UNCHANGED ips
      BY <2>2, Zenon DEF CreateContainer, x
    <3>. QED BY <1>s, <3>1 DEF PlacesInv
  <2>. QED BY <2>1, <2>2
<1>3. ASSUME NEW p \in Projects, p \notin spoiled, NEW r \in store[p], r.kind # "static",
             up, Daemon \notin spoiled
      PROVE  Provided(p, r)'
  <2>n. /\ r.mode \in Modes /\ Needs(p, r) \subseteq Names
        /\ Needs(p, r)' = Needs(p, r)
        /\ \A N : Restores(k.work, N)' = Restores(k.work, N) /\ Spares(k.work, N)' = Spares(k.work, N)
    <3>1. r.mode \in Modes
      BY RecordHas DEF IInv
    <3>2. Needs(p, r) \subseteq Names
      BY <3>1 DEF Needs, Names
    <3>. QED BY <3>1, <3>2 DEF Needs, Restores, Spares
  <2>1. (Runs(p, r) /\ Spares(j.work, Needs(p, r))) \/ Restores(j.work, Needs(p, r))
    <3>1. Provided(p, r)
      BY <1>3 DEF ServedInv
    <3>. QED BY <1>3, <1>t, <3>1 DEF Provided
  <2>2. CASE Runs(p, r) /\ Spares(j.work, Needs(p, r))
    <3>1. Spares(k.work, Needs(p, r)) /\ x.at \notin Needs(p, r)
      BY <1>s, <1>1, <2>2, WorkTail DEF x
    <3>2. Runs(p, r)'
      <4>0. PICK n \in Needs(p, r) : \E c \in ctr[n] :
              /\ ctr[n] = {c}
              /\ p \in DOMAIN c.serves /\ c.serves[p] = files[p]
              /\ IF r.kind = "shared" THEN r.mode \in ips ELSE route[p] = {n[2]}
        BY <2>2 DEF Runs
      <4>1. PICK c \in ctr[n] :
              /\ ctr[n] = {c}
              /\ p \in DOMAIN c.serves /\ c.serves[p] = files[p]
              /\ IF r.kind = "shared" THEN r.mode \in ips ELSE route[p] = {n[2]}
        BY <4>0
      <4>2. ctr'[n] = ctr[n] /\ files'[p] = files[p]
        BY <1>s, <1>a, <2>n, <3>1
      <4>3. IF r.kind = "shared" THEN r.mode \in ips' ELSE route'[p] = {n[2]}
        <5>1. CASE r.kind = "shared"
          <6>1. <<Daemon, r.mode>> # x.at /\ x.at = <<x.at[1], x.at[2]>>
            BY <1>s, <3>1, <5>1, NamesAre DEF Needs
          <6>. QED BY <1>a, <2>n, <4>1, <5>1, <6>1
        <5>2. CASE r.kind # "shared"
          <6>1. x.at[1] # p
            <7>1. x.at = <<x.at[1], x.at[2]>> /\ x.at[2] \in Modes
              BY <1>s, NamesAre
            <7>. QED BY <3>1, <5>2, <7>1 DEF Needs
          <6>. QED BY <1>a, <4>1, <5>2, <6>1
        <5>. QED BY <5>1, <5>2
      <4>. QED BY <2>n, <4>1, <4>2, <4>3 DEF Runs
    <3>3. \A i \in jobs' : Spares(i.work, Needs(p, r))'
      BY <1>1, <2>n, <3>1
    <3>. QED BY <3>2, <3>3 DEF Provided
  <2>3. CASE Restores(k.work, Needs(p, r))
    BY <1>1, <2>n, <2>3 DEF Provided
  <2>4. CASE /\ Restores(j.work, Needs(p, r)) /\ x.do = "create" /\ x.at \in Needs(p, r)
             /\ Spares(k.work, Needs(p, r))
    <3>1. /\ ctr' = [ctr EXCEPT ![x.at] = {[serves |-> ServedAt(x.at), caps |-> x.caps]}]
          /\ IF x.at[1] = Daemon
               THEN ips' = ips \cup {x.at[2]} /\ UNCHANGED route
               ELSE route' = [route EXCEPT ![x.at[1]] = {x.at[2]}] /\ UNCHANGED ips
      <4>1. CreateContainer(j)
        BY <2>4 DEF StopContainer, x
      <4>. QED BY <4>1, Zenon DEF CreateContainer, x
    <3>2. files[p] # NoTree
      <4>1. Right(p, r)
        BY <1>3 DEF DiskInv
      <4>. QED BY <1>t, <4>1, ConstantsAssumption DEF Right
    <3>3. p \in DOMAIN ServedAt(x.at) /\ ServedAt(x.at)[p] = files[p]
      BY <1>3, <2>4, <3>2, StartedServes
    <3>4. PICK c : c = [serves |-> ServedAt(x.at), caps |-> x.caps]
      OBVIOUS
    <3>5. ctr'[x.at] = {c} /\ c.serves = ServedAt(x.at)
      BY <1>s, <3>1, <3>4 DEF PlacesInv
    <3>6. IF r.kind = "shared" THEN r.mode \in ips' ELSE route'[p] = {x.at[2]}
      <4>1. CASE r.kind = "shared"
        BY <2>4, <3>1, <4>1 DEF Needs
      <4>2. CASE r.kind # "shared"
        <5>1. x.at[1] = p /\ p # Daemon
          BY <2>4, <4>2, ConstantsAssumption DEF Needs
        <5>. QED BY <3>1, <4>2, <5>1 DEF PlacesInv
      <4>. QED BY <4>1, <4>2
    <3>7. Runs(p, r)'
      BY <1>s, <2>n, <2>4, <3>3, <3>5, <3>6 DEF Runs
    <3>8. \A i \in jobs' : Spares(i.work, Needs(p, r))'
      BY <1>1, <2>n, <2>4
    <3>. QED BY <3>7, <3>8 DEF Provided
  <2>5. Restores(j.work, Needs(p, r)) =>
          \/ Restores(k.work, Needs(p, r))
          \/ x.do = "create" /\ x.at \in Needs(p, r) /\ Spares(k.work, Needs(p, r))
    BY <1>s, <1>1, WorkTail DEF x
  <2>. QED BY <2>1, <2>2, <2>3, <2>4, <2>5
<1>4. ServedInv'
  BY <1>s, <1>3 DEF ServedInv, Provided
<1>. QED BY <1>2, <1>4

\* Recovery goes on without the project it could not start, which stays spoiled.
LEMMA SkipStartServed ==
  ASSUME IInv, WorkInv, DiskInv, ServedInv, NEW j, jobs = {j}, j.pc = "working", j.op = "recover",
         j.work # <<>>, SkipStart(j), UNCHANGED <<disk, serving, up>>
  PROVE  DiskInv' /\ ServedInv'
<1> DEFINE x == Head(j.work).at[1]
<1>s. Sound(j) /\ j.work \in Seq(Todo)
  BY DEF IInv, JobsSound, WorkInv
<1>1. PICK m \in 1..Len(j.work) :
        /\ \A i \in 1..Len(j.work) : i <= m <=> j.work[i].at[1] = x
        /\ Becomes(j, [j EXCEPT !.work = SubSeq(@, m + 1, Len(@))])
  BY Zenon DEF SkipStart
<1>2. spoiled' = spoiled \cup {x}
  BY Zenon DEF SkipStart
<1> HIDE DEF x
<1> DEFINE R == SubSeq(j.work, m + 1, Len(j.work))
<1>3. PICK k : k = [j EXCEPT !.work = R] /\ jobs' = {k}
  BY <1>1 DEF Becomes
<1>4. k.p = j.p /\ k.op = j.op /\ k.pc = j.pc /\ k.work = R
  BY <1>s, <1>3 DEF Sound, JobWith
<1>5. /\ \A i \in 1..m : j.work[i].at[1] = x
      /\ \A N : /\ Spares(j.work, N) => Spares(R, N)
                /\ Restores(j.work, N) =>
                     Restores(R, N) \/ \E l \in 1..m : j.work[l].at \in N
  <2>1. \A i \in 1..m : i \in 1..Len(j.work) /\ i <= m
    BY <1>s
  <2>. QED BY <1>s, <1>1, <2>1, WorkLeft
<1> HIDE DEF R
<1>6. jobs' = {k} /\ UNCHANGED <<store, files, stage, up>>
  BY <1>3 DEF disk
<1>t. /\ ~Clones(j) /\ \A p, r : ~Sees(j, p, r)
  BY DEF Clones, Deploys, Switches, Sees
<1>7. DiskInv'
  <2>1. JobTells(k)'
    BY <1>4 DEF JobTells, Switches
  <2>2. j.p \in Projects \ spoiled' => \A r \in store'[j.p] : Right(j.p, r)'
    BY <1>2, <1>6, <1>t DEF DiskInv, Right
  <2>3. j.p \in Projects => \A r, s \in store'[j.p] : r = s
    BY <1>6 DEF DiskInv
  <2>. QED BY <1>2, <1>4, <1>6, <2>1, <2>2, <2>3, DiskAfter
<1>8. ASSUME NEW p \in Projects, p \notin spoiled', NEW r \in store[p], r.kind # "static",
             up, Daemon \notin spoiled'
      PROVE  Provided(p, r)'
  <2>n. /\ Needs(p, r)' = Needs(p, r)
        /\ \A N : Restores(k.work, N)' = Restores(k.work, N) /\ Spares(k.work, N)' = Spares(k.work, N)
    BY DEF Needs, Restores, Spares
  <2>1. (Runs(p, r) /\ Spares(j.work, Needs(p, r))) \/ Restores(j.work, Needs(p, r))
    <3>1. Provided(p, r)
      BY <1>2, <1>8 DEF ServedInv
    <3>. QED BY <1>8, <1>t, <3>1 DEF Provided
  <2>2. \A l \in 1..m : j.work[l].at \notin Needs(p, r)
    <3>1. x # p /\ x # Daemon
      BY <1>2, <1>8
    <3>2. \A n \in Needs(p, r) : n[1] \in {p, Daemon}
      BY DEF Needs
    <3>. QED BY <1>5, <3>1, <3>2
  <2>3. CASE Runs(p, r) /\ Spares(j.work, Needs(p, r))
    <3>1. Runs(p, r)'
      BY <1>6, <2>3, RunsStill
    <3>2. \A i \in jobs' : Spares(i.work, Needs(p, r))'
      BY <1>4, <1>5, <1>6, <2>n, <2>3
    <3>. QED BY <3>1, <3>2 DEF Provided
  <2>4. CASE Restores(j.work, Needs(p, r))
    <3>1. Restores(R, Needs(p, r))
      BY <1>5, <2>2, <2>4
    <3>. QED BY <1>4, <1>6, <2>n, <3>1 DEF Provided
  <2>. QED BY <2>1, <2>3, <2>4
<1>9. ServedInv'
  BY <1>6, <1>8 DEF ServedInv, Provided
<1>. QED BY <1>7, <1>9

\* A handler that raises leaves its project spoiled, and what is shared too if it was at
\* work on containers.
LEMMA RaisesServed ==
  ASSUME IInv, WorkInv, DiskInv, ServedInv, NEW j, jobs = {j}, Raises(j), UNCHANGED <<disk, serving, up>>
  PROVE  DiskInv' /\ ServedInv'
<1>1. /\ jobs' = {} /\ j.p \in spoiled' /\ spoiled \subseteq spoiled'
      /\ UNCHANGED <<store, files, serving, up>>
      /\ j.pc = "working" => Daemon \in spoiled'
  BY DEF Raises, Finishes, disk
<1>2. CASE j.pc # "working"
  <2>1. j.work = <<>>
    BY <1>2 DEF WorkInv
  <2>. QED BY <1>1, <2>1, Ends
<1>3. CASE j.pc = "working"
  <2>1. j.p \in Projects => \A r, s \in store'[j.p] : r = s
    BY <1>1 DEF DiskInv
  <2>2. DiskInv'
    BY <1>1, <2>1, DiskAfter
  <2>3. ServedInv'
    BY <1>1, <1>3 DEF ServedInv
  <2>. QED BY <2>2, <2>3
<1>. QED BY <1>2, <1>3

LEMMA CrashServed ==
  ASSUME IInv, DiskInv, Crash \/ \E q \in Projects : TornSave(q)
  PROVE  DiskInv' /\ ServedInv'
<1>1. /\ jobs' = {} /\ up' = FALSE /\ UNCHANGED files
      /\ spoiled \cup {j.p : j \in jobs} \subseteq spoiled'
      /\ \A p \in Projects : store'[p] \subseteq store[p]
  BY DEF Crash, TornSave, Dies, disk, IInv
<1>2. ServedInv'
  BY <1>1 DEF ServedInv
<1>3. ASSUME NEW p \in Projects, p \notin spoiled', NEW r \in store[p] PROVE Right(p, r)'
  <2>1. Right(p, r) /\ \A j \in jobs : j.p # p
    BY <1>1, <1>3 DEF DiskInv
  <2>. QED BY <1>1, <2>1 DEF Right
<1>4. DiskInv'
  BY <1>1, <1>3 DEF DiskInv
<1>. QED BY <1>2, <1>4

\* A child of the shared router that is respawned serves the files as they are.
LEMMA RespawnServed ==
  ASSUME IInv, PlacesInv, DiskInv, ServedInv, NEW m \in Modes, NEW q \in Projects, Respawn(m, q)
  PROVE  DiskInv' /\ ServedInv'
<1> DEFINE x == <<Daemon, m>>
<1>1. PICK d \in ctr[x] :
        /\ q \in DOMAIN d.serves
        /\ ctr' = [ctr EXCEPT ![x] = {[d EXCEPT !.serves[q] = files[q]]}]
  BY Zenon DEF Respawn
<1>2. UNCHANGED <<store, files, stage, route, ips, up, jobs, spoiled>>
  BY DEF Respawn, disk, history
<1>3. x \in Names
  BY NamesAre
<1>4. PICK S \in SUBSET Projects : d.serves \in [S -> Code] /\ d \in Container
  BY <1>1, <1>3 DEF PlacesInv, Container
<1>5. PICK e : e = [d EXCEPT !.serves[q] = files[q]]
  OBVIOUS
<1>6. /\ ctr'[x] = {e} /\ \A n \in Names : n # x => ctr'[n] = ctr[n]
      /\ e.serves = [d.serves EXCEPT ![q] = files[q]]
  BY <1>1, <1>3, <1>4, <1>5 DEF PlacesInv, Container
<1>7. /\ DOMAIN e.serves = DOMAIN d.serves /\ e.serves[q] = files[q]
      /\ \A p \in DOMAIN d.serves : p # q => e.serves[p] = d.serves[p]
  BY <1>1, <1>4, <1>6
<1> HIDE DEF x
<1>8. DiskInv'
  BY <1>2 DEF DiskInv, JobTells, Right, Clones, Switches
<1>9. ASSUME NEW p \in Projects, NEW r \in store[p], Runs(p, r) PROVE Runs(p, r)'
  <2>1. PICK n \in Needs(p, r) : \E c \in ctr[n] :
          /\ ctr[n] = {c}
          /\ p \in DOMAIN c.serves /\ c.serves[p] = files[p]
          /\ IF r.kind = "shared" THEN r.mode \in ips ELSE route[p] = {n[2]}
    BY <1>9 DEF Runs
  <2>2. PICK c \in ctr[n] :
          /\ ctr[n] = {c}
          /\ p \in DOMAIN c.serves /\ c.serves[p] = files[p]
          /\ IF r.kind = "shared" THEN r.mode \in ips ELSE route[p] = {n[2]}
    BY <2>1
  <2>3. n \in Names /\ Needs(p, r)' = Needs(p, r)
    <3>1. r.mode \in Modes
      BY RecordHas DEF IInv
    <3>. QED BY <3>1 DEF Needs, Names
  <2>4. CASE n # x
    <3>1. ctr'[n] = {c}
      BY <1>6, <2>2, <2>3, <2>4
    <3>. QED BY <1>2, <2>2, <2>3, <3>1 DEF Runs
  <2>5. CASE n = x
    <3>1. c = d
      BY <1>1, <2>2, <2>5
    <3>2. p \in DOMAIN e.serves /\ e.serves[p] = files[p]
      BY <1>7, <2>2, <3>1
    <3>3. ctr'[n] = {e}
      BY <1>6, <2>5
    <3>. QED BY <1>2, <2>2, <2>3, <3>2, <3>3 DEF Runs
  <2>. QED BY <2>4, <2>5
<1>10. ServedInv'
  <2> SUFFICES ASSUME up', Daemon \notin spoiled', NEW p \in Projects, p \notin spoiled',
                      NEW r \in store'[p]
               PROVE  Provided(p, r)'
    BY DEF ServedInv
  <2>1. Provided(p, r)
    BY <1>2 DEF ServedInv
  <2>2. Runs(p, r) => Runs(p, r)'
    BY <1>2, <1>9
  <2>3. UNCHANGED <<store, jobs>>
    BY <1>2
  <2>4. /\ Needs(p, r)' = Needs(p, r)
        /\ \A j \in jobs : /\ Spares(j.work, Needs(p, r))' = Spares(j.work, Needs(p, r))
                           /\ Restores(j.work, Needs(p, r))' = Restores(j.work, Needs(p, r))
                           /\ Sees(j, p, r)' = Sees(j, p, r)
    BY DEF Needs, Spares, Restores, Sees, Deploys, Clones, Switches
  <2> HIDE DEF Needs, Spares, Restores, Sees, Runs
  <2>. QED BY <2>1, <2>2, <2>3, <2>4 DEF Provided
<1>. QED BY <1>8, <1>10

-----------------------------------------------------------------------------
(* The ledger where the calls on one project wait for each other, teardowns included *)

\* Handlers at work are of different projects.
InTurn == \A i, j \in jobs : i.p = j.p => i = j

\* The entry of a teardown is written before its record is deleted.
Leaving(p) == \E j \in jobs : j.p = p /\ j.op = "teardown" /\ j.pc = "emitting"

\* The ledger of p tells of its record, or somebody has still to write, or to delete.
Follows(p) ==
  IF Leaving(p) THEN ledger[p] # <<>> /\ Last(ledger[p]).act = "teardown"
                ELSE Told(p) \/ Writers(p)

TurnLedger ==
  /\ \A j \in jobs : j.op = "teardown" => j.pc \in {"emitting", "working"}
  /\ \A p \in Projects \ spoiled : Follows(p)

\* A handler goes on as the operation and on the project that it is of.
LEMMA SameOp ==
  ASSUME NEW j, Sound(j), Step(j) \/ Fails(j)
  PROVE  Finishes(j) \/ \E k : Becomes(j, k) /\ k.p = j.p /\ k.op = j.op
<1>f. /\ \A pc : [j EXCEPT !.pc = pc].op = j.op /\ [j EXCEPT !.pc = pc].p = j.p
      /\ \A w : [j EXCEPT !.work = w].op = j.op /\ [j EXCEPT !.work = w].p = j.p
      /\ \A pc, w : /\ [j EXCEPT !.pc = pc, !.work = w].op = j.op
                    /\ [j EXCEPT !.pc = pc, !.work = w].p = j.p
      /\ \A pc, l : /\ [j EXCEPT !.pc = pc, !.loc = l].op = j.op
                    /\ [j EXCEPT !.pc = pc, !.loc = l].p = j.p
      /\ \A pc, t : /\ [j EXCEPT !.pc = pc, !.loc.tree = t].op = j.op
                    /\ [j EXCEPT !.pc = pc, !.loc.tree = t].p = j.p
  BY DEF Sound, JobWith
<1>1. \/ \E pc : Becomes(j, [j EXCEPT !.pc = pc])
      \/ \E w : Becomes(j, [j EXCEPT !.work = w])
      \/ \E pc, w : Becomes(j, [j EXCEPT !.pc = pc, !.work = w])
      \/ \E pc, l : Becomes(j, [j EXCEPT !.pc = pc, !.loc = l])
      \/ \E pc, t : Becomes(j, [j EXCEPT !.pc = pc, !.loc.tree = t])
      \/ Finishes(j)
  <2>1. ASSUME NEW t, Cloned(j, t) \/ Staged(j, t)
        PROVE  (\E pc : Becomes(j, [j EXCEPT !.pc = pc])) \/ Finishes(j)
    BY <2>1, Zenon DEF Cloned, Staged, GoesTo, Raises
  <2>2. CASE AcceptManifest(j) \/ ReadStage(j)
    BY <2>2, Zenon DEF AcceptManifest, ReadStage
  <2>3. CASE RejectManifest(j) \/ RejectPin(j) \/ AdoptPin(j) \/ Built(j) \/ Recorded(j)
             \/ DeployEmitted(j) \/ Done(j)
    BY <2>3, Zenon DEF RejectManifest, RejectPin, AdoptPin, Built, Recorded, DeployEmitted, Done,
                       GoesTo, Raises
  <2>4. CASE Brokered(j) \/ Bound(j) \/ ModeEmitted(j) \/ TeardownEmitted(j)
    BY <2>4, Zenon DEF Brokered, Bound, ModeEmitted, TeardownEmitted, Raises
  <2>5. CASE StopContainer(j) \/ CreateContainer(j) \/ NameTaken(j) \/ Fails(j)
    BY <2>5, Zenon DEF StopContainer, CreateContainer, NameTaken, Fails, NextWork, SkipStart, Raises
  <2>. QED BY <2>1, <2>2, <2>3, <2>4, <2>5, Zenon DEF Step
<1>2. ASSUME NEW k, Becomes(j, k), k.p = j.p, k.op = j.op
      PROVE  \E l : Becomes(j, l) /\ l.p = j.p /\ l.op = j.op
  BY <1>2, Zenon
<1>3. CASE \E pc : Becomes(j, [j EXCEPT !.pc = pc])
  <2>1. PICK pc : Becomes(j, [j EXCEPT !.pc = pc])  BY <1>3, Zenon
  <2>. QED BY <2>1, <1>2, <1>f, Zenon
<1>4. CASE \E w : Becomes(j, [j EXCEPT !.work = w])
  <2>1. PICK w : Becomes(j, [j EXCEPT !.work = w])  BY <1>4, Zenon
  <2>. QED BY <2>1, <1>2, <1>f, Zenon
<1>5. CASE \E pc, w : Becomes(j, [j EXCEPT !.pc = pc, !.work = w])
  <2>1. PICK pc, w : Becomes(j, [j EXCEPT !.pc = pc, !.work = w])  BY <1>5, Zenon
  <2>2. [j EXCEPT !.pc = pc, !.work = w].op = j.op /\ [j EXCEPT !.pc = pc, !.work = w].p = j.p
    BY <1>f, Zenon
  <2>. QED BY <2>1, <2>2, <1>2, Zenon
<1>6. CASE \E pc, l : Becomes(j, [j EXCEPT !.pc = pc, !.loc = l])
  <2>1. PICK pc, l : Becomes(j, [j EXCEPT !.pc = pc, !.loc = l])  BY <1>6, Zenon
  <2>2. [j EXCEPT !.pc = pc, !.loc = l].op = j.op /\ [j EXCEPT !.pc = pc, !.loc = l].p = j.p
    BY <1>f, Zenon
  <2>. QED BY <2>1, <2>2, <1>2, Zenon
<1>7. CASE \E pc, t : Becomes(j, [j EXCEPT !.pc = pc, !.loc.tree = t])
  <2>1. PICK pc, t : Becomes(j, [j EXCEPT !.pc = pc, !.loc.tree = t])  BY <1>7, Zenon
  <2>2. [j EXCEPT !.pc = pc, !.loc.tree = t].op = j.op /\ [j EXCEPT !.pc = pc, !.loc.tree = t].p = j.p
    BY <1>f, Zenon
  <2>. QED BY <2>1, <2>2, <1>2, Zenon
<1>. QED BY <1>1, <1>3, <1>4, <1>5, <1>6, <1>7, Zenon

\* It stores and writes for that project alone.
LEMMA SamePlace ==
  ASSUME IInv, NEW j, Step(j) \/ Fails(j), NEW p \in Projects, p # j.p
  PROVE  store'[p] = store[p] /\ ledger'[p] = ledger[p]
<1>1. CASE Built(j) \/ Recorded(j)
  BY <1>1 DEF Built, Recorded, Saves, Appends, IInv
<1>2. CASE Bound(j)
  <2>1. \E r, e : Saves(j.p, r) /\ Appends(j.p, e)
    BY <1>2, Zenon DEF Bound
  <2>. QED BY <2>1 DEF Saves, Appends, IInv
<1>3. CASE TeardownEmitted(j)
  <2>1. UNCHANGED ledger /\ (UNCHANGED store \/ store' = [store EXCEPT ![j.p] = {}])
    BY <1>3, Zenon DEF TeardownEmitted
  <2>. QED BY <2>1 DEF IInv
<1>4. CASE ModeEmitted(j) \/ StopContainer(j) \/ CreateContainer(j) \/ Brokered(j)
  <2>1. UNCHANGED disk
    BY <1>4, Zenon DEF ModeEmitted, StopContainer, CreateContainer, Brokered
  <2>. QED BY <2>1 DEF disk
<1>5. ASSUME NEW t, Cloned(j, t) \/ Staged(j, t) PROVE UNCHANGED <<store, ledger>>
  BY <1>5 DEF Cloned, Staged
<1>. QED BY <1>1, <1>2, <1>3, <1>4, <1>5 DEF Step, Fails, AcceptManifest, RejectManifest, ReadStage,
       RejectPin, AdoptPin, DeployEmitted, NameTaken, Done, disk

\* What disturbs neither the record of p nor its ledger nor its handlers.
LEMMA LedgerAside ==
  ASSUME NEW p, Follows(p), store'[p] = store[p], ledger'[p] = ledger[p],
         \A j : j.p = p => (j \in jobs' <=> j \in jobs)
  PROVE  Follows(p)'
<1>1. (Leaving(p)' <=> Leaving(p)) /\ (Writers(p)' <=> Writers(p))
  BY DEF Leaving, Writers
<1>2. Told(p)' <=> Told(p)
  BY DEF Told
<1>. QED BY <1>1, <1>2 DEF Follows

\* Where p is not being torn down its ledger lags only behind those who write.
LEMMA LedgerKept ==
  ASSUME IInv, Accounts, NEW p \in Projects \ spoiled', Follows(p),
         \A j \in jobs \cup jobs' : j.p = p => j.op # "teardown"
  PROVE  Follows(p)'
<1>1. ~Leaving(p) /\ ~Leaving(p)'
  BY DEF Leaving
<1>2. Told(p)' \/ Writers(p)'
  BY <1>1, ToldKept DEF Follows
<1>. QED BY <1>1, <1>2 DEF Follows

\* A teardown that is the only handler of its project deletes the record whose end it has
\* told, or leaves it spoiled.
LEMMA TeardownsLedger ==
  ASSUME IInv, TurnLedger, NEW j \in jobs, j.op = "teardown", Step(j) \/ Fails(j),
         \A i \in jobs : i.p = j.p => i = j
  PROVE  /\ \A k \in jobs' \ jobs : k.pc = "working"
         /\ j.p \notin spoiled' => Follows(j.p)'
<1> DEFINE p == j.p
<1>s. Sound(j) /\ p \in Projects
  BY DEF IInv, JobsSound, Sound
<1>0. j.pc \in {"emitting", "working"}
  BY DEF TurnLedger
<1>w. ~Writers(p)
  BY <1>0 DEF Writers, Writing
<1>1. ASSUME Raises(j) PROVE p \in spoiled' /\ jobs' \subseteq jobs
  BY <1>1 DEF Raises, Finishes
<1>2. ASSUME j.pc = "working", UNCHANGED <<store, ledger, spoiled>>,
             Finishes(j) \/ \E w : Becomes(j, [j EXCEPT !.work = w])
      PROVE  /\ \A k \in jobs' \ jobs : k.pc = "working"
             /\ p \notin spoiled' => Follows(p)'
  <2>1. \A k \in jobs' : k \in jobs \/ k.pc = "working"
    BY <1>s, <1>2 DEF Finishes, Becomes, Sound, JobWith
  <2>2. \A k \in jobs' : k.p = p => k.pc = "working"
    BY <1>2, <2>1
  <2>3. ~Leaving(p) /\ ~Leaving(p)'
    BY <1>2, <2>2 DEF Leaving
  <2>4. p \notin spoiled => Told(p)
    BY <1>s, <1>w, <2>3 DEF TurnLedger, Follows
  <2>. QED BY <1>2, <2>1, <2>3, <2>4 DEF Follows, Told
<1>3. CASE TeardownEmitted(j)
  <2>1. j.pc = "emitting" /\ UNCHANGED ledger
    BY <1>3, Zenon DEF TeardownEmitted
  <2>2. CASE Raises(j)
    BY <1>1, <2>2
  <2>3. CASE /\ store' = [store EXCEPT ![p] = {}] /\ UNCHANGED spoiled
             /\ \E w : Becomes(j, [j EXCEPT !.pc = "working", !.work = w])
    <3>0. PICK w : Becomes(j, [j EXCEPT !.pc = "working", !.work = w])
      BY <2>3
    <3>1. \A k \in jobs' : k \in jobs \ {j} \/ k.pc = "working"
      BY <1>s, <3>0 DEF Becomes, Sound, JobWith
    <3>2. ~Leaving(p)'
      BY <3>1 DEF Leaving
    <3>3. Leaving(p)
      BY <2>1 DEF Leaving
    <3>4. p \notin spoiled => Last(ledger[p]).act = "teardown"
      BY <1>s, <3>3 DEF TurnLedger, Follows
    <3>5. store'[p] = {}
      BY <1>s, <2>3 DEF IInv
    <3>6. p \notin spoiled' => Told(p)'
      BY <2>1, <2>3, <3>4, <3>5 DEF Told
    <3>. QED BY <3>1, <3>2, <3>6 DEF Follows
  <2>. QED BY <1>3, <2>2, <2>3, Zenon DEF TeardownEmitted
<1>4. CASE NameTaken(j) \/ Fails(j)
  <2>1. Raises(j)
    BY <1>4, Zenon DEF NameTaken, Fails
  <2>. QED BY <1>1, <2>1
<1>5. CASE StopContainer(j) \/ CreateContainer(j) \/ Done(j)
  <2>1. /\ j.pc = "working" /\ UNCHANGED <<store, ledger, spoiled>>
        /\ Finishes(j) \/ \E w : Becomes(j, [j EXCEPT !.work = w])
    BY <1>5, Zenon DEF StopContainer, CreateContainer, Done, NextWork, disk, history
  <2>. QED BY <1>2, <2>1
<1>6. ASSUME NEW t, Cloned(j, t) \/ Staged(j, t) PROVE FALSE
  BY <1>0, <1>6 DEF Cloned, Staged
<1>7. ~(AcceptManifest(j) \/ RejectManifest(j) \/ ReadStage(j) \/ RejectPin(j) \/ AdoptPin(j)
        \/ Built(j) \/ Brokered(j) \/ Recorded(j) \/ DeployEmitted(j) \/ ModeEmitted(j))
  BY <1>0 DEF AcceptManifest, RejectManifest, ReadStage, RejectPin, AdoptPin, Built, Brokered,
              Recorded, DeployEmitted, ModeEmitted
<1>8. ~Bound(j)
  BY <1>0, Zenon DEF Bound
<1>. QED BY <1>3, <1>4, <1>5, <1>6, <1>7, <1>8 DEF Step

\* What a step of one handler leaves to the others.
LEMMA StepsLedger ==
  ASSUME IInv, Accounts, InTurn, TurnLedger, NEW j \in jobs, Step(j) \/ Fails(j)
  PROVE  TurnLedger'
<1>1. Sound(j) /\ \A i \in jobs : i.p = j.p => i = j
  BY DEF IInv, JobsSound, InTurn
<1>2. Finishes(j) \/ \E k : Becomes(j, k) /\ k.p = j.p /\ k.op = j.op
  BY <1>1, SameOp
<1>3. \A k \in jobs' : k \in jobs \/ (k.p = j.p /\ k.op = j.op)
  BY <1>2 DEF Finishes, Becomes
<1>4. \A k \in jobs' : k.op = "teardown" => k.pc \in {"emitting", "working"}
  <2>1. CASE j.op = "teardown"
    BY <1>1, <2>1, TeardownsLedger DEF TurnLedger
  <2>2. CASE j.op # "teardown"
    BY <1>3, <2>2 DEF TurnLedger
  <2>. QED BY <2>1, <2>2
<1>5. ASSUME NEW p \in Projects \ spoiled' PROVE Follows(p)'
  <2>0. Follows(p)
    BY DEF Accounts, TurnLedger
  <2>1. CASE p # j.p
    <3>1. \A k : k.p = p => (k \in jobs' <=> k \in jobs)
      BY <1>2, <2>1 DEF Finishes, Becomes
    <3>. QED BY <1>1, <2>0, <2>1, <3>1, SamePlace, LedgerAside
  <2>2. CASE p = j.p /\ j.op = "teardown"
    BY <1>1, <2>2, TeardownsLedger
  <2>3. CASE p = j.p /\ j.op # "teardown"
    <3>1. \A k \in jobs \cup jobs' : k.p = p => k.op # "teardown"
      BY <1>1, <1>3, <2>3
    <3>. QED BY <2>0, <3>1, LedgerKept
  <2>. QED BY <2>1, <2>2, <2>3
<1>. QED BY <1>4, <1>5 DEF TurnLedger

\* A call finds nobody at work on its project, or is refused.
LEMMA CallsLedger ==
  ASSUME IInv, Accounts, InTurn', TurnLedger, NEW s \in Slots, NEW p \in Projects, Calls(s, p)
  PROVE  TurnLedger'
<1>a. \A o : Accepts(o, s) => \A i \in jobs : i.id # s
  BY DEF Accepts
<1>n. \A o, pc, r, pin : LET k == NewJob(s, p, o, pc, r, pin)
                         IN  k.id = s /\ k.p = p /\ k.op = o /\ k.pc = pc
  BY DEF NewJob
<1>e. \A r : Saves(p, r) => \A q \in Projects \ {p} : store'[q] = store[q]
  BY DEF Saves, IInv
<1>l. \A e : Appends(p, e) => \A q \in Projects \ {p} : ledger'[q] = ledger[q]
  BY DEF Appends, IInv
\* The new handler is the only one of p.
<1>1. ASSUME NEW k, k.id = s, k.p = p, \A i \in jobs : i.id # s, jobs' = jobs \cup {k},
             \A q \in Projects \ {p} : store'[q] = store[q] /\ ledger'[q] = ledger[q],
             k.op = "teardown" => k.pc = "emitting" /\ Follows(p)'
      PROVE  TurnLedger'
  <2>1. \A i \in jobs : i.p # p
    BY <1>1 DEF InTurn
  <2>2. ASSUME NEW q \in Projects \ spoiled' PROVE Follows(q)'
    <3>0. Follows(q)
      BY DEF Accounts, TurnLedger
    <3>1. CASE q # p
      <4>1. \A i : i.p = q => (i \in jobs' <=> i \in jobs)
        BY <1>1, <3>1
      <4>. QED BY <1>1, <3>0, <3>1, <4>1, LedgerAside
    <3>2. CASE q = p /\ k.op # "teardown"
      <4>1. \A i \in jobs \cup jobs' : i.p = q => i.op # "teardown"
        BY <1>1, <2>1, <3>2
      <4>. QED BY <3>0, <4>1, LedgerKept
    <3>. QED BY <1>1, <3>1, <3>2
  <2>3. \A j \in jobs' : j.op = "teardown" => j.pc \in {"emitting", "working"}
    BY <1>1 DEF TurnLedger
  <2>. QED BY <2>2, <2>3 DEF TurnLedger
<1>2. ASSUME UNCHANGED <<store, ledger, jobs>> PROVE TurnLedger'
  <2>1. \A q \in Projects \ spoiled' : Follows(q)'
    BY <1>2, LedgerAside DEF Accounts, TurnLedger
  <2>. QED BY <1>2, <2>1 DEF TurnLedger
<1>3. ASSUME NEW r, NEW t, Deploy(s, p, r) \/ Import(s, p, r, t) PROVE TurnLedger'
  <2>1. PICK pc, pin : /\ jobs' = jobs \cup {NewJob(s, p, "deploy", pc, r, pin)}
                       /\ UNCHANGED <<store, ledger>> /\ \A i \in jobs : i.id # s
    BY <1>a, <1>3, Zenon DEF Deploy, Import
  <2>. QED BY <1>1, <1>n, <2>1
<1>4. ASSUME NEW r, NEW t, Upload(s, p, r, t) PROVE TurnLedger'
  <2>1. UNCHANGED <<store, ledger>> /\ \A i \in jobs : i.id # s
    BY <1>a, <1>4 DEF Upload
  <2>2. ASSUME NEW a, jobs' = jobs \cup {NewJob(s, p, "deploy", "building", a, {})}
        PROVE  TurnLedger'
    BY <1>1, <1>n, <2>1, <2>2
  <2>. QED BY <1>2, <1>4, <2>1, <2>2 DEF Upload
<1>5. CASE Redeploy(s, p)
  <2>1. PICK r : /\ jobs' = jobs \cup {NewJob(s, p, "deploy", "cloning", r, {})}
                 /\ UNCHANGED <<store, ledger>> /\ \A i \in jobs : i.id # s
    BY <1>a, <1>5, Zenon DEF Redeploy
  <2>. QED BY <1>1, <1>n, <2>1
<1>6. CASE Promote(s, p)
  <2>1. PICK a : /\ Saves(p, a) /\ UNCHANGED ledger
                 /\ jobs' = jobs \cup {NewJob(s, p, "promote", "binding", a, {})}
                 /\ \A i \in jobs : i.id # s
    BY <1>a, <1>6, Zenon DEF Promote
  <2>. QED BY <1>1, <1>e, <1>n, <2>1
<1>7. CASE Unpromote(s, p)
  <2>1. PICK a : /\ Saves(p, a) /\ Appends(p, EntryFor("unpromote", a))
                 /\ jobs' = jobs \cup {NewJob(s, p, "unpromote", "emitting", a, {})}
                 /\ \A i \in jobs : i.id # s
    BY <1>a, <1>7, Zenon DEF Unpromote
  <2>. QED BY <1>1, <1>e, <1>l, <1>n, <2>1
<1>8. CASE Teardown(s, p)
  <2>1. PICK r \in store[p] :
          /\ Appends(p, EntryFor("teardown", r)) /\ UNCHANGED store
          /\ jobs' = jobs \cup {NewJob(s, p, "teardown", "emitting", r, {})}
          /\ \A i \in jobs : i.id # s
    BY <1>a, <1>8, Zenon DEF Teardown
  <2>2. EntryFor("teardown", r) \in Entry /\ ledger[p] \in Seq(Entry)
    BY EntryTyped DEF IInv, QuotedRecord
  <2>3. ledger'[p] = Append(ledger[p], EntryFor("teardown", r))
    BY <2>1 DEF Appends, IInv
  <2>4. Last(ledger'[p]).act = "teardown" /\ ledger'[p] # <<>>
    BY <2>2, <2>3, LastAppended DEF EntryFor
  <2>5. Leaving(p)'
    <3>1. PICK k \in jobs' : k = NewJob(s, p, "teardown", "emitting", r, {})
      BY <2>1
    <3>. QED BY <1>n, <3>1 DEF Leaving
  <2>6. Follows(p)'
    BY <2>4, <2>5 DEF Follows
  <2>. QED BY <1>1, <1>l, <1>n, <2>1, <2>6
<1>. QED BY <1>3, <1>4, <1>5, <1>6, <1>7, <1>8 DEF Calls

LEMMA NextTurnLedger ==
  ASSUME IInv, NoneWhileDown, InTurn, InTurn', TurnLedger, [Next]_vars
  PROVE  TurnLedger'
<1>0. Accounts
  BY NextAccounts
<1>1. ASSUME NEW s \in Slots, NEW p \in Projects, Calls(s, p) PROVE TurnLedger'
  BY <1>0, <1>1, CallsLedger
<1>2. ASSUME NEW j \in jobs, Step(j) \/ Fails(j) PROVE TurnLedger'
  BY <1>0, <1>2, StepsLedger
\* Where the handlers of a project are as they were.
<1>3. ASSUME UNCHANGED ledger, \A p \in Projects \ spoiled' : store'[p] = store[p], \A k \in jobs' : k.op = "teardown" => k \in jobs,
             \A p \in Projects \ spoiled' : \A j : j.p = p => (j \in jobs' <=> j \in jobs)
      PROVE  TurnLedger'
  <2>1. \A p \in Projects \ spoiled' : Follows(p)'
    BY <1>0, <1>3, LedgerAside DEF Accounts, TurnLedger
  <2>. QED BY <1>3, <2>1 DEF TurnLedger
<1>4. CASE \E m \in Modes, p \in Projects : Respawn(m, p)
  BY <1>3, <1>4 DEF Respawn, disk, history
<1>5. CASE Crash
  <2>1. spoiled' = spoiled \cup {j.p : j \in jobs} /\ jobs' = {} /\ UNCHANGED <<store, ledger>>
    BY <1>5 DEF Crash, Dies, disk
  <2>. QED BY <1>3, <2>1
<1>8. ASSUME NEW q \in Projects, TornSave(q) PROVE TurnLedger'
  <2>1. /\ spoiled' = spoiled \cup {q} \cup {j.p : j \in jobs} /\ jobs' = {}
        /\ store' = [store EXCEPT ![q] = {}] /\ UNCHANGED ledger
    BY <1>8 DEF TornSave, Dies
  <2>. QED BY <1>3, <2>1 DEF IInv
<1>6. CASE Boot
  <2>1. jobs = {} /\ UNCHANGED <<store, ledger, spoiled>>
    BY <1>6, Zenon DEF Boot, NoneWhileDown, disk, history
  <2>2. \A k \in jobs' : k.op = "recover" /\ k.p = Daemon
    <3>1. \E w, loc : jobs' = {[NewJob("boot", Daemon, "recover", "working", loc, {}) EXCEPT !.work = w]}
      BY <1>6, Zenon DEF Boot
    <3>. QED BY <3>1 DEF NewJob
  <2>. QED BY <1>3, <2>1, <2>2, ConstantsAssumption
<1>7. CASE UNCHANGED vars
  BY <1>3, <1>7 DEF vars, disk, history
<1>. QED BY <1>1, <1>2, <1>4, <1>5, <1>6, <1>7, <1>8 DEF Next

LEMMA InitTurnLedger == Init => TurnLedger
BY InitLedger DEF LedgerInv, TurnLedger, Follows, Leaving, Init

LEMMA TurnTells == TurnLedger => LedgerTellsRecord
<1> SUFFICES ASSUME TurnLedger, NEW p \in Projects, Settled(p) PROVE Told(p)
  BY DEF LedgerTellsRecord, Told
<1>. QED BY DEF TurnLedger, Follows, Settled, Writers, Leaving

\* As long as nobody calls for a project that another call, or its boot, is at work on, the
\* ledger of a settled project tells its record, teardowns included, whatever is done to
\* the others meanwhile (deploy.py:433-457): the entry of a teardown is written first, and
\* only another handler of that project could store a record before the delete.
THEOREM LedgerTellsRecordInTurn == Spec /\ []InTurn => []LedgerTellsRecord
<1>1. Init => NoneWhileDown
  BY DEF Init, NoneWhileDown
<1>2. IInv /\ NoneWhileDown /\ InTurn /\ InTurn' /\ TurnLedger /\ [Next]_vars => TurnLedger'
  BY NextTurnLedger
<1>. QED BY <1>1, <1>2, Safety, InitTurnLedger, NextDown, TurnTells, PTL DEF Spec


-----------------------------------------------------------------------------
(* ServedIsRecorded *)

\* What serving needs of one state: no handler but one, both halves above, and the ledger.
ServingInv == TypeInv /\ NoneWhileDown /\ Alone /\ DiskInv /\ ServedInv /\ TurnLedger

LEMMA InitServing == Init => ServingInv
<1> SUFFICES ASSUME Init PROVE ServingInv
  OBVIOUS
<1>1. TypeInv
  BY InitTypeInv
<1>2. jobs = {} /\ up = FALSE
  BY DEF Init
<1>3. NoneWhileDown /\ Alone /\ ServedInv
  BY <1>2 DEF NoneWhileDown, Alone, ServedInv
<1>4. PICK f \in [Projects -> {r \in Manifests : Valid(r)}] :
        store = [p \in Projects |->
                   IF files[p] = NoTree THEN {} ELSE {[f[p] EXCEPT !.tree = files[p]]}]
  BY DEF Init
<1>5. ASSUME NEW p \in Projects, NEW r \in store[p]
      PROVE  /\ files[p] = r.tree /\ r.tree \in Trees
             /\ store[p] = {r}
  <2>1. files[p] # NoTree /\ store[p] = {[f[p] EXCEPT !.tree = files[p]]}
    BY <1>4, <1>5
  <2>2. f[p] \in Manifests /\ files[p] \in Code
    BY DEF Init
  <2>3. [f[p] EXCEPT !.tree = files[p]].tree = files[p]
    BY <2>2, ManifestSound DEF QuotedRecord, Record
  <2>. QED BY <2>1, <2>2, <2>3 DEF Code
<1>6. DiskInv
  BY <1>2, <1>5 DEF DiskInv, Right
<1>7. TurnLedger
  BY InitTurnLedger
<1>. QED BY <1>1, <1>3, <1>6, <1>7 DEF ServingInv

LEMMA NextServing == OneAtATime /\ ServingInv /\ [Next]_vars => ServingInv'
<1> SUFFICES ASSUME OneAtATime, ServingInv, [Next]_vars PROVE ServingInv'
  OBVIOUS
<1>0. TypeInv /\ IInv /\ WorkInv /\ PlacesInv /\ NoneWhileDown /\ Alone /\ DiskInv /\ ServedInv
  BY DEF ServingInv, TypeInv
<1>1. TypeInv' /\ NoneWhileDown' /\ Alone'
  BY <1>0, NextTypeInv, NextDown, NextAlone
<1>10. TurnLedger'
  BY <1>0, <1>1, NextTurnLedger DEF ServingInv, Alone, InTurn
<1>2. ASSUME NEW s \in Slots, NEW p \in Projects, Calls(s, p) PROVE DiskInv' /\ ServedInv'
  BY <1>0, <1>2, CallsServed
<1>3. ASSUME NEW j \in jobs PROVE jobs = {j}
  BY <1>0 DEF Alone
<1>4. ASSUME NEW j \in jobs, Step(j) PROVE DiskInv' /\ ServedInv'
  <2>1. jobs = {j}
    BY <1>3
  <2>2. CASE \/ \E t \in Trees : Cloned(j, t) \/ Staged(j, t)
             \/ AcceptManifest(j) \/ RejectManifest(j) \/ ReadStage(j) \/ RejectPin(j) \/ AdoptPin(j)
             \/ Built(j) \/ Recorded(j) \/ Bound(j) \/ DeployEmitted(j) \/ Done(j)
    BY <1>0, <2>1, <2>2, StepsAside
  <2>3. CASE Brokered(j)
    BY <1>0, <2>1, <2>3, BrokeredServed
  <2>4. CASE ModeEmitted(j)
    BY <1>0, <2>1, <2>4, ModeEmittedServed
  <2>5. CASE TeardownEmitted(j)
    BY <1>0, <2>1, <2>5, TeardownEmittedServed
  <2>6. CASE StopContainer(j) \/ CreateContainer(j)
    BY <1>0, <2>1, <2>6, WorkServed
  <2>7. CASE NameTaken(j)
    <3>1. /\ j.pc = "working" /\ j.work # <<>> /\ UNCHANGED <<disk, serving, up>>
          /\ (j.op = "recover" /\ SkipStart(j)) \/ Raises(j)
      BY <2>7, Zenon DEF NameTaken
    <3>. QED BY <1>0, <2>1, <3>1, SkipStartServed, RaisesServed
  <2>. QED BY <1>4, <2>2, <2>3, <2>4, <2>5, <2>6, <2>7 DEF Step
<1>5. ASSUME NEW j \in jobs, Fails(j) PROVE DiskInv' /\ ServedInv'
  <2>1. /\ UNCHANGED <<disk, serving, up>>
        /\ (j.op = "recover" /\ j.work # <<>> /\ SkipStart(j)) \/ Raises(j)
    BY <1>5, Zenon DEF Fails
  <2>2. jobs = {j} /\ (j.op = "recover" => j.pc = "working")
    BY <1>0, <1>3 DEF IInv, JobsSound, Sound
  <2>. QED BY <1>0, <2>1, <2>2, SkipStartServed, RaisesServed
<1>6. ASSUME NEW m \in Modes, NEW p \in Projects, Respawn(m, p) PROVE DiskInv' /\ ServedInv'
  BY <1>0, <1>6, RespawnServed
<1>7. ASSUME Crash \/ \E p \in Projects : TornSave(p) PROVE DiskInv' /\ ServedInv'
  BY <1>0, <1>7, CrashServed
<1>8. ASSUME Boot PROVE DiskInv' /\ ServedInv'
  BY <1>0, <1>8, BootServed
<1>9. ASSUME UNCHANGED vars PROVE DiskInv' /\ ServedInv'
  <2>1. UNCHANGED <<store, files, stage, ctr, route, ips, up, jobs, spoiled>>
    BY <1>9 DEF vars, disk, serving, history
  <2>2. DiskInv'
    BY <1>0, <2>1 DEF DiskInv, JobTells, Right, Clones, Switches
  <2>3. ServedInv'
    <3>1. \A p, r : /\ Needs(p, r)' = Needs(p, r)
                    /\ Runs(p, r) => Runs(p, r)'
      BY <2>1 DEF Runs, Needs
    <3>2. \A p, r, j : Sees(j, p, r)' = Sees(j, p, r)
      BY DEF Sees, Deploys, Clones, Switches
    <3>3. \A W, N : Spares(W, N)' = Spares(W, N) /\ Restores(W, N)' = Restores(W, N)
      BY DEF Spares, Restores
    <3> HIDE DEF Sees, Spares, Restores, Runs
    <3>4. ASSUME NEW p, NEW r, Provided(p, r) PROVE Provided(p, r)'
      BY <2>1, <3>1, <3>2, <3>3, <3>4 DEF Provided, Needs, Spares, Restores, Sees, Deploys, Clones, Switches
    <3>. QED BY <1>0, <2>1, <3>4 DEF ServedInv
  <2>. QED BY <2>2, <2>3
<1>. QED BY <1>1, <1>2, <1>4, <1>5, <1>6, <1>7, <1>8, <1>9, <1>10 DEF Next, ServingInv

\* At rest every project that was not left half done runs what its record names, and
\* its ledger tells it.
LEMMA ServingTells == ServingInv => ServedIsRecorded
<1> SUFFICES ASSUME ServingInv, up, jobs = {}, Daemon \notin spoiled,
                    NEW p \in Projects \ spoiled, NEW r \in store[p]
             PROVE  /\ files[p] = r.tree /\ Served(p) = {r.tree}
                    /\ ledger[p] # <<>>
                    /\ Last(ledger[p]).mode = r.mode /\ Last(ledger[p]).tree = r.tree
  BY DEF ServedIsRecorded
<1>0. IInv /\ PlacesInv /\ DiskInv /\ ServedInv
  BY DEF ServingInv, TypeInv
<1>1. files[p] = r.tree /\ store[p] = {r}
  <2>1. Right(p, r)
    BY <1>0 DEF DiskInv
  <2>2. store[p] = {r}
    BY <1>0 DEF DiskInv
  <2>. QED BY <2>1, <2>2 DEF Right
<1>2. r.mode \in Modes /\ r.kind \in {"static", "shared", "isolated"}
  BY <1>0, RecordHas DEF IInv
<1> DEFINE T(s) ==
      CASE s.kind = "static" -> {files[p]}
        [] s.kind = "isolated" ->
             UNION {{c.serves[p] : c \in ctr[<<p, m>>]} : m \in route[p]}
        [] s.kind = "shared" ->
             IF s.mode \in ips
             THEN {c.serves[p] : c \in {c \in ctr[<<Daemon, s.mode>>] : p \in DOMAIN c.serves}}
             ELSE {}
<1>3. Served(p) = UNION {T(s) : s \in store[p]}
  BY DEF Served
<1>4. T(r) = {files[p]}
  <2>1. CASE r.kind = "static"
    BY <2>1
  <2>2. CASE r.kind # "static"
    <3>1. Runs(p, r)
      BY <1>0, <2>2 DEF ServedInv, Provided
    <3>2. PICK n \in Needs(p, r) : \E c \in ctr[n] :
            /\ ctr[n] = {c}
            /\ p \in DOMAIN c.serves /\ c.serves[p] = files[p]
            /\ IF r.kind = "shared" THEN r.mode \in ips ELSE route[p] = {n[2]}
      BY <3>1 DEF Runs
    <3>3. PICK c \in ctr[n] :
            /\ ctr[n] = {c}
            /\ p \in DOMAIN c.serves /\ c.serves[p] = files[p]
            /\ IF r.kind = "shared" THEN r.mode \in ips ELSE route[p] = {n[2]}
      BY <3>2
    <3>4. CASE r.kind = "shared"
      <4>1. n = <<Daemon, r.mode>>
        BY <3>4 DEF Needs
      <4>. QED BY <3>3, <3>4, <4>1
    <3>5. CASE r.kind = "isolated"
      <4>1. n = <<p, n[2]>> /\ route[p] = {n[2]}
        BY <3>3, <3>5 DEF Needs
      <4>2. T(r) = UNION {{e.serves[p] : e \in ctr[<<p, m>>]} : m \in route[p]}
        BY <3>5
      <4>3. {e.serves[p] : e \in ctr[<<p, n[2]>>]} = {files[p]}
        BY <3>3, <4>1
      <4>4. T(r) = UNION {{files[p]}}
        BY <4>1, <4>2, <4>3
      <4>. QED BY <4>4
    <3>. QED BY <1>2, <2>2, <3>4, <3>5
  <2>. QED BY <2>1, <2>2
<1> HIDE DEF T
<1>5. ledger[p] # <<>> /\ Last(ledger[p]).mode = r.mode /\ Last(ledger[p]).tree = r.tree
  <2>1. Told(p)
    BY DEF ServingInv, TurnLedger, Follows, Writers, Leaving
  <2>2. PICK a : ledger[p] # <<>> /\ Last(ledger[p]) = EntryFor(a, r)
    BY <2>1 DEF Told
  <2>. QED BY <2>2 DEF EntryFor
<1>. QED BY <1>1, <1>3, <1>4, <1>5

\* At rest, what a project's record names is what its files are, what requests reach and
\* what the last entry of its ledger tells, after faults and restarts too, if callers wait
\* for each other: every handler that takes a container away leaves the work that brings it
\* back (runtimes.py:888-982, deploy.py:303-380, 548-613).
THEOREM ServedIsRecordedHolds == OneAtATime /\ Spec => []ServedIsRecorded
<1>1. ASSUME OneAtATime PROVE Spec => []ServedIsRecorded
  <2>1. ServingInv /\ [Next]_vars => ServingInv'
    BY <1>1, NextServing
  <2>. QED BY <2>1, InitServing, ServingTells, PTL DEF Spec
<1>. QED BY <1>1

\* If callers wait for each other the ledger of a settled project tells its record where
\* projects are torn down too: the entry is written first, and the delete that follows it
\* is not overtaken by another handler (deploy.py:433-457).
THEOREM SerialLedgerTellsRecordHolds == OneAtATime /\ Spec => []LedgerTellsRecord
<1>1. ASSUME OneAtATime PROVE Spec => []LedgerTellsRecord
  <2>1. ServingInv /\ [Next]_vars => ServingInv'
    BY <1>1, NextServing
  <2>2. ServingInv => LedgerTellsRecord
    BY TurnTells DEF ServingInv
  <2>. QED BY <2>1, <2>2, InitServing, PTL DEF Spec
<1>. QED BY <1>1
=============================================================================
