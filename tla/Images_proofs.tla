---------------------------- MODULE Images_proofs ----------------------------
(***************************************************************************)
(* What is proved of Images for every set of projects, tags and digests    *)
(* and every bound, with the calls on different projects overlapping:      *)
(* a project whose reference has not moved runs what its record and ledger *)
(* say, and the pin it was imported with.                                  *)
(*                                                                         *)
(* Both rest on two facts: docker's copy of a reference that has not moved *)
(* is what the registry serves, and a job past its pin check works on the  *)
(* record that is stored.  A step is one project's own (Local), and what   *)
(* the invariant says of the others is kept by it (LocalKeeps).            *)
(***************************************************************************)
EXTENDS Images, TLAPS

\* docker's copy of a reference is of the registry's digest until that moves.
CopiesTrue == \A f \in Refs \ moved : cache[f] \subseteq {Served(f)}

\* A project has one record.
Single(p) == \A r, s \in store[p] : r = s

JobHolds(j) ==
  /\ j.pc = "pinning" => j.op = "deploy"
  /\ j.pc = "quoting" => j.op = "promote"
  /\ j.pc # "pinning" => store[j.p] = {j.loc}
  /\ j.pc \in {"creating", "reading"} => cache[j.loc.ref] # {}
  /\ j.op = "deploy" /\ j.pc # "pinning" /\ j.pin # {} /\ j.loc.ref \notin moved
       => j.pin = {Served(j.loc.ref)}

\* A project is worked on by one job, or waits for its recovery with its record.
Alone(p) ==
  /\ \A j, k \in jobs : j.p = p /\ k.p = p => j = k
  /\ \A q \in queue : q[1] = p => q[2] \in store[p] /\ \A j \in jobs : j.p # p

Unmoved(p) == \A r \in store[p] : r.ref \notin moved
Deploying(p) == \E j \in jobs : j.p = p /\ j.op = "deploy" /\ j.pc # "pinning"
Reading(p) == \E j \in jobs : j.p = p /\ j.op = "deploy" /\ j.pc = "reading"
Whole(p) == p \notin spoiled /\ ~Deploying(p)

\* The record, the ledger and the pin of a project that was deployed to the end.
Told(p) ==
  Unmoved(p) /\ Whole(p) => \A r \in store[p] :
    /\ r.digest = {Served(r.ref)}
    /\ ledger[p] # <<>> /\ Last(ledger[p]).digest = r.digest
    /\ pinned[p] \in {{}, {Served(r.ref)}}

\* What it runs, and what one runs whose deploy has made the container.
RunsOwn(p) ==
  Unmoved(p) /\ (Whole(p) \/ Reading(p)) =>
    \A r \in store[p] : \A m \in route[p] : ctr[<<p, m>>] \subseteq {Served(r.ref)}

IdleWhileDown == ~up => jobs = {} /\ queue = {}

IInv ==
  /\ TypeOK
  /\ CopiesTrue
  /\ IdleWhileDown
  /\ \A j \in jobs : JobHolds(j)
  /\ \A p \in Projects : Single(p) /\ Alone(p) /\ Told(p) /\ RunsOwn(p)

-----------------------------------------------------------------------------
LEMMA InitIInv == Init => IInv
BY DEF Init, IInv, TypeOK, CopiesTrue, IdleWhileDown, Single, Alone, Told, RunsOwn

\* The last entry of a ledger is the one that was appended.
LEMMA LastAppended ==
  ASSUME NEW s \in Seq(Entry), NEW e \in Entry
  PROVE  Append(s, e) \in Seq(Entry) /\ Append(s, e) # <<>> /\ Last(Append(s, e)) = e
<1>1. Append(s, e) \in Seq(Entry) /\ Len(Append(s, e)) = Len(s) + 1 /\ Len(s) \in Nat
  OBVIOUS
<1>2. Append(s, e)[Len(s) + 1] = e
  OBVIOUS
<1>3. QED
  BY <1>1, <1>2 DEF Last

\* A step of p's own: of all the others nothing changes but that one may be spoiled.
Local(p) ==
  /\ UNCHANGED <<registry, moved>>
  /\ \A f \in Refs : cache'[f] = cache[f] \/ cache'[f] = {Served(f)}
  /\ \A q \in Projects \ {p} :
       /\ store'[q] = store[q] /\ ledger'[q] = ledger[q]
       /\ route'[q] = route[q] /\ pinned'[q] = pinned[q]
       /\ q \in spoiled => q \in spoiled'
       /\ \A m \in Modes : ctr'[<<q, m>>] = ctr[<<q, m>>]
  /\ \A k \in jobs \cup jobs' : k.p # p => (k \in jobs <=> k \in jobs')
  /\ queue' \subseteq queue
  /\ up /\ up'

LEMMA LocalKeeps ==
  ASSUME IInv, TypeOK', NEW p \in Projects, Local(p),
         \A j \in jobs' : j.p = p => JobHolds(j)',
         Single(p)', Alone(p)', Told(p)', RunsOwn(p)'
  PROVE  IInv'
<1>1. \A f \in Refs : Served(f)' = Served(f)
  BY DEF Served, Local
<1>2. CopiesTrue'
  BY <1>1 DEF CopiesTrue, Local, IInv
<1>3. ASSUME NEW j \in jobs', j.p # p
      PROVE  JobHolds(j)'
  <2>1. j \in jobs /\ j \in Job /\ j.p \in Projects /\ j.loc.ref \in Refs
    BY <1>3 DEF Local, IInv, TypeOK, Job, Record
  <2>2. JobHolds(j) /\ store'[j.p] = store[j.p] /\ moved' = moved
    BY <1>3, <2>1 DEF Local, IInv
  <2>3. cache[j.loc.ref] # {} => cache'[j.loc.ref] # {}
    BY <2>1 DEF Local
  <2>4. QED
    BY <1>1, <2>1, <2>2, <2>3 DEF JobHolds
<1>4. ASSUME NEW q \in Projects \ {p}
      PROVE  Single(q)' /\ Alone(q)' /\ Told(q)' /\ RunsOwn(q)'
  <2>1. /\ store'[q] = store[q] /\ ledger'[q] = ledger[q] /\ moved' = moved
        /\ route'[q] = route[q] /\ pinned'[q] = pinned[q]
        /\ q \notin spoiled' => q \notin spoiled
        /\ \A m \in Modes : ctr'[<<q, m>>] = ctr[<<q, m>>]
        /\ queue' \subseteq queue
        /\ \A j \in jobs' : j.p = q => j \in jobs
        /\ \A j \in jobs : j.p = q => j \in jobs'
    BY DEF Local
  <2>2. Single(q) /\ Alone(q) /\ Told(q) /\ RunsOwn(q)
    BY DEF IInv
  <2>3. Single(q)' /\ Alone(q)'
    BY <2>1, <2>2 DEF Single, Alone
  <2>4. Unmoved(q)' = Unmoved(q) /\ Reading(q)' = Reading(q) /\ (Whole(q)' => Whole(q))
    BY <2>1 DEF Unmoved, Reading, Whole, Deploying
  <2>5. \A r \in store[q] : Served(r.ref)' = Served(r.ref)
    BY <1>1 DEF IInv, TypeOK, Record
  <2>6. Told(q)'
    BY <2>1, <2>2, <2>4, <2>5 DEF Told
  <2>7. RunsOwn(q)'
    <3>1. route[q] \subseteq Modes
      BY DEF IInv, TypeOK
    <3>2. QED
      BY <2>1, <2>2, <2>4, <2>5, <3>1 DEF RunsOwn
  <2>8. QED
    BY <2>3, <2>6, <2>7
<1>5. IdleWhileDown'
  BY DEF IdleWhileDown, Local
<1>6. QED
  BY <1>2, <1>3, <1>4, <1>5 DEF IInv

-----------------------------------------------------------------------------
(* Handlers *)

\* What is known where a call on p is accepted.
LEMMA Accepted ==
  ASSUME IInv, NEW p \in Projects, Accepts(p)
  PROVE  /\ up /\ requests' \in Nat
         /\ \A j \in jobs : j.p # p
         /\ \A q \in queue : q[1] # p
         /\ ~Deploying(p) /\ ~Reading(p)
BY DEF Accepts, Busy, IInv, TypeOK, Deploying, Reading

LEMMA DeployIInv ==
  ASSUME IInv, NEW p \in Projects, NEW f \in Refs, NEW m \in Modes, Deploy(p, f, m)
  PROVE  IInv'
<1> DEFINE r == New(f, m)
           j == NewJob(p, "deploy", "pulling", r, {})
<1>1. r \in Record
  BY DEF New, Record
<1> HIDE DEF r
<1>2. /\ j \in Job /\ j.p = p /\ j.op = "deploy" /\ j.pc = "pulling" /\ j.loc = r /\ j.pin = {}
  BY <1>1 DEF NewJob, Job
<1> HIDE DEF j
<1>3. /\ up /\ requests' \in Nat
      /\ \A k \in jobs : k.p # p
      /\ \A q \in queue : q[1] # p
  BY Accepted DEF Deploy
<1>4. /\ store' = [store EXCEPT ![p] = {r}] /\ jobs' = jobs \cup {j}
      /\ UNCHANGED <<registry, moved, cache, ctr, ledger, route, up, torn, queue,
                     spoiled, pinned, faults>>
  BY DEF Deploy, Saves, docker, history, r, j
<1>5. TypeOK'
  BY <1>1, <1>2, <1>3, <1>4 DEF IInv, TypeOK
<1>6. store'[p] = {r}
  BY <1>4 DEF IInv, TypeOK
<1>7. Local(p)
  BY <1>2, <1>3, <1>4 DEF Local, IInv, TypeOK
<1>8. JobHolds(j)' /\ Single(p)' /\ Alone(p)'
  BY <1>2, <1>3, <1>4, <1>6 DEF JobHolds, Single, Alone
<1>9. Deploying(p)' /\ ~Reading(p)'
  BY <1>2, <1>3, <1>4 DEF Deploying, Reading
<1>10. Told(p)' /\ RunsOwn(p)'
  BY <1>9 DEF Told, RunsOwn, Whole
<1>11. \A k \in jobs' : k.p = p => JobHolds(k)'
  BY <1>3, <1>4, <1>8
<1>12. QED
  BY <1>5, <1>7, <1>8, <1>10, <1>11, LocalKeeps

LEMMA ImportIInv ==
  ASSUME IInv, NEW p \in Projects, NEW f \in Refs, NEW m \in Modes, NEW d \in Digests,
         Import(p, f, m, d)
  PROVE  IInv'
<1> DEFINE r == New(f, m)
           j == NewJob(p, "deploy", "pinning", r, {d})
<1>1. r \in Record
  BY DEF New, Record
<1> HIDE DEF r
<1>2. /\ j \in Job /\ j.p = p /\ j.op = "deploy" /\ j.pc = "pinning"
  BY <1>1 DEF NewJob, Job
<1> HIDE DEF j
<1>3. /\ up /\ requests' \in Nat
      /\ \A k \in jobs : k.p # p
      /\ \A q \in queue : q[1] # p
      /\ ~Deploying(p) /\ ~Reading(p)
  BY Accepted DEF Import
<1>4. /\ cache' = cache \/ cache' = [cache EXCEPT ![f] = {Served(f)}]
      /\ jobs' = jobs \cup {j}
      /\ UNCHANGED <<registry, moved, ctr, store, ledger, route, up, torn, queue,
                     spoiled, pinned, faults>>
  BY DEF Import, Pulled, history, r, j
<1>5. Served(f) \in Digests
  BY DEF Served, Refs, IInv, TypeOK
<1>6. TypeOK'
  <2>1. cache \in [Refs -> SUBSET Digests] /\ {Served(f)} \in SUBSET Digests
    BY <1>5 DEF IInv, TypeOK
  <2>2. cache' \in [Refs -> SUBSET Digests]
    BY <1>4, <2>1
  <2>3. jobs' \subseteq Job
    BY <1>2, <1>4 DEF IInv, TypeOK
  <2>4. QED
    BY <1>3, <1>4, <2>2, <2>3 DEF IInv, TypeOK
<1>7. Local(p)
  BY <1>2, <1>3, <1>4 DEF Local, IInv, TypeOK
<1>8. JobHolds(j)' /\ Single(p)' /\ Alone(p)'
  BY <1>2, <1>3, <1>4 DEF JobHolds, Single, Alone, IInv
<1>9. ~Deploying(p)' /\ ~Reading(p)'
  BY <1>2, <1>3, <1>4 DEF Deploying, Reading
<1>10. Told(p)' /\ RunsOwn(p)'
  BY <1>3, <1>4, <1>9 DEF Told, RunsOwn, Whole, Unmoved, IInv, Served
<1>11. \A k \in jobs' : k.p = p => JobHolds(k)'
  BY <1>3, <1>4, <1>8
<1>12. QED
  BY <1>6, <1>7, <1>8, <1>10, <1>11, LocalKeeps

LEMMA PromoteIInv ==
  ASSUME IInv, NEW p \in Projects, Promote(p)
  PROVE  IInv'
<1>1. PICK s \in store[p] :
        /\ Accepts(p)
        /\ store' = [store EXCEPT ![p] = {[s EXCEPT !.mode = "attested"]}]
        /\ jobs' = jobs \cup {NewJob(p, "promote", "quoting", [s EXCEPT !.mode = "attested"], {})}
        /\ UNCHANGED <<registry, moved, cache, ctr, ledger, route, up, torn, queue,
                       spoiled, pinned, faults>>
  BY DEF Promote, Saves, docker, history
<1> DEFINE r == [s EXCEPT !.mode = "attested"]
           j == NewJob(p, "promote", "quoting", r, {})
<1>2. s \in Record /\ r \in Record /\ r.ref = s.ref /\ r.digest = s.digest
  <2>1. s \in Record
    BY DEF IInv, TypeOK
  <2>2. QED
    BY <2>1 DEF Record, Modes
<1>3. /\ j \in Job /\ j.p = p /\ j.op = "promote" /\ j.pc = "quoting" /\ j.loc = r
  <2> HIDE DEF r
  <2> QED BY <1>2 DEF NewJob, Job
<1>4. /\ store' = [store EXCEPT ![p] = {r}] /\ jobs' = jobs \cup {j}
  BY <1>1
<1> HIDE DEF r, j
<1>5. /\ up /\ requests' \in Nat
      /\ \A k \in jobs : k.p # p
      /\ \A q \in queue : q[1] # p
      /\ ~Deploying(p) /\ ~Reading(p)
  BY <1>1, Accepted
<1>6. TypeOK'
  <2>1. store' \in [Projects -> SUBSET Record] /\ jobs' \subseteq Job
    BY <1>2, <1>3, <1>4 DEF IInv, TypeOK
  <2>2. QED
    BY <1>1, <1>5, <2>1 DEF IInv, TypeOK
<1>7. store'[p] = {r}
  BY <1>4 DEF IInv, TypeOK
<1>8. Local(p)
  BY <1>1, <1>3, <1>4, <1>5 DEF Local, IInv, TypeOK
<1>9. JobHolds(j)' /\ Single(p)' /\ Alone(p)'
  BY <1>1, <1>3, <1>4, <1>5, <1>7 DEF JobHolds, Single, Alone
<1>10. ~Deploying(p)' /\ ~Reading(p)'
  BY <1>3, <1>4, <1>5 DEF Deploying, Reading
<1>11. Unmoved(p)' => Unmoved(p)
  BY <1>1, <1>2, <1>7 DEF Unmoved, Single, IInv
<1>12. Told(p)' /\ RunsOwn(p)'
  BY <1>1, <1>2, <1>5, <1>7, <1>10, <1>11 DEF Told, RunsOwn, Whole, IInv, Served
<1>13. \A k \in jobs' : k.p = p => JobHolds(k)'
  BY <1>4, <1>5, <1>9
<1>14. QED
  BY <1>6, <1>8, <1>9, <1>12, <1>13, LocalKeeps

LEMMA UnpromoteIInv ==
  ASSUME IInv, NEW p \in Projects, Unpromote(p)
  PROVE  IInv'
<1>1. PICK s \in store[p] :
        /\ Accepts(p)
        /\ store' = [store EXCEPT ![p] = {[s EXCEPT !.mode = "dev"]}]
        /\ ledger' = [ledger EXCEPT ![p] = Append(@, [act |-> "unpromote", digest |-> s.digest])]
        /\ UNCHANGED <<registry, moved, cache, ctr, route, up, torn, jobs, queue,
                       spoiled, pinned, faults>>
  BY DEF Unpromote, Saves, Appends, docker, history
<1> DEFINE r == [s EXCEPT !.mode = "dev"]
           e == [act |-> "unpromote", digest |-> s.digest]
<1>2. s \in Record /\ r \in Record /\ r.ref = s.ref /\ r.digest = s.digest
  <2>1. s \in Record
    BY DEF IInv, TypeOK
  <2>2. QED
    BY <2>1 DEF Record, Modes
<1>3. e \in Entry /\ e.digest = s.digest
  BY <1>2 DEF Entry, Record
<1>4. /\ store' = [store EXCEPT ![p] = {r}]
      /\ ledger' = [ledger EXCEPT ![p] = Append(@, e)]
  BY <1>1
<1> HIDE DEF r, e
<1>5. /\ up /\ requests' \in Nat
      /\ \A k \in jobs : k.p # p
      /\ \A q \in queue : q[1] # p
      /\ ~Deploying(p) /\ ~Reading(p)
  BY <1>1, Accepted
<1>6. /\ ledger'[p] = Append(ledger[p], e) /\ ledger[p] \in Seq(Entry)
      /\ store'[p] = {r}
  BY <1>4 DEF IInv, TypeOK
<1>7. ledger'[p] \in Seq(Entry) /\ ledger'[p] # <<>> /\ Last(ledger'[p]) = e
  BY <1>3, <1>6, LastAppended
<1>8. TypeOK'
  BY <1>1, <1>2, <1>4, <1>5, <1>6, <1>7 DEF IInv, TypeOK
<1>9. Local(p)
  BY <1>1, <1>4, <1>5 DEF Local, IInv, TypeOK
<1>10. Single(p)' /\ Alone(p)'
  BY <1>1, <1>5, <1>6 DEF Single, Alone
<1>11. ~Deploying(p)' /\ ~Reading(p)'
  BY <1>1, <1>5 DEF Deploying, Reading
<1>12. Unmoved(p)' => Unmoved(p)
  BY <1>1, <1>2, <1>6 DEF Unmoved, Single, IInv
<1>13. Told(p)'
  BY <1>1, <1>2, <1>3, <1>5, <1>6, <1>7, <1>11, <1>12 DEF Told, Whole, IInv, Served
<1>14. RunsOwn(p)'
  BY <1>1, <1>2, <1>5, <1>6, <1>11, <1>12 DEF RunsOwn, Whole, IInv, Served
<1>15. \A k \in jobs' : k.p = p => JobHolds(k)'
  BY <1>1, <1>5
<1>16. QED
  BY <1>8, <1>9, <1>10, <1>13, <1>14, <1>15, LocalKeeps

LEMMA TeardownIInv ==
  ASSUME IInv, NEW p \in Projects, Teardown(p)
  PROVE  IInv'
<1>1. PICK s \in store[p] :
        /\ Accepts(p)
        /\ ledger' = [ledger EXCEPT ![p] = Append(@, [act |-> "teardown", digest |-> s.digest])]
        /\ store' = [store EXCEPT ![p] = {}]
        /\ StopsBoth(p)
        /\ UNCHANGED <<registry, moved, cache, up, torn, jobs, queue,
                       spoiled, pinned, faults>>
  BY DEF Teardown, Appends, history
<1>2. [act |-> "teardown", digest |-> s.digest] \in Entry
  BY DEF IInv, TypeOK, Record, Entry
<1>3. /\ up /\ requests' \in Nat
      /\ \A k \in jobs : k.p # p
      /\ \A q \in queue : q[1] # p
  BY <1>1, Accepted
<1>4. Append(ledger[p], [act |-> "teardown", digest |-> s.digest]) \in Seq(Entry)
  BY <1>2, LastAppended DEF IInv, TypeOK
<1>5. TypeOK'
  BY <1>1, <1>3, <1>4 DEF IInv, TypeOK, StopsBoth
<1>6. Local(p)
  BY <1>1, <1>3 DEF Local, IInv, TypeOK, StopsBoth
<1>7. store'[p] = {}
  BY <1>1 DEF IInv, TypeOK
<1>8. Single(p)' /\ Alone(p)' /\ Told(p)' /\ RunsOwn(p)'
  BY <1>1, <1>3, <1>7 DEF Single, Alone, Told, RunsOwn
<1>9. \A k \in jobs' : k.p = p => JobHolds(k)'
  BY <1>1, <1>3
<1>10. QED
  BY <1>5, <1>6, <1>8, <1>9, LocalKeeps

-----------------------------------------------------------------------------
(* Steps of a job *)

\* What is known of a job in progress.
LEMMA AtWork ==
  ASSUME IInv, NEW j \in jobs
  PROVE  /\ j \in Job /\ j.p \in Projects /\ j.loc \in Record /\ j.loc.ref \in Refs
         /\ j.pin \in SUBSET Digests
         /\ JobHolds(j) /\ up
         /\ \A k \in jobs : k.p = j.p => k = j
         /\ \A q \in queue : q[1] # j.p
BY DEF IInv, TypeOK, Job, Record, Alone, IdleWhileDown

\* A job that goes on to another await with its record as it was.
LEMMA JobGoesOn ==
  ASSUME IInv, NEW j \in jobs,
         NEW c \in {"pulling", "creating", "reading", "stopping"}, GoesTo(j, c)
  PROVE  LET k == [j EXCEPT !.pc = c] IN
         /\ k \in Job /\ k.p = j.p /\ k.op = j.op /\ k.pc = c /\ k.loc = j.loc /\ k.pin = j.pin
         /\ jobs' \subseteq Job
         /\ jobs' = (jobs \ {j}) \cup {k}
         /\ \A i \in jobs' : i.p = j.p => i = k
         /\ \A i \in jobs \cup jobs' : i.p # j.p => (i \in jobs <=> i \in jobs')
<1> DEFINE k == [j EXCEPT !.pc = c]
<1>1. j \in Job
  BY AtWork
<1>2. k \in Job /\ k.p = j.p /\ k.op = j.op /\ k.pc = c /\ k.loc = j.loc /\ k.pin = j.pin
  BY <1>1 DEF Job
<1>3. jobs' = (jobs \ {j}) \cup {k} /\ jobs \subseteq Job
  BY DEF GoesTo, Becomes, IInv, TypeOK
<1> HIDE DEF k
<1>4. \A i \in jobs : i.p = j.p => i = j
  BY AtWork
<1>5. /\ jobs' \subseteq Job
      /\ \A i \in jobs' : i.p = j.p => i = k
      /\ \A i \in jobs \cup jobs' : i.p # j.p => (i \in jobs <=> i \in jobs')
  BY <1>2, <1>3, <1>4
<1>6. QED
  BY <1>2, <1>3, <1>5 DEF k

\* A job that has ended.
LEMMA JobEnds ==
  ASSUME IInv, NEW j \in jobs, jobs' = jobs \ {j}
  PROVE  /\ jobs' \subseteq Job
         /\ \A i \in jobs' : i.p # j.p
         /\ \A i \in jobs \cup jobs' : i.p # j.p => (i \in jobs <=> i \in jobs')
         /\ ~Deploying(j.p)' /\ ~Reading(j.p)'
<1>1. \A i \in jobs : i.p = j.p => i = j
  BY AtWork
<1>2. jobs' \subseteq Job /\ \A i \in jobs' : i.p # j.p
  BY <1>1 DEF IInv, TypeOK
<1>3. QED
  BY <1>2 DEF Deploying, Reading

LEMMA PinCheckedIInv ==
  ASSUME IInv, NEW j \in jobs, PinChecked(j)
  PROVE  IInv'
<1> DEFINE p == j.p
           k == [j EXCEPT !.pc = "pulling"]
<1>1. /\ p \in Projects /\ j.loc \in Record /\ j.loc.ref \in Refs /\ JobHolds(j) /\ up
      /\ \A q \in queue : q[1] # p
  BY AtWork
<1>2. /\ j.pc = "pinning" /\ cache[j.loc.ref] = j.pin
      /\ store' = [store EXCEPT ![p] = {j.loc}]
      /\ UNCHANGED <<registry, moved, cache, ctr, ledger, route, up, torn, queue,
                     spoiled, pinned, requests, faults>>
  BY DEF PinChecked, Saves, docker, history, counts
<1>3. /\ k.p = p /\ k.op = j.op /\ k.pc = "pulling" /\ k.loc = j.loc /\ k.pin = j.pin
      /\ jobs' \subseteq Job /\ k \in jobs'
      /\ \A i \in jobs' : i.p = p => i = k
      /\ \A i \in jobs \cup jobs' : i.p # p => (i \in jobs <=> i \in jobs')
  BY JobGoesOn DEF PinChecked
<1> HIDE DEF k, p
<1>4. TypeOK'
  BY <1>1, <1>2, <1>3 DEF IInv, TypeOK
<1>5. store'[p] = {j.loc}
  BY <1>1, <1>2 DEF IInv, TypeOK
<1>6. Local(p)
  BY <1>1, <1>2, <1>3 DEF Local, IInv, TypeOK
<1>7. Single(p)' /\ Alone(p)'
  BY <1>1, <1>2, <1>3, <1>5 DEF Single, Alone
<1>8. k.op = "deploy" /\ Deploying(p)' /\ ~Reading(p)'
  BY <1>1, <1>2, <1>3 DEF Deploying, Reading, JobHolds
<1>9. Told(p)' /\ RunsOwn(p)'
  BY <1>8 DEF Told, RunsOwn, Whole
<1>10. JobHolds(k)'
  <2>1. j.loc.ref \notin moved => j.pin \subseteq {Served(j.loc.ref)}
    BY <1>1, <1>2 DEF IInv, CopiesTrue
  <2>2. Served(j.loc.ref)' = Served(j.loc.ref)
    BY <1>2 DEF Served
  <2>3. QED
    BY <1>2, <1>3, <1>5, <2>1, <2>2 DEF JobHolds
<1>11. QED
  BY <1>1, <1>3, <1>4, <1>6, <1>7, <1>9, <1>10, LocalKeeps

\* Steps that end a job and leave its project's record, ledger and container.
LEMMA EndIInv ==
  ASSUME IInv, NEW j \in jobs, PinRefused(j) \/ DigestIgnored(j) \/ Fails(j)
  PROVE  IInv'
<1> DEFINE p == j.p
<1>1. p \in Projects /\ JobHolds(j) /\ up /\ \A q \in queue : q[1] # p
  BY AtWork
<1>2. /\ jobs' = jobs \ {j} /\ faults' \in Nat
      /\ UNCHANGED <<registry, moved, cache, ctr, store, ledger, route, up, torn, queue,
                     pinned, requests>>
      /\ spoiled' \in {spoiled, spoiled \cup {p}}
  BY DEF PinRefused, DigestIgnored, Fails, docker, history, counts, IInv, TypeOK
<1>3. /\ jobs' \subseteq Job
      /\ \A i \in jobs' : i.p # p
      /\ \A i \in jobs \cup jobs' : i.p # p => (i \in jobs <=> i \in jobs')
      /\ ~Deploying(p)' /\ ~Reading(p)'
  BY <1>2, JobEnds
<1> HIDE DEF p
<1>4. TypeOK'
  BY <1>1, <1>2, <1>3 DEF IInv, TypeOK
<1>5. Local(p)
  BY <1>1, <1>2, <1>3 DEF Local
<1>6. Single(p)' /\ Alone(p)'
  BY <1>1, <1>2, <1>3 DEF Single, Alone, IInv
<1>7. p \in spoiled' \/ (spoiled' = spoiled /\ ~Deploying(p))
  <2>1. CASE PinRefused(j) \/ DigestIgnored(j)
    <3>1. j.op # "deploy" \/ j.pc = "pinning"
      BY <2>1 DEF PinRefused, DigestIgnored
    <3>2. spoiled' = spoiled
      BY <2>1 DEF PinRefused, DigestIgnored, history
    <3>3. \A i \in jobs : i.p = p => i = j
      BY AtWork DEF p
    <3>4. QED
      BY <3>1, <3>2, <3>3 DEF Deploying
  <2>2. CASE Fails(j)
    BY <2>2 DEF Fails, p
  <2>3. QED
    BY <2>1, <2>2
<1>8. Whole(p)' => Whole(p)
  BY <1>7 DEF Whole
<1>9. Told(p)' /\ RunsOwn(p)'
  BY <1>1, <1>2, <1>3, <1>8 DEF Told, RunsOwn, Unmoved, IInv, Served
<1>10. QED
  BY <1>1, <1>3, <1>4, <1>5, <1>6, <1>9, LocalKeeps

LEMMA QuotedIInv ==
  ASSUME IInv, NEW j \in jobs, Quoted(j)
  PROVE  IInv'
<1> DEFINE p == j.p
           k == [j EXCEPT !.pc = "stopping"]
           e == [act |-> "promote", digest |-> j.loc.digest]
<1>1. /\ p \in Projects /\ j.loc \in Record /\ j.loc.ref \in Refs /\ JobHolds(j) /\ up
      /\ \A q \in queue : q[1] # p
      /\ \A i \in jobs : i.p = p => i = j
  BY AtWork
<1>2. /\ j.pc = "quoting"
      /\ store' = [store EXCEPT ![p] = {j.loc}]
      /\ ledger' = [ledger EXCEPT ![p] = Append(@, e)]
      /\ UNCHANGED <<registry, moved, cache, ctr, route, up, torn, queue,
                     spoiled, pinned, requests, faults>>
  BY DEF Quoted, Saves, Appends, docker, history, counts
<1>3. /\ k.p = p /\ k.op = j.op /\ k.pc = "stopping" /\ k.loc = j.loc /\ k.pin = j.pin
      /\ jobs' \subseteq Job /\ k \in jobs'
      /\ \A i \in jobs' : i.p = p => i = k
      /\ \A i \in jobs \cup jobs' : i.p # p => (i \in jobs <=> i \in jobs')
  BY JobGoesOn DEF Quoted
<1>4. e \in Entry /\ e.digest = j.loc.digest
  BY <1>1 DEF Entry, Record
<1> HIDE DEF k, p, e
<1>5. store[p] = {j.loc} /\ store' = store
  BY <1>1, <1>2 DEF JobHolds, IInv, TypeOK, p
<1>6. ledger'[p] = Append(ledger[p], e) /\ ledger[p] \in Seq(Entry)
  BY <1>1, <1>2 DEF IInv, TypeOK
<1>7. ledger'[p] \in Seq(Entry) /\ ledger'[p] # <<>> /\ Last(ledger'[p]) = e
  BY <1>4, <1>6, LastAppended
<1>8. TypeOK'
  BY <1>1, <1>2, <1>3, <1>5, <1>6, <1>7 DEF IInv, TypeOK
<1>9. Local(p)
  BY <1>1, <1>2, <1>3, <1>5 DEF Local, IInv, TypeOK
<1>10. Single(p)' /\ Alone(p)'
  BY <1>1, <1>2, <1>3, <1>5 DEF Single, Alone
<1>11. JobHolds(k)' /\ j.op = "promote"
  BY <1>1, <1>2, <1>3, <1>5 DEF JobHolds, p
<1>12. ~Deploying(p) /\ ~Deploying(p)' /\ ~Reading(p)'
  BY <1>1, <1>3, <1>11 DEF Deploying, Reading
<1>13. Told(p)'
  BY <1>1, <1>2, <1>4, <1>5, <1>7, <1>12 DEF Told, Whole, Unmoved, IInv, Served
<1>14. RunsOwn(p)'
  BY <1>1, <1>2, <1>5, <1>12 DEF RunsOwn, Whole, Unmoved, IInv, Served
<1>15. QED
  BY <1>1, <1>3, <1>8, <1>9, <1>10, <1>11, <1>13, <1>14, LocalKeeps

\* A reference that was pulled.
LEMMA PulledCopies ==
  ASSUME IInv, NEW f \in Refs, Pulled(f)
  PROVE  /\ cache' \in [Refs -> SUBSET Digests] /\ cache'[f] = {Served(f)}
         /\ \A g \in Refs : cache'[g] = cache[g] \/ cache'[g] = {Served(g)}
<1>1. Served(f) \in Digests /\ cache \in [Refs -> SUBSET Digests]
  BY DEF Served, Refs, IInv, TypeOK
<1>2. cache' = [cache EXCEPT ![f] = {Served(f)}]
  BY DEF Pulled
<1>3. QED
  BY <1>1, <1>2

\* The steps before the container is made: the image is pulled, or is there.
LEMMA PullIInv ==
  ASSUME IInv, NEW j \in jobs, StartPulled(j) \/ PullFallsBack(j)
  PROVE  IInv'
<1> DEFINE p == j.p
           k == [j EXCEPT !.pc = "creating"]
<1>1. /\ p \in Projects /\ j.loc \in Record /\ j.loc.ref \in Refs /\ JobHolds(j) /\ up
      /\ \A q \in queue : q[1] # p
      /\ \A i \in jobs : i.p = p => i = j
  BY AtWork
<1>2. /\ j.pc = "pulling" /\ faults' \in Nat
      /\ UNCHANGED <<registry, moved, ctr, store, ledger, route, up, torn, queue,
                     spoiled, pinned, requests>>
  BY DEF StartPulled, PullFallsBack, history, counts, docker, IInv, TypeOK
<1>3. /\ k.p = p /\ k.op = j.op /\ k.pc = "creating" /\ k.loc = j.loc /\ k.pin = j.pin
      /\ jobs' \subseteq Job /\ k \in jobs'
      /\ \A i \in jobs' : i.p = p => i = k
      /\ \A i \in jobs \cup jobs' : i.p # p => (i \in jobs <=> i \in jobs')
  BY JobGoesOn DEF StartPulled, PullFallsBack
<1>4. /\ cache' \in [Refs -> SUBSET Digests] /\ cache'[j.loc.ref] # {}
      /\ \A f \in Refs : cache'[f] = cache[f] \/ cache'[f] = {Served(f)}
  <2>1. CASE StartPulled(j)
    BY <1>1, <2>1, PulledCopies DEF StartPulled
  <2>2. CASE PullFallsBack(j)
    BY <2>2 DEF PullFallsBack, docker, IInv, TypeOK
  <2>3. QED
    BY <2>1, <2>2
<1> HIDE DEF k, p
<1>5. TypeOK'
  BY <1>2, <1>3, <1>4 DEF IInv, TypeOK
<1>6. Local(p)
  BY <1>1, <1>2, <1>3, <1>4 DEF Local
<1>7. Single(p)' /\ Alone(p)'
  BY <1>1, <1>2, <1>3 DEF Single, Alone, IInv
<1>8. JobHolds(k)'
  <2>1. Served(j.loc.ref)' = Served(j.loc.ref)
    BY <1>2 DEF Served
  <2>2. QED
    BY <1>1, <1>2, <1>3, <1>4, <2>1 DEF JobHolds, p
<1>9. Deploying(p)' = Deploying(p) /\ ~Reading(p)'
  BY <1>1, <1>2, <1>3 DEF Deploying, Reading, p
<1>10. Told(p)' /\ RunsOwn(p)'
  BY <1>1, <1>2, <1>9 DEF Told, RunsOwn, Whole, Unmoved, IInv, Served
<1>11. QED
  BY <1>1, <1>3, <1>5, <1>6, <1>7, <1>8, <1>10, LocalKeeps

LEMMA StoppedIInv ==
  ASSUME IInv, NEW j \in jobs, Stopped(j)
  PROVE  IInv'
<1> DEFINE p == j.p
           k == [j EXCEPT !.pc = "pulling"]
<1>1. /\ p \in Projects /\ j.loc \in Record /\ JobHolds(j) /\ up
      /\ \A q \in queue : q[1] # p
      /\ \A i \in jobs : i.p = p => i = j
  BY AtWork
<1>2. /\ j.pc = "stopping" /\ StopsBoth(p)
      /\ UNCHANGED <<registry, moved, cache, store, ledger, up, torn, queue,
                     spoiled, pinned, requests, faults>>
  BY DEF Stopped, history, counts
<1>3. /\ k.p = p /\ k.op = j.op /\ k.pc = "pulling" /\ k.loc = j.loc /\ k.pin = j.pin
      /\ jobs' \subseteq Job /\ k \in jobs'
      /\ \A i \in jobs' : i.p = p => i = k
      /\ \A i \in jobs \cup jobs' : i.p # p => (i \in jobs <=> i \in jobs')
  BY JobGoesOn DEF Stopped
<1> HIDE DEF k, p
<1>4. TypeOK' /\ route'[p] = {}
  BY <1>1, <1>2, <1>3 DEF IInv, TypeOK, StopsBoth
<1>5. Local(p)
  BY <1>1, <1>2, <1>3 DEF Local, StopsBoth, IInv, TypeOK
<1>6. Single(p)' /\ Alone(p)'
  BY <1>1, <1>2, <1>3 DEF Single, Alone, IInv
<1>7. JobHolds(k)'
  <2>1. Served(j.loc.ref)' = Served(j.loc.ref)
    BY <1>2 DEF Served
  <2>2. QED
    BY <1>1, <1>2, <1>3, <2>1 DEF JobHolds, p
<1>8. Deploying(p)' = Deploying(p)
  BY <1>1, <1>2, <1>3 DEF Deploying, p
<1>9. Told(p)' /\ RunsOwn(p)'
  BY <1>1, <1>2, <1>4, <1>8 DEF Told, RunsOwn, Whole, Unmoved, IInv, Served
<1>10. QED
  BY <1>1, <1>3, <1>4, <1>5, <1>6, <1>7, <1>9, LocalKeeps

\* The container is of the copy of the stored reference.
LEMMA CreatedIInv ==
  ASSUME IInv, NEW j \in jobs, Created(j)
  PROVE  IInv'
<1> DEFINE p == j.p
           k == [j EXCEPT !.pc = "reading"]
<1>1. /\ p \in Projects /\ j.loc \in Record /\ j.loc.ref \in Refs /\ JobHolds(j) /\ up
      /\ \A q \in queue : q[1] # p
      /\ \A i \in jobs : i.p = p => i = j
  BY AtWork
<1>2. /\ j.pc = "creating"
      /\ ctr' = [ctr EXCEPT ![<<p, j.loc.mode>>] = cache[j.loc.ref]]
      /\ route' = [route EXCEPT ![p] = {j.loc.mode}]
      /\ UNCHANGED <<registry, moved, cache, store, ledger, up, torn, queue,
                     spoiled, pinned, requests, faults>>
  BY DEF Created, counts
<1>3. /\ k.p = p /\ k.op = j.op /\ k.pc = "reading" /\ k.loc = j.loc /\ k.pin = j.pin
      /\ jobs' \subseteq Job /\ k \in jobs'
      /\ \A i \in jobs' : i.p = p => i = k
      /\ \A i \in jobs \cup jobs' : i.p # p => (i \in jobs <=> i \in jobs')
  BY JobGoesOn DEF Created
<1> HIDE DEF k, p
<1>4. j.loc.mode \in Modes /\ cache[j.loc.ref] \in SUBSET Digests
  BY <1>1 DEF Record, IInv, TypeOK
<1>5. TypeOK'
  <2>1. ctr' \in [Projects \X Modes -> SUBSET Digests] /\ route' \in [Projects -> SUBSET Modes]
    BY <1>1, <1>2, <1>4 DEF IInv, TypeOK
  <2>2. QED
    BY <1>1, <1>2, <1>3, <2>1 DEF IInv, TypeOK
<1>6. route'[p] = {j.loc.mode} /\ ctr'[<<p, j.loc.mode>>] = cache[j.loc.ref]
  BY <1>1, <1>2, <1>4 DEF IInv, TypeOK
<1>7. Local(p)
  BY <1>1, <1>2, <1>3 DEF Local, IInv, TypeOK
<1>8. Single(p)' /\ Alone(p)'
  BY <1>1, <1>2, <1>3 DEF Single, Alone, IInv
<1>9. Served(j.loc.ref)' = Served(j.loc.ref)
  BY <1>2 DEF Served
<1>10. JobHolds(k)'
  BY <1>1, <1>2, <1>3, <1>9 DEF JobHolds, p
<1>11. Deploying(p)' = Deploying(p)
  BY <1>1, <1>2, <1>3 DEF Deploying, p
<1>12. Told(p)'
  BY <1>1, <1>2, <1>11 DEF Told, Whole, Unmoved, IInv, Served
<1>13. RunsOwn(p)'
  <2>1. store[p] = {j.loc}
    BY <1>1, <1>2 DEF JobHolds, p
  <2>2. Unmoved(p)' => cache[j.loc.ref] \subseteq {Served(j.loc.ref)}
    BY <1>1, <1>2, <2>1 DEF Unmoved, IInv, CopiesTrue
  <2>3. QED
    BY <1>2, <1>6, <1>9, <2>1, <2>2 DEF RunsOwn
<1>14. QED
  BY <1>1, <1>3, <1>5, <1>7, <1>8, <1>10, <1>12, <1>13, LocalKeeps

\* The digest that is stored and recorded is the one of what runs.
LEMMA DigestReadIInv ==
  ASSUME IInv, NEW j \in jobs, DigestRead(j)
  PROVE  IInv'
<1> DEFINE p == j.p
           d == cache[j.loc.ref]
           r == [j.loc EXCEPT !.digest = d]
           e == [act |-> "deploy", digest |-> d]
<1>1. /\ p \in Projects /\ j.loc \in Record /\ j.loc.ref \in Refs /\ JobHolds(j) /\ up
      /\ j.pin \in SUBSET Digests
      /\ \A q \in queue : q[1] # p
  BY AtWork
<1>2. /\ j.pc = "reading" /\ j.op = "deploy" /\ jobs' = jobs \ {j}
      /\ store' = [store EXCEPT ![p] = {r}]
      /\ ledger' = [ledger EXCEPT ![p] = Append(@, e)]
      /\ spoiled' = spoiled \ {p}
      /\ pinned' = [pinned EXCEPT ![p] = j.pin]
      /\ UNCHANGED <<registry, moved, cache, ctr, route, up, torn, queue,
                     requests, faults>>
  BY DEF DigestRead, Saves, Appends, docker, counts
<1>3. /\ jobs' \subseteq Job
      /\ \A i \in jobs' : i.p # p
      /\ \A i \in jobs \cup jobs' : i.p # p => (i \in jobs <=> i \in jobs')
      /\ ~Deploying(p)' /\ ~Reading(p)'
  BY <1>2, JobEnds
<1>4. store[p] = {j.loc} /\ d # {} /\ Reading(p)
  BY <1>2, <1>1 DEF JobHolds, Reading
<1>5. d \in SUBSET Digests
  BY <1>1 DEF IInv, TypeOK
<1> HIDE DEF d, p
<1>6. /\ r \in Record /\ r.ref = j.loc.ref /\ r.digest = d
      /\ e \in Entry /\ e.digest = d
  BY <1>1, <1>5 DEF Record, Entry
<1> HIDE DEF r, e
<1>7. /\ store'[p] = {r} /\ pinned'[p] = j.pin
      /\ ledger'[p] = Append(ledger[p], e) /\ ledger[p] \in Seq(Entry)
  BY <1>1, <1>2 DEF IInv, TypeOK
<1>8. ledger'[p] \in Seq(Entry) /\ ledger'[p] # <<>> /\ Last(ledger'[p]) = e
  BY <1>6, <1>7, LastAppended
<1>9. TypeOK'
  <2>1. store' \in [Projects -> SUBSET Record] /\ ledger' \in [Projects -> Seq(Entry)]
    BY <1>1, <1>2, <1>6, <1>7, <1>8 DEF IInv, TypeOK
  <2>2. pinned' \in [Projects -> SUBSET Digests]
    BY <1>1, <1>2 DEF IInv, TypeOK
  <2>3. QED
    BY <1>2, <1>3, <2>1, <2>2 DEF IInv, TypeOK
<1>10. Local(p)
  BY <1>1, <1>2, <1>3 DEF Local, IInv, TypeOK
<1>11. Single(p)' /\ Alone(p)'
  BY <1>1, <1>2, <1>3, <1>7 DEF Single, Alone
<1>12. \A f \in Refs : Served(f)' = Served(f)
  BY <1>2 DEF Served
<1>13. Unmoved(p)' => /\ Unmoved(p)
                      /\ d = {Served(r.ref)}
                      /\ j.pin \in {{}, {Served(r.ref)}}
  <2>1. r.ref \notin moved => d \subseteq {Served(r.ref)}
    BY <1>1, <1>6 DEF IInv, CopiesTrue, d
  <2>2. r.ref \notin moved => j.pin \in {{}, {Served(r.ref)}}
    BY <1>1, <1>2, <1>6 DEF JobHolds
  <2>3. QED
    BY <1>2, <1>4, <1>6, <1>7, <2>1, <2>2 DEF Unmoved
<1>14. Told(p)'
  BY <1>1, <1>6, <1>7, <1>8, <1>12, <1>13 DEF Told
<1>15. RunsOwn(p)'
  BY <1>1, <1>2, <1>4, <1>6, <1>7, <1>12, <1>13 DEF RunsOwn, IInv
<1>16. QED
  BY <1>3, <1>1, <1>9, <1>10, <1>11, <1>14, <1>15, LocalKeeps

-----------------------------------------------------------------------------
(* Faults, recovery and the registry *)

LEMMA RecoverIInv ==
  ASSUME IInv, RecoverNext
  PROVE  IInv'
<1>1. PICK q \in queue :
        /\ queue' = queue \ {q}
        /\ jobs' = jobs \cup {NewJob(q[1], "recover", "pulling", q[2], {})}
        /\ UNCHANGED <<registry, moved, cache, ctr, store, ledger, route, up, torn,
                       spoiled, pinned, requests, faults>>
        /\ up
  BY DEF RecoverNext, docker, history, counts
<1> DEFINE p == q[1]
           r == q[2]
           k == NewJob(p, "recover", "pulling", r, {})
<1>2. p \in Projects /\ r \in Record /\ q = <<p, r>>
  BY DEF IInv, TypeOK
<1>3. Single(p) /\ Alone(p) /\ Told(p) /\ RunsOwn(p)
  BY <1>2 DEF IInv
<1>4. store[p] = {r} /\ \A j \in jobs : j.p # p
  BY <1>3 DEF Alone, Single
<1>5. \A x \in queue : x[1] = p => x = q
  <2>1. ASSUME NEW x \in queue, x[1] = p
        PROVE  x = q
    <3>1. x = <<x[1], x[2]>> /\ x[2] \in store[p]
      BY <1>3, <2>1 DEF IInv, TypeOK, Alone
    <3>2. QED
      BY <1>2, <1>4, <2>1, <3>1
  <2>2. QED
    BY <2>1
<1> HIDE DEF p, r
<1>6. k \in Job /\ k.p = p /\ k.op = "recover" /\ k.pc = "pulling" /\ k.loc = r
  BY <1>2 DEF NewJob, Job
<1>7. jobs' = jobs \cup {k}
  BY <1>1 DEF p, r
<1> HIDE DEF k
<1>8. TypeOK'
  BY <1>1, <1>6, <1>7 DEF IInv, TypeOK
<1>9. Local(p)
  BY <1>1, <1>6, <1>7 DEF Local
<1>10. JobHolds(k)' /\ Single(p)' /\ Alone(p)'
  BY <1>1, <1>3, <1>4, <1>5, <1>6, <1>7 DEF JobHolds, Single, Alone
<1>11. ~Deploying(p) /\ ~Deploying(p)' /\ ~Reading(p)'
  BY <1>4, <1>6, <1>7 DEF Deploying, Reading
<1>12. Told(p)' /\ RunsOwn(p)'
  BY <1>1, <1>3, <1>11 DEF Told, RunsOwn, Whole, Unmoved, Served
<1>13. \A j \in jobs' : j.p = p => JobHolds(j)'
  BY <1>4, <1>7, <1>10
<1>14. QED
  BY <1>2, <1>8, <1>9, <1>10, <1>12, <1>13, LocalKeeps

LEMMA CrashIInv ==
  ASSUME IInv, NEW lost \in SUBSET Projects,
         \/ Crash /\ lost = {}
         \/ \E p \in Projects : TornSave(p) /\ lost = {p}
  PROVE  IInv'
<1>1. /\ up' = FALSE /\ jobs' = {} /\ queue' = {} /\ faults' = faults + 1
      /\ route' = [p \in Projects |-> {}]
      /\ spoiled' = spoiled \cup lost \cup CutShort
      /\ torn' \subseteq torn \cup lost
      /\ UNCHANGED <<registry, moved, cache, ctr, ledger, pinned, requests>>
  BY DEF Crash, TornSave, Dies, docker
<1>6. /\ \A p \in Projects : store'[p] = IF p \in lost THEN {} ELSE store[p]
      /\ store' \in [Projects -> SUBSET Record]
  BY DEF Crash, TornSave, IInv, TypeOK
<1>2. \A j \in jobs : j.p \in Projects
  BY AtWork
<1>3. TypeOK' /\ CopiesTrue' /\ IdleWhileDown'
  <2>1. spoiled' \subseteq Projects
    BY <1>1, <1>2 DEF IInv, TypeOK, CutShort
  <2>2. TypeOK'
    <3>1. route' \in [Projects -> SUBSET Modes] /\ faults' \in Nat
      BY <1>1 DEF IInv, TypeOK
    <3>2. jobs' \subseteq Job /\ queue' \subseteq Projects \X Record /\ up' \in BOOLEAN
            /\ torn' \subseteq Projects
      BY <1>1 DEF IInv, TypeOK
    <3>3. QED
      BY <1>1, <1>6, <2>1, <3>1, <3>2 DEF IInv, TypeOK
  <2>3. CopiesTrue' /\ IdleWhileDown'
    BY <1>1 DEF IInv, CopiesTrue, Served, IdleWhileDown
  <2>4. QED
    BY <2>2, <2>3
<1>4. ASSUME NEW p \in Projects
      PROVE  Single(p)' /\ Alone(p)' /\ Told(p)' /\ RunsOwn(p)'
  <2>1. Single(p) /\ Told(p)
    BY DEF IInv
  <2>2. Single(p)' /\ Alone(p)' /\ RunsOwn(p)'
    BY <1>1, <1>6, <2>1 DEF Single, Alone, RunsOwn
  <2>3. Whole(p)' => Whole(p) /\ p \notin lost
    BY <1>1 DEF Whole, Deploying, CutShort
  <2>4. Told(p)'
    BY <1>1, <1>6, <2>1, <2>3 DEF Told, Unmoved, Served
  <2>5. QED
    BY <2>2, <2>4
<1>5. QED
  BY <1>1, <1>3, <1>4 DEF IInv

LEMMA BootIInv ==
  ASSUME IInv, Boot
  PROVE  IInv'
<1>1. /\ ~up /\ up' = TRUE /\ jobs = {}
      /\ queue' = {q \in Records : q[2] \in store[q[1]]}
      /\ UNCHANGED <<registry, moved, cache, ctr, store, ledger, route, torn, jobs,
                     spoiled, pinned, requests, faults>>
  BY DEF Boot, docker, history, counts, IInv, IdleWhileDown
<1>2. queue' \subseteq Projects \X Record
  BY <1>1 DEF Records, IInv, TypeOK
<1>3. TypeOK' /\ CopiesTrue' /\ IdleWhileDown'
  BY <1>1, <1>2 DEF IInv, TypeOK, CopiesTrue, Served, IdleWhileDown
<1>4. ASSUME NEW p \in Projects
      PROVE  Single(p)' /\ Alone(p)' /\ Told(p)' /\ RunsOwn(p)'
  <2>1. Single(p) /\ Told(p) /\ RunsOwn(p)
    BY DEF IInv
  <2>2. Single(p)' /\ Alone(p)'
    BY <1>1, <2>1 DEF Single, Alone
  <2>3. (Whole(p)' <=> Whole(p)) /\ (Reading(p)' <=> Reading(p))
    BY <1>1 DEF Whole, Deploying, Reading
  <2>4. Told(p)' /\ RunsOwn(p)'
    BY <1>1, <2>1, <2>3 DEF Told, RunsOwn, Unmoved, Served
  <2>5. QED
    BY <2>2, <2>4
<1>5. QED
  BY <1>1, <1>3, <1>4 DEF IInv

\* Of a tag that moves the invariant says no more.
LEMMA MoveIInv ==
  ASSUME IInv, NEW t \in Tags, NEW d \in Digests, Move(t, d)
  PROVE  IInv'
<1>1. /\ registry' = [registry EXCEPT ![t] = d] /\ moved' = moved \cup {t}
      /\ UNCHANGED <<cache, ctr, store, ledger, route, up, torn, jobs, queue,
                     spoiled, pinned, requests, faults>>
  BY DEF Move, docker, history, counts
<1>2. \A f \in Refs \ moved' : Served(f)' = Served(f) /\ f \notin moved
  BY <1>1 DEF Served, IInv, TypeOK
<1>3. TypeOK' /\ CopiesTrue' /\ IdleWhileDown'
  BY <1>1, <1>2 DEF IInv, TypeOK, CopiesTrue, IdleWhileDown
<1>4. ASSUME NEW j \in jobs
      PROVE  JobHolds(j)'
  BY <1>1, <1>2, AtWork DEF JobHolds
<1>5. ASSUME NEW p \in Projects
      PROVE  Single(p)' /\ Alone(p)' /\ Told(p)' /\ RunsOwn(p)'
  <2>1. Single(p) /\ Alone(p) /\ Told(p) /\ RunsOwn(p)
    BY DEF IInv
  <2>2. Single(p)' /\ Alone(p)'
    BY <1>1, <2>1 DEF Single, Alone
  <2>3. (Whole(p)' <=> Whole(p)) /\ (Reading(p)' <=> Reading(p))
    BY <1>1 DEF Whole, Deploying, Reading
  <2>4. Unmoved(p)' => Unmoved(p) /\ \A r \in store[p] : Served(r.ref)' = Served(r.ref)
    <3>1. \A r \in store[p] : r.ref \in Refs
      BY DEF IInv, TypeOK, Record
    <3>2. QED
      BY <1>1, <1>2, <3>1 DEF Unmoved
  <2>5. Told(p)' /\ RunsOwn(p)'
    BY <1>1, <2>1, <2>3, <2>4 DEF Told, RunsOwn
  <2>6. QED
    BY <2>2, <2>5
<1>6. QED
  BY <1>1, <1>3, <1>4, <1>5 DEF IInv

LEMMA NextIInv == IInv /\ [Next]_vars => IInv'
<1> SUFFICES ASSUME IInv, [Next]_vars PROVE IInv'
  OBVIOUS
<1>1. CASE UNCHANGED vars
  <2>1. UNCHANGED <<registry, cache, store, ledger, ctr, route, up, torn, jobs, queue, spoiled,
                    pinned, moved, requests, faults>>
    BY <1>1 DEF vars, docker, history, counts
  <2>2. TypeOK' /\ CopiesTrue' /\ IdleWhileDown'
    BY <2>1 DEF IInv, TypeOK, CopiesTrue, IdleWhileDown, Served
  <2>3. \A j \in jobs' : JobHolds(j)'
    BY <2>1 DEF IInv, JobHolds, Served
  <2>4. ASSUME NEW p \in Projects
        PROVE  Single(p)' /\ Alone(p)' /\ Told(p)' /\ RunsOwn(p)'
    <3>1. Single(p) /\ Alone(p) /\ Told(p) /\ RunsOwn(p)
      BY DEF IInv
    <3>2. Single(p)' /\ Alone(p)'
      BY <2>1, <3>1 DEF Single, Alone
    <3>3. Told(p)' /\ RunsOwn(p)'
      BY <2>1, <3>1 DEF Told, RunsOwn, Unmoved, Whole, Deploying, Reading, Served
    <3>4. QED
      BY <3>2, <3>3
  <2>5. QED
    BY <2>2, <2>3, <2>4 DEF IInv
<1>2. CASE \E t \in Tags, d \in Digests : Move(t, d)
  BY <1>2, MoveIInv
<1>3. CASE \E p \in Projects : Calls(p)
  BY <1>3, DeployIInv, ImportIInv, PromoteIInv, UnpromoteIInv, TeardownIInv DEF Calls
<1>4. CASE \E j \in jobs : Step(j) \/ PullFallsBack(j) \/ Fails(j)
  BY <1>4, PinCheckedIInv, EndIInv, QuotedIInv, StoppedIInv, PullIInv, CreatedIInv,
     DigestReadIInv DEF Step
<1>5. CASE Crash \/ Boot \/ RecoverNext
  <2>1. {} \in SUBSET Projects
    OBVIOUS
  <2>2. QED
    BY <1>5, <2>1, CrashIInv, BootIInv, RecoverIInv
<1>7. ASSUME NEW p \in Projects, TornSave(p) PROVE IInv'
  <2>1. {p} \in SUBSET Projects
    OBVIOUS
  <2>2. QED
    BY <1>7, <2>1, CrashIInv
<1>6. QED
  BY <1>1, <1>2, <1>3, <1>4, <1>5, <1>7 DEF Next

\* The invariant that the rest is drawn from.
THEOREM Safety == Spec => []IInv
BY InitIInv, NextIInv, PTL DEF Spec

\* The records, ledgers, copies, containers and jobs have their types (projects.py:32-68).
THEOREM TypeCorrect == Spec => []TypeOK
<1>1. IInv => TypeOK
  BY DEF IInv
<1>2. QED
  BY <1>1, Safety, PTL

LEMMA RestIsWhole ==
  ASSUME IInv, NEW p \in Projects, AtRest(p), Unmoved(p), NEW r \in store[p]
  PROVE  /\ r.digest = {Served(r.ref)}
         /\ ledger[p] # <<>> /\ Last(ledger[p]).digest = r.digest
         /\ pinned[p] \in {{}, {Served(r.ref)}}
         /\ Running(p) \subseteq {Served(r.ref)}
<1>1. Whole(p)
  BY DEF AtRest, Busy, Whole, Deploying
<1>2. Told(p) /\ RunsOwn(p)
  BY DEF IInv
<1>3. Running(p) \subseteq {Served(r.ref)}
  BY <1>1, <1>2 DEF Running, RunsOwn
<1>4. QED
  BY <1>1, <1>2, <1>3 DEF Told

\* A project whose reference has not moved runs what its record and its ledger say
\* (deploy.py:397-427, runtimes.py:790-844).
THEOREM UnmovedIsToldHolds == Spec => []UnmovedIsTold
<1>1. IInv => UnmovedIsTold
  <2> SUFFICES ASSUME IInv, NEW p \in Projects, AtRest(p),
                      \A r \in store[p] : r.ref \notin moved, NEW r \in store[p]
               PROVE  /\ ledger[p] # <<>> /\ Last(ledger[p]).digest = r.digest
                      /\ Running(p) \in {{}, r.digest} /\ r.digest # {}
    BY DEF UnmovedIsTold, RecordTellsImage
  <2>1. /\ r.digest = {Served(r.ref)} /\ Running(p) \subseteq {Served(r.ref)}
        /\ ledger[p] # <<>> /\ Last(ledger[p]).digest = r.digest
    BY RestIsWhole DEF Unmoved
  <2>2. Running(p) \in {{}, r.digest} /\ r.digest # {}
    BY <2>1
  <2>3. QED
    BY <2>1, <2>2
<1>2. QED
  BY <1>1, Safety, PTL

\* What runs after a pinned import is the pin, unless the tag has moved
\* (deploy.py:355-366).
THEOREM PinHoldsHolds == Spec => []PinHolds
<1>1. IInv => PinHolds
  <2> SUFFICES ASSUME IInv, NEW p \in Projects, AtRest(p), pinned[p] # {},
                      NEW r \in store[p], r.ref \notin moved
               PROVE  Running(p) \subseteq pinned[p]
    BY DEF PinHolds
  <2>1. Unmoved(p)
    BY DEF Unmoved, IInv, Single
  <2>2. QED
    BY <2>1, RestIsWhole
<1>2. QED
  BY <1>1, Safety, PTL
=============================================================================
