---------------------------- MODULE Tokens_proofs ----------------------------
(***************************************************************************)
(* What is proved of Tokens and of Tunnels for every set of ids and every  *)
(* bound: a token is kept until its date or its revocation, and ends once  *)
(* (Tokens implements Delegation); and the same of a tunnel, of which      *)
(* MCTokens has the instance Tn.  Both rest on one fact: while the daemon  *)
(* is up, the files are exactly the index.                                 *)
(*                                                                         *)
(* Last, that a scope allows what it names (Scopes), for strings of any    *)
(* length: it rests on where the slashes of a string are, in their order.  *)
(***************************************************************************)
EXTENDS MCTokens, FiniteSetTheorems, SequenceTheorems, WellFoundedInduction, TLAPS

\* While the daemon is up, a file is there for each token of the index and no other,
\* and says what memory says.
DiskIsIndex ==
  up => \A t \in Tokens : disk[t] = IF t \in index THEN obj[t] ELSE {}

\* While it is down, the files hold what was not ended.
DiskKeeps ==
  ~up => /\ index = {}
         /\ \A t \in issued \ ended : disk[t] = obj[t] \/ Expired(obj[t])

\* A token that was issued has an object, and one that was not has no file.
Accounted ==
  /\ \A t \in issued : obj[t] # {}
  /\ \A t \in Tokens \ issued : disk[t] = {}

IInv ==
  /\ TypeOK
  /\ DiskIsIndex
  /\ DiskKeeps
  /\ Accounted
  /\ KeptUntilEnded

-----------------------------------------------------------------------------
LEMMA InvInit == Init => IInv
BY DEF Init, IInv, TypeOK, DiskIsIndex, DiskKeeps, Accounted, KeptUntilEnded, Expired, ApiToken

LEMMA CreateInv ==
  ASSUME IInv, NEW t \in Tokens, NEW ttl \in Ttls, Create(t, ttl)
  PROVE  IInv'
<1> DEFINE R == {[expires |-> now + ttl, revoked |-> FALSE]}
<1> USE DEF IInv
<1>1. /\ up /\ up' = up /\ t \notin issued
      /\ obj' = [obj EXCEPT ![t] = R]
      /\ disk' = [disk EXCEPT ![t] = obj'[t]]
      /\ index' = index \cup {t} /\ issued' = issued \cup {t}
      /\ UNCHANGED <<now, ended, faults>>
  BY DEF Create, Stores
<1>2. R \in SUBSET ApiToken
  BY ConstantsAssumption DEF ApiToken, TypeOK
<1> HIDE DEF R
<1>3. obj'[t] = R /\ disk'[t] = R /\ R # {}
  BY <1>1 DEF TypeOK, R
<1>4. TypeOK'
  BY <1>1, <1>2, <1>3 DEF TypeOK
<1>5. DiskIsIndex'
  BY <1>1, <1>3 DEF DiskIsIndex, TypeOK
<1>6. DiskKeeps' /\ Accounted'
  BY <1>1, <1>3 DEF DiskKeeps, Accounted, TypeOK
<1>7. KeptUntilEnded'
  BY <1>1, <1>3 DEF KeptUntilEnded, Expired, TypeOK
<1>8. QED
  BY <1>4, <1>5, <1>6, <1>7

LEMMA RevokeInv ==
  ASSUME IInv, NEW t \in Tokens, Revoke(t)
  PROVE  IInv'
<1> DEFINE R == {[r EXCEPT !.revoked = TRUE] : r \in obj[t]}
<1> USE DEF IInv
<1>1. /\ up /\ up' = up /\ t \in index
      /\ obj' = [obj EXCEPT ![t] = R]
      /\ disk' = [disk EXCEPT ![t] = obj'[t]]
      /\ ended' = ended \cup {t}
      /\ UNCHANGED <<now, index, issued, faults>>
  BY DEF Revoke, Stores
<1>2. R \in SUBSET ApiToken
  <2>1. \A r \in ApiToken : [r EXCEPT !.revoked = TRUE] \in ApiToken
    BY DEF ApiToken
  <2>2. obj[t] \in SUBSET ApiToken
    BY DEF TypeOK
  <2>3. QED
    BY <2>1, <2>2
<1>3. R # {}
  BY <1>1 DEF Accounted, TypeOK
<1> HIDE DEF R
<1>4. obj'[t] = R /\ disk'[t] = R
  BY <1>1 DEF TypeOK
<1>5. TypeOK'
  BY <1>1, <1>2, <1>4 DEF TypeOK
<1>6. DiskIsIndex'
  BY <1>1, <1>4 DEF DiskIsIndex, TypeOK
<1>7. DiskKeeps' /\ Accounted'
  BY <1>1, <1>3, <1>4 DEF DiskKeeps, Accounted, TypeOK
<1>8. KeptUntilEnded'
  BY <1>1, <1>4 DEF KeptUntilEnded, Expired, TypeOK
<1>9. QED
  BY <1>5, <1>6, <1>7, <1>8

LEMMA DeleteInv ==
  ASSUME IInv, NEW S \in SUBSET Due, Delete(S)
  PROVE  IInv'
<1> USE DEF IInv
<1>1. /\ up /\ up' = up
      /\ disk' = [t \in Tokens |-> IF t \in S THEN {} ELSE disk[t]]
      /\ index' = index \ S
      /\ UNCHANGED <<now, obj, issued, ended, faults>>
  BY DEF Delete
<1>2. TypeOK'
  BY <1>1 DEF TypeOK
<1>3. DiskIsIndex' /\ DiskKeeps' /\ Accounted'
  BY <1>1 DEF DiskIsIndex, DiskKeeps, Accounted, TypeOK
<1>4. KeptUntilEnded'
  BY <1>1 DEF KeptUntilEnded, Due, Expired
<1>5. QED
  BY <1>2, <1>3, <1>4

\* A record past its date stays so.
LEMMA ExpiredStays ==
  ASSUME TypeOK, Tick, NEW R \in SUBSET ApiToken, Expired(R)
  PROVE  Expired(R)'
<1>1. PICK r \in R : now >= r.expires
  BY DEF Expired
<1>2. r.expires \in Nat /\ now' = now + 1 /\ now \in Nat
  BY DEF ApiToken, Tick, TypeOK
<1>3. now' >= r.expires
  BY <1>1, <1>2
<1>4. QED
  BY <1>3 DEF Expired

LEMMA TickInv ==
  ASSUME IInv, Tick
  PROVE  IInv'
<1> USE DEF IInv
<1>1. /\ now' = now + 1
      /\ UNCHANGED <<up, obj, index, disk, issued, ended, faults>>
  BY DEF Tick
<1>2. \A t \in Tokens : Expired(obj[t]) => Expired(obj[t])'
  BY <1>1, ExpiredStays DEF TypeOK
<1>3. TypeOK'
  BY <1>1 DEF TypeOK
<1>4. DiskIsIndex' /\ Accounted'
  BY <1>1 DEF DiskIsIndex, Accounted
<1>5. DiskKeeps' /\ KeptUntilEnded'
  BY <1>1, <1>2 DEF DiskKeeps, KeptUntilEnded, TypeOK
<1>6. QED
  BY <1>3, <1>4, <1>5

Death == Crash \/ \E t \in Tokens : CrashInRevoke(t)

\* However the process ends, a file is as it was, or is cut short and its token ended.
LEMMA AtDeath ==
  ASSUME TypeOK, Death
  PROVE  /\ Dies
         /\ ended' \subseteq issued /\ ended \subseteq ended'
         /\ disk' \in [Tokens -> SUBSET ApiToken]
         /\ \A h \in Tokens : disk'[h] = disk[h] \/ (disk'[h] = {} /\ h \in ended')
<1>1. CASE Crash
  BY <1>1 DEF Crash, TypeOK
<1>2. ASSUME NEW t \in Tokens, CrashInRevoke(t)
      PROVE  /\ Dies
             /\ ended' \subseteq issued /\ ended \subseteq ended'
             /\ disk' \in [Tokens -> SUBSET ApiToken]
             /\ \A h \in Tokens : disk'[h] = disk[h] \/ (disk'[h] = {} /\ h \in ended')
  <2>1. Dies /\ disk' = [disk EXCEPT ![t] = {}] /\ ended' = ended \cup {t} /\ t \in index
    BY <1>2 DEF CrashInRevoke, Stores
  <2>2. QED
    BY <2>1 DEF TypeOK
<1>3. QED
  BY <1>1, <1>2 DEF Death

LEMMA DeathInv ==
  ASSUME IInv, Death
  PROVE  IInv'
<1> USE DEF IInv
<1>1. /\ up /\ up' = FALSE /\ index' = {} /\ faults' = faults + 1
      /\ now' = now /\ obj' = obj /\ issued' = issued
  BY AtDeath, Zenon DEF Dies
<1>2. /\ ended' \subseteq issued /\ ended \subseteq ended'
      /\ disk' \in [Tokens -> SUBSET ApiToken]
      /\ \A h \in Tokens : disk'[h] = disk[h] \/ (disk'[h] = {} /\ h \in ended')
  BY AtDeath, Zenon
<1>3. TypeOK'
  <2>1. faults' \in Nat
    BY <1>1 DEF TypeOK
  <2>2. QED
    BY <1>1, <1>2, <2>1 DEF TypeOK
<1>4. DiskIsIndex' /\ KeptUntilEnded'
  BY <1>1 DEF DiskIsIndex, KeptUntilEnded
<1>5. DiskKeeps'
  <2>1. ASSUME NEW t \in issued' \ ended'
        PROVE  disk'[t] = obj'[t] \/ Expired(obj[t])'
    <3>1. t \in Tokens /\ t \in issued \ ended /\ disk'[t] = disk[t]
      BY <1>1, <1>2, <2>1 DEF TypeOK
    <3>2. t \in index \/ Expired(obj[t])
      BY <1>1, <3>1 DEF KeptUntilEnded
    <3>3. QED
      BY <1>1, <3>1, <3>2 DEF DiskIsIndex, Expired
  <2>2. QED
    BY <1>1, <2>1 DEF DiskKeeps
<1>6. Accounted'
  BY <1>1, <1>2 DEF Accounted
<1>7. QED
  BY <1>3, <1>4, <1>5, <1>6

LEMMA RecoverInv ==
  ASSUME IInv, Recover
  PROVE  IInv'
<1> USE DEF IInv
<1>1. /\ ~up /\ up' = TRUE
      /\ index' = {t \in Tokens : disk[t] # {} /\ ~Expired(disk[t])}
      /\ obj' = [t \in Tokens |-> IF t \in index' THEN disk[t] ELSE obj[t]]
      /\ disk' = [t \in Tokens |-> IF t \in index' THEN disk[t] ELSE {}]
      /\ UNCHANGED <<now, issued, ended, faults>>
  BY DEF Recover
<1>2. index' \subseteq issued
  BY <1>1 DEF Accounted
<1>3. TypeOK'
  BY <1>1, <1>2 DEF TypeOK
<1>4. DiskIsIndex' /\ DiskKeeps'
  BY <1>1 DEF DiskIsIndex, DiskKeeps
<1>5. Accounted'
  BY <1>1, <1>2 DEF Accounted, TypeOK
<1>6. KeptUntilEnded'
  <2>1. ASSUME NEW t \in issued \ ended
        PROVE  t \in index' \/ Expired(obj[t])'
    <3>1. t \in Tokens /\ obj[t] # {} /\ (disk[t] = obj[t] \/ Expired(obj[t]))
      BY <1>1 DEF DiskKeeps, Accounted, TypeOK
    <3>2. CASE t \in index'
      BY <3>2
    <3>3. CASE t \notin index'
      <4>1. obj'[t] = obj[t] /\ Expired(obj[t])
        BY <1>1, <3>1, <3>3
      <4>2. QED
        BY <1>1, <4>1 DEF Expired
    <3>4. QED
      BY <3>2, <3>3
  <2>2. QED
    BY <1>1, <2>1 DEF KeptUntilEnded
<1>7. QED
  BY <1>3, <1>4, <1>5, <1>6

LEMMA InvNext == IInv /\ [Next]_vars => IInv'
<1> SUFFICES ASSUME IInv, [Next]_vars
             PROVE  IInv'
  OBVIOUS
<1>1. ASSUME NEW t \in Tokens, NEW ttl \in Ttls, Create(t, ttl)
      PROVE  IInv'
  BY <1>1, CreateInv
<1>2. ASSUME NEW t \in Tokens, Revoke(t)
      PROVE  IInv'
  BY <1>2, RevokeInv
<1>3. CASE Authenticate
  BY <1>3, DeleteInv DEF Authenticate
<1>4. CASE Cleanup
  BY <1>4, DeleteInv DEF Cleanup
<1>5. CASE Tick
  BY <1>5, TickInv
<1>6. CASE Death
  BY <1>6, DeathInv
<1>7. CASE Recover
  BY <1>7, RecoverInv
<1>8. CASE UNCHANGED vars
  BY <1>8 DEF vars, IInv, TypeOK, DiskIsIndex, DiskKeeps, Accounted, KeptUntilEnded, Expired
<1>9. QED
  BY <1>1, <1>2, <1>3, <1>4, <1>5, <1>6, <1>7, <1>8 DEF Next, Death

-----------------------------------------------------------------------------
\* The inductive invariant holds of every set of tokens (tokens.py:52-157).
THEOREM Safety == Spec => []IInv
BY InvInit, InvNext, PTL DEF Spec

\* What the index and the files hold are tokens, and nothing is honored that was not
\* issued, in any order of calls, sweeps and crashes (tokens.py:29-61).
THEOREM TypeCorrect == Spec => []TypeOK
BY Safety, PTL DEF IInv

\* A token nobody began to revoke is accepted until its date, over any number of restarts
\* (tokens.py:90-153).
THEOREM KeptUntilEndedHolds == Spec => []KeptUntilEnded
BY Safety, PTL DEF IInv

-----------------------------------------------------------------------------
(* Tokens implements Delegation *)

\* A step that issues nothing, and after which nothing is accepted that was not before,
\* ends some ids or none.
LEMMA OnlyEnds ==
  ASSUME issued' = issued, issued \subseteq Tokens, \A t \in issued : Honored(t)' => Honored(t)
  PROVE  [D!Next]_Standing
<1> DEFINE S == {t \in issued : Honored(t) /\ ~Honored(t)'}
<1>1. CASE S = {}
  BY <1>1 DEF Standing
<1>2. CASE S # {}
  <2>1. S \in SUBSET Tokens /\ \A t \in S : Standing[t] = "live"
    BY DEF Standing
  <2>2. Standing' = [t \in Tokens |-> IF t \in S THEN "over" ELSE Standing[t]]
    BY DEF Standing
  <2>3. D!End(S)
    BY <1>2, <2>1, <2>2 DEF D!End
  <2>4. QED
    BY <2>1, <2>3 DEF D!Next
<1>3. QED
  BY <1>1, <1>2

LEMMA CreateIssues ==
  ASSUME IInv, NEW t \in Tokens, NEW ttl \in Ttls, Create(t, ttl)
  PROVE  [D!Next]_Standing
<1> DEFINE q == [expires |-> now + ttl, revoked |-> FALSE]
<1>1. /\ up /\ up' /\ t \notin issued /\ now' = now
      /\ ttl \in Nat /\ ttl >= 1 /\ now \in Nat
      /\ obj' = [obj EXCEPT ![t] = {q}]
      /\ index' = index \cup {t} /\ issued' = issued \cup {t}
  BY ConstantsAssumption DEF Create, IInv, TypeOK
<1>2. obj'[t] = {q} /\ \A h \in Tokens \ {t} : obj'[h] = obj[h]
  BY <1>1 DEF IInv, TypeOK
<1>3. ~(now >= q.expires) /\ ~q.revoked
  BY <1>1
<1>4. Honored(t)'
  <2>1. ~Expired(obj[t])' /\ \E r \in obj'[t] : ~r.revoked
    BY <1>1, <1>2, <1>3 DEF Expired
  <2>2. QED
    BY <1>1, <2>1 DEF Honored, Expired
<1>5. \A h \in Tokens \ {t} : Honored(h)' <=> Honored(h)
  BY <1>1, <1>2 DEF Honored, Expired
<1>6. Standing[t] = "unissued"
  BY <1>1 DEF Standing
<1>7. Standing' = [Standing EXCEPT ![t] = "live"]
  BY <1>1, <1>4, <1>5 DEF Standing
<1>8. QED
  BY <1>6, <1>7 DEF D!Next, D!Issue

LEMMA RevokeEnds ==
  ASSUME IInv, NEW t \in Tokens, Revoke(t)
  PROVE  [D!Next]_Standing
<1>1. /\ up /\ up' /\ now' = now /\ issued' = issued /\ index' = index
      /\ obj' = [obj EXCEPT ![t] = {[r EXCEPT !.revoked = TRUE] : r \in obj[t]}]
  BY DEF Revoke
<1>2. \A r \in obj'[t] : r.revoked
  BY <1>1 DEF IInv, TypeOK, ApiToken
<1>3. \A h \in Tokens \ {t} : obj'[h] = obj[h]
  BY <1>1 DEF IInv, TypeOK
<1>4. \A h \in issued : Honored(h)' => Honored(h)
  BY <1>1, <1>2, <1>3 DEF Honored, Expired, IInv, TypeOK
<1>5. QED
  BY <1>1, <1>4, OnlyEnds DEF IInv, TypeOK

LEMMA DeleteEnds ==
  ASSUME IInv, NEW S, Delete(S)
  PROVE  [D!Next]_Standing
<1>1. /\ up /\ up' /\ now' = now /\ issued' = issued /\ obj' = obj
      /\ index' \subseteq index
  BY DEF Delete
<1>2. \A h \in issued : Honored(h)' => Honored(h)
  BY <1>1 DEF Honored, Expired
<1>3. QED
  BY <1>1, <1>2, OnlyEnds DEF IInv, TypeOK

LEMMA TickEnds ==
  ASSUME IInv, Tick
  PROVE  [D!Next]_Standing
<1>1. UNCHANGED <<up, obj, index, disk, issued>>
  BY DEF Tick
<1>2. \A h \in Tokens : /\ Expired(obj[h]) => Expired(obj[h])'
                        /\ Expired(disk[h]) => Expired(disk[h])'
  BY <1>1, ExpiredStays DEF IInv, TypeOK
<1>3. \A h \in issued : Honored(h)' => Honored(h)
  BY <1>1, <1>2 DEF Honored, Expired, IInv, TypeOK
<1>4. QED
  BY <1>1, <1>3, OnlyEnds DEF IInv, TypeOK

\* A crash: what will be recovered was in the index.
LEMMA DeathEnds ==
  ASSUME IInv, Death
  PROVE  [D!Next]_Standing
<1>1. up /\ ~up' /\ issued' = issued /\ now' = now
  BY AtDeath, Zenon DEF Dies, IInv
<1>2. \A h \in Tokens : disk'[h] = disk[h] \/ disk'[h] = {}
  BY AtDeath, Zenon DEF IInv
<1>3. \A h \in issued : Honored(h)' => Honored(h)
  BY <1>1, <1>2 DEF Honored, Expired, IInv, TypeOK, DiskIsIndex
<1>4. QED
  BY <1>1, <1>3, OnlyEnds DEF IInv, TypeOK

LEMMA RecoverEnds ==
  ASSUME IInv, Recover
  PROVE  [D!Next]_Standing
<1>1. /\ ~up /\ up' /\ issued' = issued /\ now' = now
      /\ index' \subseteq Tokens
      /\ obj' = [t \in Tokens |-> IF t \in index' THEN disk[t] ELSE obj[t]]
  BY DEF Recover
<1>2. \A h \in issued : Honored(h)' => Honored(h)
  BY <1>1 DEF Honored, Expired
<1>3. QED
  BY <1>1, <1>2, OnlyEnds DEF IInv, TypeOK

LEMMA StepRefines == IInv /\ [Next]_vars => [D!Next]_Standing
<1> SUFFICES ASSUME IInv, [Next]_vars
             PROVE  [D!Next]_Standing
  OBVIOUS
<1>1. ASSUME NEW t \in Tokens, NEW ttl \in Ttls, Create(t, ttl)
      PROVE  [D!Next]_Standing
  BY <1>1, CreateIssues
<1>2. ASSUME NEW t \in Tokens, Revoke(t)
      PROVE  [D!Next]_Standing
  BY <1>2, RevokeEnds
<1>3. CASE Authenticate \/ Cleanup
  BY <1>3, DeleteEnds DEF Authenticate, Cleanup
<1>4. CASE Tick
  BY <1>4, TickEnds
<1>5. CASE Death
  BY <1>5, DeathEnds
<1>6. CASE Recover
  BY <1>6, RecoverEnds
<1>7. CASE UNCHANGED vars
  BY <1>7 DEF vars, Standing, Honored, Expired
<1>8. QED
  BY <1>1, <1>2, <1>3, <1>4, <1>5, <1>6, <1>7 DEF Next, Death

\* Every token is issued once, and once it is no longer accepted it never is again
\* (tokens.py:63-153).
THEOREM TokensEndOnceHolds == Spec => TokensEndOnce
<1>1. Init => D!Init
  BY DEF Init, D!Init, Standing
<1>2. QED
  BY <1>1, StepRefines, Safety, PTL DEF Spec, TokensEndOnce, D!Spec
-----------------------------------------------------------------------------
(* Tunnels *)

\* The types of the variables of Tunnels, and of MCTokens beside them (tunnel.py:24-36).
TunnelTypeOK ==
  /\ now \in Nat /\ faults \in Nat
  /\ up \in BOOLEAN
  /\ expires \in [TunnelIds -> SUBSET Nat]
  /\ tunnelFiles \in [TunnelIds -> SUBSET Nat]
  /\ tunnels \subseteq tunnelIds /\ tunnelIds \subseteq TunnelIds /\ deleted \subseteq tunnelIds
  /\ relays \subseteq Tn!Relay

\* While the daemon is up, the files are those of the index, with the dates it has.
TunnelFilesAreIndex ==
  up => \A t \in TunnelIds : tunnelFiles[t] = IF t \in tunnels THEN expires[t] ELSE {}

\* While it is down, a tunnel that nobody deleted has its file, or is past its date; and
\* no relay is left.
TunnelFilesKeep ==
  ~up => /\ tunnels = {} /\ relays = {}
         /\ \A t \in tunnelIds \ deleted : tunnelFiles[t] = expires[t] \/ Tn!Past(expires[t])

\* A tunnel that was opened has a date, and one that was not has no file.
TunnelsAccounted ==
  /\ \A t \in tunnelIds : expires[t] # {}
  /\ \A t \in TunnelIds \ tunnelIds : tunnelFiles[t] = {}

\* A task ends by closing the end it does not read from, so that no visitor is left on
\* an open connection that nobody forwards to.
NoEndForgotten ==
  \A r \in relays :
    /\ r.tunnel \in tunnelIds
    /\ \A e \in Tn!Ends \ r.tasks : Tn!Other(e) \notin r.open

TunnelInv ==
  /\ TunnelTypeOK
  /\ TunnelFilesAreIndex
  /\ TunnelFilesKeep
  /\ TunnelsAccounted
  /\ NoEndForgotten
  /\ Tn!KeptUntilEnded

LEMMA TunnelInvInit == Tn!Init => TunnelInv
BY DEF Tn!Init, TunnelInv, TunnelTypeOK, TunnelFilesAreIndex, TunnelFilesKeep,
       TunnelsAccounted, NoEndForgotten, Tn!KeptUntilEnded, Tn!Past

LEMMA TunnelCreateInv ==
  ASSUME TunnelInv,
         NEW t \in TunnelIds, NEW timeout \in Timeouts, Tn!Create(t, timeout)
  PROVE  TunnelInv'
<1> DEFINE dates == {now + timeout}
<1> USE DEF TunnelInv
<1>1. /\ up /\ up' = up /\ t \notin tunnelIds
      /\ expires' = [expires EXCEPT ![t] = dates]
      /\ tunnelFiles' = [tunnelFiles EXCEPT ![t] = dates]
      /\ tunnels' = tunnels \cup {t} /\ tunnelIds' = tunnelIds \cup {t}
      /\ UNCHANGED <<now, relays, deleted, faults>>
  BY DEF Tn!Create
<1>2. dates \in SUBSET Nat
  BY TunnelsAssumption DEF Tn!ConstantsAssumption, TunnelTypeOK
<1> HIDE DEF dates
<1>3. expires'[t] = dates /\ tunnelFiles'[t] = dates /\ dates # {}
  BY <1>1 DEF TunnelTypeOK, dates
<1>4. TunnelTypeOK'
  BY <1>1, <1>2 DEF TunnelTypeOK
<1>5. TunnelFilesAreIndex'
  BY <1>1, <1>3 DEF TunnelFilesAreIndex, TunnelTypeOK
<1>6. TunnelFilesKeep' /\ TunnelsAccounted'
  BY <1>1, <1>3 DEF TunnelFilesKeep, TunnelsAccounted, TunnelTypeOK
<1>7. NoEndForgotten'
  BY <1>1 DEF NoEndForgotten
<1>8. Tn!KeptUntilEnded'
  BY <1>1, <1>3 DEF Tn!KeptUntilEnded, Tn!Past, TunnelTypeOK
<1>9. QED
  BY <1>4, <1>5, <1>6, <1>7, <1>8

\* What delete() takes, early or past its date, others do not miss.
LEMMA TunnelRemovesInv ==
  ASSUME TunnelInv, NEW S \in SUBSET tunnels, Tn!Removes(S), up,
         UNCHANGED <<now, up, relays, tunnelIds, faults>>,
         deleted \subseteq deleted', deleted' \subseteq tunnelIds,
         \A t \in S : t \in deleted' \/ Tn!Past(expires[t])
  PROVE  TunnelInv'
<1> USE DEF TunnelInv
<1>1. /\ tunnelFiles' = [t \in TunnelIds |-> IF t \in S THEN {} ELSE tunnelFiles[t]]
      /\ tunnels' = tunnels \ S /\ expires' = expires
  BY DEF Tn!Removes
<1>2. TunnelTypeOK'
  BY <1>1 DEF TunnelTypeOK
<1>3. TunnelFilesAreIndex' /\ TunnelFilesKeep' /\ TunnelsAccounted'
  BY <1>1 DEF TunnelFilesAreIndex, TunnelFilesKeep, TunnelsAccounted, TunnelTypeOK
<1>4. NoEndForgotten'
  BY DEF NoEndForgotten
<1>5. Tn!KeptUntilEnded'
  BY <1>1 DEF Tn!KeptUntilEnded, Tn!Past
<1>6. QED
  BY <1>2, <1>3, <1>4, <1>5

\* Each of the calls that delete a tunnel.
TunnelDeletion == (\E t \in TunnelIds : Tn!Delete(t) \/ Tn!Get(t)) \/ Tn!Cleanup

LEMMA TunnelDeletionInv ==
  ASSUME TunnelInv, TunnelDeletion
  PROVE  TunnelInv'
<1>1. ASSUME NEW t \in TunnelIds, Tn!Delete(t)
      PROVE  TunnelInv'
  <2>1. /\ {t} \in SUBSET tunnels /\ Tn!Removes({t}) /\ up
        /\ UNCHANGED <<now, up, relays, tunnelIds, faults>>
        /\ deleted' = deleted \cup {t}
    BY <1>1 DEF Tn!Delete
  <2>2. QED
    BY <2>1, TunnelRemovesInv DEF TunnelInv, TunnelTypeOK
<1>2. ASSUME NEW t \in TunnelIds, Tn!Get(t)
      PROVE  TunnelInv'
  <2>1. /\ {t} \in SUBSET tunnels /\ Tn!Removes({t}) /\ up
        /\ UNCHANGED <<now, up, relays, tunnelIds, faults, deleted>>
        /\ Tn!Past(expires[t])
    BY <1>2 DEF Tn!Get, Tn!Due
  <2>2. QED
    BY <2>1, TunnelRemovesInv DEF TunnelInv, TunnelTypeOK
<1>3. CASE Tn!Cleanup
  <2>1. /\ Tn!Due \in SUBSET tunnels /\ Tn!Removes(Tn!Due) /\ up
        /\ UNCHANGED <<now, up, relays, tunnelIds, faults, deleted>>
        /\ \A t \in Tn!Due : Tn!Past(expires[t])
    BY <1>3 DEF Tn!Cleanup, Tn!Due
  <2>2. QED
    BY <2>1, TunnelRemovesInv DEF TunnelInv, TunnelTypeOK
<1>4. QED
  BY <1>1, <1>2, <1>3 DEF TunnelDeletion

\* The steps of the relays, which leave the tunnels alone.
RelayStep ==
  \/ \E v \in Visitors, t \in TunnelIds : Tn!Connect(v, t)
  \/ \E r \in relays, e \in Tn!Ends : Tn!Hangup(r, e) \/ Tn!TaskEnds(r, e)

\* A relay becomes another of its tunnel with fewer tasks and open ends.
LEMMA RelayBecomesInv ==
  ASSUME TunnelInv, NEW r \in relays, NEW s, Tn!Becomes(r, s),
         s \in Tn!Relay, s.tunnel = r.tunnel,
         \A e \in Tn!Ends \ s.tasks : Tn!Other(e) \notin s.open
  PROVE  relays' \subseteq Tn!Relay /\ (tunnelIds' = tunnelIds => NoEndForgotten')
<1>1. relays' \subseteq relays \cup {s}
  BY DEF Tn!Becomes
<1>2. QED
  BY <1>1 DEF TunnelInv, TunnelTypeOK, NoEndForgotten

LEMMA RelayStepInv ==
  ASSUME TunnelInv, RelayStep
  PROVE  TunnelInv'
<1> USE DEF TunnelInv
<1>1. /\ UNCHANGED <<now, up, expires, tunnels, tunnelFiles, tunnelIds, deleted, faults>>
      /\ up \/ relays # {}
  BY DEF RelayStep, Tn!Connect, Tn!Hangup, Tn!TaskEnds, Tn!store
<1>2. relays' \subseteq Tn!Relay /\ NoEndForgotten'
  <2>1. ASSUME NEW v \in Visitors, NEW t \in TunnelIds, Tn!Connect(v, t)
        PROVE  relays' \subseteq Tn!Relay /\ NoEndForgotten'
    <3> DEFINE c == [visitor |-> v, tunnel |-> t, open |-> Tn!Ends, tasks |-> Tn!Ends]
    <3>1. relays' = relays \cup {c} /\ t \in tunnels /\ tunnelIds' = tunnelIds
      BY <2>1 DEF Tn!Connect
    <3>2. c \in Tn!Relay /\ c.tunnel = t /\ c.tasks = Tn!Ends
      BY DEF Tn!Relay
    <3> HIDE DEF c
    <3>3. QED
      BY <3>1, <3>2 DEF TunnelTypeOK, NoEndForgotten
  <2>2. ASSUME NEW r \in relays, NEW e \in Tn!Ends, Tn!Hangup(r, e)
        PROVE  relays' \subseteq Tn!Relay /\ NoEndForgotten'
    <3> DEFINE s == [r EXCEPT !.open = @ \ {e}]
    <3>1. Tn!Becomes(r, s)
      BY <2>2 DEF Tn!Hangup
    <3>2. r \in Tn!Relay /\ \A f \in Tn!Ends \ r.tasks : Tn!Other(f) \notin r.open
      BY DEF TunnelTypeOK, NoEndForgotten
    <3>3. s \in Tn!Relay /\ s.tunnel = r.tunnel /\ s.tasks = r.tasks /\ s.open = r.open \ {e}
      BY <3>2 DEF Tn!Relay
    <3> HIDE DEF s
    <3>4. QED
      BY <1>1, <3>1, <3>2, <3>3, RelayBecomesInv
  <2>3. ASSUME NEW r \in relays, NEW e \in Tn!Ends, Tn!TaskEnds(r, e)
        PROVE  relays' \subseteq Tn!Relay /\ NoEndForgotten'
    <3> DEFINE s == [r EXCEPT !.tasks = @ \ {e}, !.open = @ \ {Tn!Other(e)}]
    <3>1. Tn!Becomes(r, s)
      BY <2>3 DEF Tn!TaskEnds
    <3>2. r \in Tn!Relay /\ \A f \in Tn!Ends \ r.tasks : Tn!Other(f) \notin r.open
      BY DEF TunnelTypeOK, NoEndForgotten
    <3>3. /\ s \in Tn!Relay /\ s.tunnel = r.tunnel
          /\ s.tasks = r.tasks \ {e} /\ s.open = r.open \ {Tn!Other(e)}
      BY <3>2 DEF Tn!Relay
    <3> HIDE DEF s
    <3>4. QED
      BY <1>1, <3>1, <3>2, <3>3, RelayBecomesInv
  <2>4. QED
    BY <2>1, <2>2, <2>3 DEF RelayStep
<1>3. TunnelTypeOK'
  BY <1>1, <1>2 DEF TunnelTypeOK
<1>4. TunnelFilesAreIndex' /\ TunnelFilesKeep' /\ TunnelsAccounted' /\ Tn!KeptUntilEnded'
  BY <1>1 DEF TunnelFilesAreIndex, TunnelFilesKeep, TunnelsAccounted, Tn!KeptUntilEnded, Tn!Past
<1>5. QED
  BY <1>2, <1>3, <1>4

\* A date that has come stays past.
LEMMA PastStays ==
  ASSUME now \in Nat, Tn!Tick, NEW dates \in SUBSET Nat, Tn!Past(dates)
  PROVE  Tn!Past(dates)'
BY DEF Tn!Past, Tn!Tick

LEMMA TunnelTickInv ==
  ASSUME TunnelInv, Tn!Tick
  PROVE  TunnelInv'
<1> USE DEF TunnelInv
<1>1. /\ now' = now + 1
      /\ UNCHANGED <<up, expires, tunnels, tunnelFiles, relays, tunnelIds, deleted, faults>>
  BY DEF Tn!Tick, Tn!store
<1>2. \A t \in TunnelIds : Tn!Past(expires[t]) => Tn!Past(expires[t])'
  BY <1>1, PastStays DEF TunnelTypeOK
<1>3. TunnelTypeOK' /\ NoEndForgotten'
  BY <1>1 DEF TunnelTypeOK, NoEndForgotten
<1>4. TunnelFilesAreIndex' /\ TunnelsAccounted'
  BY <1>1 DEF TunnelFilesAreIndex, TunnelsAccounted
<1>5. TunnelFilesKeep' /\ Tn!KeptUntilEnded'
  BY <1>1, <1>2 DEF TunnelFilesKeep, Tn!KeptUntilEnded, TunnelTypeOK
<1>6. QED
  BY <1>3, <1>4, <1>5

LEMMA TunnelCrashInv ==
  ASSUME TunnelInv, Tn!Crash
  PROVE  TunnelInv'
<1> USE DEF TunnelInv
<1>1. /\ up /\ up' = FALSE /\ tunnels' = {} /\ relays' = {} /\ faults' = faults + 1
      /\ UNCHANGED <<now, expires, tunnelFiles, tunnelIds, deleted>>
  BY DEF Tn!Crash
<1>2. faults' \in Nat
  BY <1>1 DEF TunnelTypeOK
<1>3. TunnelTypeOK'
  BY <1>1, <1>2 DEF TunnelTypeOK
<1>4. TunnelFilesAreIndex' /\ TunnelsAccounted' /\ NoEndForgotten' /\ Tn!KeptUntilEnded'
  BY <1>1 DEF TunnelFilesAreIndex, TunnelsAccounted, NoEndForgotten, Tn!KeptUntilEnded
<1>5. TunnelFilesKeep'
  BY <1>1 DEF TunnelFilesKeep, TunnelFilesAreIndex, Tn!KeptUntilEnded, Tn!Past, TunnelTypeOK
<1>6. QED
  BY <1>3, <1>4, <1>5

LEMMA TunnelRecoverInv ==
  ASSUME TunnelInv, Tn!Recover
  PROVE  TunnelInv'
<1> USE DEF TunnelInv
<1>1. /\ ~up /\ up' = TRUE
      /\ tunnels' = {t \in TunnelIds : tunnelFiles[t] # {} /\ ~Tn!Past(tunnelFiles[t])}
      /\ expires' = [t \in TunnelIds |-> IF t \in tunnels' THEN tunnelFiles[t] ELSE expires[t]]
      /\ tunnelFiles' = [t \in TunnelIds |-> IF t \in tunnels' THEN tunnelFiles[t] ELSE {}]
      /\ UNCHANGED <<now, relays, tunnelIds, deleted, faults>>
  BY DEF Tn!Recover
<1>2. tunnels' \subseteq tunnelIds
  BY <1>1 DEF TunnelsAccounted
<1>3. TunnelTypeOK'
  BY <1>1, <1>2 DEF TunnelTypeOK
<1>4. TunnelFilesAreIndex' /\ TunnelFilesKeep' /\ NoEndForgotten'
  BY <1>1 DEF TunnelFilesAreIndex, TunnelFilesKeep, NoEndForgotten
<1>5. TunnelsAccounted'
  BY <1>1, <1>2 DEF TunnelsAccounted, TunnelTypeOK
<1>6. Tn!KeptUntilEnded'
  BY <1>1 DEF Tn!KeptUntilEnded, Tn!Past, TunnelFilesKeep, TunnelsAccounted, TunnelTypeOK
<1>7. QED
  BY <1>3, <1>4, <1>5, <1>6

LEMMA TunnelInvNext ==
  ASSUME TunnelInv, [Tn!Next]_Tn!vars
  PROVE  TunnelInv'
<1>1. ASSUME NEW t \in TunnelIds, NEW timeout \in Timeouts, Tn!Create(t, timeout)
      PROVE  TunnelInv'
  BY <1>1, TunnelCreateInv
<1>2. CASE TunnelDeletion
  BY <1>2, TunnelDeletionInv
<1>3. CASE RelayStep
  BY <1>3, RelayStepInv
<1>4. CASE Tn!Tick
  BY <1>4, TunnelTickInv
<1>5. CASE Tn!Crash
  BY <1>5, TunnelCrashInv
<1>6. CASE Tn!Recover
  BY <1>6, TunnelRecoverInv
<1>7. CASE UNCHANGED Tn!vars
  BY <1>7 DEF Tn!vars, Tn!store, TunnelInv, TunnelTypeOK, TunnelFilesAreIndex,
              TunnelFilesKeep, TunnelsAccounted, NoEndForgotten, Tn!KeptUntilEnded, Tn!Past
<1>8. QED
  BY <1>1, <1>2, <1>3, <1>4, <1>5, <1>6, <1>7 DEF Tn!Next, TunnelDeletion, RelayStep

-----------------------------------------------------------------------------
(* Tunnels implements Delegation *)

\* A step that issues no id, and after which nothing is a route that was none before,
\* ends some tunnels or none.
LEMMA TunnelsOnlyEnd ==
  ASSUME tunnelIds' = tunnelIds, tunnelIds \subseteq TunnelIds,
         \A t \in tunnelIds : Tn!Honored(t)' => Tn!Honored(t)
  PROVE  [Tn!D!Next]_Tn!Standing
<1> DEFINE S == {t \in tunnelIds : Tn!Honored(t) /\ ~Tn!Honored(t)'}
<1>1. CASE S = {}
  BY <1>1 DEF Tn!Standing
<1>2. CASE S # {}
  <2>1. S \in SUBSET TunnelIds /\ \A t \in S : Tn!Standing[t] = "live"
    BY DEF Tn!Standing
  <2>2. Tn!Standing' = [t \in TunnelIds |-> IF t \in S THEN "over" ELSE Tn!Standing[t]]
    BY DEF Tn!Standing
  <2>3. Tn!D!End(S)
    BY <1>2, <2>1, <2>2 DEF Tn!D!End
  <2>4. QED
    BY <2>1, <2>3 DEF Tn!D!Next
<1>3. QED
  BY <1>1, <1>2

LEMMA TunnelCreateIssues ==
  ASSUME TunnelInv,
         NEW t \in TunnelIds, NEW timeout \in Timeouts, Tn!Create(t, timeout)
  PROVE  [Tn!D!Next]_Tn!Standing
<1>1. /\ up /\ up' /\ t \notin tunnelIds /\ now' = now
      /\ timeout \in Nat /\ timeout >= 1 /\ now \in Nat
      /\ expires' = [expires EXCEPT ![t] = {now + timeout}]
      /\ tunnels' = tunnels \cup {t} /\ tunnelIds' = tunnelIds \cup {t}
  BY TunnelsAssumption DEF Tn!ConstantsAssumption, Tn!Create, TunnelInv, TunnelTypeOK
<1>2. expires'[t] = {now + timeout} /\ \A h \in TunnelIds \ {t} : expires'[h] = expires[h]
  BY <1>1 DEF TunnelInv, TunnelTypeOK
<1>3. ~Tn!Past(expires[t])'
  BY <1>1, <1>2 DEF Tn!Past
<1>4. Tn!Honored(t)'
  BY <1>1, <1>3 DEF Tn!Honored, Tn!Due
<1>5. \A h \in TunnelIds \ {t} : Tn!Honored(h)' <=> Tn!Honored(h)
  BY <1>1, <1>2 DEF Tn!Honored, Tn!Due, Tn!Past
<1>6. Tn!Standing[t] = "unissued"
  BY <1>1 DEF Tn!Standing
<1>7. Tn!Standing' = [Tn!Standing EXCEPT ![t] = "live"]
  BY <1>1, <1>4, <1>5 DEF Tn!Standing
<1>8. QED
  BY <1>6, <1>7 DEF Tn!D!Next, Tn!D!Issue

LEMMA TunnelDeletionEnds ==
  ASSUME TunnelInv, TunnelDeletion
  PROVE  [Tn!D!Next]_Tn!Standing
<1>1. /\ up /\ up' /\ now' = now /\ tunnelIds' = tunnelIds /\ expires' = expires
      /\ tunnels' \subseteq tunnels
  BY DEF TunnelDeletion, Tn!Delete, Tn!Get, Tn!Cleanup, Tn!Removes
<1>2. \A h \in tunnelIds : Tn!Honored(h)' => Tn!Honored(h)
  BY <1>1 DEF Tn!Honored, Tn!Due, Tn!Past
<1>3. QED
  BY <1>1, <1>2, TunnelsOnlyEnd DEF TunnelInv, TunnelTypeOK

LEMMA TunnelTickEnds ==
  ASSUME TunnelInv, Tn!Tick
  PROVE  [Tn!D!Next]_Tn!Standing
<1>1. UNCHANGED <<up, expires, tunnels, tunnelFiles, tunnelIds>>
  BY DEF Tn!Tick, Tn!store
<1>2. \A h \in TunnelIds : /\ Tn!Past(expires[h]) => Tn!Past(expires[h])'
                           /\ Tn!Past(tunnelFiles[h]) => Tn!Past(tunnelFiles[h])'
  BY <1>1, PastStays DEF TunnelInv, TunnelTypeOK
<1>3. \A h \in tunnelIds : Tn!Honored(h)' => Tn!Honored(h)
  BY <1>1, <1>2 DEF Tn!Honored, Tn!Due, TunnelInv, TunnelTypeOK
<1>4. QED
  BY <1>1, <1>3, TunnelsOnlyEnd DEF TunnelInv, TunnelTypeOK

\* A crash: what will be recovered was in the index.
LEMMA TunnelCrashEnds ==
  ASSUME TunnelInv, Tn!Crash
  PROVE  [Tn!D!Next]_Tn!Standing
<1>1. up /\ ~up' /\ UNCHANGED <<now, expires, tunnelFiles, tunnelIds>>
  BY DEF Tn!Crash
<1>2. \A h \in tunnelIds : Tn!Honored(h)' => Tn!Honored(h)
  BY <1>1 DEF Tn!Honored, Tn!Due, Tn!Past, TunnelInv, TunnelTypeOK, TunnelFilesAreIndex
<1>3. QED
  BY <1>1, <1>2, TunnelsOnlyEnd DEF TunnelInv, TunnelTypeOK

LEMMA TunnelRecoverEnds ==
  ASSUME TunnelInv, Tn!Recover
  PROVE  [Tn!D!Next]_Tn!Standing
<1>1. /\ ~up /\ up' /\ tunnelIds' = tunnelIds /\ now' = now
      /\ tunnels' = {t \in TunnelIds : tunnelFiles[t] # {} /\ ~Tn!Past(tunnelFiles[t])}
  BY DEF Tn!Recover
<1>2. \A h \in tunnelIds : Tn!Honored(h)' => Tn!Honored(h)
  BY <1>1 DEF Tn!Honored, Tn!Due
<1>3. QED
  BY <1>1, <1>2, TunnelsOnlyEnd DEF TunnelInv, TunnelTypeOK

LEMMA TunnelStepRefines ==
  ASSUME TunnelInv, [Tn!Next]_Tn!vars
  PROVE  [Tn!D!Next]_Tn!Standing
<1>1. ASSUME NEW t \in TunnelIds, NEW timeout \in Timeouts, Tn!Create(t, timeout)
      PROVE  [Tn!D!Next]_Tn!Standing
  BY <1>1, TunnelCreateIssues
<1>2. CASE TunnelDeletion
  BY <1>2, TunnelDeletionEnds
<1>3. CASE RelayStep
  <2>1. UNCHANGED <<now, up, expires, tunnels, tunnelFiles, tunnelIds>>
    BY <1>3 DEF RelayStep, Tn!Connect, Tn!Hangup, Tn!TaskEnds, Tn!store
  <2>2. QED
    BY <2>1 DEF Tn!Standing, Tn!Honored, Tn!Due, Tn!Past
<1>4. CASE Tn!Tick
  BY <1>4, TunnelTickEnds
<1>5. CASE Tn!Crash
  BY <1>5, TunnelCrashEnds
<1>6. CASE Tn!Recover
  BY <1>6, TunnelRecoverEnds
<1>7. CASE UNCHANGED Tn!vars
  BY <1>7 DEF Tn!vars, Tn!store, Tn!Standing, Tn!Honored, Tn!Due, Tn!Past
<1>8. QED
  BY <1>1, <1>2, <1>3, <1>4, <1>5, <1>6, <1>7 DEF Tn!Next, TunnelDeletion, RelayStep

\* Every tunnel is a route from its creation until it is deleted or past its date, over
\* restarts, and never again (tunnel.py:55-183).
THEOREM TunnelsHold == Tn!Spec => Tn!TunnelsLiveOnce
<1>1. Tn!Init => Tn!D!Init
  BY DEF Tn!Init, Tn!D!Init, Tn!Standing
<1>2. TunnelInv /\ [Tn!Next]_Tn!vars => TunnelInv' /\ [Tn!D!Next]_Tn!Standing
  BY TunnelInvNext, TunnelStepRefines
<1>3. TunnelInv => Tn!KeptUntilEnded
  BY DEF TunnelInv
<1>4. QED
  BY <1>1, <1>2, <1>3, TunnelInvInit, PTL DEF Tn!Spec, Tn!TunnelsLiveOnce, Tn!D!Spec

\* No tunnel is a route while a behaviour is one of the tokens.
LEMMA NoTunnelNoRoute ==
  ASSUME tunnelIds = {}, tunnelIds' = {}
  PROVE  Tn!Standing' = Tn!Standing /\ Tn!KeptUntilEnded
BY DEF Tn!Standing, Tn!KeptUntilEnded

\* The same of the behaviours that TLC follows, of which each is one of tokens or one of
\* tunnels (tunnel.py:55-183).
THEOREM TunnelsLiveOnceHolds == MCSpec => TunnelsLiveOnce
<1> DEFINE
      I == IF component = "tunnels" THEN TunnelInv ELSE tunnelIds = {}
<1>1. MCInit => Tn!D!Init /\ I
  BY TunnelInvInit DEF MCInit, Tn!Init, Tn!D!Init, Tn!Standing
<1>2. ASSUME I, [MCNext]_<<vars, scope, tunnelVars, component>>
      PROVE  I' /\ [Tn!D!Next]_Tn!Standing
  <2>1. CASE component = "tunnels" /\ Tn!Next /\ component' = component
    BY <1>2, <2>1, TunnelInvNext, TunnelStepRefines
  <2>2. CASE UNCHANGED <<vars, scope, tunnelVars, component>>
    <3>1. UNCHANGED Tn!vars /\ UNCHANGED <<component, tunnelIds>>
      BY <2>2 DEF vars, tunnelVars, Tn!vars, Tn!store
    <3>2. QED
      BY <1>2, <3>1, TunnelInvNext, TunnelStepRefines, NoTunnelNoRoute
  <2>3. CASE component = "tokens" /\ UNCHANGED tunnelVars /\ component' = component
    BY <1>2, <2>3, NoTunnelNoRoute DEF tunnelVars
  <2>4. QED
    BY <1>2, <2>1, <2>2, <2>3 DEF MCNext
<1>3. I => Tn!KeptUntilEnded
  BY DEF TunnelInv, Tn!KeptUntilEnded
<1>4. QED
  BY <1>1, <1>2, <1>3, PTL DEF MCSpec, TunnelsLiveOnce, Tn!TunnelsLiveOnce, Tn!D!Spec

-----------------------------------------------------------------------------
(* Scopes: the comparison of characters is one of parts.  Splitting is looked at through
   the edges of the parts in their order, and induction is the least number of which
   something does not hold. *)

Char == Words \cup {Slash, Blank}

-----------------------------------------------------------------------------
\* A set of numbers that is not empty has a least.
LEMMA LeastOf ==
  ASSUME NEW T \in SUBSET Nat, T # {}
  PROVE  \E x \in T : \A y \in T : x <= y
<1> DEFINE R == {ss \in Nat \X Nat : ss[1] < ss[2]}
<1>1. IsWellFoundedOn(R, Nat)
  BY NatLessThanWellFounded DEF OpToRel
<1>2. PICK x \in T : \A y \in T : ~ (<<y, x>> \in R)
  <2> HIDE DEF R
  <2> QED BY <1>1, WFMin
<1>3. ASSUME NEW y \in T PROVE x <= y
  <2>1. ~ (y < x)
    BY <1>2
  <2> QED BY <2>1
<1>4. QED
  BY <1>3

\* e lists the m numbers of S in their order.
Lists(e, m, S) ==
  /\ m \in Nat /\ e \in [1..m -> S]
  /\ \A i, j \in 1..m : i < j => e[i] < e[j]
  /\ \A x \in S : \E i \in 1..m : e[i] = x

LEMMA ListGrows ==
  ASSUME NEW S \in SUBSET Nat, NEW n \in Nat, NEW m, NEW e,
         Lists(e, m, {x \in S : x < n})
  PROVE  \E k, f : Lists(f, k, {x \in S : x < n + 1})
<1> DEFINE A == {x \in S : x < n}
           B == {x \in S : x < n + 1}
<1>1. CASE n \notin S
  <2>1. ASSUME NEW x \in S PROVE x < n + 1 <=> x < n
    BY <1>1
  <2> QED BY <2>1
<1>2. CASE n \in S
  <2> DEFINE f == [i \in 1..m + 1 |-> IF i = m + 1 THEN n ELSE e[i]]
  <2>0. ASSUME NEW x \in S PROVE x < n + 1 <=> x < n \/ x = n
    OBVIOUS
  <2>1. B = A \cup {n}
    BY <1>2, <2>0
  <2>2. m \in Nat /\ \A i \in 1..m : e[i] \in A
    BY DEF Lists
  <2>3. f \in [1..m + 1 -> B]
    BY <2>1, <2>2
  <2>4. \A i, j \in 1..m + 1 : i < j => f[i] < f[j]
    <3>1. TAKE i, j \in 1..m + 1
    <3>2. HAVE i < j
    <3>3. i \in 1..m /\ f[i] = e[i]
      BY <2>2, <3>2
    <3>4. CASE j = m + 1
      BY <2>2, <3>3, <3>4
    <3>5. CASE j # m + 1
      BY <2>2, <3>2, <3>3, <3>5 DEF Lists
    <3> QED BY <3>4, <3>5
  <2>5. \A x \in B : \E i \in 1..m + 1 : f[i] = x
    <3>1. TAKE x \in B
    <3>2. CASE x = n
      BY <2>2, <3>2
    <3>3. CASE x \in A
      <4>1. PICK i \in 1..m : e[i] = x
        BY <3>3 DEF Lists
      <4>2. i \in 1..m + 1 /\ f[i] = x
        BY <2>2, <4>1
      <4> QED BY <4>2
    <3> QED BY <2>1, <3>2, <3>3
  <2>6. Lists(f, m + 1, B)
    <3> HIDE DEF f, B
    <3> QED BY <2>2, <2>3, <2>4, <2>5 DEF Lists
  <2> QED BY <2>6
<1> QED BY <1>1, <1>2

\* Numbers below a bound can be listed.
LEMMA CanBeListed ==
  ASSUME NEW S \in SUBSET Nat, NEW N \in Nat
  PROVE  \E m, e : Lists(e, m, {x \in S : x < N})
<1> DEFINE T == {n \in Nat : ~ \E m, e : Lists(e, m, {x \in S : x < n})}
<1>1. SUFFICES T = {}
  BY <1>1
<1>2. 0 \notin T
  <2>1. Lists(<<>>, 0, {x \in S : x < 0})
    BY DEF Lists
  <2> QED BY <2>1
<1>3. ASSUME T # {} PROVE FALSE
  <2>1. PICK x \in T : \A y \in T : x <= y
    <3> HIDE DEF T
    <3>1. T \subseteq Nat
      BY DEF T
    <3> QED BY <1>3, <3>1, LeastOf
  <2>2. x \in Nat /\ x # 0 /\ x - 1 \in Nat /\ x - 1 \notin T
    <3>1. x \in Nat /\ x # 0
      BY <1>2, <2>1
    <3>2. x - 1 \in Nat /\ ~(x <= x - 1)
      BY <3>1
    <3> HIDE DEF T
    <3> QED BY <2>1, <3>1, <3>2
  <2>3. PICK m, e : Lists(e, m, {y \in S : y < x - 1})
    BY <2>2
  <2>4. \E k, f : Lists(f, k, {y \in S : y < (x - 1) + 1})
    BY <2>2, <2>3, ListGrows
  <2>5. (x - 1) + 1 = x
    BY <2>2
  <2> QED BY <2>1, <2>4, <2>5
<1> QED BY <1>3

\* The entry i of a list has i - 1 others before it.
LEMMA ListedRank ==
  ASSUME NEW S \in SUBSET Nat, NEW m, NEW e, Lists(e, m, S)
  PROVE  /\ Cardinality(S) = m
         /\ \A i \in 1..m : Cardinality({d \in S : d < e[i]}) = i - 1
<1>1. m \in Nat /\ e \in [1..m -> S]
  BY DEF Lists
<1>2. ASSUME NEW A, NEW k \in 0..m, \A i \in 1..m : e[i] \in A <=> i <= k, A \subseteq S
      PROVE  Cardinality(A) = k
  <2> DEFINE g == [i \in 1..k |-> e[i]]
  <2>1. g \in [1..k -> A]
    BY <1>1, <1>2
  <2>2. \A i, j \in 1..k : g[i] = g[j] => i = j
    <3>1. TAKE i, j \in 1..k
    <3>2. i \in 1..m /\ j \in 1..m /\ g[i] = e[i] /\ g[j] = e[j] /\ e[i] \in S /\ e[j] \in S
      BY <1>1
    <3>5. e[i] \in Nat /\ e[j] \in Nat
      BY <3>2
    <3>3. i < j => e[i] < e[j]
      BY <3>2 DEF Lists
    <3>4. j < i => e[j] < e[i]
      BY <3>2 DEF Lists
    <3> QED BY <3>2, <3>3, <3>4, <3>5
  <2>3. \A x \in A : \E i \in 1..k : g[i] = x
    <3>1. TAKE x \in A
    <3>2. PICK i \in 1..m : e[i] = x
      BY <1>2 DEF Lists
    <3>3. i \in 1..k /\ g[i] = x
      BY <1>2, <3>2, <1>1
    <3> QED BY <3>3
  <2>4. g \in Bijection(1..k, A)
    <3> HIDE DEF g
    <3> QED BY <2>1, <2>2, <2>3 DEF Bijection, Injection, Surjection, IsInjective
  <2>5. ExistsBijection(1..k, A)
    BY <2>4 DEF ExistsBijection
  <2> QED BY <1>1, <2>5, FS_CountingElements
<1>3. Cardinality(S) = m
  BY <1>1, <1>2
<1>4. ASSUME NEW i \in 1..m PROVE Cardinality({d \in S : d < e[i]}) = i - 1
  <2> DEFINE A == {d \in S : d < e[i]}
  <2>1. ASSUME NEW j \in 1..m PROVE e[j] \in A <=> j <= i - 1
    <3>1. e[j] \in Nat /\ e[i] \in Nat /\ e[j] \in S
      BY <1>1
    <3>2. j < i => e[j] < e[i]
      BY DEF Lists
    <3>3. i < j => e[i] < e[j]
      BY DEF Lists
    <3> QED BY <1>1, <3>1, <3>2, <3>3
  <2>2. A \subseteq S /\ i - 1 \in 0..m
    BY <1>1
  <2> HIDE DEF A
  <2>3. Cardinality(A) = i - 1
    BY <1>2, <2>1, <2>2
  <2> QED BY <2>3 DEF A
<1> QED BY <1>3, <1>4

\* N is the last of S, and up to there T is the same.
SameUpTo(S, T, N) ==
  /\ N \in S /\ \A c \in S : c <= N
  /\ \A c \in 0..N : c \in S <=> c \in T

\* The list of the longer one begins with the other's.
LEMMA ListsAgree ==
  ASSUME NEW S \in SUBSET Nat, NEW T \in SUBSET Nat, NEW e, NEW f, NEW m, NEW l, NEW N,
         Lists(e, m, S), Lists(f, l, T), SameUpTo(S, T, N)
  PROVE  m <= l /\ \A k \in 1..m : f[k] = e[k]
<1> DEFINE K == {k \in 1..m : ~ (k \in 1..l /\ f[k] = e[k])}
<1>0. /\ N \in S /\ N \in Nat /\ \A c \in S : c <= N
      /\ \A c \in 0..N : c \in S <=> c \in T
  BY DEF SameUpTo
<1>1. m \in Nat /\ l \in Nat /\ e \in [1..m -> S] /\ f \in [1..l -> T]
  BY DEF Lists
<1>2. SUFFICES ASSUME K # {} PROVE FALSE
  <2>1. PICK i \in 1..m : e[i] = N
    BY <1>0 DEF Lists
  <2>2. \A k \in 1..m : k \in 1..l /\ f[k] = e[k]
    BY <1>2
  <2>3. m \in 1..m
    BY <1>1, <2>1
  <2> QED BY <1>1, <2>2, <2>3
<1>3. PICK k \in K : \A j \in K : k <= j
  <2>1. K \in SUBSET Nat
    BY <1>1
  <2> HIDE DEF K
  <2> QED BY <1>2, <2>1, LeastOf
<1>4. k \in 1..m /\ e[k] \in S /\ e[k] \in Nat
  BY <1>1
<1>5. ASSUME NEW j \in 1..m, j < k PROVE j \in 1..l /\ f[j] = e[j]
  <2>1. j \notin K
    <3> HIDE DEF K
    <3> QED BY <1>3, <1>4, <1>5
  <2> QED BY <2>1
<1>6. e[k] \in T
  BY <1>0, <1>4
<1>7. PICK j \in 1..l : f[j] = e[k]
  BY <1>6 DEF Lists
<1>8. ~ (j < k)
  <2>1. SUFFICES ASSUME j < k PROVE FALSE
    OBVIOUS
  <2>2. j \in 1..m /\ f[j] = e[j]
    BY <1>1, <1>4, <1>5, <2>1
  <2>3. e[j] < e[k]
    BY <1>4, <2>1, <2>2 DEF Lists
  <2> QED BY <1>4, <1>7, <2>2, <2>3
<1>9. k \in 1..l /\ f[k] \in T /\ f[k] \in Nat
  <2>1. k \in 1..l
    BY <1>1, <1>4, <1>7, <1>8
  <2> QED BY <1>1, <2>1
<1>10. k < j => f[k] < f[j]
  BY <1>9 DEF Lists
<1>11. f[k] <= e[k] /\ e[k] <= N
  BY <1>0, <1>4, <1>7, <1>8, <1>9, <1>10
<1>12. f[k] \in 0..N
  BY <1>0, <1>4, <1>9, <1>11
<1>13. PICK i \in 1..m : e[i] = f[k]
  BY <1>0, <1>9, <1>12 DEF Lists
<1>14. ~ (i < k)
  <2>1. SUFFICES ASSUME i < k PROVE FALSE
    OBVIOUS
  <2>2. i \in 1..l /\ f[i] = e[i]
    BY <1>5, <2>1
  <2>3. f[i] < f[k]
    BY <1>9, <2>1, <2>2 DEF Lists
  <2> QED BY <1>9, <1>13, <2>2, <2>3
<1>15. k < i => e[k] < e[i]
  BY <1>4 DEF Lists
<1>16. e[k] = f[k]
  BY <1>4, <1>9, <1>11, <1>13, <1>14, <1>15
<1> QED BY <1>9, <1>16

-----------------------------------------------------------------------------
\* e lists the edges of the parts of a string, of which there are m - 1.
Edges(e, m, s) ==
  /\ Lists(e, m, Cuts(s))
  /\ m >= 2 /\ e[1] = 0 /\ e[m] = Len(s) + 1
  /\ Split(s) = [k \in 1..m - 1 |-> SubSeq(s, e[k] + 1, e[k + 1] - 1)]

LEMMA HasEdges ==
  ASSUME NEW s \in Seq(Char)
  PROVE  \E m, e : Edges(e, m, s)
<1>1. Len(s) \in Nat /\ DOMAIN s = 1..Len(s)
  OBVIOUS
<1>2. Cuts(s) \in SUBSET Nat
  BY <1>1 DEF Cuts
<1>3. {x \in Cuts(s) : x < Len(s) + 2} = Cuts(s)
  BY <1>1 DEF Cuts
<1>4. PICK m, e : Lists(e, m, Cuts(s))
  <2>1. Len(s) + 2 \in Nat
    BY <1>1
  <2> QED BY <1>2, <1>3, <2>1, CanBeListed
<1>5. m \in Nat /\ e \in [1..m -> Cuts(s)]
  BY <1>4 DEF Lists
<1>6. 0 \in Cuts(s) /\ Len(s) + 1 \in Cuts(s) /\ \A c \in Cuts(s) : c \in Nat /\ c <= Len(s) + 1
  BY <1>1 DEF Cuts
<1>7. PICK i \in 1..m : e[i] = 0
  BY <1>4, <1>6 DEF Lists
<1>8. PICK j \in 1..m : e[j] = Len(s) + 1
  BY <1>4, <1>6 DEF Lists
<1>9. i = 1
  <2>1. 1 \in 1..m /\ e[1] \in Cuts(s)
    BY <1>5, <1>7
  <2>2. 1 < i => e[1] < e[i]
    BY <1>4, <2>1 DEF Lists
  <2> QED BY <1>6, <1>7, <2>1, <2>2
<1>10. j = m
  <2>1. m \in 1..m /\ e[m] \in Cuts(s)
    BY <1>5, <1>8
  <2>2. j < m => e[j] < e[m]
    BY <1>4, <2>1 DEF Lists
  <2> QED BY <1>1, <1>5, <1>6, <1>8, <2>1, <2>2
<1>11. m >= 2
  BY <1>1, <1>5, <1>7, <1>8, <1>9, <1>10
<1>12. Cardinality(Cuts(s)) = m /\ \A k \in 1..m : Cardinality({d \in Cuts(s) : d < e[k]}) = k - 1
  <2> DEFINE C == Cuts(s)
  <2>1. C \in SUBSET Nat /\ Lists(e, m, C)
    BY <1>2, <1>4
  <2> HIDE DEF C
  <2>2. Cardinality(C) = m /\ \A k \in 1..m : Cardinality({d \in C : d < e[k]}) = k - 1
    BY <2>1, ListedRank
  <2> QED BY <2>2 DEF C
<1>13. ASSUME NEW k \in 1..m PROVE Cut(s, k - 1) = e[k]
  <2>1. e[k] \in Cuts(s)
    BY <1>5
  <2>2. ASSUME NEW c \in Cuts(s), Cardinality({d \in Cuts(s) : d < c}) = k - 1
        PROVE  c = e[k]
    <3>1. PICK h \in 1..m : e[h] = c
      BY <1>4 DEF Lists
    <3>2. h - 1 = k - 1
      BY <1>12, <2>2, <3>1
    <3>3. h = k
      BY <1>5, <3>2
    <3> QED BY <3>1, <3>3
  <2> QED BY <1>12, <2>1, <2>2 DEF Cut
<1>14. Split(s) = [k \in 1..m - 1 |-> SubSeq(s, e[k] + 1, e[k + 1] - 1)]
  <2>1. ASSUME NEW k \in 1..m - 1 PROVE Cut(s, k - 1) = e[k] /\ Cut(s, k) = e[k + 1]
    <3>1. k \in 1..m /\ k + 1 \in 1..m /\ (k + 1) - 1 = k
      BY <1>5
    <3> QED BY <1>13, <3>1
  <2> QED BY <1>12, <2>1 DEF Split
<1>15. e[1] = 0 /\ e[m] = Len(s) + 1
  BY <1>7, <1>8, <1>9, <1>10
<1>16. Edges(e, m, s)
  BY <1>4, <1>11, <1>14, <1>15, Zenon DEF Edges
<1> QED BY <1>16

\* Each part is the characters between two edges, none of which is a slash.
LEMMA PartsAre ==
  ASSUME NEW s \in Seq(Char), NEW e, NEW m, Edges(e, m, s)
  PROVE  /\ m \in Nat /\ m >= 2 /\ e[1] = 0 /\ e[m] = Len(s) + 1
         /\ Lists(e, m, Cuts(s)) /\ Cuts(s) \in SUBSET Nat
         /\ \A k \in 1..m - 1 : /\ e[k] \in 0..Len(s) /\ e[k + 1] \in 1..Len(s) + 1
                                /\ e[k] < e[k + 1]
         /\ Split(s) \in Seq(Seq(Char)) /\ Len(Split(s)) = m - 1
         /\ \A k \in 1..m - 1 :
              /\ Len(Split(s)[k]) = e[k + 1] - e[k] - 1
              /\ \A i \in 1..e[k + 1] - e[k] - 1 : Split(s)[k][i] = s[e[k] + i]
<1>1. m \in Nat /\ m >= 2 /\ e[1] = 0 /\ e[m] = Len(s) + 1 /\ Lists(e, m, Cuts(s))
  BY DEF Edges, Lists
<1>2. Split(s) = [k \in 1..m - 1 |-> SubSeq(s, e[k] + 1, e[k + 1] - 1)]
  BY Zenon DEF Edges
<1>3. Len(s) \in Nat /\ DOMAIN s = 1..Len(s)
  OBVIOUS
<1>4. Cuts(s) \in SUBSET Nat
  BY <1>3 DEF Cuts
<1>5. \A c \in Cuts(s) : c \in 0..Len(s) + 1
  BY <1>3 DEF Cuts
<1>6. ASSUME NEW k \in 1..m - 1
      PROVE  e[k] \in 0..Len(s) /\ e[k + 1] \in 1..Len(s) + 1 /\ e[k] < e[k + 1]
  <2>1. k \in 1..m /\ k + 1 \in 1..m /\ k < k + 1
    BY <1>1
  <2>2. e[k] < e[k + 1]
    BY <2>1 DEF Lists, Edges
  <2>3. e[k] \in Cuts(s) /\ e[k + 1] \in Cuts(s)
    BY <1>1, <2>1 DEF Lists
  <2> QED BY <1>3, <1>5, <2>2, <2>3
<1>7. ASSUME NEW k \in 1..m - 1
      PROVE  /\ Split(s)[k] \in Seq(Char)
             /\ Len(Split(s)[k]) = e[k + 1] - e[k] - 1
             /\ \A i \in 1..e[k + 1] - e[k] - 1 : Split(s)[k][i] = s[e[k] + i]
  <2> DEFINE a == e[k] + 1
             b == e[k + 1] - 1
  <2>1. Split(s)[k] = SubSeq(s, a, b)
    BY <1>2
  <2>2. a \in 1..Len(s) + 1 /\ b \in a - 1..Len(s) /\ a \in Int /\ b \in Int
    BY <1>3, <1>6
  <2>3. b - a + 1 = e[k + 1] - e[k] - 1 /\ \A i \in Int : a + i - 1 = e[k] + i
    BY <1>3, <1>6
  <2> HIDE DEF a, b
  <2>4. SubSeq(s, a, b) \in Seq(Char) /\ Len(SubSeq(s, a, b)) = b - a + 1
    BY <1>3, <2>2
  <2>5. \A i \in 1..b - a + 1 : SubSeq(s, a, b)[i] = s[a + i - 1]
    BY <1>3, <2>2
  <2>6. Split(s)[k] \in Seq(Char) /\ Len(Split(s)[k]) = e[k + 1] - e[k] - 1
    BY <2>1, <2>3, <2>4
  <2>7. ASSUME NEW i \in 1..e[k + 1] - e[k] - 1 PROVE Split(s)[k][i] = s[e[k] + i]
    <3>1. i \in 1..b - a + 1 /\ i \in Int
      BY <1>3, <1>6, <2>3
    <3>2. SubSeq(s, a, b)[i] = s[a + i - 1] /\ a + i - 1 = e[k] + i
      BY <2>3, <2>5, <3>1
    <3> QED BY <2>1, <3>2
  <2> QED BY <2>6, <2>7
<1>8. Split(s) \in Seq(Seq(Char)) /\ Len(Split(s)) = m - 1
  <2>1. Split(s) \in [1..m - 1 -> Seq(Char)]
    BY <1>2, <1>7
  <2>2. m - 1 \in Nat
    BY <1>1
  <2> QED BY <2>1, <2>2
<1>9. QED
  BY <1>1, <1>4, <1>6, <1>7, <1>8

\* A place in a string is at the end of a part or within it.
LEMMA PartOf ==
  ASSUME NEW s \in Seq(Char), NEW e, NEW m, Edges(e, m, s), NEW i \in 1..Len(s)
  PROVE  \E k \in 1..m - 1 : e[k] < i /\ i <= e[k + 1]
<1> DEFINE K == {k \in 1..m : i <= e[k]}
<1>1. m \in Nat /\ m >= 2 /\ e[1] = 0 /\ e[m] = Len(s) + 1 /\ Len(s) \in Nat
  BY PartsAre
<1>2. m \in K /\ K \in SUBSET Nat
  BY <1>1
<1>3. PICK k \in K : \A j \in K : k <= j
  <2> HIDE DEF K
  <2> QED BY <1>2, LeastOf
<1>4. k \in 1..m /\ k # 1 /\ k - 1 \in 1..m - 1 /\ (k - 1) + 1 = k
  BY <1>1
<1>5. k - 1 \notin K /\ k - 1 \in 1..m
  <2>1. ~ (k <= k - 1) /\ k - 1 \in 1..m
    BY <1>1, <1>4
  <2> HIDE DEF K
  <2> QED BY <1>3, <2>1
<1>6. e[k - 1] \in 0..Len(s)
  BY <1>4, PartsAre
<1>7. e[k - 1] < i
  BY <1>1, <1>5, <1>6
<1> QED BY <1>4, <1>7

\* What one string is a prefix of.
LEMMA PrefixIs ==
  ASSUME NEW S, NEW s \in Seq(S), NEW t \in Seq(S)
  PROVE  IsPrefix(s, t) <=> Len(s) <= Len(t) /\ \A i \in 1..Len(s) : s[i] = t[i]
<1>1. CASE Len(s) <= Len(t)
  <2>1. SubSeq(s, 1, Len(s)) = s
    OBVIOUS
  <2>2. /\ SubSeq(t, 1, Len(s)) \in Seq(S) /\ Len(SubSeq(t, 1, Len(s))) = Len(s)
        /\ \A i \in 1..Len(s) : SubSeq(t, 1, Len(s))[i] = t[i]
    BY <1>1
  <2> DEFINE u == SubSeq(t, 1, Len(s))
  <2> HIDE DEF u
  <2>4. u \in Seq(S) /\ Len(u) = Len(s) /\ \A i \in 1..Len(s) : u[i] = t[i]
    BY <2>2 DEF u
  <2>5. ASSUME \A i \in 1..Len(s) : s[i] = t[i] PROVE s = u
    BY <2>4, <2>5, SeqEqual
  <2>3. s = SubSeq(t, 1, Len(s)) <=> \A i \in 1..Len(s) : s[i] = t[i]
    BY <2>4, <2>5 DEF u
  <2> QED BY <1>1, <2>1, <2>3 DEF IsPrefix
<1>2. CASE ~ (Len(s) <= Len(t))
  BY <1>2 DEF IsPrefix
<1> QED BY <1>1, <1>2

\* One string is another, or in front of it with a slash after it.
Under(q, n) == q = n \/ IsPrefix(n \o <<Slash>>, q)

LEMMA UnderIs ==
  ASSUME NEW n \in Seq(Char), NEW q \in Seq(Char)
  PROVE  Under(q, n) <=> /\ Len(n) <= Len(q) /\ \A i \in 1..Len(n) : n[i] = q[i]
                         /\ Len(q) = Len(n) \/ q[Len(n) + 1] = Slash
<1> DEFINE t == n \o <<Slash>>
<1>1. Slash \in Char
  BY DEF Char
<1>2. t \in Seq(Char) /\ Len(t) = Len(n) + 1 /\ t[Len(n) + 1] = Slash /\ Len(n) \in Nat
      /\ \A i \in 1..Len(n) : t[i] = n[i]
  BY <1>1
<1> HIDE DEF t
<1>3. IsPrefix(t, q) <=> Len(t) <= Len(q) /\ \A i \in 1..Len(t) : t[i] = q[i]
  BY <1>2, PrefixIs
<1>4. (\A i \in 1..Len(t) : t[i] = q[i]) <=>
        (\A i \in 1..Len(n) : n[i] = q[i]) /\ q[Len(n) + 1] = Slash
  BY <1>2
<1>5. q = n <=> Len(q) = Len(n) /\ \A i \in 1..Len(n) : n[i] = q[i]
  <2>1. ASSUME Len(q) = Len(n), \A i \in 1..Len(n) : n[i] = q[i] PROVE q = n
    BY <2>1, SeqEqual
  <2> QED BY <2>1
<1>6. Len(q) \in Nat
  OBVIOUS
<1>7. Len(t) <= Len(q) <=> Len(n) <= Len(q) /\ Len(n) # Len(q)
  BY <1>2, <1>6
<1>8. Under(q, n) <=> q = n \/ IsPrefix(t, q)
  BY DEF Under, t
<1> QED BY <1>2, <1>3, <1>4, <1>5, <1>6, <1>7, <1>8

\* Comparing the characters of a string with those of another, and asking for the end or a
\* slash after them, compares their parts.
LEMMA PartsInFront ==
  ASSUME NEW n \in Seq(Char), NEW q \in Seq(Char)
  PROVE  Under(q, n) <=> IsPrefix(Split(n), Split(q))
<1>1. PICK m, e : Edges(e, m, n)
  BY HasEdges
<1>2. PICK l, f : Edges(f, l, q)
  BY HasEdges
<1> DEFINE N == Len(n)
           Same(k) == /\ Len(Split(n)[k]) = Len(Split(q)[k])
                      /\ \A i \in 1..Len(Split(n)[k]) : Split(n)[k][i] = Split(q)[k][i]
<1>3. /\ m \in Nat /\ m >= 2 /\ e[1] = 0 /\ e[m] = N + 1
      /\ Lists(e, m, Cuts(n)) /\ Cuts(n) \in SUBSET Nat
      /\ Split(n) \in Seq(Seq(Char)) /\ Len(Split(n)) = m - 1
  BY <1>1, PartsAre
<1>4. /\ l \in Nat /\ l >= 2 /\ f[1] = 0 /\ f[l] = Len(q) + 1
      /\ Lists(f, l, Cuts(q)) /\ Cuts(q) \in SUBSET Nat
      /\ Split(q) \in Seq(Seq(Char)) /\ Len(Split(q)) = l - 1
  BY <1>2, PartsAre
<1>5. ASSUME NEW k \in 1..m - 1
      PROVE  /\ e[k] \in 0..N /\ e[k + 1] \in 1..N + 1 /\ e[k] < e[k + 1]
             /\ Len(Split(n)[k]) = e[k + 1] - e[k] - 1
             /\ \A i \in 1..e[k + 1] - e[k] - 1 : Split(n)[k][i] = n[e[k] + i]
  BY <1>1, PartsAre
<1>6. ASSUME NEW k \in 1..l - 1
      PROVE  /\ f[k] \in 0..Len(q) /\ f[k + 1] \in 1..Len(q) + 1 /\ f[k] < f[k + 1]
             /\ Len(Split(q)[k]) = f[k + 1] - f[k] - 1
             /\ \A i \in 1..f[k + 1] - f[k] - 1 : Split(q)[k][i] = q[f[k] + i]
  BY <1>2, PartsAre
<1>7. N \in Nat /\ Len(q) \in Nat
  OBVIOUS
<1>8. IsPrefix(Split(n), Split(q)) <=> m <= l /\ \A k \in 1..m - 1 : Split(n)[k] = Split(q)[k]
  <2>1. IsPrefix(Split(n), Split(q)) <=>
          m - 1 <= l - 1 /\ \A k \in 1..m - 1 : Split(n)[k] = Split(q)[k]
    BY <1>3, <1>4, PrefixIs
  <2> QED BY <1>3, <1>4, <2>1
<1>9. ASSUME Under(q, n) PROVE IsPrefix(Split(n), Split(q))
  <2>1. N <= Len(q) /\ (\A i \in 1..N : n[i] = q[i]) /\ (Len(q) = N \/ q[N + 1] = Slash)
    BY <1>9, UnderIs
  <2>2. N + 1 \in Cuts(n) /\ \A c \in Cuts(n) : c <= N + 1
    BY <1>7 DEF Cuts
  <2>3. \A c \in 0..N + 1 : c \in Cuts(n) <=> c \in Cuts(q)
    <3>1. TAKE c \in 0..N + 1
    <3>2. CASE c = 0
      BY <3>2 DEF Cuts
    <3>3. CASE c = N + 1
      BY <1>7, <2>1, <3>3 DEF Cuts
    <3>4. CASE c \in 1..N
      <4>1. c \in 1..Len(q) /\ c # Len(q) + 1 /\ c # N + 1 /\ c # 0
        BY <1>7, <2>1, <3>4
      <4> QED BY <2>1, <3>4, <4>1 DEF Cuts
    <3> QED BY <1>7, <3>2, <3>3, <3>4
  <2>4. m <= l /\ \A k \in 1..m : f[k] = e[k]
    <3>1. SameUpTo(Cuts(n), Cuts(q), N + 1)
      BY <2>2, <2>3 DEF SameUpTo
    <3>2. /\ m \in Nat /\ l \in Nat
          /\ Cuts(n) \in SUBSET Nat /\ Cuts(q) \in SUBSET Nat
          /\ Lists(e, m, Cuts(n)) /\ Lists(f, l, Cuts(q))
      BY <1>3, <1>4
    <3>3. m <= l
      BY <3>1, <3>2, ListsAgree
    <3>4. ASSUME NEW k \in 1..m PROVE f[k] = e[k]
      BY <3>1, <3>2, ListsAgree
    <3> QED BY <3>3, <3>4
  <2>5. ASSUME NEW k \in 1..m - 1 PROVE Split(n)[k] = Split(q)[k]
    <3>1. /\ k \in 1..l - 1 /\ f[k] = e[k] /\ f[k + 1] = e[k + 1]
          /\ k \in 1..Len(Split(n)) /\ k \in 1..Len(Split(q))
      BY <1>3, <1>4, <2>4
    <3>2. Split(n)[k] \in Seq(Char) /\ Split(q)[k] \in Seq(Char)
      <4>1. Split(n) \in Seq(Seq(Char)) /\ Split(q) \in Seq(Seq(Char))
        BY <1>3, <1>4
      <4> QED BY <3>1, <4>1, ElementOfSeq
    <3>3. Len(Split(n)[k]) = e[k + 1] - e[k] - 1 /\ Len(Split(q)[k]) = e[k + 1] - e[k] - 1
      BY <1>5, <1>6, <3>1
    <3>4. ASSUME NEW i \in 1..e[k + 1] - e[k] - 1 PROVE Split(n)[k][i] = Split(q)[k][i]
      <4>1. Split(n)[k][i] = n[e[k] + i] /\ Split(q)[k][i] = q[e[k] + i]
        BY <1>5, <1>6, <3>1
      <4>2. e[k] + i \in 1..N
        BY <1>5, <1>7
      <4> QED BY <2>1, <4>1, <4>2
    <3> QED BY <3>2, <3>3, <3>4, SeqEqual
  <2> QED BY <1>8, <2>4, <2>5
<1>10. ASSUME IsPrefix(Split(n), Split(q)) PROVE Under(q, n)
  <2>1. m <= l /\ \A k \in 1..m - 1 : Split(n)[k] = Split(q)[k]
    BY <1>8, <1>10
  <2>2. \A k \in 1..m : f[k] = e[k]
    <3> DEFINE K == {k \in 1..m : f[k] # e[k]}
    <3>1. SUFFICES ASSUME K # {} PROVE FALSE
      OBVIOUS
    <3>2. PICK k \in K : \A j \in K : k <= j
      <4>1. K \in SUBSET Nat
        BY <1>3
      <4> HIDE DEF K
      <4> QED BY <3>1, <4>1, LeastOf
    <3>3. k \in 1..m /\ k # 1
      BY <1>3, <1>4
    <3>4. k - 1 \in 1..m - 1 /\ k - 1 \in 1..l - 1 /\ (k - 1) + 1 = k /\ k - 1 \in 1..m
      BY <1>3, <1>4, <2>1, <3>3
    <3>5. f[k - 1] = e[k - 1]
      <4>1. k - 1 \notin K
        <5>1. ~ (k <= k - 1)
          BY <3>3
        <5> HIDE DEF K
        <5> QED BY <3>2, <5>1
      <4> QED BY <3>4, <4>1
    <3>6. e[k] - e[k - 1] - 1 = f[k] - f[k - 1] - 1
      BY <1>5, <1>6, <2>1, <3>4
    <3>7. e[k] \in Nat /\ f[k] \in Nat /\ e[k - 1] \in Nat
      BY <1>5, <1>6, <3>4, <1>7
    <3>8. f[k] = e[k]
      BY <3>5, <3>6, <3>7
    <3> QED BY <3>8
  <2>3. N + 1 \in Cuts(q)
    <3>1. m \in 1..m /\ m \in 1..l /\ f[m] = N + 1
      BY <1>3, <1>4, <2>1, <2>2
    <3> QED BY <1>4, <3>1 DEF Lists
  <2>4. N <= Len(q) /\ (Len(q) = N \/ q[N + 1] = Slash)
    BY <1>7, <2>3 DEF Cuts
  <2>5. ASSUME NEW i \in 1..N PROVE n[i] = q[i]
    <3>1. PICK k \in 1..m - 1 : e[k] < i /\ i <= e[k + 1]
      BY <1>1, PartOf
    <3>2. /\ k \in 1..l - 1 /\ k + 1 \in 1..m /\ k + 1 \in 1..l
          /\ f[k] = e[k] /\ f[k + 1] = e[k + 1]
      BY <1>3, <1>4, <2>1, <2>2
    <3>3. CASE i = e[k + 1]
      <4>1. i \in Cuts(n) /\ i \in Cuts(q)
        BY <1>3, <1>4, <3>2, <3>3 DEF Lists
      <4>2. i # 0 /\ i # N + 1 /\ i # Len(q) + 1
        BY <1>7, <2>4
      <4> QED BY <4>1, <4>2 DEF Cuts
    <3>4. CASE i # e[k + 1]
      <4> DEFINE j == i - e[k]
      <4>1. j \in 1..e[k + 1] - e[k] - 1 /\ e[k] + j = i
        BY <1>5, <1>7, <3>1, <3>4
      <4> HIDE DEF j
      <4>2. Split(n)[k][j] = n[e[k] + j] /\ Split(q)[k][j] = q[f[k] + j]
        BY <1>5, <1>6, <3>2, <4>1
      <4> QED BY <2>1, <3>2, <4>1, <4>2
    <3> QED BY <3>3, <3>4
  <2> QED BY <2>4, <2>5, UnderIs
<1> QED BY <1>9, <1>10

-----------------------------------------------------------------------------
\* What strip leaves begins and ends with another character.
LEMMA StripIs ==
  ASSUME NEW s \in Seq(Char), NEW c
  PROVE  /\ Strip(s, c) \in Seq(Char)
         /\ Strip(s, c) # <<>> => Strip(s, c)[Len(Strip(s, c))] # c
         /\ s # <<>> /\ s[1] # c /\ s[Len(s)] # c => Strip(s, c) = s
<1> DEFINE K == {i \in DOMAIN s : s[i] # c}
           a == CHOOSE i \in K : \A j \in K : i <= j
           b == CHOOSE i \in K : \A j \in K : i >= j
<1>1. Len(s) \in Nat /\ DOMAIN s = 1..Len(s) /\ K \in SUBSET Nat
  OBVIOUS
<1>2. CASE K = {}
  <2>1. Strip(s, c) = <<>>
    BY <1>2 DEF Strip
  <2>2. ~ (s # <<>> /\ s[1] # c)
    BY <1>1, <1>2
  <2> QED BY <2>1, <2>2
<1>3. CASE K # {}
  <2>1. Strip(s, c) = SubSeq(s, a, b)
    BY <1>3 DEF Strip
  <2>2. \E i \in K : \A j \in K : i <= j
    <3> HIDE DEF K
    <3> QED BY <1>1, <1>3, LeastOf
  <2>3. \E i \in K : \A j \in K : i >= j
    <3> DEFINE F == {Len(s) - i : i \in K}
    <3>1. F \in SUBSET Nat /\ F # {}
      BY <1>1, <1>3
    <3>2. PICK x \in F : \A y \in F : x <= y
      <4> HIDE DEF F
      <4> QED BY <3>1, LeastOf
    <3>3. PICK i \in K : x = Len(s) - i
      BY <3>2
    <3>4. ASSUME NEW j \in K PROVE i >= j
      <4>1. Len(s) - i <= Len(s) - j
        BY <3>2, <3>3
      <4> QED BY <1>1, <4>1
    <3> QED BY <3>4
  <2>4. a \in K /\ b \in K /\ a <= b /\ \A j \in K : a <= j /\ j <= b
    <3> HIDE DEF K
    <3>1. a \in K /\ \A j \in K : a <= j
      BY <2>2
    <3>2. b \in K /\ \A j \in K : b >= j
      BY <2>3
    <3>3. a \in Nat /\ b \in Nat /\ \A j \in K : j \in Nat
      BY <1>1, <3>1, <3>2
    <3> HIDE DEF a, b
    <3> QED BY <3>1, <3>2, <3>3
  <2>5. a \in 1..Len(s) /\ b \in 1..Len(s) /\ s[b] # c
    <3> HIDE DEF a, b
    <3> QED BY <1>1, <2>4
  <2>6. s[1] # c /\ s[Len(s)] # c => a = 1 /\ b = Len(s)
    <3>1. SUFFICES ASSUME s[1] # c, s[Len(s)] # c PROVE a = 1 /\ b = Len(s)
      OBVIOUS
    <3> HIDE DEF a, b
    <3>2. 1 \in 1..Len(s) /\ Len(s) \in 1..Len(s)
      BY <1>1, <2>5
    <3>3. 1 \in K /\ Len(s) \in K
      BY <1>1, <3>1, <3>2
    <3> HIDE DEF K
    <3>4. a <= 1 /\ Len(s) <= b
      BY <2>4, <3>3
    <3>5. Len(s) \in Nat /\ a \in 1..Len(s) /\ b \in 1..Len(s)
      BY <1>1, <2>5
    <3>6. a = 1 /\ b = Len(s)
      BY <3>4, <3>5
    <3> QED BY <3>6
  <2> HIDE DEF a, b
  <2>7. /\ SubSeq(s, a, b) \in Seq(Char) /\ Len(SubSeq(s, a, b)) = b - a + 1
        /\ \A i \in 1..b - a + 1 : SubSeq(s, a, b)[i] = s[a + i - 1]
    BY <1>1, <2>4, <2>5
  <2>8. SubSeq(s, a, b)[b - a + 1] = s[b]
    <3>1. b - a + 1 \in 1..b - a + 1 /\ a + (b - a + 1) - 1 = b
      BY <1>1, <2>4, <2>5
    <3> QED BY <2>7, <3>1
  <2>9. a = 1 /\ b = Len(s) => SubSeq(s, a, b) = s
    OBVIOUS
  <2> QED BY <2>1, <2>5, <2>6, <2>7, <2>8, <2>9
<1> QED BY <1>2, <1>3

\* What create() stores as a scope: at or below the API prefix, with a part wherever there
\* is a slash.
WellFormed(n) ==
  /\ n \in Seq(Char) /\ n # <<>>
  /\ Under(n, Prefix)
  /\ n[Len(n)] # Slash
  /\ \A k \in DOMAIN Split(n) : Split(n)[k] # <<>>

LEMMA PrefixSplit == Prefix \in Seq(Char) /\ Len(Prefix) = 1 /\ Split(Prefix) = <<Prefix>>
<1>1. Prefix \in Seq(Char) /\ Len(Prefix) = 1 /\ Prefix[1] # Slash
  BY DEF Prefix, Char, Words, Slash
<1>2. PICK m, e : Edges(e, m, Prefix)
  BY <1>1, HasEdges
<1>3. Cuts(Prefix) = {0, 2}
  BY <1>1 DEF Cuts
<1>4. /\ m \in Nat /\ m >= 2 /\ e[1] = 0 /\ e[m] = 2 /\ Lists(e, m, Cuts(Prefix))
      /\ Split(Prefix) = [k \in 1..m - 1 |-> SubSeq(Prefix, e[k] + 1, e[k + 1] - 1)]
  BY <1>1, <1>2 DEF Edges, Lists
<1>5. m = 2
  <2>1. 2 \in 1..m /\ 1 \in 1..m /\ m \in 1..m
    BY <1>4
  <2>2. e[2] \in {0, 2} /\ e[1] < e[2]
    BY <1>3, <1>4, <2>1 DEF Lists
  <2>3. 2 < m => e[2] < e[m]
    BY <1>4, <2>1 DEF Lists
  <2> QED BY <1>4, <2>2, <2>3
<1>6. Split(Prefix) = [k \in 1..1 |-> Prefix]
  <2>1. SubSeq(Prefix, 1, 1) = Prefix
    BY <1>1
  <2>2. \A k \in 1..m - 1 : k = 1 /\ SubSeq(Prefix, e[k] + 1, e[k + 1] - 1) = Prefix
    BY <1>4, <1>5, <2>1
  <2>3. m - 1 = 1
    BY <1>5
  <2> QED BY <1>4, <2>2, <2>3
<1> QED BY <1>1, <1>6

\* No part of a string is empty if no two of its edges are next to each other.
LEMMA NoEmptyParts ==
  ASSUME NEW n \in Seq(Char), \A c \in Cuts(n) : c + 1 \notin Cuts(n)
  PROVE  \A k \in DOMAIN Split(n) : Split(n)[k] # <<>>
<1>1. PICK m, e : Edges(e, m, n)
  BY HasEdges
<1>2. /\ m \in Nat /\ Split(n) \in Seq(Seq(Char)) /\ Len(Split(n)) = m - 1
      /\ Lists(e, m, Cuts(n)) /\ Cuts(n) \in SUBSET Nat
  BY <1>1, PartsAre
<1>3. SUFFICES ASSUME NEW k \in 1..m - 1 PROVE Split(n)[k] # <<>>
  BY <1>2
<1>4. e[k] < e[k + 1] /\ Len(Split(n)[k]) = e[k + 1] - e[k] - 1
  BY <1>1, PartsAre, SMTT(60)
<1>5. e[k] \in Cuts(n) /\ e[k + 1] \in Cuts(n)
  <2>1. k \in 1..m /\ k + 1 \in 1..m
    BY <1>2
  <2> QED BY <1>2, <2>1 DEF Lists
<1>6. e[k + 1] # e[k] + 1
  BY <1>5
<1>7. e[k] \in Nat /\ e[k + 1] \in Nat
  BY <1>2, <1>5
<1>8. Len(Split(n)[k]) # 0
  BY <1>4, <1>6, <1>7
<1> QED BY <1>8

\* A project's name becomes the path of that project.
LEMMA NamedScope ==
  ASSUME NEW b \in Seq(Char), IsName(b)
  PROVE  WellFormed(Prefix \o <<Slash>> \o b)
<1> DEFINE n == Prefix \o <<Slash>> \o b
           p == Prefix \o <<Slash>>
<1>1. Prefix \in Seq(Char) /\ Len(Prefix) = 1 /\ Prefix[1] = "projects" /\ "projects" # Slash
  BY PrefixSplit DEF Prefix, Slash
<1>2. Len(b) \in Nat \ {0} /\ \A i \in 1..Len(b) : b[i] # Slash
  BY DEF IsName, Words, Slash
<1>3. /\ n \in Seq(Char) /\ Len(n) = Len(b) + 2 /\ n[1] = "projects" /\ n[2] = Slash
      /\ \A i \in 1..Len(b) : n[i + 2] = b[i]
  <2>1. p \in Seq(Char) /\ Len(p) = 2 /\ p[1] = "projects" /\ p[2] = Slash
    <3>1. Slash \in Char
      BY DEF Char
    <3>2. <<Slash>> \in Seq(Char) /\ Len(<<Slash>>) = 1 /\ <<Slash>>[1] = Slash
      BY <3>1
    <3>3. /\ Prefix \o <<Slash>> \in Seq(Char) /\ Len(Prefix \o <<Slash>>) = 1 + 1
          /\ \A i \in 1..1 + 1 : (Prefix \o <<Slash>>)[i] =
                                  IF i <= 1 THEN Prefix[i] ELSE <<Slash>>[i - 1]
      BY <1>1, <3>2, ConcatProperties
    <3> QED BY <1>1, <3>2, <3>3
  <2> HIDE DEF p
  <2>2. /\ p \o b \in Seq(Char) /\ Len(p \o b) = Len(p) + Len(b)
        /\ \A i \in 1..Len(p) + Len(b) :
             (p \o b)[i] = IF i <= Len(p) THEN p[i] ELSE b[i - Len(p)]
    BY <2>1, ConcatProperties
  <2>3. n = p \o b
    BY DEF p
  <2> HIDE DEF n
  <2>4. ASSUME NEW i \in 1..Len(b) PROVE n[i + 2] = b[i]
    <3>1. i + 2 \in 1..2 + Len(b) /\ ~ (i + 2 <= 2) /\ (i + 2) - 2 = i
      BY <1>2
    <3> QED BY <2>1, <2>2, <2>3, <3>1
  <2>5. n[1] = p[1] /\ n[2] = p[2]
    <3>1. 1 \in 1..2 + Len(b) /\ 2 \in 1..2 + Len(b)
      BY <1>2
    <3> QED BY <2>1, <2>2, <2>3, <3>1
  <2>6. n \in Seq(Char) /\ Len(n) = Len(b) + 2
    BY <1>2, <2>1, <2>2, <2>3
  <2> QED BY <2>1, <2>4, <2>5, <2>6
<1> HIDE DEF n
<1>4. n[Len(n)] # Slash
  <2>1. n[Len(b) + 2] = b[Len(b)]
    BY <1>2, <1>3
  <2> QED BY <1>2, <1>3, <2>1
<1>5. Under(n, Prefix)
  <2>1. /\ Len(Prefix) <= Len(n) /\ \A i \in 1..Len(Prefix) : Prefix[i] = n[i]
        /\ n[Len(Prefix) + 1] = Slash
    BY <1>1, <1>2, <1>3
  <2> QED BY <1>1, <1>3, <2>1, UnderIs
<1>6. ASSUME NEW c \in Cuts(n) PROVE c \in {0, 2, Len(b) + 3}
  <2>1. CASE c \in 1..Len(n) /\ n[c] = Slash /\ c # 1 /\ c # 2
    <3>1. c - 2 \in 1..Len(b) /\ (c - 2) + 2 = c
      BY <1>2, <1>3, <2>1
    <3>2. n[c] = b[c - 2]
      BY <1>3, <3>1
    <3> QED BY <1>2, <2>1, <3>1, <3>2
  <2>2. n[1] # Slash
    BY <1>3 DEF Slash
  <2>3. c \in {0, Len(n) + 1} \/ (c \in 1..Len(n) /\ n[c] = Slash)
    BY <1>3 DEF Cuts
  <2>4. Len(n) + 1 = Len(b) + 3
    BY <1>2, <1>3
  <2> QED BY <2>1, <2>2, <2>3, <2>4
<1>7. \A c \in Cuts(n) : c + 1 \notin Cuts(n)
  <2>1. \A c \in {0, 2, Len(b) + 3} : c + 1 \notin {0, 2, Len(b) + 3}
    BY <1>2
  <2> QED BY <1>6, <2>1
<1>8. \A k \in DOMAIN Split(n) : Split(n)[k] # <<>>
  BY <1>3, <1>7, NoEmptyParts
<1>9. n # <<>>
  BY <1>2, <1>3
<1>10. WellFormed(n)
  BY <1>3, <1>4, <1>5, <1>8, <1>9 DEF WellFormed
<1> QED BY <1>10 DEF n

\* normalize_scope refuses, or returns a scope.
LEMMA NormalIsWellFormed ==
  ASSUME NEW s \in Seq(Char), NormalizeScope(s) # <<>>
  PROVE  WellFormed(NormalizeScope(s))
<1> DEFINE b == Strip(Strip(s, Blank), Slash)
<1>1. Strip(s, Blank) \in Seq(Char)
  BY StripIs
<1>2. b \in Seq(Char) /\ (b # <<>> => b[Len(b)] # Slash)
  BY <1>1, StripIs
<1> HIDE DEF b
<1>3. \/ IsName(b) /\ NormalizeScope(s) = Prefix \o <<Slash>> \o b
      \/ /\ Split(b)[1] = Prefix /\ \A i \in DOMAIN Split(b) : Split(b)[i] # <<>>
         /\ NormalizeScope(s) = b
  BY DEF NormalizeScope, b
<1>4. CASE Split(b)[1] = Prefix /\ (\A i \in DOMAIN Split(b) : Split(b)[i] # <<>>)
           /\ NormalizeScope(s) = b
  <2>1. Split(b) \in Seq(Seq(Char)) /\ Len(Split(b)) >= 1
    <3>1. PICK m, e : Edges(e, m, b)
      BY <1>2, HasEdges
    <3>2. m \in Nat /\ m >= 2 /\ Split(b) \in Seq(Seq(Char)) /\ Len(Split(b)) = m - 1
      BY <1>2, <3>1, PartsAre
    <3> QED BY <3>2
  <2>2. IsPrefix(Split(Prefix), Split(b))
    <3>1. Split(Prefix) \in Seq(Seq(Char)) /\ Len(Split(Prefix)) = 1 /\ Split(Prefix)[1] = Prefix
      BY PrefixSplit
    <3>2. /\ Len(Split(Prefix)) <= Len(Split(b))
          /\ \A i \in 1..Len(Split(Prefix)) : Split(Prefix)[i] = Split(b)[i]
      BY <1>4, <2>1, <3>1
    <3> QED BY <2>1, <3>1, <3>2, PrefixIs
  <2>3. Under(b, Prefix)
    BY <1>2, <2>2, PrefixSplit, PartsInFront
  <2> QED BY <1>2, <1>4, <2>3 DEF WellFormed
<1> QED BY <1>2, <1>3, <1>4, NamedScope

\* Normalizing a scope again changes it only where it ends in blanks.
LEMMA NormalizedOnce ==
  ASSUME NEW n, WellFormed(n), Last(n) # Blank
  PROVE  NormalizeScope(n) = n
<1>1. /\ n \in Seq(Char) /\ n # <<>> /\ Under(n, Prefix) /\ n[Len(n)] # Slash
      /\ \A k \in DOMAIN Split(n) : Split(n)[k] # <<>> 
  BY DEF WellFormed
<1>2. /\ Prefix \in Seq(Char) /\ Len(Prefix) = 1 /\ Prefix[1] = "projects"
      /\ Split(Prefix) \in Seq(Seq(Char)) /\ Len(Split(Prefix)) = 1 /\ Split(Prefix)[1] = Prefix
  <2>1. Prefix[1] = "projects"
    BY DEF Prefix
  <2>2. Split(Prefix) \in Seq(Seq(Char)) /\ Len(Split(Prefix)) = 1 /\ Split(Prefix)[1] = Prefix
    BY PrefixSplit
  <2> QED BY <2>1, <2>2, PrefixSplit
<1>3. n[1] = "projects"
  BY <1>1, <1>2, UnderIs
<1>4. "projects" # Blank /\ "projects" # Slash
  BY DEF Blank, Slash
<1>5. Strip(n, Blank) = n
  BY <1>1, <1>3, <1>4, StripIs DEF Last
<1>6. Strip(n, Slash) = n
  BY <1>1, <1>3, <1>4, StripIs
<1>7. Split(n) \in Seq(Seq(Char)) /\ Len(Split(n)) \in Nat
  <2>1. PICK m, e : Edges(e, m, n)
    BY <1>1, HasEdges
  <2>2. Split(n) \in Seq(Seq(Char))
    BY <1>1, <2>1, PartsAre
  <2> QED BY <2>2
<1>8. Split(n)[1] = Prefix /\ Len(Split(n)) >= 1
  <2>1. IsPrefix(Split(Prefix), Split(n))
    BY <1>1, <1>2, PartsInFront
  <2>2. Len(Split(Prefix)) <= Len(Split(n))
        /\ \A i \in 1..Len(Split(Prefix)) : Split(Prefix)[i] = Split(n)[i]
    BY <1>2, <1>7, <2>1, PrefixIs
  <2> QED BY <1>2, <2>2
<1>9. Len(Split(n)) = 1 => n = Prefix
  <2>1. SUFFICES ASSUME Len(Split(n)) = 1 PROVE n = Prefix
    OBVIOUS
  <2>2. IsPrefix(Split(n), Split(Prefix))
    BY <1>2, <1>7, <1>8, <2>1, PrefixIs
  <2>3. Under(Prefix, n)
    BY <1>1, <1>2, <2>2, PartsInFront
  <2>4. Len(n) <= 1
    BY <1>1, <1>2, <2>3, UnderIs
  <2>5. Len(n) = Len(Prefix) /\ \A i \in 1..Len(n) : n[i] = Prefix[i]
    BY <1>1, <1>2, <1>3, <2>4
  <2> QED BY <1>1, <1>2, <2>5, SeqEqual
<1> QED
  BY <1>1, <1>5, <1>6, <1>8, <1>9 DEF NormalizeScope

\* A scope that is stored lets through what is below it and nothing else, but for one
\* that ends in blanks.
LEMMA ScopesHold ==
  ASSUME NEW n \in Scopes, Last(n) # Blank
  PROVE  n \notin Strays \cup Refusing
<1>1. ASSUME NEW k \in Nat, NEW s \in String(k) PROVE s \in Seq(Char)
  BY DEF String, SeqOf, Char
<1>2. WellFormed(n)
  <2>1. PICK s \in String(MaxScope) : n = NormalizeScope(s)
    BY DEF Scopes
  <2>2. s \in Seq(Char) /\ NormalizeScope(s) # <<>>
    BY <1>1, <2>1, StringsAssumption DEF Scopes
  <2> QED BY <2>1, <2>2, NormalIsWellFormed
<1>3. n \in Seq(Char) /\ n # <<>>
  BY <1>2 DEF WellFormed
<1>4. ASSUME NEW p \in Paths PROVE p \in Seq(Char) /\ Strip(p, Slash) \in Seq(Char)
  <2>1. p \in Seq(Char)
    BY <1>1, StringsAssumption DEF Paths
  <2> QED BY <2>1, StripIs
<1>5. NormalizeScope(n) = n
  BY <1>2, NormalizedOnce
<1>6. ASSUME NEW p \in Paths PROVE ScopeAllows(n, p) <=> IsBelow(p, n)
  <2>1. ScopeAllows(n, p) <=> Under(Strip(p, Slash), n)
    BY <1>3, <1>5 DEF ScopeAllows, Under
  <2>2. IsBelow(p, n) <=> Under(Strip(p, Slash), n)
    BY <1>3, <1>4, PartsInFront DEF IsBelow
  <2> QED BY <2>1, <2>2
<1> QED BY <1>6 DEF Strays, Refusing

-----------------------------------------------------------------------------
\* What the token followed has for a scope is what create() stored.
ScopedInv == IInv /\ (Followed \in issued => scope \in Scopes)

LEMMA ScopedInvNext ==
  ASSUME ScopedInv, [Scoped]_<<vars, scope>>
  PROVE  ScopedInv'
<1>1. [Next]_vars
  BY DEF Scoped
<1>2. IInv'
  BY <1>1, InvNext DEF ScopedInv
<1>3. CASE Scoped
  <2>1. CASE Followed \in issued' \ issued
    BY <1>2, <1>3, <2>1 DEF Scoped, ScopedInv, Scopes, String
  <2>2. CASE Followed \notin issued' \ issued
    BY <1>2, <1>3, <2>2 DEF Scoped, ScopedInv, Scopes, String
  <2> QED BY <2>1, <2>2
<1>4. CASE UNCHANGED <<vars, scope>>
  BY <1>2, <1>4 DEF ScopedInv, Scopes, String, vars
<1> QED BY <1>3, <1>4

\* A token of the index lets through what has the parts of its scope in front and
\* nothing else, unless its scope ends in blanks, for scopes and paths of every length
\* (tokens.py:160-182).
THEOREM AllowedPartByPartHolds == ScopedSpec => []AllowedPartByPart
<1>1. ScopedInit => ScopedInv
  BY InvInit DEF ScopedInit, ScopedInv, Init
<1>2. ScopedInv /\ [Scoped]_<<vars, scope>> => ScopedInv'
  BY ScopedInvNext
<1>3. ScopedInv => AllowedPartByPart
  BY ScopesHold DEF ScopedInv, IInv, TypeOK, AllowedPartByPart
<1>4. QED
  BY <1>1, <1>2, <1>3, PTL DEF ScopedSpec
=============================================================================
