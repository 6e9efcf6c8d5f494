---------------------------- MODULE Broker_proofs ----------------------------
(***************************************************************************)
(* What is proved of Broker for every set of grants, projects and callers, *)
(* every TTL and every bound: revoked grants stay revoked, a restart       *)
(* forgets nothing, and every grant ends once (Broker implements           *)
(* Delegation).                                                            *)
(*                                                                         *)
(* The three have one inductive invariant.  What makes them hold is that   *)
(* whatever a call in flight stores of a grant that has left the index is  *)
(* either marked as revoked or past its date.                              *)
(***************************************************************************)
EXTENDS Broker, TLAPS

\* A record that a restart will not take back.
Over(R) == Expired(R) \/ \A r \in R : r.revoked

\* What is on disk of a grant that is not in the index, and what a call may store.
OverOutside ==
  up => /\ \A g \in Grants : g \in index \/ Over(disk[g])
        /\ \A c \in calls : c.grant \in index \/ Over(obj[c.grant])

\* A revoked grant is out of the index, and marked where it is still held.
MarkedWhenRevoked ==
  \A g \in revoked : /\ g \notin index
                     /\ \A r \in disk[g] : r.revoked
                     /\ \A r \in obj[g] : r.revoked

\* Only ids that were issued have a file or a call; nothing runs while down.
Accounted ==
  /\ \A g \in Grants : disk[g] # {} => g \in issued
  /\ \A c \in calls : c.grant \in issued
  /\ ~up => index = {} /\ calls = {}

IInv ==
  /\ TypeOK
  /\ RestartForgetsNothing
  /\ MarkedWhenRevoked
  /\ OverOutside
  /\ Accounted

-----------------------------------------------------------------------------
\* Every collection takes expired grants of the index only.
LEMMA CollectsDue ==
  ASSUME TypeOK, NEW S \in Collections
  PROVE  S \subseteq index /\ \A g \in S : Expired(obj[g])
  BY DEF Collections, Due, TypeOK

\* A record past its date stays so.
LEMMA ExpiredStays ==
  ASSUME TypeOK, TypeOK', now' \in Nat, now \in Nat, now' >= now,
         NEW R \in SUBSET Grant, Expired(R)
  PROVE  Expired(R)'
<1>1. PICK r \in R : \E t \in r.expires : now >= t
  BY DEF Expired
<1>2. PICK t \in r.expires : now >= t
  BY <1>1
<1>3. t \in Nat
  BY <1>2 DEF Grant
<1>4. now' >= t
  BY <1>2, <1>3
<1>5. QED
  BY <1>1, <1>2, <1>4 DEF Expired

-----------------------------------------------------------------------------
\* What the handlers change of a record leaves it a record, and the rest as it was.
LEMMA Changed ==
  ASSUME NEW r \in Grant
  PROVE  /\ \A s \in Secrets, x \in SUBSET Nat : [r EXCEPT !.sealed = s, !.expires = x] \in Grant
         /\ [r EXCEPT !.revoked = TRUE] \in Grant
         /\ [r EXCEPT !.revoked = TRUE].revoked
         /\ [r EXCEPT !.used = TRUE] \in Grant
         /\ [r EXCEPT !.used = TRUE].revoked = r.revoked
         /\ [r EXCEPT !.used = TRUE].expires = r.expires
BY DEF Grant

-----------------------------------------------------------------------------
LEMMA InvInit == Init => IInv
BY ConstantsAssumption DEF Init, IInv, TypeOK, RestartForgetsNothing, MarkedWhenRevoked,
  OverOutside, Accounted, Over, Expired

LEMMA CreateInv ==
  ASSUME IInv, NEW g \in Grants, NEW p \in Projects, NEW s \in Secrets, NEW t \in Ttls,
         Create(g, p, s, t)
  PROVE  IInv'
<1> DEFINE r == [project |-> p, sealed |-> s, used |-> FALSE, revoked |-> FALSE,
                 expires |-> IF t = 0 THEN {} ELSE {now + t}]
<1> USE DEF IInv
<1>1. /\ up /\ g \notin issued
      /\ obj' = [obj EXCEPT ![g] = {r}]
      /\ disk' = [disk EXCEPT ![g] = {r}]
      /\ index' = index \cup {g}
      /\ issued' = issued \cup {g}
      /\ UNCHANGED <<now, up, calls, usage, revoked, faults>>
  BY DEF Create, Stores
<1>2. r \in Grant
  BY ConstantsAssumption DEF TypeOK, Grant
<1> HIDE DEF r
<1>3. TypeOK'
  BY <1>1, <1>2 DEF TypeOK
<1>4. RestartForgetsNothing'
  BY <1>1 DEF RestartForgetsNothing, TypeOK
<1>5. MarkedWhenRevoked'
  BY <1>1 DEF MarkedWhenRevoked, TypeOK
<1>6. OverOutside'
  BY <1>1 DEF OverOutside, Over, Expired, TypeOK, Call
<1>7. Accounted'
  BY <1>1 DEF Accounted, TypeOK
<1>8. QED
  BY <1>3, <1>4, <1>5, <1>6, <1>7

LEMMA ReauthorizeInv ==
  ASSUME IInv, NEW g \in Grants, NEW s \in Secrets, NEW x \in SUBSET Nat, Reauthorize(g, s, x)
  PROVE  IInv'
<1> DEFINE R == {[r EXCEPT !.sealed = s, !.expires = x] : r \in obj[g]}
<1> USE DEF IInv
<1>1. /\ up /\ g \in index
      /\ obj' = [obj EXCEPT ![g] = R]
      /\ UNCHANGED <<now, up, index, calls, usage, issued, revoked, faults>>
  BY DEF Reauthorize, history
<1>2. disk' = [disk EXCEPT ![g] = R]
  BY <1>1 DEF Reauthorize, Stores, TypeOK
<1>3. R \in SUBSET Grant /\ R # {}
  <2>1. obj[g] \in SUBSET Grant /\ obj[g] # {}
    BY <1>1 DEF TypeOK, RestartForgetsNothing
  <2>2. \A r \in obj[g] : [r EXCEPT !.sealed = s, !.expires = x] \in Grant
    BY <2>1, Changed
  <2>3. QED
    BY <2>1, <2>2
<1> HIDE DEF R
<1>4. TypeOK'
  BY <1>1, <1>2, <1>3 DEF TypeOK
<1>5. RestartForgetsNothing'
  BY <1>1, <1>2, <1>3 DEF RestartForgetsNothing, TypeOK
<1>6. MarkedWhenRevoked'
  BY <1>1, <1>2 DEF MarkedWhenRevoked, TypeOK
<1>7. OverOutside'
  BY <1>1, <1>2 DEF OverOutside, Over, Expired, TypeOK, Call
<1>8. Accounted'
  BY <1>1, <1>2 DEF Accounted, TypeOK
<1>9. QED
  BY <1>4, <1>5, <1>6, <1>7, <1>8

LEMMA RevokeInv ==
  ASSUME IInv, NEW g \in Grants, Revoke(g)
  PROVE  IInv'
<1> DEFINE R == {[r EXCEPT !.revoked = TRUE] : r \in obj[g]}
<1> USE DEF IInv
<1>1. /\ up /\ g \in index
      /\ obj' = [obj EXCEPT ![g] = R]
      /\ disk' = [disk EXCEPT ![g] = {}]
      /\ index' = index \ {g}
      /\ revoked' = revoked \cup {g}
      /\ UNCHANGED <<now, up, calls, usage, issued, faults>>
  BY DEF Revoke, Stores
<1>2. R \in SUBSET Grant /\ \A r \in R : r.revoked
  <2>1. obj[g] \in SUBSET Grant
    BY DEF TypeOK
  <2>2. \A r \in obj[g] : [r EXCEPT !.revoked = TRUE] \in Grant /\ [r EXCEPT !.revoked = TRUE].revoked
    BY <2>1, Changed
  <2>3. QED
    BY <2>2
<1> HIDE DEF R
<1>3. TypeOK'
  BY <1>1, <1>2 DEF TypeOK
<1>4. RestartForgetsNothing'
  BY <1>1 DEF RestartForgetsNothing, TypeOK
<1>5. MarkedWhenRevoked'
  BY <1>1, <1>2 DEF MarkedWhenRevoked, TypeOK
<1>6. OverOutside'
  BY <1>1, <1>2 DEF OverOutside, Over, Expired, TypeOK, Call
<1>7. Accounted'
  BY <1>1 DEF Accounted, TypeOK
<1>8. QED
  BY <1>3, <1>4, <1>5, <1>6, <1>7

LEMMA CollectInv ==
  ASSUME IInv, NEW S \in Collections, Collect(S)
  PROVE  IInv'
<1> USE DEF IInv
<1>1. S \subseteq index /\ \A g \in S : Expired(obj[g])
  BY CollectsDue
<1>2. /\ up
      /\ disk' = [g \in Grants |-> IF g \in S THEN {} ELSE disk[g]]
      /\ index' = index \ S
      /\ UNCHANGED <<now, up, obj, calls, usage, issued, revoked, faults>>
  BY DEF Collect, history
<1>3. TypeOK'
  BY <1>2 DEF TypeOK
<1>4. RestartForgetsNothing'
  BY <1>2 DEF RestartForgetsNothing, TypeOK
<1>5. MarkedWhenRevoked'
  BY <1>2 DEF MarkedWhenRevoked, TypeOK
<1>6. OverOutside'
  BY <1>1, <1>2 DEF OverOutside, Over, Expired, TypeOK, Call
<1>7. Accounted'
  BY <1>2 DEF Accounted, TypeOK
<1>8. QED
  BY <1>3, <1>4, <1>5, <1>6, <1>7

\* A line of the usage log is one of its type.
LEMMA LogsType ==
  ASSUME TypeOK, NEW g \in Grants, NEW d \in BOOLEAN, Logs(g, d)
  PROVE  usage' \in [Projects -> Seq(Use)]
<1> DEFINE p == (CHOOSE r \in obj[g] : TRUE).project
           e == [grant |-> g, denied |-> d]
<1>1. e \in Use
  BY DEF Use
<1>2. usage' = [usage EXCEPT ![p] = Append(@, e)]
  BY DEF Logs
<1> HIDE DEF p, e
<1>3. CASE p \in Projects
  BY <1>1, <1>2, <1>3 DEF TypeOK
<1>4. CASE p \notin Projects
  BY <1>2, <1>4 DEF TypeOK
<1>5. QED
  BY <1>3, <1>4

LEMMA DenyInv ==
  ASSUME IInv, NEW g \in Grants, Deny(g)
  PROVE  IInv'
<1> USE DEF IInv
<1>1. usage' \in [Projects -> Seq(Use)]
  BY LogsType DEF Deny
<1>2. QED
  BY <1>1 DEF Deny, memory, history, TypeOK, RestartForgetsNothing, MarkedWhenRevoked,
    OverOutside, Over, Expired, Accounted

LEMMA ProxyInv ==
  ASSUME IInv, NEW i \in Callers, NEW g \in Grants, Proxy(i, g)
  PROVE  IInv'
<1> DEFINE c == [id |-> i, grant |-> g]
<1> USE DEF IInv
<1>1. c \in Call /\ c.grant = g
  BY DEF Call
<1>2. /\ g \in index /\ up
      /\ calls' = calls \cup {c}
      /\ UNCHANGED <<now, up, obj, index, disk, usage, issued, revoked, faults>>
  BY DEF Proxy, history
<1> HIDE DEF c
<1>3. QED
  BY <1>1, <1>2 DEF TypeOK, RestartForgetsNothing, MarkedWhenRevoked, OverOutside, Over,
    Expired, Accounted

LEMMA AnswerInv ==
  ASSUME IInv, NEW c \in calls, Answer(c)
  PROVE  IInv'
<1> DEFINE g == c.grant
           R == {[r EXCEPT !.used = TRUE] : r \in obj[g]}
<1> USE DEF IInv
<1>1. g \in Grants /\ up
  BY DEF TypeOK, Call, Accounted
<1>2. /\ obj' = [obj EXCEPT ![g] = R]
      /\ calls' = calls \ {c}
      /\ UNCHANGED <<now, up, index, issued, revoked, faults>>
  BY DEF Answer, history
<1>3. disk' = [disk EXCEPT ![g] = R]
  BY <1>1, <1>2 DEF Answer, Stores, TypeOK
<1>4. usage' \in [Projects -> Seq(Use)]
  BY <1>1, LogsType DEF Answer
<1>0. \A r \in obj[g] : /\ [r EXCEPT !.used = TRUE] \in Grant
                        /\ [r EXCEPT !.used = TRUE].revoked = r.revoked
                        /\ [r EXCEPT !.used = TRUE].expires = r.expires
  BY <1>1, Changed DEF TypeOK
<1>5. R \in SUBSET Grant /\ (obj[g] # {} => R # {})
  BY <1>0
<1>6. (\A r \in obj[g] : r.revoked) => \A r \in R : r.revoked
  BY <1>0
<1>7. Expired(obj[g]) => Expired(R)
  <2>1. SUFFICES ASSUME NEW r \in obj[g], NEW t \in r.expires, now >= t
                 PROVE  Expired(R)
    BY DEF Expired
  <2>2. [r EXCEPT !.used = TRUE] \in R /\ t \in [r EXCEPT !.used = TRUE].expires
    BY <1>0
  <2>3. QED
    BY <2>1, <2>2 DEF Expired
<1>8. g \in issued
  BY DEF Accounted
<1> HIDE DEF g, R
<1>9. TypeOK'
  BY <1>1, <1>2, <1>3, <1>4, <1>5 DEF TypeOK
<1>10. RestartForgetsNothing'
  BY <1>1, <1>2, <1>3, <1>5 DEF RestartForgetsNothing, TypeOK
<1>11. MarkedWhenRevoked'
  BY <1>1, <1>2, <1>3, <1>6 DEF MarkedWhenRevoked, TypeOK
<1>12. OverOutside'
  <2>1. g \in index \/ Over(R)
    BY <1>1, <1>6, <1>7 DEF OverOutside, Over, g
  <2>2. \A h \in Grants : obj'[h] = IF h = g THEN R ELSE obj[h]
    BY <1>2 DEF TypeOK
  <2>3. \A h \in Grants : disk'[h] = IF h = g THEN R ELSE disk[h]
    BY <1>3 DEF TypeOK
  <2>4. \A h \in Grants : h \in index' \/ Over(disk[h]) \/ h = g
    BY <1>1, <1>2 DEF OverOutside
  <2>5. \A S : Over(S)' <=> Over(S)
    BY <1>2 DEF Over, Expired
  <2>6. QED
    BY <1>1, <1>2, <2>1, <2>2, <2>3, <2>4, <2>5 DEF OverOutside, TypeOK, Call
<1>13. Accounted'
  BY <1>1, <1>2, <1>3, <1>8 DEF Accounted, TypeOK
<1>14. QED
  BY <1>9, <1>10, <1>11, <1>12, <1>13

LEMMA TickInv ==
  ASSUME IInv, Tick
  PROVE  IInv'
<1> USE DEF IInv
<1>1. /\ now \in Nat /\ now' \in Nat /\ now' >= now
      /\ UNCHANGED <<up, obj, index, disk, calls, usage, issued, revoked, faults>>
  BY DEF Tick, memory, history, TypeOK
<1>2. TypeOK' /\ RestartForgetsNothing' /\ MarkedWhenRevoked' /\ Accounted'
  BY <1>1 DEF TypeOK, RestartForgetsNothing, MarkedWhenRevoked, Accounted
<1>3. \A R \in SUBSET Grant : Over(R) => Over(R)'
  BY <1>1, <1>2, ExpiredStays DEF Over
<1>4. \A g \in Grants : Over(disk[g]) => Over(disk[g])'
  BY <1>1, <1>3 DEF TypeOK
<1>5. \A c \in calls : Over(obj[c.grant]) => Over(obj[c.grant])'
  BY <1>1, <1>3 DEF TypeOK, Call
<1>6. OverOutside'
  BY <1>1, <1>4, <1>5 DEF OverOutside
<1>7. QED
  BY <1>2, <1>6

\* The end of the process loses memory, and at most the file being written.
Death == Crash \/ \E g \in Grants : CrashInSave(g)

LEMMA AtDeath ==
  ASSUME TypeOK, Death
  PROVE  /\ Dies
         /\ disk' \in [Grants -> SUBSET Grant]
         /\ \A h \in Grants : disk'[h] = disk[h] \/ disk'[h] = {}
<1>1. CASE Crash
  BY <1>1 DEF Crash, TypeOK
<1>2. ASSUME NEW g \in Grants, CrashInSave(g)
      PROVE  /\ Dies
             /\ disk' \in [Grants -> SUBSET Grant]
             /\ \A h \in Grants : disk'[h] = disk[h] \/ disk'[h] = {}
  <2>1. Dies /\ disk' = [disk EXCEPT ![g] = {}]
    BY <1>2 DEF CrashInSave, Stores
  <2>2. QED
    BY <2>1 DEF TypeOK
<1>3. QED
  BY <1>1, <1>2 DEF Death

LEMMA DeathInv ==
  ASSUME IInv, Death
  PROVE  IInv'
<1> USE DEF IInv
<1>0. TypeOK
  OBVIOUS
<1>1. /\ up /\ up' = FALSE
      /\ faults' = faults + 1
      /\ index' = {} /\ calls' = {}
      /\ UNCHANGED <<now, obj, usage, issued, revoked>>
  BY AtDeath DEF Dies
<1>2. /\ disk' \in [Grants -> SUBSET Grant]
      /\ \A h \in Grants : disk'[h] = disk[h] \/ disk'[h] = {}
  BY <1>0, AtDeath, Zenon
<1>3. TypeOK'
  <2>1. faults' \in Nat
    BY <1>0, <1>1 DEF TypeOK
  <2>2. /\ index' \subseteq issued' /\ calls' \subseteq Call
        /\ up' \in BOOLEAN
    BY <1>1
  <2>3. QED
    BY <1>0, <1>1, <1>2, <2>1, <2>2, Zenon DEF TypeOK
<1>4. RestartForgetsNothing' /\ OverOutside'
  BY <1>1 DEF RestartForgetsNothing, OverOutside
<1>5. MarkedWhenRevoked' /\ Accounted'
  BY <1>1, <1>2 DEF MarkedWhenRevoked, Accounted, TypeOK
<1>6. QED
  BY <1>3, <1>4, <1>5

LEMMA RecoverInv ==
  ASSUME IInv, Recover
  PROVE  IInv'
<1> USE DEF IInv
<1>1. /\ ~up /\ up' = TRUE
      /\ index' = {g \in Grants : ~Expired(disk[g]) /\ \E r \in disk[g] : ~r.revoked}
      /\ obj' = [g \in Grants |-> IF g \in index' THEN disk[g] ELSE obj[g]]
      /\ disk' = [g \in Grants |-> IF g \in index' THEN disk[g] ELSE {}]
      /\ UNCHANGED <<now, calls, usage, issued, revoked, faults>>
  BY DEF Recover, history
<1>2. calls = {}
  BY <1>1 DEF Accounted
<1>3. index' \subseteq issued
  BY <1>1 DEF Accounted
<1>4. TypeOK'
  BY <1>1, <1>3 DEF TypeOK
<1>5. RestartForgetsNothing'
  BY <1>1 DEF RestartForgetsNothing
<1>6. MarkedWhenRevoked'
  BY <1>1 DEF MarkedWhenRevoked, TypeOK
<1>7. OverOutside'
  BY <1>1, <1>2 DEF OverOutside, Over
<1>8. Accounted'
  BY <1>1, <1>2 DEF Accounted
<1>9. QED
  BY <1>4, <1>5, <1>6, <1>7, <1>8

LEMMA InvNext == IInv /\ [Next]_vars => IInv'
<1> SUFFICES ASSUME IInv, [Next]_vars
             PROVE  IInv'
  OBVIOUS
<1>1. ASSUME NEW g \in Grants, NEW p \in Projects, NEW s \in Secrets, NEW t \in Ttls,
             Create(g, p, s, t)
      PROVE  IInv'
  BY <1>1, CreateInv
<1>2. ASSUME NEW g \in Grants, Changes(g)
      PROVE  IInv'
  <2>1. PICK r \in obj[g], s \in Secrets, x \in {{now + t} : t \in Ttls} :
          Reauthorize(g, s, x) \/ Reauthorize(g, s, r.expires)
    BY <1>2 DEF Changes
  <2>2. PICK t \in Ttls : x = {now + t}
    BY <2>1
  <2>3. x \in SUBSET Nat
    BY <2>2, ConstantsAssumption DEF IInv, TypeOK
  <2>4. r \in Grant
    BY DEF IInv, TypeOK
  <2>5. r.expires \in SUBSET Nat
    BY <2>4 DEF Grant
  <2>6. QED
    BY <2>1, <2>3, <2>5, ReauthorizeInv
<1>3. ASSUME NEW g \in Grants, Revoke(g)
      PROVE  IInv'
  BY <1>3, RevokeInv
<1>4. ASSUME NEW S \in Collections, Collect(S)
      PROVE  IInv'
  BY <1>4, CollectInv
<1>5. ASSUME NEW g \in Grants, Deny(g)
      PROVE  IInv'
  BY <1>5, DenyInv
<1>6. ASSUME NEW i \in Callers, NEW g \in Grants, Proxy(i, g)
      PROVE  IInv'
  BY <1>6, ProxyInv
<1>7. ASSUME NEW c \in calls, Answer(c)
      PROVE  IInv'
  BY <1>7, AnswerInv
<1>8. CASE Tick
  BY <1>8, TickInv
<1>9. CASE Death
  BY <1>9, DeathInv
<1>10. CASE Recover
  BY <1>10, RecoverInv
<1>11. CASE UNCHANGED vars
  BY <1>11 DEF vars, memory, history, IInv, TypeOK, RestartForgetsNothing, OverOutside,
    Over, Expired, MarkedWhenRevoked, Accounted
<1>12. QED
  BY <1>1, <1>2, <1>3, <1>4, <1>5, <1>6, <1>7, <1>8, <1>9, <1>10, <1>11 DEF Next, Death

-----------------------------------------------------------------------------
\* The inductive invariant holds of every grant, project and overlap of calls
\* (broker.py:130-358).
THEOREM Safety == Spec => []IInv
BY InvInit, InvNext, PTL DEF Spec

\* The types of the broker's state (broker.py:94-108).
THEOREM TypeCorrect == Spec => []TypeOK
BY Safety, PTL DEF IInv

\* A revoked grant is never honored again, whatever its calls in flight store and
\* however often the daemon restarts (broker.py:250-259, 478-479, 348).
THEOREM RevokedStaysRevokedHolds == Spec => []RevokedStaysRevoked
<1>1. IInv => RevokedStaysRevoked
  BY DEF IInv, MarkedWhenRevoked, RevokedStaysRevoked
<1>2. QED
  BY <1>1, Safety, PTL

\* The file of every grant in the index holds what memory says (broker.py:322-326).
THEOREM RestartForgetsNothingHolds == Spec => []RestartForgetsNothing
BY Safety, PTL DEF IInv

-----------------------------------------------------------------------------
(* Broker implements Delegation *)

\* A step that issues nothing, and after which nothing is honored that was not
\* before, ends some ids or none.
LEMMA OnlyEnds ==
  ASSUME issued' = issued, issued \subseteq Grants, \A g \in issued : Honored(g)' => Honored(g)
  PROVE  [D!Next]_Standing
<1> DEFINE S == {g \in issued : Honored(g) /\ ~Honored(g)'}
<1>1. CASE S = {}
  BY <1>1 DEF Standing
<1>2. CASE S # {}
  <2>1. S \in SUBSET Grants /\ \A g \in S : Standing[g] = "live"
    BY DEF Standing
  <2>2. Standing' = [g \in Grants |-> IF g \in S THEN "over" ELSE Standing[g]]
    BY DEF Standing
  <2>3. D!End(S)
    BY <1>2, <2>1, <2>2 DEF D!End
  <2>4. QED
    BY <2>1, <2>3 DEF D!Next
<1>3. QED
  BY <1>1, <1>2

LEMMA CreateIssues ==
  ASSUME IInv, NEW g \in Grants, NEW p \in Projects, NEW s \in Secrets, NEW t \in Ttls,
         Create(g, p, s, t)
  PROVE  [D!Next]_Standing
<1>1. /\ up /\ up' /\ g \notin issued
      /\ index' = index \cup {g} /\ issued' = issued \cup {g}
  BY DEF Create
<1>2. \A h \in Grants : Honored(h)' <=> Honored(h) \/ h = g
  BY <1>1 DEF Honored
<1>3. Standing[g] = "unissued"
  BY <1>1 DEF Standing
<1>4. Standing' = [Standing EXCEPT ![g] = "live"]
  BY <1>1, <1>2 DEF Standing
<1>5. QED
  BY <1>3, <1>4 DEF D!Next, D!Issue

\* While the daemon stays up, what leaves the index is no longer honored.
LEMMA ShrinkingEnds ==
  ASSUME IInv, issued' = issued, up, up', index' \subseteq index
  PROVE  [D!Next]_Standing
<1>1. \A g \in issued : Honored(g)' => Honored(g)
  BY DEF Honored
<1>2. QED
  BY <1>1, OnlyEnds DEF IInv, TypeOK

\* A crash: what will be recovered was in the index.
LEMMA DeathEnds ==
  ASSUME IInv, Death
  PROVE  [D!Next]_Standing
<1>1. up /\ ~up' /\ issued' = issued /\ now' = now
  BY AtDeath DEF Dies, IInv
<1>2. ASSUME NEW h \in issued, Honored(h)'
      PROVE  Honored(h)
  <2>1. h \in Grants
    BY DEF IInv, TypeOK
  <2>2. disk'[h] = disk[h] \/ disk'[h] = {}
    BY <2>1, AtDeath DEF IInv
  <2>3. ~Expired(disk[h])' /\ \E r \in disk'[h] : ~r.revoked
    BY <1>1, <1>2 DEF Honored
  <2>4. ~Over(disk[h])
    BY <1>1, <2>2, <2>3 DEF Over, Expired
  <2>5. h \in index
    BY <1>1, <2>1, <2>4 DEF IInv, OverOutside
  <2>6. QED
    BY <1>1, <2>5 DEF Honored
<1>3. QED
  BY <1>1, <1>2, OnlyEnds DEF IInv, TypeOK

\* The index that recover() builds is what was said to be honored.
LEMMA RecoverEnds ==
  ASSUME IInv, Recover
  PROVE  [D!Next]_Standing
<1>1. /\ ~up /\ up' /\ issued' = issued
      /\ index' = {g \in Grants : ~Expired(disk[g]) /\ \E r \in disk[g] : ~r.revoked}
  BY DEF Recover, history
<1>2. \A g \in issued : Honored(g)' => Honored(g)
  BY <1>1 DEF Honored
<1>3. QED
  BY <1>1, <1>2, OnlyEnds DEF IInv, TypeOK

LEMMA TickEnds ==
  ASSUME IInv, Tick
  PROVE  [D!Next]_Standing
<1>1. /\ now \in Nat /\ now' \in Nat /\ now' >= now
      /\ up' = up /\ index' = index /\ disk' = disk /\ issued' = issued
  BY DEF Tick, memory, history, IInv, TypeOK
<1>2. TypeOK'
  BY TickInv DEF IInv
<1>3. \A g \in Grants : Expired(disk[g]) => Expired(disk[g])'
  BY <1>1, <1>2, ExpiredStays DEF IInv, TypeOK
<1>4. \A g \in issued : Honored(g)' => Honored(g)
  BY <1>1, <1>3 DEF Honored, IInv, TypeOK
<1>5. QED
  BY <1>1, <1>4, OnlyEnds DEF IInv, TypeOK

LEMMA StepRefines == IInv /\ [Next]_vars => [D!Next]_Standing
<1> SUFFICES ASSUME IInv, [Next]_vars
             PROVE  [D!Next]_Standing
  OBVIOUS
<1>1. ASSUME NEW g \in Grants, NEW p \in Projects, NEW s \in Secrets, NEW t \in Ttls,
             Create(g, p, s, t)
      PROVE  [D!Next]_Standing
  BY <1>1, CreateIssues
<1>2. ASSUME NEW g \in Grants, Changes(g)
      PROVE  [D!Next]_Standing
  <2>1. PICK s \in Secrets, x \in {{now + t} : t \in Ttls} \cup {r.expires : r \in obj[g]} :
          Reauthorize(g, s, x)
    BY <1>2 DEF Changes
  <2>2. up /\ up' /\ issued' = issued /\ index' = index
    BY <2>1 DEF Reauthorize, history
  <2>3. QED
    BY <2>2, ShrinkingEnds
<1>3. ASSUME NEW g \in Grants, Revoke(g)
      PROVE  [D!Next]_Standing
  BY <1>3, ShrinkingEnds DEF Revoke
<1>4. ASSUME NEW S \in Collections, Collect(S)
      PROVE  [D!Next]_Standing
  BY <1>4, ShrinkingEnds DEF Collect, history
<1>5. ASSUME NEW g \in Grants, Deny(g)
      PROVE  [D!Next]_Standing
  BY <1>5, ShrinkingEnds DEF Deny, memory, history
<1>6. ASSUME NEW i \in Callers, NEW g \in Grants, Proxy(i, g)
      PROVE  [D!Next]_Standing
  BY <1>6, ShrinkingEnds DEF Proxy, history
<1>7. ASSUME NEW c \in calls, Answer(c)
      PROVE  [D!Next]_Standing
  <2>1. up
    BY DEF IInv, Accounted
  <2>2. QED
    BY <1>7, <2>1, ShrinkingEnds DEF Answer, history
<1>8. CASE Tick
  BY <1>8, TickEnds
<1>9. CASE Death
  BY <1>9, DeathEnds
<1>10. CASE Recover
  BY <1>10, RecoverEnds
<1>11. CASE UNCHANGED vars
  BY <1>11 DEF vars, memory, history, Standing, Honored, Expired
<1>12. QED
  BY <1>1, <1>2, <1>3, <1>4, <1>5, <1>6, <1>7, <1>8, <1>9, <1>10, <1>11 DEF Next, Death

\* Every grant is issued once, and once it is no longer honored it never is again
\* (broker.py:167-259, 328-357).
THEOREM GrantsEndOnceHolds == Spec => GrantsEndOnce
<1>1. Init => D!Init
  BY DEF Init, D!Init, Standing
<1>2. QED
  BY <1>1, StepRefines, Safety, PTL DEF Spec, GrantsEndOnce, D!Spec
=============================================================================
