------------------------------- MODULE Tokens -------------------------------
(***************************************************************************)
(* The scoped API tokens (proxy/tokens.py): one file each, and an index of *)
(* them in memory.  A revoked token is not deleted but marked, and kept    *)
(* until its date, over restarts too; the expired ones are deleted by      *)
(* whichever call meets them, and by a sweep once a minute.  What a token  *)
(* may ask for is the module Scopes.                                       *)
(*                                                                         *)
(* As in Broker a record is held in a set of at most one, and a file that  *)
(* a crash left half written is {}: the next start deletes it.  A create() *)
(* that ends before its file is whole has told nobody of the token, and is *)
(* a Crash here.                                                           *)
(***************************************************************************)
EXTENDS Naturals

CONSTANTS
  Tokens,      \* token ids, drawn at random and never drawn twice
  Ttls,        \* the TTLs that callers ask for
  MaxTtl,      \* MAX_TTL
  MaxTime,     \* bound on the clock
  MaxFaults    \* bound on crashes

ASSUME ConstantsAssumption ==
  /\ Ttls \subseteq Nat
  /\ {MaxTtl, MaxTime, MaxFaults} \subseteq Nat

VARIABLES
  now,       \* the clock
  up,        \* the daemon process runs
  obj,       \* obj[t]: the ApiToken object, in the index or not
  index,     \* the ids in _tokens
  disk,      \* disk[t]: what DAEMON_TOKEN_DIR/t.json holds
  issued,    \* ids drawn so far (a history variable)
  ended,     \* tokens whose revocation has begun (a history variable)
  faults

vars == <<now, up, obj, index, disk, issued, ended, faults>>

ApiToken == [expires: Nat, revoked: BOOLEAN]
Expired(R) == \E r \in R : now >= r.expires
Due == {t \in index : Expired(obj[t])}

\* _save_token()
Stores(t, R) == disk' = [disk EXCEPT ![t] = R]

-----------------------------------------------------------------------------
(* The API *)

\* Mutant of Create: the token is not stored.
CreateUnstored(t, ttl) ==
  /\ up /\ t \notin issued
  /\ ttl \in 1..MaxTtl
  /\ obj' = [obj EXCEPT ![t] = {[expires |-> now + ttl, revoked |-> FALSE]}]
  /\ index' = index \cup {t}
  /\ issued' = issued \cup {t}
  /\ UNCHANGED <<now, up, disk, ended, faults>>

Create(t, ttl) ==
  /\ up /\ t \notin issued
  /\ ttl \in 1..MaxTtl
  /\ obj' = [obj EXCEPT ![t] = {[expires |-> now + ttl, revoked |-> FALSE]}]
  /\ Stores(t, obj'[t])
  /\ index' = index \cup {t}
  /\ issued' = issued \cup {t}
  /\ UNCHANGED <<now, up, ended, faults>>

\* Mutant of Revoke: the mark is not stored.
RevokeUnstored(t) ==
  /\ up /\ t \in index
  /\ obj' = [obj EXCEPT ![t] = {[r EXCEPT !.revoked = TRUE] : r \in @}]
  /\ ended' = ended \cup {t}
  /\ UNCHANGED <<now, up, index, disk, issued, faults>>

\* The index is asked: an expired token that is still there is marked as well.
Revoke(t) ==
  /\ up /\ t \in index
  /\ obj' = [obj EXCEPT ![t] = {[r EXCEPT !.revoked = TRUE] : r \in @}]
  /\ Stores(t, obj'[t])
  /\ ended' = ended \cup {t}
  /\ UNCHANGED <<now, up, index, issued, faults>>

\* Mutant of Delete: the files stay.
DeleteFromIndex(S) ==
  /\ up
  /\ index' = index \ S
  /\ UNCHANGED <<now, up, obj, disk, issued, ended, faults>>

\* delete(), of each in S.
Delete(S) ==
  /\ up
  /\ disk' = [t \in Tokens |-> IF t \in S THEN {} ELSE disk[t]]
  /\ index' = index \ S
  /\ UNCHANGED <<now, up, obj, issued, ended, faults>>

\* authenticate() deletes the expired tokens it meets before the one it was given.
Authenticate == \E S \in SUBSET Due \ {{}} : Delete(S)

\* list() and the sweep delete them all.
Cleanup == Due # {} /\ Delete(Due)

-----------------------------------------------------------------------------
(* Time and restarts *)

Tick ==
  /\ now < MaxTime
  /\ now' = now + 1
  /\ UNCHANGED <<up, obj, index, disk, issued, ended, faults>>

Dies ==
  /\ up /\ faults < MaxFaults
  /\ up' = FALSE
  /\ index' = {}
  /\ faults' = faults + 1
  /\ UNCHANGED <<now, obj, issued>>

\* The process ends between two calls.
Crash == Dies /\ UNCHANGED <<disk, ended>>

\* It ends while revoke() writes the file.
CrashInRevoke(t) ==
  /\ t \in index
  /\ Dies
  /\ Stores(t, {})
  /\ ended' = ended \cup {t}

\* recover(): every file is read, and deleted if it is past its date.
Recover ==
  /\ ~up /\ up' = TRUE
  /\ index' = {t \in Tokens : disk[t] # {} /\ ~Expired(disk[t])}
  /\ obj' = [t \in Tokens |-> IF t \in index' THEN disk[t] ELSE obj[t]]
  /\ disk' = [t \in Tokens |-> IF t \in index' THEN disk[t] ELSE {}]
  /\ UNCHANGED <<now, issued, ended, faults>>

-----------------------------------------------------------------------------
Init ==
  /\ now = 0
  /\ up = TRUE
  /\ obj = [t \in Tokens |-> {}]
  /\ index = {}
  /\ disk = [t \in Tokens |-> {}]
  /\ issued = {} /\ ended = {}
  /\ faults = 0

Next ==
  \/ \E t \in Tokens, ttl \in Ttls : Create(t, ttl)
  \/ \E t \in Tokens : Revoke(t)
  \/ Authenticate
  \/ Cleanup
  \/ Tick
  \/ Crash
  \/ \E t \in Tokens : CrashInRevoke(t)
  \/ Recover

Spec == Init /\ [][Next]_vars

\* The sweep runs once a minute (main.py:276-284), and the daemon is restarted.
Fairness == WF_vars(Cleanup) /\ WF_vars(Recover)
FairSpec == Spec /\ Fairness

-----------------------------------------------------------------------------
(* Properties *)

\* The types of the variables (tokens.py:29-37).
TypeOK ==
  /\ now \in Nat /\ faults \in Nat
  /\ up \in BOOLEAN
  /\ obj \in [Tokens -> SUBSET ApiToken]
  /\ disk \in [Tokens -> SUBSET ApiToken]
  /\ index \subseteq issued /\ issued \subseteq Tokens /\ ended \subseteq issued

\* A token that nobody began to revoke is accepted until its date, whatever the daemon's
\* restarts and the deletions of other tokens (tokens.py:90-153).
KeptUntilEnded == up => \A t \in issued \ ended : t \in index \/ Expired(obj[t])

\* authenticate() accepts the token; while the daemon is down, it will.
Honored(t) ==
  LET R == IF up THEN (IF t \in index THEN obj[t] ELSE {}) ELSE disk[t]
  IN  ~Expired(R) /\ \E r \in R : ~r.revoked

Standing ==
  [t \in Tokens |-> IF t \notin issued THEN "unissued" ELSE IF Honored(t) THEN "live" ELSE "over"]

D == INSTANCE Delegation WITH Ids <- Tokens, standing <- Standing

\* A token that was revoked or has expired is never accepted again, whatever restarts
\* follow (tokens.py:110-153).
TokensEndOnce == D!Spec

\* The file of a token past its date goes, also if the daemon was down when the date
\* came (tokens.py:128-146).
ExpiredFilesGo == \A t \in Tokens : Expired(disk[t]) ~> disk[t] = {}
=============================================================================
