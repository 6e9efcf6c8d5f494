------------------------------- MODULE Broker -------------------------------
(***************************************************************************)
(* The credential broker (proxy/broker.py): grants that are stored as one  *)
(* file each, an index of them in memory, calls that are proxied upstream  *)
(* with a grant's secret, and the usage log of each project.               *)
(*                                                                         *)
(* A proxied call looks its grant up, waits for the request's body and for *)
(* the upstream, and then stores the Grant object it has held meanwhile,   *)
(* which other handlers may have changed or dropped from the index.  All   *)
(* else runs without an await.                                             *)
(*                                                                         *)
(* A record is held in a set of at most one: {} where there is none.  A    *)
(* file that does not parse, left by a crash while it was written, is {}   *)
(* as well: the next start deletes it.                                     *)
(***************************************************************************)
EXTENDS Naturals, Sequences, SequencesExt

CONSTANTS
  Grants,      \* grant ids, drawn at random and never drawn twice
  Projects,    \* the projects grants are for
  Secrets,     \* sealed secrets
  Ttls,        \* the TTLs that callers ask for
  Callers,     \* bound on the proxied calls in progress at once
  MaxTime,     \* bound on the clock
  MaxUsage,    \* bound on the entries of a usage log
  MaxFaults    \* bound on crashes

ASSUME ConstantsAssumption ==
  /\ Ttls \subseteq Nat
  /\ {MaxTime, MaxUsage, MaxFaults} \subseteq Nat

VARIABLES
  now,       \* the clock
  up,        \* the daemon process runs
  obj,       \* obj[g]: the Grant object of this process, in the index or not
  index,     \* the ids in _grants
  disk,      \* disk[g]: what DAEMON_BROKER_DIR/g.json holds
  calls,     \* proxied calls in progress
  usage,     \* usage[p]: the lines of the project's usage log
  issued,    \* ids drawn so far (a history variable)
  revoked,   \* grants that revoke() returned True for (a history variable)
  faults

memory == <<up, obj, index, calls>>
history == <<issued, revoked, faults>>
vars == <<now, memory, disk, usage, history>>

-----------------------------------------------------------------------------
\* Dates are sets of at most one as well: {} is no expiry.
Grant ==
  [project: Projects, sealed: Secrets, expires: SUBSET Nat, used: BOOLEAN, revoked: BOOLEAN]

\* is_expired() of the records in R.
Expired(R) == \E r \in R : \E t \in r.expires : now >= t

Call == [id: Callers, grant: Grants]
Use == [grant: Grants, denied: BOOLEAN]

Stores(g, R) == disk' = [disk EXCEPT ![g] = R]

\* A line of the usage log of the grant's project.
Logs(g, d) ==
  LET p == (CHOOSE r \in obj[g] : TRUE).project IN
    /\ Len(usage[p]) < MaxUsage
    /\ usage' = [usage EXCEPT ![p] = Append(@, [grant |-> g, denied |-> d])]

-----------------------------------------------------------------------------
(* The API *)

\* A TTL of 0 is taken for none.
Create(g, p, s, ttl) ==
  /\ up /\ g \notin issued
  /\ LET r == [project |-> p, sealed |-> s, used |-> FALSE, revoked |-> FALSE,
               expires |-> IF ttl = 0 THEN {} ELSE {now + ttl}]
     IN  /\ obj' = [obj EXCEPT ![g] = {r}]
         /\ Stores(g, {r})
  /\ index' = index \cup {g}
  /\ issued' = issued \cup {g}
  /\ UNCHANGED <<now, up, calls, usage, revoked, faults>>

\* Mutant of Reauthorize: the change is not stored.
ReauthorizeUnstored(g, s, x) ==
  /\ up /\ g \in index
  /\ obj' = [obj EXCEPT ![g] = {[r EXCEPT !.sealed = s, !.expires = x] : r \in @}]
  /\ UNCHANGED <<now, up, index, calls, disk, usage, history>>

\* The index is asked, not get(): an expired grant that is still there comes back.
Reauthorize(g, s, x) ==
  /\ up /\ g \in index
  /\ obj' = [obj EXCEPT ![g] = {[r EXCEPT !.sealed = s, !.expires = x] : r \in @}]
  /\ Stores(g, obj'[g])
  /\ UNCHANGED <<now, up, index, calls, usage, history>>

\* The object is marked, and the grant deleted from disk and index.
Revoke(g) ==
  /\ up /\ g \in index /\ ~Expired(obj[g])
  /\ obj' = [obj EXCEPT ![g] = {[r EXCEPT !.revoked = TRUE] : r \in @}]
  /\ Stores(g, {})
  /\ index' = index \ {g}
  /\ revoked' = revoked \cup {g}
  /\ UNCHANGED <<now, up, calls, usage, issued, faults>>

\* get() deletes the expired grant it is asked for, list() those of a project,
\* cleanup_expired() all of them.
Collect(S) ==
  /\ up /\ S # {}
  /\ disk' = [g \in Grants |-> IF g \in S THEN {} ELSE disk[g]]
  /\ index' = index \ S
  /\ UNCHANGED <<now, up, obj, calls, usage, history>>

Due == {g \in index : Expired(obj[g])}
Collections ==
  {{g} : g \in Due} \cup {{g \in Due : \E r \in obj[g] : r.project = p} : p \in Projects}
  \cup {Due}

-----------------------------------------------------------------------------
(* Proxied calls; the caller's token is of the grant's project *)

\* The method or the path is not one the grant allows.
Deny(g) ==
  /\ up /\ g \in index /\ ~Expired(obj[g])
  /\ Logs(g, TRUE)
  /\ UNCHANGED <<now, memory, disk, history>>

\* The secret is unsealed, and the call waits for its body and the upstream.
Proxy(i, g) ==
  /\ up /\ g \in index /\ ~Expired(obj[g])
  /\ \A c \in calls : c.id # i
  /\ calls' = calls \cup {[id |-> i, grant |-> g]}
  /\ UNCHANGED <<now, up, obj, index, disk, usage, history>>

\* The upstream has answered, or failed: the time of use is stored and the use
\* logged.
Answer(c) ==
  /\ c \in calls
  /\ obj' = [obj EXCEPT ![c.grant] = {[r EXCEPT !.used = TRUE] : r \in @}]
  /\ Stores(c.grant, obj'[c.grant])
  /\ Logs(c.grant, FALSE)
  /\ calls' = calls \ {c}
  /\ UNCHANGED <<now, up, index, history>>

-----------------------------------------------------------------------------
(* Time and restarts *)

Tick ==
  /\ now < MaxTime
  /\ now' = now + 1
  /\ UNCHANGED <<memory, disk, usage, history>>

Dies ==
  /\ up /\ faults < MaxFaults
  /\ faults' = faults + 1
  /\ up' = FALSE
  /\ index' = {} /\ calls' = {}
  /\ UNCHANGED <<now, obj, usage, issued, revoked>>

\* The process ends between two steps.
Crash == Dies /\ UNCHANGED disk

\* It ends while the file of a grant is written, by reauthorize() or after a call.
CrashInSave(g) ==
  /\ g \in index \/ \E c \in calls : c.grant = g
  /\ Dies
  /\ Stores(g, {})

\* Mutant of Recover: expired grants are taken back.
RecoverExpired ==
  /\ ~up /\ up' = TRUE
  /\ index' = {g \in Grants : \E r \in disk[g] : ~r.revoked}
  /\ obj' = [g \in Grants |-> IF g \in index' THEN disk[g] ELSE obj[g]]
  /\ disk' = [g \in Grants |-> IF g \in index' THEN disk[g] ELSE {}]
  /\ UNCHANGED <<now, calls, usage, history>>

\* recover(): every file is read; the expired and the revoked are deleted.
Recover ==
  /\ ~up /\ up' = TRUE
  /\ index' = {g \in Grants : ~Expired(disk[g]) /\ \E r \in disk[g] : ~r.revoked}
  /\ obj' = [g \in Grants |-> IF g \in index' THEN disk[g] ELSE obj[g]]
  /\ disk' = [g \in Grants |-> IF g \in index' THEN disk[g] ELSE {}]
  /\ UNCHANGED <<now, calls, usage, history>>

-----------------------------------------------------------------------------
Init ==
  /\ now = 0
  /\ up = TRUE
  /\ obj = [g \in Grants |-> {}]
  /\ index = {} /\ calls = {}
  /\ disk = [g \in Grants |-> {}]
  /\ usage = [p \in Projects |-> <<>>]
  /\ issued = {} /\ revoked = {}
  /\ faults = 0

\* reauthorize() changes the secret, the expiry, both or neither.
Changes(g) ==
  \E r \in obj[g], s \in Secrets, x \in {{now + t} : t \in Ttls} :
    \/ Reauthorize(g, s, x)
    \/ Reauthorize(g, s, r.expires)

Next ==
  \/ \E g \in Grants, p \in Projects, s \in Secrets, t \in Ttls : Create(g, p, s, t)
  \/ \E g \in Grants : Changes(g)
  \/ \E g \in Grants : Revoke(g)
  \/ \E S \in Collections : Collect(S)
  \/ \E g \in Grants : Deny(g)
  \/ \E i \in Callers, g \in Grants : Proxy(i, g)
  \/ \E c \in calls : Answer(c)
  \/ Tick
  \/ Crash
  \/ \E g \in Grants : CrashInSave(g)
  \/ Recover

Spec == Init /\ [][Next]_vars

-----------------------------------------------------------------------------
(* Properties *)

\* The types of the variables (broker.py:94-108).
TypeOK ==
  /\ now \in Nat /\ faults \in Nat
  /\ up \in BOOLEAN
  /\ obj \in [Grants -> SUBSET Grant]
  /\ disk \in [Grants -> SUBSET Grant]
  /\ index \subseteq issued /\ issued \subseteq Grants /\ revoked \subseteq issued
  /\ calls \subseteq Call
  /\ usage \in [Projects -> Seq(Use)]

\* A grant that was revoked is never in the index again: the call that stores it
\* after its revocation stores the mark with it (broker.py:255, 348, 478-479).
RevokedStaysRevoked ==
  \A g \in revoked : g \notin index /\ \A r \in disk[g] : r.revoked

\* A restart forgets nothing: the file of a grant in the index holds what the
\* object says, secret, expiry and use, whichever handlers changed it while calls
\* held it (broker.py:261-287, 478-479).
RestartForgetsNothing == up => \A g \in index : disk[g] = obj[g] /\ obj[g] # {}

\* A grant is honored while it is in the index; when the daemon is down, if it will be.
Honored(g) ==
  IF up THEN g \in index ELSE ~Expired(disk[g]) /\ \E r \in disk[g] : ~r.revoked

Standing ==
  [g \in Grants |-> IF g \notin issued THEN "unissued" ELSE IF Honored(g) THEN "live" ELSE "over"]

D == INSTANCE Delegation WITH Ids <- Grants, standing <- Standing

\* A grant, once out of the index, is never honored again, although calls in flight
\* may store its file once more (broker.py:239-259, 328-357).
GrantsEndOnce == D!Spec
=============================================================================
