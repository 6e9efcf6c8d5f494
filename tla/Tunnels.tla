------------------------------ MODULE Tunnels ------------------------------
(***************************************************************************)
(* Tunnels (proxy/tunnel.py): temporary routes /t/<id>/ to a backend, one  *)
(* file each and an index of them in memory, and the WebSocket relays that *)
(* run through them (ingress.py:492-586).  A tunnel is deleted early by    *)
(* its owner, or once past its date by whichever call meets it.  A relay   *)
(* is two connections and two tasks, each forwarding one way, that share   *)
(* nothing but the connections.                                            *)
(*                                                                         *)
(* Records, files and crashes are as in Tokens.                            *)
(***************************************************************************)
EXTENDS Naturals

CONSTANTS
  Tunnel,      \* tunnel ids, drawn at random and never drawn twice
  Timeouts,    \* the timeouts that callers ask for
  MaxTimeout,  \* MAX_TIMEOUT
  Visitors,    \* bound on the relays in progress at once
  MaxTime,     \* bound on the clock
  MaxFaults    \* bound on crashes

ConstantsAssumption ==
  /\ Timeouts \subseteq Nat
  /\ {MaxTimeout, MaxTime, MaxFaults} \subseteq Nat

VARIABLES
  now,       \* the clock
  up,        \* the daemon process runs
  expires,   \* expires[t]: the dates of the Tunnel object, at most one
  index,     \* the ids in _tunnels
  disk,      \* disk[t]: the dates DAEMON_TUNNEL_DIR/t.json holds, at most one
  relays,    \* WebSocket relays in progress
  issued,    \* ids drawn so far (a history variable)
  deleted,   \* tunnels that delete() was called for by the API (a history variable)
  faults

store == <<expires, index, disk>>
vars == <<now, up, store, relays, issued, deleted, faults>>

Past(dates) == \E d \in dates : now >= d
Due == {t \in index : Past(expires[t])}

\* A task is named for the end it reads from; open are the ends not yet closed.
Ends == {"visitor", "backend"}
Other(e) == IF e = "visitor" THEN "backend" ELSE "visitor"
Relay == [visitor: Visitors, tunnel: Tunnel, open: SUBSET Ends, tasks: SUBSET Ends]

-----------------------------------------------------------------------------
(* The API *)

Create(t, timeout) ==
  /\ up /\ t \notin issued
  /\ timeout \in 1..MaxTimeout
  /\ expires' = [expires EXCEPT ![t] = {now + timeout}]
  /\ disk' = [disk EXCEPT ![t] = {now + timeout}]
  /\ index' = index \cup {t}
  /\ issued' = issued \cup {t}
  /\ UNCHANGED <<now, up, relays, deleted, faults>>

\* Mutant of Removes: the files stay.
RemovesFromIndex(S) ==
  /\ index' = index \ S
  /\ UNCHANGED <<expires, disk>>

\* delete(), of each in S.
Removes(S) ==
  /\ disk' = [t \in Tunnel |-> IF t \in S THEN {} ELSE disk[t]]
  /\ index' = index \ S
  /\ UNCHANGED expires

\* The owner deletes a tunnel; the relays through it go on.
Delete(t) ==
  /\ up /\ t \in index
  /\ Removes({t})
  /\ deleted' = deleted \cup {t}
  /\ UNCHANGED <<now, up, relays, issued, faults>>

\* get() deletes the tunnel it is asked for if its date has come.
Get(t) ==
  /\ up /\ t \in Due
  /\ Removes({t})
  /\ UNCHANGED <<now, up, relays, issued, deleted, faults>>

\* list() and the sweep delete all of them.
Cleanup ==
  /\ up /\ Due # {}
  /\ Removes(Due)
  /\ UNCHANGED <<now, up, relays, issued, deleted, faults>>

-----------------------------------------------------------------------------
(* Relays *)

\* get() finds the tunnel, the backend takes the connection, and so does the visitor.
Connect(v, t) ==
  /\ up /\ t \in index \ Due
  /\ \A r \in relays : r.visitor # v
  /\ relays' = relays \cup {[visitor |-> v, tunnel |-> t, open |-> Ends, tasks |-> Ends]}
  /\ UNCHANGED <<now, up, store, issued, deleted, faults>>

\* r becomes s, and is gone when both of its tasks have ended.
Becomes(r, s) == relays' = (relays \ {r}) \cup {q \in {s} : q.tasks # {}}

\* The visitor or the backend closes its connection, or loses it.
Hangup(r, e) ==
  /\ r \in relays /\ e \in r.open
  /\ Becomes(r, [r EXCEPT !.open = @ \ {e}])
  /\ UNCHANGED <<now, up, store, issued, deleted, faults>>

\* Mutant of TaskEnds: the other end is left open.
TaskEndsAlone(r, e) ==
  /\ r \in relays /\ e \in r.tasks
  /\ r.open # Ends
  /\ Becomes(r, [r EXCEPT !.tasks = @ \ {e}])
  /\ UNCHANGED <<now, up, store, issued, deleted, faults>>

\* The end it reads from is closed, or sending to the other fails: it closes the other.
TaskEnds(r, e) ==
  /\ r \in relays /\ e \in r.tasks
  /\ r.open # Ends
  /\ Becomes(r, [r EXCEPT !.tasks = @ \ {e}, !.open = @ \ {Other(e)}])
  /\ UNCHANGED <<now, up, store, issued, deleted, faults>>

\* The loop over a closed connection ends without a message; the loop over an open one
\* ends only when there is a message to send to the closed one.
LoopOver(v, e) ==
  \E r \in relays : r.visitor = v /\ e \notin r.open /\ TaskEnds(r, e)

-----------------------------------------------------------------------------
(* Time and restarts *)

Tick ==
  /\ now < MaxTime
  /\ now' = now + 1
  /\ UNCHANGED <<up, store, relays, issued, deleted, faults>>

Crash ==
  /\ up /\ faults < MaxFaults
  /\ up' = FALSE
  /\ index' = {} /\ relays' = {}
  /\ faults' = faults + 1
  /\ UNCHANGED <<now, expires, disk, issued, deleted>>

\* recover(): every file is read, and deleted if it is past its date.
Recover ==
  /\ ~up /\ up' = TRUE
  /\ index' = {t \in Tunnel : disk[t] # {} /\ ~Past(disk[t])}
  /\ expires' = [t \in Tunnel |-> IF t \in index' THEN disk[t] ELSE expires[t]]
  /\ disk' = [t \in Tunnel |-> IF t \in index' THEN disk[t] ELSE {}]
  /\ UNCHANGED <<now, relays, issued, deleted, faults>>

-----------------------------------------------------------------------------
Init ==
  /\ now = 0
  /\ up = TRUE
  /\ expires = [t \in Tunnel |-> {}]
  /\ index = {}
  /\ disk = [t \in Tunnel |-> {}]
  /\ relays = {}
  /\ issued = {} /\ deleted = {}
  /\ faults = 0

Next ==
  \/ \E t \in Tunnel, timeout \in Timeouts : Create(t, timeout)
  \/ \E t \in Tunnel : Delete(t)
  \/ \E t \in Tunnel : Get(t)
  \/ Cleanup
  \/ \E v \in Visitors, t \in Tunnel : Connect(v, t)
  \/ \E r \in relays, e \in Ends : Hangup(r, e)
  \/ \E r \in relays, e \in Ends : TaskEnds(r, e)
  \/ Tick
  \/ Crash
  \/ Recover

Spec == Init /\ [][Next]_vars

\* The sweep runs once a minute (main.py:276-284), the daemon is restarted, and the
\* event loop runs every task that can run.
Fairness ==
  /\ WF_vars(Cleanup) /\ WF_vars(Recover)
  /\ \A v \in Visitors, e \in Ends : WF_vars(LoopOver(v, e))
FairSpec == Spec /\ Fairness

-----------------------------------------------------------------------------
(* Properties *)

\* A tunnel that nobody deleted is a route until its date, over restarts and whatever
\* happens to the others (tunnel.py:55-183).
KeptUntilEnded == up => \A t \in issued \ deleted : t \in index \/ Past(expires[t])

\* get() finds the tunnel; while the daemon is down, it will.
Honored(t) == IF up THEN t \in index \ Due ELSE disk[t] # {} /\ ~Past(disk[t])

Standing ==
  [t \in Tunnel |-> IF t \notin issued THEN "unissued" ELSE IF Honored(t) THEN "live" ELSE "over"]

D == INSTANCE Delegation WITH Ids <- Tunnel, standing <- Standing

\* A tunnel that was deleted or has expired is never a route again (tunnel.py:131-183),
\* and one that nobody deleted is a route until then.
TunnelsLiveOnce == D!Spec /\ []KeptUntilEnded

\* The file of a tunnel past its date goes, also if the daemon was down when the date
\* came (tunnel.py:142-172).
ExpiredFilesGo == \A t \in Tunnel : Past(disk[t]) ~> disk[t] = {}

\* One end of a relay that closes ends the relay, both of its tasks and both of its
\* connections (ingress.py:536-581).
RelaysEnd ==
  \A v \in Visitors :
    (\E r \in relays : r.visitor = v /\ r.open # Ends) ~> \A r \in relays : r.visitor # v
=============================================================================
