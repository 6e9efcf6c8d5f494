-------------------------- MODULE Containers_proofs --------------------------
(***************************************************************************)
(* What is proved of the modules about containers beside Images, of which  *)
(* MCContainers has the instances: DockerProxy (Dp), Router (Ro),          *)
(* SharedRuntimes (Sh) and Resources (Rs and Ov).  They share no variable  *)
(* but the bounds and the torn records, so each part has an inductive      *)
(* invariant of its own, and the theorems are first of the component's     *)
(* specification, then of the behaviours that TLC follows.  The constants  *)
(* are any.                                                                *)
(***************************************************************************)
EXTENDS MCContainers, Images_proofs, SequenceTheorems, TLAPS

\* The types of what the components share.
SharedOK == requests \in Nat /\ faults \in Nat /\ torn \subseteq Projects

-----------------------------------------------------------------------------
(* DockerProxy *)

\* A container that docker has yet to make is named by one request only, and a request
\* past that names one that was made as it asked.
MadeAsAsked ==
  /\ \A c \in Ids : made[c] = {} => state[c] = "none"
  /\ \A c \in Ids : \A k, l \in made[c] : k = l
  /\ \A c \in tracked : made[c] # {}
  /\ \A j \in asked :
       /\ j.pc = "making" => made[j.c] = {} /\ \A i \in asked : i.c = j.c => i = j
       /\ j.pc # "making" => made[j.c] # {}
       /\ j.pc \in {"made", "recording"} /\ j.op = "create" =>
            made[j.c] = {[by |-> "app", labels |-> j.labels]}
       /\ j.pc = "recording" => j.op = "create"
       /\ j.pc \in {"forwarding", "auditing"} => j.op \in Dp!Operations

\* What an app was told of is an app's, and the daemon replaces none but its own.
AnsweredAreApps ==
  /\ \A c \in answered : \A k \in made[c] : k.by = "app"
  /\ \A c \in answered : made[c] # {}
  /\ \A j \in asked : j.pc \in {"removing", "removed"} => \A k \in made[j.c] : k.by = "daemon"

\* A container goes from the list when docker has removed it, and only then; whatever is
\* about to be started is still on it, or gone.
UntrackedAreGone ==
  \A j \in asked :
    /\ j.pc = "auditing" /\ j.op = "remove" => state[j.c] = "none"
    /\ j.pc = "removed" => state[j.c] = "none"
    /\ j.pc \in {"recording", "forwarding"} => j.c \in tracked \/ state[j.c] = "none"

\* A daemon that is not up handles nothing.
DownIsIdle == ~listens => tracked = {} /\ asked = {}

SocketInv ==
  /\ Dp!TypeOK
  /\ MadeAsAsked
  /\ AnsweredAreApps
  /\ UntrackedAreGone
  /\ DownIsIdle
  /\ Dp!ToldIsTrue

LEMMA SocketInvInit == Dp!Init => SocketInv
<1> SUFFICES ASSUME Dp!Init
             PROVE  SocketInv
  OBVIOUS
<1>1. Dp!TypeOK
  BY SocketAssumption DEF Dp!Init, Dp!TypeOK, Dp!Kind, Dp!States, Dp!ConstantsAssumption
<1>2. MadeAsAsked /\ AnsweredAreApps /\ UntrackedAreGone /\ DownIsIdle /\ Dp!ToldIsTrue
  BY DEF Dp!Init, MadeAsAsked, AnsweredAreApps, UntrackedAreGone, DownIsIdle, Dp!ToldIsTrue
<1>3. QED
  BY <1>1, <1>2 DEF SocketInv

\* A request is taken: docker gives out a new id, or the request names a container that
\* it may name.
LEMMA OpensInv ==
  ASSUME SocketInv, NEW s \in Clients, NEW c \in Ids, Dp!Calls(s, c)
  PROVE  SocketInv'
<1> USE DEF SocketInv
<1>1. PICK op \in Dp!Operations \cup {"create", "run", "replace"},
           pc \in {"making", "forwarding", "removing"}, a \in SUBSET Dp!Labels :
        /\ Dp!Opens(s, c, op, pc, a)
        /\ pc = "making" => Dp!Fresh(c)
        /\ pc = "forwarding" => c \in tracked /\ op \in Dp!Operations
        /\ pc = "removing" => \E k \in made[c] : k.by = "daemon"
  <2>1. CASE \E L \in SUBSET Dp!Labels : Dp!Create(s, c, L) \/ Dp!Run(s, c, L)
    <3>1. PICK L \in SUBSET Dp!Labels : Dp!Create(s, c, L) \/ Dp!Run(s, c, L)
      BY <2>1
    <3>2. L \ {"project"} \in SUBSET Dp!Labels
      BY <3>1
    <3>3. QED
      BY <3>1, <3>2 DEF Dp!Create, Dp!Run
  <2>2. CASE \E op \in Dp!Operations : Dp!Operate(s, c, op)
    BY <2>2 DEF Dp!Operate
  <2>3. CASE Dp!Replace(s, c)
    <3>1. /\ Dp!Opens(s, c, "replace", "removing", {}) /\ {} \in SUBSET Dp!Labels
          /\ \E k \in made[c] : k.by = "daemon"
      BY <2>3 DEF Dp!Replace
    <3>2. QED
      BY <3>1
  <2>4. QED
    BY <2>1, <2>2, <2>3 DEF Dp!Calls
<1> DEFINE n == [s |-> s, c |-> c, op |-> op, pc |-> pc, labels |-> a]
<1>2. /\ n \in Dp!Job
      /\ n.s = s /\ n.c = c /\ n.op = op /\ n.pc = pc /\ n.labels = a
  BY DEF Dp!Job
<1>3. /\ listens /\ requests' = requests + 1 /\ asked' = asked \cup {n}
      /\ UNCHANGED <<made, state, tracked, entries, answered, listens, faults>>
  BY <1>1 DEF Dp!Opens, Dp!Accepts
<1> HIDE DEF n
<1>4. Dp!TypeOK'
  BY <1>2, <1>3 DEF Dp!TypeOK
<1>5. MadeAsAsked'
  <2>1. n.pc = "making" => made[c] = {} /\ \A i \in asked : i.c # c
    BY <1>1, <1>2 DEF Dp!Fresh
  <2>2. n.pc # "making" => made[c] # {}
    BY <1>1, <1>2 DEF MadeAsAsked
  <2>3. QED
    BY <1>1, <1>2, <1>3, <2>1, <2>2 DEF MadeAsAsked, Dp!TypeOK
<1>6. AnsweredAreApps'
  <2>1. n.pc = "removing" => \A k \in made[c] : k.by = "daemon"
    BY <1>1, <1>2 DEF MadeAsAsked
  <2>2. QED
    BY <1>1, <1>2, <1>3, <2>1 DEF AnsweredAreApps, Dp!TypeOK
<1>7. UntrackedAreGone' /\ DownIsIdle'
  BY <1>1, <1>2, <1>3 DEF UntrackedAreGone, DownIsIdle
<1>8. Dp!ToldIsTrue'
  BY <1>3 DEF Dp!ToldIsTrue
<1>9. QED
  BY <1>4, <1>5, <1>6, <1>7, <1>8

\* The same request, one step on.
LEMMA AskedMovesOn ==
  ASSUME NEW j \in Dp!Job,
         NEW pc \in {"making", "made", "recording", "forwarding", "auditing", "removing", "removed"}
  PROVE  LET n == [j EXCEPT !.pc = pc] IN
           /\ n \in Dp!Job
           /\ n.c = j.c /\ n.op = j.op /\ n.labels = j.labels /\ n.pc = pc
BY DEF Dp!Job

\* A request that leaves the list of those in progress, by its end or its failure, and
\* changes nothing else that the invariant speaks of.
LEMMA EndsInv ==
  ASSUME SocketInv, NEW j \in asked, Dp!Ends(j),
         requests' \in Nat, faults' \in Nat,
         UNCHANGED <<made, state, tracked, entries, answered, listens>>
  PROVE  SocketInv'
<1> USE DEF SocketInv
<1>1. asked' \subseteq asked
  BY DEF Dp!Ends
<1>2. Dp!TypeOK' /\ MadeAsAsked' /\ AnsweredAreApps'
  BY <1>1 DEF Dp!TypeOK, MadeAsAsked, AnsweredAreApps
<1>3. UntrackedAreGone' /\ DownIsIdle' /\ Dp!ToldIsTrue'
  BY <1>1 DEF UntrackedAreGone, DownIsIdle, Dp!ToldIsTrue
<1>4. QED
  BY <1>2, <1>3

LEMMA MakesInv ==
  ASSUME SocketInv, NEW j \in asked, Dp!Makes(j)
  PROVE  SocketInv'
<1> USE DEF SocketInv
<1> DEFINE n == [j EXCEPT !.pc = "made"]
           kind == [by |-> IF j.op = "run" THEN "daemon" ELSE "app", labels |-> j.labels]
<1>1. /\ n \in Dp!Job /\ j \in Dp!Job
      /\ n.c = j.c /\ n.op = j.op /\ n.labels = j.labels /\ n.pc = "made"
  BY AskedMovesOn DEF Dp!TypeOK
<1>2. /\ j.pc = "making"
      /\ made' = [made EXCEPT ![j.c] = {kind}]
      /\ state' = [state EXCEPT ![j.c] = IF j.op = "run" THEN "running" ELSE "created"]
      /\ asked' = (asked \ {j}) \cup {n}
      /\ UNCHANGED <<tracked, entries, answered, listens, requests, faults>>
  BY DEF Dp!Makes, Dp!GoesTo
<1>3. kind \in Dp!Kind /\ j.c \in Ids
  BY <1>1 DEF Dp!Kind, Dp!Job
<1>4. j.op = "create" => kind = [by |-> "app", labels |-> j.labels]
  OBVIOUS
<1> HIDE DEF n, kind
<1>5. /\ made'[j.c] = {kind} /\ \A c \in Ids \ {j.c} : made'[c] = made[c] /\ state'[c] = state[c]
      /\ state'[j.c] \in {"running", "created"}
      /\ state' \in [Ids -> Dp!States]
  BY <1>2, <1>3 DEF Dp!TypeOK, Dp!States
<1>6. Dp!TypeOK'
  BY <1>1, <1>2, <1>3, <1>5 DEF Dp!TypeOK
<1>7. made[j.c] = {} /\ \A i \in asked : i.c = j.c => i = j
  BY <1>2 DEF MadeAsAsked
<1>8. MadeAsAsked'
  BY <1>1, <1>2, <1>4, <1>5, <1>7 DEF MadeAsAsked, Dp!TypeOK, Dp!Job
<1>9. j.c \notin answered
  BY <1>7 DEF AnsweredAreApps
<1>10. AnsweredAreApps'
  BY <1>1, <1>2, <1>5, <1>7, <1>9 DEF AnsweredAreApps, Dp!TypeOK, Dp!Job
<1>11. UntrackedAreGone' /\ DownIsIdle'
  BY <1>1, <1>2, <1>5, <1>7 DEF UntrackedAreGone, DownIsIdle, Dp!TypeOK, Dp!Job
<1>12. Dp!ToldIsTrue'
  BY <1>2, <1>5, <1>9 DEF Dp!ToldIsTrue, Dp!TypeOK
<1>13. QED
  BY <1>6, <1>8, <1>10, <1>11, <1>12

LEMMA TracksInv ==
  ASSUME SocketInv, NEW j \in asked, Dp!Tracks(j)
  PROVE  SocketInv'
<1> USE DEF SocketInv
<1> DEFINE n == [j EXCEPT !.pc = "recording"]
<1>1. /\ n \in Dp!Job /\ j \in Dp!Job /\ j.c \in Ids
      /\ n.c = j.c /\ n.op = j.op /\ n.labels = j.labels /\ n.pc = "recording"
  BY AskedMovesOn DEF Dp!TypeOK, Dp!Job
<1>2. /\ j.pc = "made"
      /\ tracked' = tracked \cup {j.c}
      /\ answered' = IF j.op = "create" /\ ~Dp!Recorded(j.labels) THEN answered \cup {j.c} ELSE answered
      /\ asked' = IF j.op = "create" /\ Dp!Recorded(j.labels) THEN (asked \ {j}) \cup {n} ELSE asked \ {j}
      /\ UNCHANGED <<made, state, entries, listens, requests, faults>>
  BY DEF Dp!Tracks, Dp!GoesTo, Dp!Ends
<1> HIDE DEF n
<1>3. /\ made[j.c] # {}
      /\ j.op = "create" => made[j.c] = {[by |-> "app", labels |-> j.labels]}
  BY <1>2 DEF MadeAsAsked
<1>4. Dp!TypeOK'
  BY <1>1, <1>2 DEF Dp!TypeOK
<1>5. MadeAsAsked'
  BY <1>1, <1>2, <1>3 DEF MadeAsAsked
<1>6. AnsweredAreApps'
  BY <1>1, <1>2, <1>3 DEF AnsweredAreApps
<1>7. UntrackedAreGone'
  BY <1>1, <1>2 DEF UntrackedAreGone
<1>8. DownIsIdle'
  BY <1>2 DEF DownIsIdle
<1>9. Dp!ToldIsTrue'
  <2>1. \A c \in answered' : c \in answered \/ (c = j.c /\ j.op = "create" /\ ~Dp!Recorded(j.labels))
    BY <1>2
  <2>2. j.op = "create" /\ ~Dp!Recorded(j.labels) => ~\E k \in made[j.c] : Dp!Recorded(k.labels)
    BY <1>3
  <2>3. UNCHANGED made
    BY <1>2
  <2>4. QED
    BY <1>2, <2>1, <2>2, <2>3 DEF Dp!ToldIsTrue
<1>10. QED
  BY <1>4, <1>5, <1>6, <1>7, <1>8, <1>9

LEMMA RecordsInv ==
  ASSUME SocketInv, NEW j \in asked, Dp!Records(j)
  PROVE  SocketInv'
<1> USE DEF SocketInv
<1>1. /\ j.pc = "recording"
      /\ entries' = entries \cup {<<"create", j.c>>}
      /\ answered' = answered \cup {j.c}
      /\ asked' = asked \ {j}
      /\ UNCHANGED <<made, state, tracked, listens, requests, faults>>
  BY DEF Dp!Records, Dp!Ends
<1>2. j.c \in Ids /\ <<"create", j.c>> \in (Dp!Operations \cup {"create"}) \X Ids
  BY DEF Dp!TypeOK, Dp!Job
<1>3. /\ made[j.c] = {[by |-> "app", labels |-> j.labels]}
      /\ j.c \in tracked \/ state[j.c] = "none"
  BY <1>1 DEF MadeAsAsked, UntrackedAreGone
<1>4. Dp!TypeOK'
  BY <1>1, <1>2 DEF Dp!TypeOK
<1>5. MadeAsAsked' /\ AnsweredAreApps'
  BY <1>1, <1>3 DEF MadeAsAsked, AnsweredAreApps
<1>6. UntrackedAreGone' /\ DownIsIdle'
  BY <1>1 DEF UntrackedAreGone, DownIsIdle
<1>7. Dp!ToldIsTrue'
  BY <1>1, <1>3 DEF Dp!ToldIsTrue
<1>8. QED
  BY <1>4, <1>5, <1>6, <1>7

\* What docker is told to do with a container: it does it, and the request goes on; or
\* there is no such container.
LEMMA ForwardsInv ==
  ASSUME SocketInv, NEW j \in asked, Dp!Forwards(j)
  PROVE  SocketInv'
<1> USE DEF SocketInv
<1>1. CASE state[j.c] = "none"
  <2>1. /\ Dp!Ends(j)
        /\ UNCHANGED <<made, state, tracked, entries, answered, listens, requests, faults>>
    BY <1>1 DEF Dp!Forwards
  <2>2. QED
    BY <2>1, EndsInv DEF Dp!TypeOK
<1>2. CASE state[j.c] # "none"
  <2> DEFINE n == [j EXCEPT !.pc = "auditing"]
             st == Dp!After(j.op, state[j.c])
  <2>1. /\ n \in Dp!Job /\ j \in Dp!Job /\ j.c \in Ids
        /\ n.c = j.c /\ n.op = j.op /\ n.labels = j.labels /\ n.pc = "auditing"
    BY AskedMovesOn DEF Dp!TypeOK, Dp!Job
  <2>2. /\ j.pc = "forwarding"
        /\ state' = [state EXCEPT ![j.c] = st]
        /\ asked' = (asked \ {j}) \cup {n}
        /\ UNCHANGED <<made, tracked, entries, answered, listens, requests, faults>>
    BY <1>2 DEF Dp!Forwards, Dp!GoesTo
  <2>3. j.op \in Dp!Operations /\ made[j.c] # {} /\ j.c \in tracked
    BY <1>2, <2>2 DEF MadeAsAsked, UntrackedAreGone
  <2>4. /\ st \in Dp!States
        /\ j.op = "remove" => st = "none"
    BY <2>1, <2>3 DEF Dp!After, Dp!States, Dp!Operations, Dp!TypeOK
  <2> HIDE DEF n, st
  <2>5. state' \in [Ids -> Dp!States] /\ state'[j.c] = st /\ \A c \in Ids \ {j.c} : state'[c] = state[c]
    BY <2>1, <2>2, <2>4 DEF Dp!TypeOK
  <2>6. Dp!TypeOK'
    BY <2>1, <2>2, <2>5 DEF Dp!TypeOK
  <2>7. MadeAsAsked'
    BY <2>1, <2>2, <2>3, <2>5 DEF MadeAsAsked
  <2>8. AnsweredAreApps' /\ DownIsIdle'
    BY <2>1, <2>2 DEF AnsweredAreApps, DownIsIdle
  <2>9. \A i \in asked : i.c = j.c /\ state[i.c] = "none" => FALSE
    BY <1>2
  <2>10. UntrackedAreGone'
    BY <2>1, <2>2, <2>3, <2>4, <2>5, <2>9 DEF UntrackedAreGone, Dp!TypeOK, Dp!Job
  <2>11. Dp!ToldIsTrue'
    BY <2>2, <2>3, <2>5 DEF Dp!ToldIsTrue, Dp!TypeOK
  <2>12. QED
    BY <2>6, <2>7, <2>8, <2>10, <2>11
<1>3. QED
  BY <1>1, <1>2

LEMMA AuditsInv ==
  ASSUME SocketInv, NEW j \in asked, Dp!Audits(j)
  PROVE  SocketInv'
<1> USE DEF SocketInv
<1>1. /\ j.pc = "auditing" /\ entries' = entries
      /\ tracked' = IF j.op = "remove" THEN tracked \ {j.c} ELSE tracked
      /\ asked' = asked \ {j}
      /\ UNCHANGED <<made, state, answered, listens, requests, faults>>
  BY DEF Dp!Audits, Dp!Ends, Dp!InspectLabels, Dp!Recorded, Dp!Labels
<1>2. \A c \in tracked \ tracked' : state[c] = "none"
  BY <1>1 DEF UntrackedAreGone
<1>3. Dp!TypeOK' /\ MadeAsAsked' /\ AnsweredAreApps'
  BY <1>1 DEF Dp!TypeOK, MadeAsAsked, AnsweredAreApps
<1>4. UntrackedAreGone' /\ DownIsIdle'
  BY <1>1, <1>2 DEF UntrackedAreGone, DownIsIdle
<1>5. Dp!ToldIsTrue'
  BY <1>1, <1>2 DEF Dp!ToldIsTrue
<1>6. QED
  BY <1>3, <1>4, <1>5

LEMMA RemovesInv ==
  ASSUME SocketInv, NEW j \in asked, Dp!Removes(j)
  PROVE  SocketInv'
<1> USE DEF SocketInv
<1>1. CASE state[j.c] = "none"
  <2>1. /\ Dp!Ends(j)
        /\ UNCHANGED <<made, state, tracked, entries, answered, listens, requests, faults>>
    BY <1>1 DEF Dp!Removes
  <2>2. QED
    BY <2>1, EndsInv DEF Dp!TypeOK
<1>2. CASE state[j.c] # "none"
  <2> DEFINE n == [j EXCEPT !.pc = "removed"]
  <2>1. /\ n \in Dp!Job /\ j \in Dp!Job /\ j.c \in Ids
        /\ n.c = j.c /\ n.op = j.op /\ n.labels = j.labels /\ n.pc = "removed"
    BY AskedMovesOn DEF Dp!TypeOK, Dp!Job
  <2>2. /\ j.pc = "removing"
        /\ state' = [state EXCEPT ![j.c] = "none"]
        /\ asked' = (asked \ {j}) \cup {n}
        /\ UNCHANGED <<made, tracked, entries, answered, listens, requests, faults>>
    BY <1>2 DEF Dp!Removes, Dp!GoesTo
  <2> HIDE DEF n
  <2>3. /\ state' \in [Ids -> Dp!States]
        /\ \A c \in Ids : state'[c] = state[c] \/ state'[c] = "none"
        /\ state'[j.c] = "none"
    BY <2>1, <2>2 DEF Dp!TypeOK, Dp!States
  <2>4. Dp!TypeOK'
    BY <2>1, <2>2, <2>3 DEF Dp!TypeOK
  <2>5. MadeAsAsked'
    BY <2>1, <2>2, <2>3 DEF MadeAsAsked
  <2>6. AnsweredAreApps' /\ DownIsIdle'
    BY <2>1, <2>2 DEF AnsweredAreApps, DownIsIdle
  <2>7. UntrackedAreGone'
    BY <2>1, <2>2, <2>3 DEF UntrackedAreGone, Dp!TypeOK, Dp!Job
  <2>8. Dp!ToldIsTrue'
    BY <2>2, <2>3 DEF Dp!ToldIsTrue, Dp!TypeOK
  <2>9. QED
    BY <2>4, <2>5, <2>6, <2>7, <2>8
<1>3. QED
  BY <1>1, <1>2

LEMMA UntracksInv ==
  ASSUME SocketInv, NEW j \in asked, Dp!Untracks(j)
  PROVE  SocketInv'
<1> USE DEF SocketInv
<1>1. /\ j.pc = "removed"
      /\ tracked' = tracked \ {j.c}
      /\ asked' = asked \ {j}
      /\ UNCHANGED <<made, state, entries, answered, listens, requests, faults>>
  BY DEF Dp!Untracks, Dp!Ends
<1>2. \A c \in tracked \ tracked' : state[c] = "none"
  BY <1>1 DEF UntrackedAreGone
<1>3. Dp!TypeOK' /\ MadeAsAsked' /\ AnsweredAreApps'
  BY <1>1 DEF Dp!TypeOK, MadeAsAsked, AnsweredAreApps
<1>4. UntrackedAreGone' /\ DownIsIdle'
  BY <1>1, <1>2 DEF UntrackedAreGone, DownIsIdle
<1>5. Dp!ToldIsTrue'
  BY <1>1, <1>2 DEF Dp!ToldIsTrue
<1>6. QED
  BY <1>3, <1>4, <1>5

\* A container that ends by itself stays on the list.
LEMMA ExitsInv ==
  ASSUME SocketInv, NEW c \in Ids, Dp!Exits(c)
  PROVE  SocketInv'
<1> USE DEF SocketInv
<1>1. /\ state[c] = "running" /\ faults' = faults + 1
      /\ state' = [state EXCEPT ![c] = "exited"]
      /\ UNCHANGED <<made, tracked, entries, answered, listens, asked, requests>>
  BY DEF Dp!Exits
<1>2. /\ state' \in [Ids -> Dp!States]
      /\ \A d \in Ids : state'[d] = "running" => state[d] = "running"
      /\ \A d \in Ids : state'[d] = "none" <=> state[d] = "none"
  BY <1>1 DEF Dp!TypeOK, Dp!States
<1>3. Dp!TypeOK'
  BY <1>1, <1>2 DEF Dp!TypeOK
<1>4. MadeAsAsked' /\ AnsweredAreApps' /\ DownIsIdle'
  BY <1>1, <1>2 DEF MadeAsAsked, AnsweredAreApps, DownIsIdle
<1>5. UntrackedAreGone' /\ Dp!ToldIsTrue'
  BY <1>1, <1>2 DEF UntrackedAreGone, Dp!ToldIsTrue, Dp!TypeOK, Dp!Job
<1>6. QED
  BY <1>3, <1>4, <1>5

LEMMA SocketCrashInv ==
  ASSUME SocketInv, Dp!Crash
  PROVE  SocketInv'
<1> USE DEF SocketInv
<1>1. /\ faults' = faults + 1
      /\ listens' = FALSE /\ tracked' = {} /\ asked' = {}
      /\ UNCHANGED <<made, state, entries, answered, requests>>
  BY DEF Dp!Crash
<1>2. faults' \in Nat
  BY <1>1 DEF Dp!TypeOK
<1>3. Dp!TypeOK'
  BY <1>1, <1>2 DEF Dp!TypeOK
<1>4. MadeAsAsked' /\ AnsweredAreApps' /\ UntrackedAreGone' /\ DownIsIdle' /\ Dp!ToldIsTrue'
  BY <1>1 DEF MadeAsAsked, AnsweredAreApps, UntrackedAreGone, DownIsIdle, Dp!ToldIsTrue
<1>5. QED
  BY <1>3, <1>4

\* The list is made anew of the containers that run: an app's is among them.
LEMMA SocketBootInv ==
  ASSUME SocketInv, Dp!Boot
  PROVE  SocketInv'
<1> USE DEF SocketInv
<1>1. /\ ~listens /\ listens' = TRUE /\ asked = {}
      /\ tracked' = {c \in Ids : Dp!Managed(c) /\ state[c] = "running"}
      /\ UNCHANGED <<made, state, entries, answered, asked, requests, faults>>
  BY DEF Dp!Boot, DownIsIdle
<1>2. \A c \in answered : Dp!Managed(c)
  BY DEF AnsweredAreApps, Dp!Managed
<1>3. Dp!TypeOK'
  BY <1>1 DEF Dp!TypeOK
<1>4. MadeAsAsked'
  BY <1>1 DEF MadeAsAsked, Dp!Managed
<1>5. AnsweredAreApps' /\ UntrackedAreGone' /\ DownIsIdle'
  BY <1>1 DEF AnsweredAreApps, UntrackedAreGone, DownIsIdle
<1>6. Dp!ToldIsTrue'
  BY <1>1, <1>2 DEF Dp!ToldIsTrue, Dp!TypeOK
<1>7. QED
  BY <1>3, <1>4, <1>5, <1>6

LEMMA SocketInvNext ==
  ASSUME SocketInv, Dp!Next
  PROVE  SocketInv'
<1>1. ASSUME NEW s \in Clients, NEW c \in Ids, Dp!Calls(s, c)
      PROVE  SocketInv'
  BY <1>1, OpensInv
<1>2. ASSUME NEW j \in asked, Dp!Step(j)
      PROVE  SocketInv'
  BY <1>2, MakesInv, TracksInv, RecordsInv, ForwardsInv, AuditsInv, RemovesInv, UntracksInv
     DEF Dp!Step
<1>3. ASSUME NEW j \in asked, Dp!Fails(j)
      PROVE  SocketInv'
  <2>1. /\ Dp!Ends(j) /\ faults' = faults + 1
        /\ UNCHANGED <<made, state, tracked, entries, answered, listens, requests>>
    BY <1>3 DEF Dp!Fails
  <2>2. requests' \in Nat /\ faults' \in Nat
    BY <2>1 DEF SocketInv, Dp!TypeOK
  <2>3. QED
    BY <2>1, <2>2, EndsInv
<1>4. ASSUME NEW c \in Ids, Dp!Exits(c)
      PROVE  SocketInv'
  BY <1>4, ExitsInv
<1>5. CASE Dp!Crash
  BY <1>5, SocketCrashInv
<1>6. CASE Dp!Boot
  BY <1>6, SocketBootInv
<1>7. QED
  BY <1>1, <1>2, <1>3, <1>4, <1>5, <1>6 DEF Dp!Next

\* Steps that leave all of this alone.
LEMMA SocketInvStutter ==
  ASSUME SocketInv, UNCHANGED proxy, requests' \in Nat, faults' \in Nat
  PROVE  SocketInv'
BY DEF proxy, SocketInv, Dp!TypeOK, MadeAsAsked, AnsweredAreApps, UntrackedAreGone, DownIsIdle,
       Dp!ToldIsTrue

\* What an app is told of a container holds, for any number of apps and containers that
\* come and go, of requests that overlap, of failures and of restarts: a creation that was
\* attested, named its project and was answered 201 is in the ledger, and the container is
\* on the list for as long as it runs and the daemon is up
\* (docker_proxy.py:72-79, 169-171, 183-193).
THEOREM ToldIsTrueOfAll == Dp!Spec => [](Dp!TypeOK /\ Dp!ToldIsTrue)
<1>1. SocketInv /\ [Dp!Next]_Dp!vars => SocketInv'
  <2>1. SocketInv /\ UNCHANGED Dp!vars => SocketInv'
    BY SocketInvStutter DEF Dp!vars, proxy, SocketInv, Dp!TypeOK
  <2>2. QED
    BY <2>1, SocketInvNext
<1>2. SocketInv => Dp!TypeOK /\ Dp!ToldIsTrue
  BY DEF SocketInv
<1>3. QED
  BY <1>1, <1>2, SocketInvInit, PTL DEF Dp!Spec

-----------------------------------------------------------------------------
(* Router *)

\* Where run() is tells what has become of the child; it has a client while run() waits
\* for the end of one that listens.
ChildAtStep ==
  \A a \in Projects :
    /\ step[a] \in {"run", "respawn", "over"} => child[a] = "none"
    /\ step[a] = "feeding" => child[a] \in {"starting", "ended"}
    /\ child[a] \in {"hanging", "listening"} => step[a] \in {"polling", "serving"}
    /\ a \in client <=> step[a] = "serving"

\* Whoever waits is at a child that listens, so that a stop waits for answers that can
\* come.
AskedListens == \A a \in waiting : child[a] = "listening"

\* The file that run() looks at is that of the child it has spawned.
SocketIsChilds ==
  \A a \in sock : /\ step[a] # "feeding"
                  /\ step[a] = "polling" => child[a] \in {"listening", "ended"}

RouterInv ==
  /\ Ro!TypeOK
  /\ ChildAtStep
  /\ AskedListens
  /\ SocketIsChilds
  /\ Ro!ClientsListen

LEMMA RouterInvInit == Ro!Init => RouterInv
BY DEF Ro!Init, RouterInv, Ro!TypeOK, Ro!Running, ChildAtStep, AskedListens, SocketIsChilds, Ro!ClientsListen

\* A step of run() for one app.
LEMMA RunStepsInv ==
  ASSUME RouterInv, NEW a \in Projects, Ro!RunSteps(a)
  PROVE  RouterInv'
<1> USE DEF RouterInv
<1>1. CASE Ro!Spawns(a)
  <2>1. /\ step[a] = "run" /\ child[a] = "none" /\ a \notin waiting
        /\ child' = [child EXCEPT ![a] = "starting"]
        /\ step' = [step EXCEPT ![a] = "feeding"]
        /\ sock' = sock \ {a}
        /\ UNCHANGED <<phase, first, client, waiting, ends, failed, requests>>
    BY <1>1 DEF Ro!Spawns, Ro!counts, ChildAtStep, AskedListens
  <2>2. QED
    BY <2>1 DEF Ro!TypeOK, ChildAtStep, AskedListens, SocketIsChilds, Ro!ClientsListen
<1>2. CASE Ro!Fed(a)
  <2>1. /\ step[a] = "feeding" /\ step' = [step EXCEPT ![a] = "polling"]
        /\ UNCHANGED <<phase, first, child, sock, client, waiting, ends, failed, requests>>
    BY <1>2 DEF Ro!Fed, Ro!counts
  <2>2. QED
    BY <2>1 DEF Ro!TypeOK, ChildAtStep, AskedListens, SocketIsChilds, Ro!ClientsListen
<1>3. CASE Ro!SeesSocket(a)
  <2>1. /\ step[a] = "polling" /\ a \in sock /\ step' = [step EXCEPT ![a] = "serving"]
        /\ client' = client \cup {a} /\ first' = first \ {a}
        /\ UNCHANGED <<phase, child, sock, waiting, ends, failed, requests>>
    BY <1>3 DEF Ro!SeesSocket, Ro!counts
  <2>2. QED
    BY <2>1 DEF Ro!TypeOK, ChildAtStep, AskedListens, SocketIsChilds, Ro!ClientsListen
<1>4. CASE Ro!Expires(a)
  <2>1. /\ step[a] = "polling" /\ child[a] = "hanging" /\ a \notin waiting
        /\ child' = [child EXCEPT ![a] = "ended"]
        /\ step' = [step EXCEPT ![a] = "killed"] /\ first' = first \ {a}
        /\ UNCHANGED <<phase, sock, client, waiting, ends, failed, requests>>
    BY <1>4 DEF Ro!Expires, Ro!counts, AskedListens
  <2>2. QED
    BY <2>1 DEF Ro!TypeOK, ChildAtStep, AskedListens, SocketIsChilds, Ro!ClientsListen
<1>5. CASE Ro!HandlesEnd(a)
  <2>1. /\ step[a] \in {"polling", "serving", "killed"} /\ child[a] = "ended" /\ a \notin waiting
        /\ child' = [child EXCEPT ![a] = "none"]
        /\ step' = [step EXCEPT ![a] = IF phase = "draining" THEN "over" ELSE "respawn"]
        /\ client' = client \ {a} /\ first' = first \ {a}
        /\ UNCHANGED <<phase, sock, waiting, ends, failed, requests>>
    BY <1>5 DEF Ro!HandlesEnd, Ro!counts, AskedListens
  <2>2. QED
    BY <2>1 DEF Ro!TypeOK, ChildAtStep, AskedListens, SocketIsChilds, Ro!ClientsListen
<1>6. CASE Ro!TimerFires(a)
  <2>1. /\ step[a] = "respawn" /\ step' = [step EXCEPT ![a] = "run"]
        /\ UNCHANGED <<phase, first, child, sock, client, waiting, ends, failed, requests>>
    BY <1>6 DEF Ro!TimerFires, Ro!counts
  <2>2. QED
    BY <2>1 DEF Ro!TypeOK, ChildAtStep, AskedListens, SocketIsChilds, Ro!ClientsListen
<1>7. CASE Ro!Listens(a)
  <2>1. /\ step[a] = "polling" /\ child[a] = "starting"
        /\ child' = [child EXCEPT ![a] = "listening"] /\ sock' = sock \cup {a}
        /\ UNCHANGED <<phase, step, first, client, waiting, ends, failed, requests>>
    BY <1>7 DEF Ro!Listens, Ro!counts
  <2>2. QED
    BY <2>1 DEF Ro!TypeOK, ChildAtStep, AskedListens, SocketIsChilds, Ro!ClientsListen
<1>8. QED
  BY <1>1, <1>2, <1>3, <1>4, <1>5, <1>6, <1>7 DEF Ro!RunSteps

\* run() raises: it is not served any more, or the router ends, and both count.
LEMMA RunFailsInv ==
  ASSUME RouterInv, NEW a \in Projects, Ro!RunFails(a)
  PROVE  RouterInv'
<1> USE DEF RouterInv
<1>1. /\ step[a] \in {"run", "feeding"} /\ failed' = failed + 1
      /\ UNCHANGED <<child, sock, client, waiting, ends, requests>>
  BY DEF Ro!RunFails
<1>2. \/ step' = [step EXCEPT ![a] = "lost"] /\ first' = first \ {a} /\ UNCHANGED phase
      \/ phase' = "crashed" /\ UNCHANGED <<step, first>>
  BY DEF Ro!RunFails
<1>3. Ro!TypeOK'
  BY <1>1, <1>2 DEF Ro!TypeOK
<1>4. ChildAtStep' /\ AskedListens'
  BY <1>1, <1>2 DEF ChildAtStep, AskedListens, Ro!TypeOK
<1>5. SocketIsChilds' /\ Ro!ClientsListen'
  BY <1>1, <1>2 DEF SocketIsChilds, Ro!ClientsListen, Ro!TypeOK
<1>6. QED
  BY <1>3, <1>4, <1>5

\* What children and callers do.
LEMMA ChildStepsInv ==
  ASSUME RouterInv, NEW a \in Projects,
         Ro!Hangs(a) \/ Ro!ChildEnds(a) \/ Ro!Request(a) \/ Ro!Answers(a)
  PROVE  RouterInv'
<1> USE DEF RouterInv
<1>1. CASE Ro!Hangs(a)
  <2>1. /\ step[a] = "polling" /\ child[a] = "starting" /\ a \notin waiting /\ ends' = ends + 1
        /\ child' = [child EXCEPT ![a] = "hanging"]
        /\ UNCHANGED <<phase, step, first, sock, client, waiting, failed, requests>>
    BY <1>1 DEF Ro!Hangs, AskedListens
  <2>2. QED
    BY <2>1 DEF Ro!TypeOK, ChildAtStep, AskedListens, SocketIsChilds, Ro!ClientsListen
<1>2. CASE Ro!ChildEnds(a)
  <2>1. /\ child[a] \in {"starting", "listening"} /\ ends' = ends + 1
        /\ child' = [child EXCEPT ![a] = "ended"] /\ waiting' = waiting \ {a}
        /\ UNCHANGED <<phase, step, first, sock, client, failed, requests>>
    BY <1>2 DEF Ro!ChildEnds, Ro!Alive
  <2>2. QED
    BY <2>1 DEF Ro!TypeOK, ChildAtStep, AskedListens, SocketIsChilds, Ro!ClientsListen
<1>3. CASE Ro!Request(a)
  <2>1. /\ child[a] = "listening" /\ requests' = requests + 1 /\ waiting' = waiting \cup {a}
        /\ UNCHANGED <<phase, step, first, child, sock, client, ends, failed>>
    BY <1>3 DEF Ro!Request
  <2>2. QED
    BY <2>1 DEF Ro!TypeOK, ChildAtStep, AskedListens, SocketIsChilds, Ro!ClientsListen
<1>4. CASE Ro!Answers(a)
  <2>1. /\ waiting' = waiting \ {a}
        /\ UNCHANGED <<phase, step, first, child, sock, client, ends, failed, requests>>
    BY <1>4 DEF Ro!Answers, Ro!counts
  <2>2. QED
    BY <2>1 DEF Ro!TypeOK, ChildAtStep, AskedListens, SocketIsChilds, Ro!ClientsListen
<1>5. QED
  BY <1>1, <1>2, <1>3, <1>4

LEMMA RouterInvNext ==
  ASSUME RouterInv, Ro!Next
  PROVE  RouterInv'
<1>1. ASSUME NEW a \in Projects,
             Ro!RunSteps(a) \/ Ro!RunFails(a)
               \/ Ro!Hangs(a) \/ Ro!ChildEnds(a) \/ Ro!Request(a) \/ Ro!Answers(a)
      PROVE  RouterInv'
  BY <1>1, RunStepsInv, RunFailsInv, ChildStepsInv
<1>2. CASE Ro!Ready \/ Ro!Told \/ Ro!Exits \/ Ro!Killed
  <2>1. /\ phase' \in {"serving", "draining", "ended", "killed"}
        /\ UNCHANGED <<step, first, child, sock, client, waiting, ends, failed, requests>>
    BY <1>2 DEF Ro!Ready, Ro!Told, Ro!Exits, Ro!Killed, Ro!counts
  <2>2. QED
    BY <2>1 DEF RouterInv, Ro!TypeOK, Ro!Running, ChildAtStep, AskedListens, SocketIsChilds, Ro!ClientsListen
<1>3. QED
  BY <1>1, <1>2 DEF Ro!Next

LEMMA RouterInvStutter ==
  ASSUME RouterInv, UNCHANGED router, requests' \in Nat
  PROVE  RouterInv'
BY DEF router, RouterInv, Ro!TypeOK, ChildAtStep, AskedListens, SocketIsChilds, Ro!ClientsListen

\* No request is sent to a child that does not listen yet, and whoever waits is at one that
\* does, for any number of apps and of children that end or hang (runtimes.py:234-263,
\* 290-299): the file that a child left is removed before the next one is spawned.
THEOREM RequestsReachListeners == Ro!Spec => [](Ro!TypeOK /\ Ro!ClientsListen /\ AskedListens)
<1>1. RouterInv /\ [Ro!Next]_Ro!vars => RouterInv'
  <2>1. RouterInv /\ UNCHANGED Ro!vars => RouterInv'
    BY RouterInvStutter DEF Ro!vars, router, RouterInv, Ro!TypeOK
  <2>2. QED
    BY <2>1, RouterInvNext
<1>2. RouterInv => Ro!TypeOK /\ Ro!ClientsListen /\ AskedListens
  BY DEF RouterInv
<1>3. QED
  BY <1>1, <1>2, RouterInvInit, PTL DEF Ro!Spec

-----------------------------------------------------------------------------
(* SharedRuntimes *)

KeyWork == {"drop", "stop", "create"}
Steps(s) == {s[i] : i \in 1..Len(s)}

\* What is still to be done to shared containers fits the records: a container is
\* dropped for good only if no project needs it, and one that is stopped is made again.
FitsRecords(s) ==
  \A i \in 1..Len(s) :
    /\ s[i].do = "drop" => Sh!Listed(s[i].at) = {}
    /\ s[i].do = "stop" => i < Len(s) /\ s[i + 1] = [do |-> "create", at |-> s[i].at]

\* A container that the handler, or the recovery, has still to settle.
Unsettled(k) ==
  \E s \in recovering \cup {todo} : \E w \in Steps(s) : w.do \in {"drop", "create"} /\ w.at = k

\* The shared projects whose runtime is that of a container: those whose changes replace it.
\* (Deno's is made for the projects of bun, too, and not replaced when they change.)
Users(k) ==
  {p \in Projects : \E x \in listing[p] : x.rt = k[1] /\ x.mode = k[2] /\ ~x.own}

\* A container has loaded its users and is where requests are sent, and an address leads
\* to a container.
KeyIsTrue(k) ==
  /\ Users(k) # {} => k \in ips /\ \E S \in loaded[k] : Users(k) \subseteq S
  /\ k \in ips => loaded[k] # {}

\* A container is as its users need it, or it will be, or a call failed at it.
Settled ==
  started => \A k \in Sh!Keys : KeyIsTrue(k) \/ k \in broken \/ Unsettled(k)

StoppedForgets == ~started => todo = <<>> /\ recovering = {} /\ ips = {}

RuntimesInv ==
  /\ Sh!TypeOK
  /\ \A s \in recovering \cup {todo} : FitsRecords(s)
  /\ Settled
  /\ StoppedForgets

LEMMA RuntimesInvInit == Sh!Init => RuntimesInv
<1> SUFFICES ASSUME Sh!Init
             PROVE  RuntimesInv
  OBVIOUS
<1>1. Sh!TypeOK
  BY DEF Sh!Init, Sh!TypeOK
<1>2. \A s \in recovering \cup {todo} : FitsRecords(s)
  BY DEF Sh!Init, FitsRecords
<1>3. \A k \in Sh!Keys : KeyIsTrue(k)
  BY DEF Sh!Init, KeyIsTrue, Users
<1>4. Settled /\ StoppedForgets
  BY <1>3 DEF Sh!Init, Settled, StoppedForgets
<1>5. QED
  BY <1>1, <1>2, <1>4 DEF RuntimesInv

\* What refresh() does to the container of one mode, if the projects in S need it.
OneMode(k, S) ==
  IF S = {} THEN <<[do |-> "drop", at |-> k]>>
            ELSE <<[do |-> "stop", at |-> k], [do |-> "create", at |-> k]>>

\* e drops the container k, if nobody in S needs it, or makes it again.
DropsOrRemakes(e, k, S) ==
  /\ e \in Seq(Sh!Todo)
  /\ \/ S = {} /\ Len(e) = 1 /\ e[1].do = "drop" /\ e[1].at = k
     \/ /\ Len(e) = 2
        /\ e[1].do = "stop" /\ e[1].at = k
        /\ e[2].do = "create" /\ e[2].at = k /\ e[2] = [do |-> "create", at |-> k]

LEMMA OneModeSteps ==
  ASSUME NEW k \in Sh!Keys, NEW S
  PROVE  DropsOrRemakes(OneMode(k, S), k, S)
<1>1. \A do \in KeyWork : [do |-> do, at |-> k] \in Sh!Todo
  BY DEF KeyWork, Sh!Todo
<1>2. CASE S = {}
  BY <1>1, <1>2 DEF OneMode, KeyWork, DropsOrRemakes
<1>3. CASE S # {}
  BY <1>1, <1>3 DEF OneMode, KeyWork, DropsOrRemakes
<1>4. QED
  BY <1>2, <1>3

\* Two such, one after the other, settle both containers, and what they drop is not needed.
SettlesBoth(s, d, D, a, A) ==
  /\ s \in Seq(Sh!Todo)
  /\ \A i \in 1..Len(s) :
       /\ s[i].do = "drop" => (s[i].at = d /\ D = {}) \/ (s[i].at = a /\ A = {})
       /\ s[i].do = "stop" => i < Len(s) /\ s[i + 1] = [do |-> "create", at |-> s[i].at]
  /\ \E w \in Steps(s) : w.do \in {"drop", "create"} /\ w.at = d
  /\ \E w \in Steps(s) : w.do \in {"drop", "create"} /\ w.at = a

LEMMA TwoModes ==
  ASSUME NEW d \in Sh!Keys, NEW a \in Sh!Keys, NEW D, NEW A, NEW e, NEW f, NEW s,
         DropsOrRemakes(e, d, D), DropsOrRemakes(f, a, A), s = e \o f
  PROVE  SettlesBoth(s, d, D, a, A)
<1>1. e \in Seq(Sh!Todo) /\ f \in Seq(Sh!Todo) /\ Len(e) \in {1, 2} /\ Len(f) \in {1, 2}
  BY DEF DropsOrRemakes
<1>2. /\ s \in Seq(Sh!Todo) /\ Len(s) = Len(e) + Len(f)
      /\ \A i \in 1..Len(s) : s[i] = IF i <= Len(e) THEN e[i] ELSE f[i - Len(e)]
  BY <1>1, ConcatProperties
<1>3. /\ \A i \in 1..Len(e) : s[i] = e[i]
      /\ \A i \in 1..Len(f) : s[Len(e) + i] = f[i]
  BY <1>1, <1>2
<1>4. \A i \in 1..Len(s) :
        /\ s[i].do = "drop" => (s[i].at = d /\ D = {}) \/ (s[i].at = a /\ A = {})
        /\ s[i].do = "stop" => i < Len(s) /\ s[i + 1] = [do |-> "create", at |-> s[i].at]
  <2> SUFFICES ASSUME NEW i \in 1..Len(s)
               PROVE  /\ s[i].do = "drop" => (s[i].at = d /\ D = {}) \/ (s[i].at = a /\ A = {})
                      /\ s[i].do = "stop" => /\ i < Len(s)
                                             /\ s[i + 1] = [do |-> "create", at |-> s[i].at]
    OBVIOUS
  <2>1. CASE i <= Len(e)
    <3>1. CASE Len(e) = 1
      BY <1>1, <1>2, <1>3, <2>1, <3>1 DEF DropsOrRemakes
    <3>2. CASE Len(e) = 2
      BY <1>1, <1>2, <1>3, <2>1, <3>2 DEF DropsOrRemakes
    <3>3. QED
      BY <1>1, <3>1, <3>2
  <2>2. CASE i > Len(e)
    <3>1. PICK h \in 1..Len(f) : i = Len(e) + h
      BY <1>1, <1>2, <2>2
    <3>2. CASE Len(f) = 1
      BY <1>1, <1>2, <1>3, <3>1, <3>2 DEF DropsOrRemakes
    <3>3. CASE Len(f) = 2
      BY <1>1, <1>2, <1>3, <3>1, <3>3 DEF DropsOrRemakes
    <3>4. QED
      BY <1>1, <3>2, <3>3
  <2>3. QED
    BY <1>1, <2>1, <2>2
<1>5. \E w \in Steps(s) : w.do \in {"drop", "create"} /\ w.at = d
  <2>1. PICK h \in 1..Len(e) : e[h].do \in {"drop", "create"} /\ e[h].at = d
    BY <1>1 DEF DropsOrRemakes
  <2>2. h \in 1..Len(s) /\ s[h] = e[h]
    BY <1>1, <1>2, <1>3
  <2>3. QED
    BY <2>1, <2>2 DEF Steps
<1>6. \E w \in Steps(s) : w.do \in {"drop", "create"} /\ w.at = a
  <2>1. PICK h \in 1..Len(f) : f[h].do \in {"drop", "create"} /\ f[h].at = a
    BY <1>1 DEF DropsOrRemakes
  <2>2. Len(e) + h \in 1..Len(s) /\ s[Len(e) + h] = f[h]
    BY <1>1, <1>2, <1>3
  <2>3. QED
    BY <2>1, <2>2 DEF Steps
<1>7. QED
  BY <1>2, <1>4, <1>5, <1>6 DEF SettlesBoth

\* What refresh() does settles the containers of a runtime, as the records are.
Settles(s, r) ==
  /\ s \in Seq(Sh!Todo)
  /\ FitsRecords(s)
  /\ \A k \in Sh!Keys : k[1] = r => \E w \in Steps(s) : w.do \in {"drop", "create"} /\ w.at = k

LEMMA RefreshSettles ==
  ASSUME NEW r \in {"deno", "bun", "node"}
  PROVE  Settles(Sh!Refresh(r), r)
<1> DEFINE d == <<r, "dev">>
<1> DEFINE a == <<r, "attested">>
<1> DEFINE D == Sh!Listed(d)
<1> DEFINE A == Sh!Listed(a)
<1> DEFINE e == OneMode(d, D)
<1> DEFINE f == OneMode(a, A)
<1> DEFINE s == Sh!Refresh(r)
<1>1. d \in Sh!Keys /\ a \in Sh!Keys
  BY DEF Sh!Keys, Sh!Modes
<1>2. s = e \o f
  BY DEF Sh!Refresh, Sh!RefreshMode, OneMode
<1>3. DropsOrRemakes(e, d, D)
  BY <1>1, OneModeSteps
<1>4. DropsOrRemakes(f, a, A)
  BY <1>1, OneModeSteps
<1>5. \A k \in Sh!Keys : k[1] = r => k = d \/ k = a
  BY DEF Sh!Keys, Sh!Modes
<1> HIDE DEF d, a, D, A, e, f, s
<1>6. SettlesBoth(s, d, D, a, A)
  BY <1>1, <1>2, <1>3, <1>4, TwoModes
<1>7. FitsRecords(s)
  BY <1>6 DEF SettlesBoth, FitsRecords, D, A
<1>8. Settles(s, r)
  BY <1>5, <1>6, <1>7 DEF SettlesBoth, Settles
<1>9. QED
  BY <1>8 DEF s

LEMMA RefreshSettlesNext ==
  ASSUME NEW r \in {"deno", "bun", "node"}
  PROVE  Settles(Sh!Refresh(r), r)'
BY RefreshSettles, PTL

\* A container of its own is none of the shared ones.
LEMMA OwnedApart ==
  ASSUME NEW k \in Sh!Keys, NEW o \in Sh!Owned
  PROVE  k # o
<1>1. PICK p \in Projects, m \in Sh!Modes : o = <<"isolated", p, m>>
  BY DEF Sh!Owned, Sh!Own
<1>2. k \in {"deno", "bun", "node"} \X Sh!Modes
  BY DEF Sh!Keys
<1>3. Len(k) = 2 /\ Len(o) = 3
  BY <1>1, <1>2
<1>4. QED
  BY <1>3

\* Steps on containers that projects have of their own fit any records.
LEMMA OwnedFits ==
  ASSUME NEW s \in Seq(Sh!Todo), \A i \in 1..Len(s) : s[i].do \in {"halt", "start"}
  PROVE  FitsRecords(s)
BY DEF FitsRecords

LEMMA OwnedWork ==
  ASSUME NEW p \in Projects, NEW m \in Sh!Modes
  PROVE  /\ Sh!Starts(p, m) \in Seq(Sh!Todo)
         /\ \A i \in 1..Len(Sh!Starts(p, m)) : Sh!Starts(p, m)[i].do \in {"halt", "start"}
         /\ Sh!Halts(p) \in Seq(Sh!Todo)
         /\ \A i \in 1..Len(Sh!Halts(p)) : Sh!Halts(p)[i].do \in {"halt", "start"}
         /\ Sh!Halts(p) \o Sh!Starts(p, m) \in Seq(Sh!Todo)
         /\ \A i \in 1..Len(Sh!Halts(p) \o Sh!Starts(p, m)) :
              (Sh!Halts(p) \o Sh!Starts(p, m))[i].do \in {"halt", "start"}
<1>1. \A n \in Sh!Modes : Sh!Own(p, n) \in Sh!Owned
  BY DEF Sh!Owned
<1>2. \A n \in Sh!Modes, do \in {"halt", "start"} : [do |-> do, at |-> Sh!Own(p, n)] \in Sh!Todo
  BY <1>1 DEF Sh!Todo
<1>3. "dev" \in Sh!Modes /\ "attested" \in Sh!Modes
  BY DEF Sh!Modes
<1>4. /\ Sh!Starts(p, m) \in Seq(Sh!Todo) /\ Len(Sh!Starts(p, m)) = 2
      /\ \A i \in 1..Len(Sh!Starts(p, m)) : Sh!Starts(p, m)[i].do \in {"halt", "start"}
  BY <1>2 DEF Sh!Starts
<1>5. /\ Sh!Halts(p) \in Seq(Sh!Todo) /\ Len(Sh!Halts(p)) = 2
      /\ \A i \in 1..Len(Sh!Halts(p)) : Sh!Halts(p)[i].do \in {"halt", "start"}
  <2>1. /\ [do |-> "halt", at |-> Sh!Own(p, "dev")] \in Sh!Todo
        /\ [do |-> "halt", at |-> Sh!Own(p, "attested")] \in Sh!Todo
    BY <1>2, <1>3
  <2>2. QED
    BY <2>1 DEF Sh!Halts
<1> DEFINE h == Sh!Halts(p)
<1> DEFINE s == Sh!Starts(p, m)
<1> HIDE DEF h, s
<1>6. /\ h \in Seq(Sh!Todo) /\ s \in Seq(Sh!Todo)
      /\ \A i \in 1..Len(h) : h[i].do \in {"halt", "start"}
      /\ \A i \in 1..Len(s) : s[i].do \in {"halt", "start"}
  BY <1>4, <1>5 DEF h, s
<1>7. /\ h \o s \in Seq(Sh!Todo) /\ Len(h \o s) = Len(h) + Len(s)
      /\ \A i \in 1..Len(h \o s) : (h \o s)[i] = IF i <= Len(h) THEN h[i] ELSE s[i - Len(h)]
  BY <1>6, ConcatProperties
<1>8. \A i \in 1..Len(h \o s) : (h \o s)[i].do \in {"halt", "start"}
  <2> SUFFICES ASSUME NEW i \in 1..Len(h \o s)
               PROVE  (h \o s)[i].do \in {"halt", "start"}
    OBVIOUS
  <2>1. CASE i <= Len(h)
    <3>1. i \in 1..Len(h) /\ (h \o s)[i] = h[i]
      BY <1>6, <1>7, <2>1
    <3>2. QED
      BY <1>6, <3>1
  <2>2. CASE ~(i <= Len(h))
    <3>1. i - Len(h) \in 1..Len(s) /\ (h \o s)[i] = s[i - Len(h)]
      BY <1>6, <1>7, <2>2
    <3>2. QED
      BY <1>6, <3>1
  <2>3. QED
    BY <2>1, <2>2
<1>9. QED
  BY <1>4, <1>5, <1>7, <1>8 DEF h, s

\* A record is stored, and its containers are still to be settled, or it needs none.
LEMMA SaveSettles ==
  ASSUME RuntimesInv, Sh!Accepts, Sh!Rest,
         NEW p \in Projects, NEW S \in SUBSET Sh!Record, Sh!Saves(p, S),
         (todo \in Seq(Sh!Todo))', FitsRecords(todo)',
         \A y \in S : y.own \/ Settles(todo, y.rt)'
  PROVE  RuntimesInv'
<1> USE DEF RuntimesInv
<1>1. /\ started /\ todo = <<>> /\ recovering = {}
      /\ loaded' = loaded /\ ips' = ips /\ isolated' = isolated /\ recovering' = recovering
      /\ started' = started /\ torn' = torn /\ broken' = broken /\ faults' = faults
      /\ requests' = requests + 1 /\ listing' = [listing EXCEPT ![p] = S]
  BY DEF Sh!Accepts, Sh!Rest, Sh!Saves
<1>2. Sh!TypeOK'
  BY <1>1 DEF Sh!TypeOK
<1>3. \A s \in recovering' \cup {todo'} : FitsRecords(s)'
  BY <1>1
<1>4. \A k \in Sh!Keys : KeyIsTrue(k) \/ k \in broken
  BY <1>1 DEF Settled, Unsettled, Steps
<1>5. ASSUME NEW k \in Sh!Keys
      PROVE  (KeyIsTrue(k) \/ k \in broken \/ Unsettled(k))'
  <2>1. CASE \E y \in S : ~y.own /\ y.rt = k[1]
    <3>1. PICK y \in S : ~y.own /\ y.rt = k[1]
      BY <2>1
    <3>2. \E w \in Steps(todo)' : w.do \in {"drop", "create"} /\ w.at = k
      BY <3>1 DEF Settles
    <3>3. QED
      BY <3>2 DEF Unsettled
  <2>2. CASE \A y \in S : y.own \/ y.rt # k[1]
    <3>1. Users(k)' \subseteq Users(k)
      BY <1>1, <2>2 DEF Users, Sh!TypeOK
    <3>2. QED
      BY <1>1, <1>4, <1>5, <3>1 DEF KeyIsTrue
  <2>3. QED
    BY <2>1, <2>2
<1>6. Settled' /\ StoppedForgets'
  BY <1>1, <1>5 DEF Settled, StoppedForgets
<1>7. QED
  BY <1>2, <1>3, <1>6

LEMMA DeploySettles ==
  ASSUME RuntimesInv, NEW p \in Projects, NEW x \in Sh!Record,
         Sh!Deploy(p, x)
  PROVE  RuntimesInv'
<1>1. Sh!Accepts /\ Sh!Rest /\ Sh!Saves(p, {x})
  BY DEF Sh!Deploy
<1>2. x.rt \in {"deno", "bun", "node"} /\ x.mode \in Sh!Modes
  BY RuntimesAssumption DEF Sh!ConstantsAssumption, Sh!Record
<1>3. CASE x.own
  <2>1. todo' = Sh!Starts(p, x.mode)
    BY <1>3 DEF Sh!Deploy
  <2>2. (todo \in Seq(Sh!Todo))' /\ \A i \in 1..Len(todo') : todo'[i].do \in {"halt", "start"}
    BY <1>2, <2>1, OwnedWork
  <2>3. FitsRecords(todo)'
    BY <2>2 DEF FitsRecords
  <2>4. QED
    BY <1>1, <1>3, <2>2, <2>3, SaveSettles
<1>4. CASE ~x.own
  <2>1. Settles(todo, x.rt)'
    BY <1>2, <1>4, RefreshSettlesNext DEF Sh!Deploy
  <2>2. (todo \in Seq(Sh!Todo))' /\ FitsRecords(todo)'
    BY <2>1 DEF Settles
  <2>3. QED
    BY <1>1, <2>1, <2>2, SaveSettles
<1>5. QED
  BY <1>3, <1>4

LEMMA PromoteSettles ==
  ASSUME RuntimesInv, NEW p \in Projects, Sh!Promote(p)
  PROVE  RuntimesInv'
<1>1. PICK x \in listing[p] :
        /\ Sh!Accepts /\ Sh!Rest /\ Sh!Saves(p, {[x EXCEPT !.mode = "attested"]})
        /\ todo' = IF x.own THEN Sh!Halts(p) \o Sh!Starts(p, "attested") ELSE Sh!Refresh(x.rt)'
  BY DEF Sh!Promote
<1> DEFINE y == [x EXCEPT !.mode = "attested"]
<1>2. x \in Sh!Record
  BY DEF RuntimesInv, Sh!TypeOK
<1>3. y \in Sh!Record /\ y.rt = x.rt /\ y.own = x.own /\ x.rt \in {"deno", "bun", "node"}
  BY <1>2, RuntimesAssumption DEF Sh!ConstantsAssumption, Sh!Record, Sh!Modes
<1> HIDE DEF y
<1>4. Sh!Saves(p, {y})
  BY <1>1 DEF y
<1>5. CASE x.own
  <2>1. todo' = Sh!Halts(p) \o Sh!Starts(p, "attested") /\ "attested" \in Sh!Modes
    BY <1>1, <1>5 DEF Sh!Modes
  <2>2. (todo \in Seq(Sh!Todo))' /\ \A i \in 1..Len(todo') : todo'[i].do \in {"halt", "start"}
    BY <2>1, OwnedWork
  <2>3. FitsRecords(todo)'
    BY <2>2 DEF FitsRecords
  <2>4. {y} \in SUBSET Sh!Record /\ \A z \in {y} : z.own
    BY <1>3, <1>5
  <2>5. QED
    BY <1>1, <1>4, <2>2, <2>3, <2>4, SaveSettles
<1>6. CASE ~x.own
  <2>1. Settles(todo, y.rt)'
    BY <1>1, <1>3, <1>6, RefreshSettlesNext
  <2>2. (todo \in Seq(Sh!Todo))' /\ FitsRecords(todo)'
    BY <2>1 DEF Settles
  <2>3. QED
    BY <1>1, <1>3, <1>4, <2>1, <2>2, SaveSettles
<1>7. QED
  BY <1>5, <1>6

LEMMA UnpromoteSettles ==
  ASSUME RuntimesInv, NEW p \in Projects, Sh!Unpromote(p)
  PROVE  RuntimesInv'
<1>1. PICK x \in listing[p] :
        /\ Sh!Accepts /\ Sh!Rest /\ Sh!Saves(p, {[x EXCEPT !.mode = "dev"]})
        /\ todo' = Sh!Refresh(x.rt)'
  BY DEF Sh!Unpromote
<1> DEFINE y == [x EXCEPT !.mode = "dev"]
<1>2. x \in Sh!Record
  BY DEF RuntimesInv, Sh!TypeOK
<1>3. y \in Sh!Record /\ y.rt = x.rt /\ x.rt \in {"deno", "bun", "node"}
  BY <1>2, RuntimesAssumption DEF Sh!ConstantsAssumption, Sh!Record, Sh!Modes
<1> HIDE DEF y
<1>4. Sh!Saves(p, {y})
  BY <1>1 DEF y
<1>5. Settles(todo, y.rt)'
  BY <1>1, <1>3, RefreshSettlesNext
<1>6. (todo \in Seq(Sh!Todo))' /\ FitsRecords(todo)'
  BY <1>5 DEF Settles
<1>7. QED
  BY <1>1, <1>3, <1>4, <1>5, <1>6, SaveSettles

LEMMA TeardownSettles ==
  ASSUME RuntimesInv, NEW p \in Projects, Sh!Teardown(p)
  PROVE  RuntimesInv'
<1>1. PICK x \in listing[p] :
        /\ Sh!Accepts /\ Sh!Rest /\ Sh!Saves(p, {})
        /\ todo' = IF x.own THEN Sh!Halts(p) ELSE Sh!Refresh(x.rt)'
  BY DEF Sh!Teardown
<1>2. x.rt \in {"deno", "bun", "node"} /\ x.mode \in Sh!Modes
  <2>1. x \in Sh!Record
    BY DEF RuntimesInv, Sh!TypeOK
  <2>2. QED
    BY <2>1, RuntimesAssumption DEF Sh!ConstantsAssumption, Sh!Record
<1>3. (todo \in Seq(Sh!Todo))' /\ FitsRecords(todo)'
  <2>1. CASE x.own
    <3>1. (todo \in Seq(Sh!Todo))' /\ \A i \in 1..Len(todo') : todo'[i].do \in {"halt", "start"}
      BY <1>1, <1>2, <2>1, OwnedWork
    <3>2. QED
      BY <3>1 DEF FitsRecords
  <2>2. CASE ~x.own
    BY <1>1, <1>2, <2>2, RefreshSettlesNext DEF Settles
  <2>3. QED
    BY <2>1, <2>2
<1>4. QED
  BY <1>1, <1>3, SaveSettles

\* The next container is dropped, stopped, or made with the projects that it loads then.
LEMMA WorksSettles ==
  ASSUME RuntimesInv, Sh!Works
  PROVE  RuntimesInv'
<1> DEFINE w == Head(todo)
<1>1. /\ started /\ todo # <<>> /\ todo \in Seq(Sh!Todo) /\ todo' = Tail(todo)
      /\ listing' = listing /\ recovering' = recovering /\ started' = started
      /\ torn' = torn /\ requests' = requests /\ faults' = faults
  BY DEF Sh!Works, RuntimesInv, Sh!TypeOK
<1>2. /\ w = todo[1] /\ w \in Sh!Todo /\ Len(todo) \in Nat \ {0}
      /\ todo' \in Seq(Sh!Todo) /\ Len(todo') = Len(todo) - 1
      /\ \A i \in 1..Len(todo') : i + 1 \in 1..Len(todo) /\ todo'[i] = todo[i + 1]
  BY <1>1
<1>3. \A k : Sh!Listed(k)' = Sh!Listed(k) /\ Users(k)' = Users(k)
  BY <1>1 DEF Sh!Listed, Users
<1>4. /\ loaded' = CASE w.do \in {"drop", "stop"} -> [loaded EXCEPT ![w.at] = {}]
                     [] w.do = "create" -> [loaded EXCEPT ![w.at] = {Sh!Loads(w.at)}]
                     [] OTHER -> loaded
      /\ ips' = CASE w.do = "drop" -> ips \ {w.at}
                  [] w.do = "create" -> ips \cup {w.at}
                  [] OTHER -> ips
      /\ isolated' = CASE w.do = "halt" -> isolated \ {w.at}
                       [] w.do = "start" -> isolated \cup {w.at}
                       [] OTHER -> isolated
      /\ broken' = IF w.do \in {"drop", "create", "start"} THEN broken \ {w.at} ELSE broken
  BY DEF Sh!Works
<1>5. \/ w.do \in {"drop", "stop", "create"} /\ w.at \in Sh!Keys
      \/ w.do \in {"halt", "start"} /\ w.at \in Sh!Owned
  BY <1>2 DEF Sh!Todo
<1>6. \A k \in Sh!Keys : Sh!Loads(k) \in SUBSET Projects /\ Users(k) \subseteq Sh!Loads(k)
  BY DEF Sh!Keys, Users, Sh!Loads, Sh!LoadsNode, Sh!LoadsDeno, Sh!Found
<1> HIDE DEF w
<1>7. Sh!TypeOK'
  <2>1. loaded' \in [Sh!Keys -> SUBSET SUBSET Projects]
    BY <1>4, <1>5, <1>6 DEF RuntimesInv, Sh!TypeOK
  <2>2. ips' \subseteq Sh!Keys /\ isolated' \subseteq Sh!Owned
    BY <1>4, <1>5 DEF RuntimesInv, Sh!TypeOK
  <2>3. broken' \subseteq Sh!Keys \cup Sh!Owned
    BY <1>4 DEF RuntimesInv, Sh!TypeOK
  <2>4. QED
    BY <1>1, <1>2, <2>1, <2>2, <2>3 DEF RuntimesInv, Sh!TypeOK
<1>8. FitsRecords(todo)
  BY DEF RuntimesInv
<1>9. ASSUME NEW s \in recovering' \cup {todo'}
      PROVE  FitsRecords(s)'
  <2>1. CASE s \in recovering
    <3>1. FitsRecords(s) /\ s \in Seq(Sh!Todo)
      BY <2>1 DEF RuntimesInv, Sh!TypeOK
    <3>2. \A i \in 1..Len(s) : s[i] \in Sh!Todo
      BY <3>1
    <3>3. \A i \in 1..Len(s) : s[i].do = "drop" => Sh!Listed(s[i].at)' = {}
      BY <1>1, <3>1 DEF FitsRecords, Sh!Listed
    <3>4. QED
      BY <3>1, <3>3 DEF FitsRecords
  <2>2. CASE s = todo'
    <3>1. ASSUME NEW i \in 1..Len(s)
          PROVE  /\ s[i].do = "drop" => Sh!Listed(s[i].at)' = {}
                 /\ s[i].do = "stop" => i < Len(s) /\ s[i + 1] = [do |-> "create", at |-> s[i].at]
      <4>1. i + 1 \in 1..Len(todo) /\ s[i] = todo[i + 1] /\ Len(s) = Len(todo) - 1
        BY <1>2, <2>2, <3>1
      <4>2. /\ s[i].do = "drop" => Sh!Listed(s[i].at) = {}
            /\ s[i].do = "stop" => /\ i + 1 < Len(todo)
                                  /\ todo[(i + 1) + 1] = [do |-> "create", at |-> s[i].at]
        BY <1>8, <4>1 DEF FitsRecords
      <4>3. i + 1 < Len(todo) => i + 1 \in 1..Len(s)
        BY <1>2, <3>1, <4>1
      <4>4. i + 1 \in 1..Len(s) => s[i + 1] = todo[(i + 1) + 1]
        BY <1>2, <2>2
      <4>5. QED
        BY <1>2, <1>3, <4>1, <4>2, <4>3, <4>4
    <3>2. QED
      BY <3>1 DEF FitsRecords
  <2>3. QED
    BY <1>1, <2>1, <2>2
<1>10. ASSUME NEW k \in Sh!Keys
       PROVE  (KeyIsTrue(k) \/ k \in broken \/ Unsettled(k))'
  <2>1. KeyIsTrue(k) \/ k \in broken \/ Unsettled(k)
    BY <1>1, <1>10 DEF RuntimesInv, Settled
  <2>2. CASE w.do = "drop" /\ w.at = k
    <3>1. Sh!Listed(k) = {}
      <4>1. 1 \in 1..Len(todo)
        BY <1>2
      <4>2. todo[1].do = "drop" => Sh!Listed(todo[1].at) = {}
        BY <1>8, <4>1 DEF FitsRecords
      <4>3. QED
        BY <1>2, <2>2, <4>2
    <3>2. Users(k)' = {} /\ k \notin ips'
      BY <1>3, <1>4, <2>2, <3>1 DEF Users, Sh!Listed, Sh!RuntimesServed
    <3>3. QED
      BY <3>2 DEF KeyIsTrue
  <2>3. CASE w.do = "create" /\ w.at = k
    <3>1. loaded'[k] = {Sh!Loads(k)} /\ k \in ips'
      BY <1>4, <2>3 DEF RuntimesInv, Sh!TypeOK
    <3>2. QED
      BY <1>3, <1>6, <3>1 DEF KeyIsTrue
  <2>4. CASE w.do = "stop" /\ w.at = k
    <3>1. 1 < Len(todo) /\ todo[2] = [do |-> "create", at |-> k]
      BY <1>2, <1>8, <2>4 DEF FitsRecords
    <3>2. 1 \in 1..Len(todo') /\ todo'[1] = [do |-> "create", at |-> k]
      BY <1>2, <3>1
    <3>3. QED
      BY <3>2 DEF Unsettled, Steps
  <2>5. CASE w.at # k
    <3>1. loaded'[k] = loaded[k]
      BY <1>4, <1>5, <2>5 DEF RuntimesInv, Sh!TypeOK
    <3>2. (k \in ips' <=> k \in ips) /\ (k \in broken' <=> k \in broken)
      BY <1>4, <2>5
    <3>3. KeyIsTrue(k) => KeyIsTrue(k)'
      BY <1>3, <3>1, <3>2 DEF KeyIsTrue
    <3>4. ASSUME NEW s \in recovering \cup {todo},
                 \E v \in Steps(s) : v.do \in {"drop", "create"} /\ v.at = k
          PROVE  Unsettled(k)'
      <4>1. CASE s \in recovering
        BY <1>1, <3>4, <4>1 DEF Unsettled
      <4>2. CASE s = todo
        <5>1. PICK i \in 1..Len(todo) : todo[i].do \in {"drop", "create"} /\ todo[i].at = k
          BY <3>4, <4>2 DEF Steps
        <5>2. i - 1 \in 1..Len(todo') /\ todo'[i - 1] = todo[i]
          BY <1>2, <2>5, <5>1
        <5>3. todo[i] \in Steps(todo)'
          BY <5>2 DEF Steps
        <5>4. QED
          BY <5>1, <5>3 DEF Unsettled
      <4>3. QED
        BY <4>1, <4>2
    <3>5. QED
      BY <2>1, <3>2, <3>3, <3>4 DEF Unsettled
  <2>6. QED
    BY <1>5, <2>2, <2>3, <2>4, <2>5, OwnedApart
<1>11. QED
  BY <1>1, <1>7, <1>9, <1>10 DEF RuntimesInv, Settled, StoppedForgets

\* What is not done after a failing call, or a crash, is among what failed.
LEMMA FailsSettles ==
  ASSUME RuntimesInv, Sh!Fails
  PROVE  RuntimesInv'
<1>1. /\ started /\ todo' = <<>>
      /\ broken' = broken \cup {todo[i].at : i \in 1..Len(todo)}
      /\ listing' = listing /\ loaded' = loaded /\ ips' = ips /\ isolated' = isolated
      /\ recovering' = recovering /\ started' = started /\ requests' = requests
      /\ torn' = torn /\ faults' = faults + 1
  BY DEF Sh!Fails
<1>2. \A k : Sh!Listed(k)' = Sh!Listed(k) /\ Users(k)' = Users(k)
  BY <1>1 DEF Sh!Listed, Users
<1>3. {todo[i].at : i \in 1..Len(todo)} \subseteq Sh!Keys \cup Sh!Owned
  <2>1. \A i \in 1..Len(todo) : todo[i] \in Sh!Todo
    BY DEF RuntimesInv, Sh!TypeOK
  <2>2. QED
    BY <2>1 DEF Sh!Todo
<1>4. Sh!TypeOK'
  BY <1>1, <1>3 DEF RuntimesInv, Sh!TypeOK
<1>5. ASSUME NEW s \in recovering' \cup {todo'}
      PROVE  FitsRecords(s)'
  <2>1. CASE s \in recovering
    BY <1>2, <2>1 DEF RuntimesInv, FitsRecords
  <2>2. CASE s = <<>>
    BY <2>2 DEF FitsRecords
  <2>3. QED
    BY <1>1, <2>1, <2>2
<1>6. ASSUME NEW k \in Sh!Keys
      PROVE  (KeyIsTrue(k) \/ k \in broken \/ Unsettled(k))'
  <2>1. KeyIsTrue(k) \/ k \in broken \/ Unsettled(k)
    BY <1>1, <1>6 DEF RuntimesInv, Settled
  <2>2. KeyIsTrue(k) => KeyIsTrue(k)'
    BY <1>1, <1>2 DEF KeyIsTrue
  <2>3. (\E w \in Steps(todo) : w.do \in {"drop", "create"} /\ w.at = k) => k \in broken'
    BY <1>1 DEF Steps
  <2>4. Unsettled(k) => Unsettled(k)' \/ k \in broken'
    BY <1>1, <2>3 DEF Unsettled
  <2>5. QED
    BY <1>1, <2>1, <2>2, <2>4
<1>7. QED
  BY <1>1, <1>4, <1>5, <1>6 DEF RuntimesInv, Settled, StoppedForgets

\* The end of the process, also in the middle of a save.
LEMMA DiesForgets ==
  ASSUME RuntimesInv, Sh!Dies, torn' \subseteq Projects,
         (listing \in [Projects -> SUBSET Sh!Record])'
  PROVE  RuntimesInv'
<1>1. /\ started' = FALSE /\ todo' = <<>> /\ recovering' = {} /\ ips' = {}
      /\ broken' = broken \cup {todo[i].at : i \in 1..Len(todo)}
      /\ loaded' = loaded /\ isolated' = isolated /\ requests' = requests
      /\ faults' = faults + 1
  BY DEF Sh!Dies
<1>2. {todo[i].at : i \in 1..Len(todo)} \subseteq Sh!Keys \cup Sh!Owned
  <2>1. \A i \in 1..Len(todo) : todo[i] \in Sh!Todo
    BY DEF RuntimesInv, Sh!TypeOK
  <2>2. QED
    BY <2>1 DEF Sh!Todo
<1>3. Sh!TypeOK'
  <2>1. /\ started' \in BOOLEAN
        /\ todo' \in Seq(Sh!Todo)
        /\ recovering' \subseteq Seq(Sh!Todo)
    <3>1. started' \in BOOLEAN
      BY <1>1
    <3>2. todo' \in Seq(Sh!Todo)
      BY <1>1
    <3>3. recovering' \subseteq Seq(Sh!Todo)
      BY <1>1
    <3>4. QED
      BY <3>1, <3>2, <3>3
  <2>2. broken' \subseteq Sh!Keys \cup Sh!Owned
    BY <1>1, <1>2 DEF RuntimesInv, Sh!TypeOK
  <2>3. QED
    BY <1>1, <2>1, <2>2 DEF RuntimesInv, Sh!TypeOK
<1>4. \A s \in recovering' \cup {todo'} : FitsRecords(s)'
  BY <1>1 DEF FitsRecords
<1>5. QED
  BY <1>1, <1>3, <1>4 DEF RuntimesInv, Settled, StoppedForgets

LEMMA CrashForgets ==
  ASSUME RuntimesInv, Sh!Crash
  PROVE  RuntimesInv'
BY DiesForgets DEF Sh!Crash, RuntimesInv, Sh!TypeOK

LEMMA TornForgets ==
  ASSUME RuntimesInv, NEW p \in Projects, Sh!TornSave(p)
  PROVE  RuntimesInv'
<1>1. Sh!Dies /\ torn' = torn \cup {p} /\ listing' = [listing EXCEPT ![p] = {}]
  BY DEF Sh!TornSave, Sh!Saves
<1>2. torn' \subseteq Projects /\ (listing \in [Projects -> SUBSET Sh!Record])'
  BY <1>1 DEF RuntimesInv, Sh!TypeOK
<1>3. QED
  BY <1>1, <1>2, DiesForgets

\* Every container that a record needs is to be made when the daemon has started again.
LEMMA BootSettles ==
  ASSUME RuntimesInv, Sh!Boot
  PROVE  RuntimesInv'
<1> DEFINE shared == {x \in UNION {listing[p] : p \in Projects} : ~x.own}
<1> DEFINE apart == {y \in Projects \X Sh!Modes :
                       \E x \in listing[y[1]] : x.own /\ x.mode = y[2]}
<1>1. /\ todo = <<>> /\ ips = {} /\ started' = TRUE
      /\ recovering' = {Sh!Refresh(x.rt) : x \in shared}
                         \cup {Sh!Starts(y[1], y[2]) : y \in apart}
      /\ listing' = listing /\ loaded' = loaded /\ ips' = ips /\ isolated' = isolated
      /\ todo' = todo /\ broken' = broken /\ requests' = requests /\ faults' = faults
      /\ torn' = torn
  BY DEF Sh!Boot, RuntimesInv, StoppedForgets
<1>2. \A k : Sh!Listed(k)' = Sh!Listed(k) /\ Users(k)' = Users(k)
  BY <1>1 DEF Sh!Listed, Users
<1>3. \A x \in shared : x \in Sh!Record /\ x.rt \in {"deno", "bun", "node"}
  <2>1. \A x \in shared : x \in Sh!Record
    BY DEF RuntimesInv, Sh!TypeOK
  <2>2. QED
    BY <2>1, RuntimesAssumption DEF Sh!ConstantsAssumption, Sh!Record
<1>4. \A x \in shared : Settles(Sh!Refresh(x.rt), x.rt)
  BY <1>3, RefreshSettles
<1>5. \A y \in apart : /\ Sh!Starts(y[1], y[2]) \in Seq(Sh!Todo)
                       /\ FitsRecords(Sh!Starts(y[1], y[2]))
  BY OwnedWork, OwnedFits
<1>6. recovering' \subseteq Seq(Sh!Todo) /\ \A s \in recovering' : FitsRecords(s)
  BY <1>1, <1>4, <1>5 DEF Settles
<1>7. ASSUME NEW s \in recovering' \cup {todo'}
      PROVE  FitsRecords(s)'
  <2>1. FitsRecords(s)
    BY <1>1, <1>6 DEF RuntimesInv
  <2>2. QED
    BY <1>2, <2>1 DEF FitsRecords
<1>8. ASSUME NEW k \in Sh!Keys
      PROVE  (KeyIsTrue(k) \/ Unsettled(k))'
  <2>1. CASE Users(k) = {}
    BY <1>1, <1>2, <2>1 DEF KeyIsTrue
  <2>2. CASE Users(k) # {}
    <3>0. PICK p \in Projects : \E x \in listing[p] : x.rt = k[1] /\ ~x.own
      BY <2>2 DEF Users
    <3>1. PICK x \in listing[p] : x.rt = k[1] /\ ~x.own
      BY <3>0
    <3>2. x \in shared
      BY <3>1
    <3>3. \E w \in Steps(Sh!Refresh(x.rt)) : w.do \in {"drop", "create"} /\ w.at = k
      BY <1>4, <3>1, <3>2 DEF Settles
    <3>4. Sh!Refresh(x.rt) \in recovering'
      BY <1>1, <3>2
    <3>5. QED
      BY <3>3, <3>4 DEF Unsettled, Steps
  <2>3. QED
    BY <2>1, <2>2
<1>9. Sh!TypeOK'
  BY <1>1, <1>6 DEF RuntimesInv, Sh!TypeOK
<1>10. QED
  BY <1>1, <1>7, <1>8, <1>9 DEF RuntimesInv, Settled, StoppedForgets

LEMMA RecoverSettles ==
  ASSUME RuntimesInv, Sh!RecoverNext
  PROVE  RuntimesInv'
<1>1. PICK v \in recovering : todo' = v /\ recovering' = recovering \ {v}
  BY DEF Sh!RecoverNext
<1>2. /\ started /\ todo = <<>>
      /\ listing' = listing /\ loaded' = loaded /\ ips' = ips /\ isolated' = isolated
      /\ started' = started /\ broken' = broken /\ requests' = requests /\ faults' = faults
      /\ torn' = torn
  BY DEF Sh!RecoverNext
<1>3. \A k : Sh!Listed(k)' = Sh!Listed(k) /\ Users(k)' = Users(k)
  BY <1>2 DEF Sh!Listed, Users
<1>4. Sh!TypeOK'
  BY <1>1, <1>2 DEF RuntimesInv, Sh!TypeOK
<1>5. \A s \in recovering' \cup {todo'} : FitsRecords(s)'
  BY <1>1, <1>3 DEF RuntimesInv, FitsRecords
<1>6. ASSUME NEW k \in Sh!Keys
      PROVE  (KeyIsTrue(k) \/ k \in broken \/ Unsettled(k))'
  <2>1. KeyIsTrue(k) \/ k \in broken \/ Unsettled(k)
    BY <1>2, <1>6 DEF RuntimesInv, Settled
  <2>2. KeyIsTrue(k) => KeyIsTrue(k)'
    BY <1>2, <1>3 DEF KeyIsTrue
  <2>3. Unsettled(k) => Unsettled(k)'
    BY <1>1, <1>2 DEF Unsettled, Steps
  <2>4. QED
    BY <1>2, <2>1, <2>2, <2>3
<1>7. QED
  BY <1>2, <1>4, <1>5, <1>6 DEF RuntimesInv, Settled, StoppedForgets

LEMMA RuntimesInvNext ==
  ASSUME RuntimesInv, Sh!Next
  PROVE  RuntimesInv'
<1>1. ASSUME NEW p \in Projects, NEW x \in Sh!Manifests, Sh!Deploy(p, x)
      PROVE  RuntimesInv'
  BY <1>1, DeploySettles DEF Sh!Manifests
<1>2. ASSUME NEW p \in Projects, Sh!Promote(p) \/ Sh!Unpromote(p) \/ Sh!Teardown(p)
      PROVE  RuntimesInv'
  BY <1>2, PromoteSettles, UnpromoteSettles, TeardownSettles
<1>3. QED
  BY <1>1, <1>2, WorksSettles, FailsSettles, CrashForgets, TornForgets, BootSettles,
     RecoverSettles
     DEF Sh!Next

LEMMA RuntimesInvStutter ==
  ASSUME RuntimesInv, UNCHANGED runtimes, SharedOK'
  PROVE  RuntimesInv'
<1>1. /\ listing' = listing /\ loaded' = loaded /\ ips' = ips /\ isolated' = isolated
      /\ todo' = todo /\ recovering' = recovering /\ started' = started /\ broken' = broken
  BY DEF runtimes
<1>2. \A k : Sh!Listed(k)' = Sh!Listed(k) /\ Users(k)' = Users(k)
  BY <1>1 DEF Sh!Listed, Users
<1>3. Sh!TypeOK'
  BY <1>1 DEF RuntimesInv, Sh!TypeOK, SharedOK
<1>4. \A s \in recovering' \cup {todo'} : FitsRecords(s)'
  BY <1>1, <1>2 DEF RuntimesInv, FitsRecords
<1>5. \A k \in Sh!Keys : (KeyIsTrue(k)' <=> KeyIsTrue(k)) /\ (Unsettled(k)' <=> Unsettled(k))
  BY <1>1, <1>2 DEF KeyIsTrue, Unsettled
<1>6. QED
  BY <1>1, <1>3, <1>4, <1>5 DEF RuntimesInv, Settled, StoppedForgets

\* No container that requests are sent to lacks a project that is at rest.
LEMMA SettledIsTrue ==
  ASSUME RuntimesInv
  PROVE  Sh!RoutesAreTrue
<1> SUFFICES ASSUME Sh!AtRest
             PROVE  /\ \A p \in Projects : \A x \in listing[p] :
                         ~x.own /\ x.rt # "bun" /\ Sh!RouteKey(x) \notin broken => Sh!Served(p, x)
                    /\ \A k \in ips \ broken : loaded[k] # {}
  BY DEF Sh!RoutesAreTrue
<1>1. \A k \in Sh!Keys : KeyIsTrue(k) \/ k \in broken
  BY DEF Sh!AtRest, RuntimesInv, Settled, Unsettled, Steps
<1>2. ASSUME NEW p \in Projects, NEW x \in listing[p], ~x.own, x.rt # "bun",
               Sh!RouteKey(x) \notin broken
      PROVE  Sh!Served(p, x)
  <2>1. x \in Sh!Record
    BY DEF RuntimesInv, Sh!TypeOK
  <2>2. x.rt \in {"deno", "node"} /\ x.mode \in Sh!Modes
    BY <1>2, <2>1, RuntimesAssumption DEF Sh!ConstantsAssumption, Sh!Record
  <2>3. Sh!RouteKey(x) = <<x.rt, x.mode>> /\ <<x.rt, x.mode>> \in Sh!Keys
    BY <2>2 DEF Sh!RouteKey, Sh!Keys
  <2>4. p \in Users(<<x.rt, x.mode>>)
    BY <1>2, <2>2 DEF Users
  <2>5. KeyIsTrue(<<x.rt, x.mode>>)
    BY <1>1, <1>2, <2>3
  <2>6. QED
    BY <2>3, <2>4, <2>5 DEF KeyIsTrue, Sh!Served
<1>3. \A k \in ips \ broken : loaded[k] # {}
  BY <1>1 DEF KeyIsTrue, RuntimesInv, Sh!TypeOK
<1>4. QED
  BY <1>2, <1>3

\* For any number of projects: at rest requests for a shared project of deno or node reach
\* a container that has loaded it, also beside projects of bun, and no address is kept of
\* one that is gone (runtimes.py:497-605, 888-905).
THEOREM RoutesAreTrueOfAll == Sh!Spec => [](Sh!TypeOK /\ Sh!RoutesAreTrue)
<1>1. RuntimesInv /\ [Sh!Next]_(Sh!vars) => RuntimesInv'
  <2>1. ASSUME RuntimesInv, Sh!Next
        PROVE  RuntimesInv'
    BY <2>1, RuntimesInvNext
  <2>2. ASSUME RuntimesInv, UNCHANGED Sh!vars
        PROVE  RuntimesInv'
    BY <2>2, RuntimesInvStutter DEF Sh!vars, runtimes, RuntimesInv, Sh!TypeOK, SharedOK
  <2>3. QED
    BY <2>1, <2>2
<1>2. RuntimesInv => Sh!TypeOK /\ Sh!RoutesAreTrue
  BY SettledIsTrue DEF RuntimesInv
<1>3. QED
  BY RuntimesInvInit, <1>1, <1>2, PTL DEF Sh!Spec

-----------------------------------------------------------------------------
(* Resources, with handlers that overlap *)

\* A server that a handler bound is none that is listed until it is registered, and only
\* its own handler knows it.
ListingInv ==
  /\ Ov!TypeOK /\ requests <= OverlapRequests
  /\ ~running => works = {}
  /\ \A p \in Projects : proxies[p] \subseteq live[p] \cap 0..requests
  /\ \A j \in works :
       /\ j.n <= requests
       /\ j.pc \in {"binding", "registering"} =>
            j.n # 0 /\ \A p \in Projects : j.n \notin proxies[p]
       /\ j.pc = "registering" => j.n \in live[j.p]
       /\ \A k \in works : j.n = k.n /\ j.n # 0 => j = k

LEMMA ListingInvInit == Ov!Init => ListingInv
BY ResourcesAssumption DEF Ov!Init, Ov!ConstantsAssumption, ListingInv, Ov!TypeOK, Ov!Servers

\* What the handlers' jobs, and the servers they know, are after a step.
LEMMA OverlapGoes ==
  ASSUME ListingInv, NEW j \in works, NEW pc, Ov!GoesTo(j, pc),
         [j EXCEPT !.pc = pc] \in Ov!Job
  PROVE  \E k \in Ov!Job : /\ works' = (works \ {j}) \cup {k}
                           /\ k.p = j.p /\ k.n = j.n /\ k.pc = pc
<1>1. j \in Ov!Job
  BY DEF ListingInv, Ov!TypeOK
<1>2. [j EXCEPT !.pc = pc].pc = pc /\ [j EXCEPT !.pc = pc].p = j.p /\ [j EXCEPT !.pc = pc].n = j.n
  BY <1>1 DEF Ov!Job
<1>3. QED
  BY <1>2 DEF Ov!GoesTo

\* A step that binds and lists no server, and closes none but those listed.
LEMMA ListingKept ==
  ASSUME ListingInv, Ov!TypeOK', requests' = requests, ~running' => works' = {},
         \A k \in works' : \E j \in works : k.n = j.n /\ (k.pc \in {"binding", "registering"} => k = j),
         \A k, l \in works' : k.n = l.n /\ k.n # 0 => k = l,
         \A p \in Projects : /\ proxies'[p] \subseteq proxies[p] /\ proxies'[p] \subseteq live'[p]
                             /\ live[p] \ proxies[p] \subseteq live'[p]
  PROVE  ListingInv'
<1>1. \A p \in Projects : proxies'[p] \subseteq live'[p] \cap 0..requests'
  BY DEF ListingInv
<1>2. ASSUME NEW k \in works'
      PROVE  /\ k.n <= requests'
             /\ k.pc \in {"binding", "registering"} =>
                  k.n # 0 /\ \A p \in Projects : k.n \notin proxies'[p]
             /\ k.pc = "registering" => k.n \in live'[k.p]
  <2>1. PICK j \in works : k.n = j.n /\ (k.pc \in {"binding", "registering"} => k = j)
    OBVIOUS
  <2>2. j.p \in Projects
    BY DEF ListingInv, Ov!TypeOK, Ov!Job
  <2>3. QED
    BY <2>1, <2>2 DEF ListingInv
<1>3. QED
  BY <1>1, <1>2 DEF ListingInv

LEMMA ListingInvCalls ==
  ASSUME ListingInv, NEW s \in Overlapping, NEW p \in Projects, Ov!Calls(s, p)
  PROVE  ListingInv'
<1>1. /\ running /\ running' = running /\ proxies' = proxies /\ live' = live /\ socket' = socket
      /\ nets' = nets /\ joined' = joined /\ own' = own /\ routed' = routed /\ waits' = waits
      /\ partial' = partial /\ faults' = faults
      /\ requests < OverlapRequests /\ requests' = requests + 1 /\ torn' = torn
  BY DEF Ov!Calls, Ov!Deploy, Ov!Promote, Ov!Unpromote, Ov!Teardown, Ov!Accepts, Ov!docker,
         Ov!sockets
<1>2. ASSUME NEW r \in records[p]
      PROVE  /\ r \in Ov!Record /\ [r EXCEPT !.mode = "attested"] \in Ov!Record
             /\ [r EXCEPT !.mode = "dev"] \in Ov!Record
  <2>1. r \in Ov!Record
    BY DEF ListingInv, Ov!TypeOK
  <2>2. QED
    BY <2>1 DEF Ov!Record, Ov!Modes
<1>3. /\ requests' \in Nat /\ requests' \in Ov!Servers /\ requests' # 0 /\ requests' <= OverlapRequests
      /\ \A q \in Projects : requests' \notin proxies[q]
      /\ \A j \in works : requests' # j.n
  BY <1>1, ResourcesAssumption DEF ListingInv, Ov!TypeOK, Ov!Servers, Ov!ConstantsAssumption
<1>4. records' \in [Projects -> SUBSET Ov!Record] /\ changed' \subseteq Projects
  <2>1. records \in [Projects -> SUBSET Ov!Record] /\ changed \subseteq Projects
    BY DEF ListingInv, Ov!TypeOK
  <2>2. ASSUME NEW r \in Ov!Record, Ov!Saves(p, r)
        PROVE  records' \in [Projects -> SUBSET Ov!Record] /\ changed' \subseteq Projects
    BY <2>1, <2>2 DEF Ov!Saves
  <2>3. ASSUME NEW r \in Ov!Record, Ov!Deploy(s, p, r)
        PROVE  Ov!Saves(p, r)
    BY <2>3 DEF Ov!Deploy
  <2>4. CASE Ov!Promote(s, p) \/ Ov!Unpromote(s, p)
    BY <1>2, <2>2, <2>4 DEF Ov!Promote, Ov!Unpromote
  <2>5. CASE Ov!Teardown(s, p)
    BY <2>1, <2>5 DEF Ov!Teardown
  <2>6. QED
    BY <2>2, <2>3, <2>4, <2>5 DEF Ov!Calls
<1>5. \A r \in Ov!Record, op \in {"deploy", "promote", "teardown"},
         pc \in {"binding", "replacing", "deleting"} :
        LET k == Ov!NewJob(s, requests', p, op, pc, r)
        IN  k \in Ov!Job /\ k.n = requests' /\ k.pc # "registering"
  BY <1>3 DEF Ov!NewJob, Ov!Job
<1>6. \/ works' = works
      \/ \E k \in Ov!Job : works' = works \cup {k} /\ k.n = requests' /\ k.pc # "registering"
  <2>1. ASSUME NEW r \in Ov!Record, Ov!Deploy(s, p, r)
        PROVE  \E k \in Ov!Job : /\ works' = works \cup {k} /\ k.n = requests'
                                  /\ k.pc # "registering"
    BY <1>5, <2>1 DEF Ov!Deploy
  <2>2. ASSUME NEW r \in records[p],
               works' = works \cup
                 (IF r.kind = "own"
                    THEN {Ov!NewJob(s, requests', p, "promote", "replacing",
                                    [r EXCEPT !.mode = "attested"])}
                    ELSE {})
        PROVE  \/ works' = works
               \/ \E k \in Ov!Job : /\ works' = works \cup {k} /\ k.n = requests'
                                     /\ k.pc # "registering"
    BY <1>2, <1>5, <2>2
  <2>3. ASSUME NEW r \in records[p],
               works' = works \cup {Ov!NewJob(s, requests', p, "teardown", "deleting", r)}
        PROVE  \E k \in Ov!Job : /\ works' = works \cup {k} /\ k.n = requests'
                                  /\ k.pc # "registering"
    BY <1>2, <1>5, <2>3
  <2>4. QED
    BY <2>1, <2>2, <2>3 DEF Ov!Calls, Ov!Promote, Ov!Unpromote, Ov!Teardown
<1>7. works' \subseteq Ov!Job
  BY <1>6 DEF ListingInv, Ov!TypeOK
<1>8. Ov!TypeOK'
  BY <1>1, <1>3, <1>4, <1>7 DEF ListingInv, Ov!TypeOK
<1>9. \A q \in Projects : proxies'[q] \subseteq live'[q] \cap 0..requests'
  BY <1>1 DEF ListingInv, Ov!TypeOK
<1>10. ASSUME NEW j \in works'
       PROVE  /\ j.n <= requests'
              /\ j.pc \in {"binding", "registering"} =>
                   j.n # 0 /\ \A q \in Projects : j.n \notin proxies'[q]
              /\ j.pc = "registering" => j.n \in live'[j.p]
              /\ \A k \in works' : j.n = k.n /\ j.n # 0 => j = k
  <2>1. CASE j \in works
    <3>1. j.n \in Nat
      BY <2>1 DEF ListingInv, Ov!TypeOK, Ov!Job, Ov!Servers
    <3>2. QED
      BY <1>1, <1>3, <1>6, <2>1, <3>1 DEF ListingInv, Ov!TypeOK
  <2>2. CASE j \notin works
    BY <1>1, <1>3, <1>6, <2>2
  <2>3. QED
    BY <2>1, <2>2
<1>11. QED
  BY <1>1, <1>3, <1>8, <1>9, <1>10 DEF ListingInv

LEMMA ListingInvStep ==
  ASSUME ListingInv, NEW j \in works, Ov!Step(j)
  PROVE  ListingInv'
<1>1. /\ j \in Ov!Job /\ j.p \in Projects /\ j.n \in Ov!Servers /\ j.loc \in Ov!Record
      /\ j.loc.mode \in Ov!Modes /\ Ov!Net(j) \in Ov!Nets
      /\ {j.p} \X Ov!Modes \subseteq Ov!Nets
  BY DEF ListingInv, Ov!TypeOK, Ov!Job, Ov!Record, Ov!Net, Ov!Nets
<1>2. /\ requests' = requests /\ faults' = faults /\ running' = running /\ waits' = waits
      /\ torn' = torn
  BY DEF Ov!Step, Ov!AlreadyServed, Ov!Binds, Ov!Registers, Ov!Closes, Ov!Unlinks, Ov!NetCreated,
         Ov!PoolIsEmpty, Ov!Joins, Ov!Starts, Ov!NoNetwork, Ov!Resaved, Ov!Replaces, Ov!Deletes,
         Ov!Stops, Ov!Leaves, Ov!RemovesNet
<1>3. running
  BY DEF ListingInv
<1> DEFINE PCs == {"binding", "registering", "netting", "joining", "starting", "saving",
                   "replacing", "deleting", "stopping", "closing", "unlinking", "leaving",
                   "removing"}
<1>4. \A pc \in PCs : [j EXCEPT !.pc = pc] \in Ov!Job
  BY <1>1 DEF Ov!Job
<1>5. /\ records' \in [Projects -> SUBSET Ov!Record] /\ changed' \subseteq Projects
      /\ partial' \subseteq Projects
  BY <1>1 DEF Ov!Step, Ov!AlreadyServed, Ov!Binds, Ov!Registers, Ov!Closes, Ov!Unlinks,
              Ov!NetCreated, Ov!PoolIsEmpty, Ov!Joins, Ov!Starts, Ov!NoNetwork, Ov!Resaved,
              Ov!Replaces, Ov!Deletes, Ov!Stops, Ov!Leaves, Ov!RemovesNet, Ov!Raises, Ov!Saves,
              ListingInv, Ov!TypeOK
<1>6. /\ nets' \subseteq Ov!Nets /\ joined' \subseteq Ov!Nets /\ own' \subseteq Ov!Nets
      /\ routed' \in [Projects -> SUBSET Ov!Modes]
  BY <1>1 DEF Ov!Step, Ov!AlreadyServed, Ov!Binds, Ov!Registers, Ov!Closes, Ov!Unlinks,
              Ov!NetCreated, Ov!PoolIsEmpty, Ov!Joins, Ov!Starts, Ov!NoNetwork, Ov!Resaved,
              Ov!Replaces, Ov!Deletes, Ov!Stops, Ov!Leaves, Ov!RemovesNet, Ov!Halts, Ov!docker,
              ListingInv, Ov!TypeOK
<1>7. /\ proxies' \in [Projects -> SUBSET Ov!Servers]
      /\ socket' \in [Projects -> SUBSET Ov!Servers]
      /\ live' \in [Projects -> SUBSET Ov!Servers]
  BY <1>1 DEF Ov!Step, Ov!AlreadyServed, Ov!Binds, Ov!Registers, Ov!Closes, Ov!Unlinks,
              Ov!NetCreated, Ov!PoolIsEmpty, Ov!Joins, Ov!Starts, Ov!NoNetwork, Ov!Resaved,
              Ov!Replaces, Ov!Deletes, Ov!Stops, Ov!Leaves, Ov!RemovesNet, Ov!sockets,
              ListingInv, Ov!TypeOK
<1>8. ASSUME NEW pc \in PCs, Ov!GoesTo(j, pc)
      PROVE  \E k \in Ov!Job : /\ works' = (works \ {j}) \cup {k}
                               /\ k.p = j.p /\ k.n = j.n /\ k.pc = pc
  BY <1>4, <1>8, OverlapGoes
<1>9. Ov!AfterSockets(j) \in {"netting", "saving"}
  BY DEF Ov!AfterSockets
<1>10. Ov!Ends(j) \/ \E pc \in PCs \ {"binding"} : Ov!GoesTo(j, pc)
  BY <1>9 DEF Ov!Step, Ov!AlreadyServed, Ov!Binds, Ov!Registers, Ov!Closes, Ov!Unlinks,
              Ov!NetCreated, Ov!PoolIsEmpty, Ov!Joins, Ov!Starts, Ov!NoNetwork, Ov!Resaved,
              Ov!Replaces, Ov!Deletes, Ov!Stops, Ov!Leaves, Ov!RemovesNet, Ov!Raises
<1>11. ASSUME ~Ov!Binds(j)
       PROVE  Ov!Ends(j) \/ \E pc \in PCs \ {"binding", "registering"} : Ov!GoesTo(j, pc)
  BY <1>9, <1>11 DEF Ov!Step, Ov!AlreadyServed, Ov!Registers, Ov!Closes, Ov!Unlinks,
              Ov!NetCreated, Ov!PoolIsEmpty, Ov!Joins, Ov!Starts, Ov!NoNetwork, Ov!Resaved,
              Ov!Replaces, Ov!Deletes, Ov!Stops, Ov!Leaves, Ov!RemovesNet, Ov!Raises
<1>12. \/ works' = works \ {j}
       \/ \E k \in Ov!Job : /\ works' = (works \ {j}) \cup {k}
                             /\ k.p = j.p /\ k.n = j.n /\ k.pc # "binding"
  BY <1>8, <1>10 DEF Ov!Ends
<1>13. ASSUME ~Ov!Binds(j)
       PROVE  \/ works' = works \ {j}
              \/ \E k \in Ov!Job : /\ works' = (works \ {j}) \cup {k} /\ k.p = j.p /\ k.n = j.n
                                    /\ k.pc \notin {"binding", "registering"}
  <2>1. CASE Ov!Ends(j)
    BY <2>1 DEF Ov!Ends
  <2>2. ASSUME NEW pc \in PCs \ {"binding", "registering"}, Ov!GoesTo(j, pc)
        PROVE  \E k \in Ov!Job : /\ works' = (works \ {j}) \cup {k} /\ k.p = j.p /\ k.n = j.n
                                 /\ k.pc \notin {"binding", "registering"}
    BY <1>8, <2>2
  <2>3. QED
    BY <1>11, <1>13, <2>1, <2>2
<1>14. Ov!TypeOK'
  <2>1. works' \subseteq Ov!Job
    BY <1>12 DEF ListingInv, Ov!TypeOK
  <2>2. QED
    BY <1>2, <1>5, <1>6, <1>7, <2>1 DEF ListingInv, Ov!TypeOK
<1>15. \A k, l \in works' : k.n = l.n /\ k.n # 0 => k = l
  BY <1>12 DEF ListingInv
<1>16. CASE Ov!Binds(j)
  <2>1. /\ proxies' = proxies /\ live' = [live EXCEPT ![j.p] = @ \cup {j.n}]
        /\ j.pc = "binding"
    BY <1>16 DEF Ov!Binds
  <2>2. \A p \in Projects : live[p] \subseteq live'[p]
    BY <2>1 DEF ListingInv, Ov!TypeOK
  <2>3. j.n \in live'[j.p]
    BY <1>1, <2>1 DEF ListingInv, Ov!TypeOK
  <2>4. \A p \in Projects : proxies'[p] \subseteq live'[p] \cap 0..requests'
    BY <1>2, <2>1, <2>2 DEF ListingInv
  <2>5. ASSUME NEW k \in works'
        PROVE  /\ k.n <= requests'
               /\ k.pc \in {"binding", "registering"} =>
                    k.n # 0 /\ \A p \in Projects : k.n \notin proxies'[p]
               /\ k.pc = "registering" => k.n \in live'[k.p]
    <3>1. CASE k \in works
      <4>1. k.p \in Projects
        BY <3>1 DEF ListingInv, Ov!TypeOK, Ov!Job
      <4>2. QED
        BY <1>2, <2>1, <2>2, <3>1, <4>1 DEF ListingInv
    <3>2. CASE k \notin works
      <4>1. k.p = j.p /\ k.n = j.n
        BY <1>12, <3>2
      <4>2. QED
        BY <1>2, <2>1, <2>3, <4>1 DEF ListingInv
    <3>3. QED
      BY <3>1, <3>2
  <2>6. QED
    BY <1>2, <1>3, <1>14, <1>15, <2>4, <2>5 DEF ListingInv
<1>17. CASE Ov!Registers(j)
  <2>1. proxies' = [proxies EXCEPT ![j.p] = {j.n}] /\ live' = live /\ j.pc = "registering"
    BY <1>17 DEF Ov!Registers
  <2>2. \A p \in Projects : proxies'[p] = IF p = j.p THEN {j.n} ELSE proxies[p]
    BY <1>1, <2>1 DEF ListingInv, Ov!TypeOK
  <2>3. \A p \in Projects : proxies'[p] \subseteq live'[p] \cap 0..requests'
    BY <1>1, <1>2, <2>1, <2>2 DEF ListingInv, Ov!Servers
  <2>4. ~Ov!Binds(j)
    BY <2>1 DEF Ov!Binds
  <2>5. ASSUME NEW k \in works'
        PROVE  /\ k.n <= requests'
               /\ k.pc \in {"binding", "registering"} =>
                    k.n # 0 /\ \A p \in Projects : k.n \notin proxies'[p]
               /\ k.pc = "registering" => k.n \in live'[k.p]
    <3>1. CASE k \in works \ {j}
      BY <1>2, <2>1, <2>2, <3>1 DEF ListingInv
    <3>2. CASE k \notin works \ {j}
      <4>1. k.n = j.n /\ k.pc \notin {"binding", "registering"}
        BY <1>13, <2>4, <3>2
      <4>2. QED
        BY <1>2, <4>1 DEF ListingInv
    <3>3. QED
      BY <3>1, <3>2
  <2>6. QED
    BY <1>2, <1>3, <1>14, <1>15, <2>3, <2>5 DEF ListingInv
<1>18. CASE ~Ov!Binds(j) /\ ~Ov!Registers(j)
  <2>1. \/ proxies' = proxies /\ live' = live
        \/ /\ proxies' = [proxies EXCEPT ![j.p] = {}]
           /\ live' = [live EXCEPT ![j.p] = @ \ proxies[j.p]]
    BY <1>18 DEF Ov!Step, Ov!AlreadyServed, Ov!Closes, Ov!Unlinks, Ov!NetCreated, Ov!PoolIsEmpty,
                 Ov!Joins, Ov!Starts, Ov!NoNetwork, Ov!Resaved, Ov!Replaces, Ov!Deletes, Ov!Stops,
                 Ov!Leaves, Ov!RemovesNet, Ov!sockets
  <2>2. \A p \in Projects : /\ proxies'[p] \subseteq proxies[p] /\ proxies'[p] \subseteq live'[p]
                            /\ live[p] \ proxies[p] \subseteq live'[p]
    BY <2>1 DEF ListingInv, Ov!TypeOK
  <2>3. \A k \in works' :
          \E i \in works : k.n = i.n /\ (k.pc \in {"binding", "registering"} => k = i)
    BY <1>13, <1>18
  <2>4. QED
    BY <1>2, <1>3, <1>14, <1>15, <2>2, <2>3, ListingKept
<1>19. QED
  BY <1>16, <1>17, <1>18

LEMMA ListingInvNext ==
  ASSUME ListingInv, Ov!Next
  PROVE  ListingInv'
<1>1. ASSUME NEW j \in works, Ov!Fails(j)
      PROVE  ListingInv'
  <2>1. j.p \in Projects
    BY DEF ListingInv, Ov!TypeOK, Ov!Job
  <2>2. /\ works' = works \ {j} /\ partial' = partial \cup {j.p} /\ faults' = faults + 1
        /\ records' = records /\ nets' = nets /\ joined' = joined /\ own' = own
        /\ routed' = routed /\ proxies' = proxies /\ socket' = socket /\ live' = live
        /\ running' = running /\ waits' = waits /\ changed' = changed /\ requests' = requests
        /\ torn' = torn
    BY <1>1 DEF Ov!Fails, Ov!Raises, Ov!Ends, Ov!docker, Ov!sockets
  <2>3. Ov!TypeOK'
    BY <2>1, <2>2 DEF ListingInv, Ov!TypeOK
  <2>4. QED
    BY <2>2, <2>3 DEF ListingInv
<1>2. ASSUME NEW again \in BOOLEAN, Ov!Dies(again), torn' \subseteq Projects,
             (records \in [Projects -> SUBSET Ov!Record])', partial' \subseteq Projects
      PROVE  ListingInv'
  <2>1. /\ works' = {} /\ waits' = {} /\ running' = FALSE /\ faults' = faults + 1
        /\ joined' \subseteq joined
        /\ routed' = [p \in Projects |-> {}] /\ proxies' = [p \in Projects |-> {}]
        /\ live' = [p \in Projects |-> {}]
        /\ nets' = nets /\ own' = own /\ socket' = socket
        /\ changed' = changed /\ requests' = requests
    BY <1>2 DEF Ov!Dies
  <2>2. running' \in BOOLEAN
    BY <2>1
  <2>3. Ov!TypeOK'
    BY <1>2, <2>1, <2>2 DEF ListingInv, Ov!TypeOK
  <2>4. QED
    BY <2>1, <2>3 DEF ListingInv
<1>6. Ov!CutShort \subseteq Projects
  BY DEF Ov!CutShort, ListingInv, Ov!TypeOK, Ov!Job
<1>7. ASSUME NEW again \in BOOLEAN, Ov!Crash(again)
      PROVE  ListingInv'
  BY <1>2, <1>6, <1>7 DEF Ov!Crash, ListingInv, Ov!TypeOK
<1>8. ASSUME NEW again \in BOOLEAN, NEW p \in Projects, Ov!TornSave(p, again)
      PROVE  ListingInv'
  <2>1. /\ Ov!Dies(again) /\ torn' = torn \cup {p} /\ records' = [records EXCEPT ![p] = {}]
        /\ partial' = partial \cup {p} \cup Ov!CutShort
    BY <1>8 DEF Ov!TornSave
  <2>2. /\ torn' \subseteq Projects /\ partial' \subseteq Projects
        /\ (records \in [Projects -> SUBSET Ov!Record])'
    BY <1>6, <2>1 DEF ListingInv, Ov!TypeOK
  <2>3. QED
    BY <1>2, <2>1, <2>2
<1>9. ASSUME Ov!BootFails
      PROVE  ListingInv'
  <2>1. /\ nets' \subseteq nets /\ works' = works /\ waits' = waits /\ running' = running
        /\ proxies' = proxies /\ socket' = socket /\ live' = live /\ torn' = torn
        /\ records' = records /\ joined' = joined /\ own' = own /\ routed' = routed
        /\ changed' = changed /\ partial' = partial /\ requests' = requests /\ faults' = faults
    BY <1>9 DEF Ov!BootFails, Ov!sockets
  <2>2. Ov!TypeOK'
    BY <2>1 DEF ListingInv, Ov!TypeOK
  <2>3. QED
    BY <2>1, <2>2 DEF ListingInv
<1>3. ASSUME Ov!Boot
      PROVE  ListingInv'
  <2>1. /\ running' = TRUE /\ nets' \subseteq nets /\ works = {} /\ works' = works
        /\ proxies' = [p \in Projects |-> IF p \in Ov!Stored THEN {0} ELSE {}]
        /\ socket' = [p \in Projects |-> IF p \in Ov!Stored THEN {0} ELSE socket[p]]
        /\ live' = proxies' /\ waits' \subseteq Projects \X Ov!Record
        /\ records' = records /\ joined' = joined /\ own' = own /\ routed' = routed
        /\ changed' = changed /\ partial' = partial /\ requests' = requests /\ faults' = faults
        /\ torn' = torn
    BY <1>3 DEF Ov!Boot, Ov!Stored, ListingInv
  <2>2. 0 \in Ov!Servers
    BY ResourcesAssumption DEF Ov!Servers, Ov!ConstantsAssumption
  <2>3. Ov!TypeOK'
    BY <2>1, <2>2 DEF ListingInv, Ov!TypeOK
  <2>4. 0 \in 0..requests'
    BY <2>3 DEF Ov!TypeOK
  <2>5. QED
    BY <2>1, <2>3, <2>4 DEF ListingInv
<1>4. ASSUME Ov!RecoverNext
      PROVE  ListingInv'
  <2>1. PICK q \in waits : /\ waits' = waits \ {q}
                           /\ works' = works \cup
                                {Ov!NewJob("boot", 0, q[1], "recover", "netting", q[2])}
    BY <1>4 DEF Ov!RecoverNext
  <2> DEFINE k == Ov!NewJob("boot", 0, q[1], "recover", "netting", q[2])
  <2>2. 0 \in Ov!Servers
    BY ResourcesAssumption DEF Ov!Servers, Ov!ConstantsAssumption
  <2>3. k \in Ov!Job /\ k.n = 0 /\ k.pc = "netting"
    <3>1. q[1] \in Projects /\ q[2] \in Ov!Record
      BY DEF ListingInv, Ov!TypeOK
    <3>2. QED
      BY <2>2, <3>1 DEF Ov!NewJob, Ov!Job
  <2>4. /\ running /\ running' = running
        /\ records' = records /\ nets' = nets /\ joined' = joined /\ own' = own
        /\ routed' = routed /\ proxies' = proxies /\ socket' = socket /\ live' = live
        /\ changed' = changed /\ partial' = partial /\ requests' = requests /\ faults' = faults
        /\ torn' = torn
    BY <1>4 DEF Ov!RecoverNext, Ov!docker, Ov!sockets
  <2> HIDE DEF k
  <2>5. works' = works \cup {k}
    BY <2>1 DEF k
  <2>6. Ov!TypeOK'
    BY <2>1, <2>3, <2>4, <2>5 DEF ListingInv, Ov!TypeOK
  <2>7. \A j \in works' : /\ j.n <= requests'
                          /\ j.pc \in {"binding", "registering"} =>
                               j.n # 0 /\ \A p \in Projects : j.n \notin proxies'[p]
                          /\ j.pc = "registering" => j.n \in live'[j.p]
                          /\ \A i \in works' : j.n = i.n /\ j.n # 0 => j = i
    BY <2>3, <2>4, <2>5 DEF ListingInv, Ov!TypeOK
  <2>8. QED
    BY <2>4, <2>6, <2>7 DEF ListingInv
<1>5. QED
  BY <1>1, <1>3, <1>4, <1>7, <1>8, <1>9, ListingInvCalls, ListingInvStep DEF Ov!Next

LEMMA ListingInvStutter ==
  ASSUME ListingInv, UNCHANGED <<resources, requests>>, SharedOK'
  PROVE  ListingInv'
BY DEF ListingInv, Ov!TypeOK, resources, SharedOK

-----------------------------------------------------------------------------
(* Resources, with callers that wait for each other *)

\* The steps of each kind of job.
StepsOf(op) ==
  CASE op = "deploy" -> {"binding", "registering", "netting", "joining", "starting", "saving"}
    [] op = "promote" -> {"replacing", "netting", "joining", "starting"}
    [] op = "recover" -> {"netting", "joining", "starting"}
    [] OTHER -> {"deleting", "stopping", "closing", "unlinking", "leaving", "removing"}

\* A job is at a step of its kind, and a server that it bound listens until it is listed.
JobRuns(j) ==
  /\ j.pc \in StepsOf(j.op) /\ (j.id = "boot" <=> j.op = "recover")
  /\ j.pc = "registering" => j.n \in live[j.p]

\* The project's server is listed, and it has the socket at the path.
HasSockets(p) == proxies[p] # {} /\ Rs!SocketServes(p)

\* What the records of project p account for: its network and container, of its kind and mode.
Accounted(p) == records[p] \cup {j.loc : j \in {j \in works : j.p = p}}

NetsFit(p) ==
  p \notin changed =>
    \A m \in Rs!Modes : <<p, m>> \in nets \cup own => [mode |-> m, kind |-> "own"] \in Accounted(p)

\* What each handler finds at its steps, and what it has yet to do.
JobFits(j) ==
  /\ records[j.p] = IF j.op = "teardown" /\ j.pc # "deleting" THEN {} ELSE {j.loc}
  /\ j.pc = "binding" /\ proxies[j.p] # {} => HasSockets(j.p)
  /\ j.pc = "registering" => socket[j.p] = {j.n} /\ j.n \in live[j.p]
  /\ j.pc \in {"netting", "joining", "starting", "saving", "replacing", "deleting", "stopping",
               "closing"} => HasSockets(j.p)
  /\ j.pc \in {"netting", "joining", "starting", "replacing"} => j.loc.kind = "own"
  /\ j.pc \in {"joining", "starting"} => Rs!Net(j) \in nets
  /\ j.pc = "starting" => Rs!Net(j) \in joined
  /\ j.pc = "saving" /\ j.loc.kind = "own" => Rs!Reached(j.p)
  /\ j.pc \in {"closing", "unlinking", "leaving", "removing"} /\ j.p \notin changed =>
       \A m \in Rs!Modes : <<j.p, m>> \notin own
  /\ j.pc \in {"unlinking", "leaving", "removing"} => proxies[j.p] = {}
  /\ j.pc \in {"leaving", "removing"} => socket[j.p] = {}
  /\ j.pc = "removing" => Rs!Net(j) \notin joined

\* A project that nobody works at has what its record asks for, or the recovery comes to it.
CalmFits(p) ==
  /\ records[p] # {} => HasSockets(p)
  /\ records[p] = {} => proxies[p] = {} /\ socket[p] \cap live[p] = {}
  /\ Rs!OwnRecord(p) => Rs!Reached(p) \/ \E q \in waits : q[1] = p

Fits(p) ==
  p \notin partial =>
    /\ NetsFit(p)
    /\ \A j \in works : j.p = p => JobFits(j)
    /\ running /\ (\A j \in works : j.p # p) => CalmFits(p)

OneJob ==
  /\ \A j, k \in works : j = k
  /\ \A j \in works : j.id # "boot" => waits = {}
  /\ ~running => works = {} /\ waits = {}

RecordsFit ==
  /\ \A p \in Projects : \A r, x \in records[p] : r = x
  /\ \A q \in waits : q[2] \in records[q[1]] /\ q[2].kind = "own"

NeedsInv ==
  /\ Rs!TypeOK /\ requests <= SerialRequests
  /\ OneJob /\ RecordsFit
  /\ \A p \in Projects : Fits(p) /\ proxies[p] \subseteq live[p]
  /\ \A j \in works : JobRuns(j)

LEMMA NeedsInvInit == Rs!Init => NeedsInv
<1> SUFFICES ASSUME Rs!Init
             PROVE  NeedsInv
  OBVIOUS
<1>1. Rs!TypeOK /\ requests <= SerialRequests
  BY ResourcesAssumption DEF Rs!Init, Rs!TypeOK, Rs!ConstantsAssumption, Rs!Servers
<1>2. \A p \in Projects : Fits(p) /\ proxies[p] \subseteq live[p]
  BY DEF Rs!Init, Fits, NetsFit, CalmFits, Rs!OwnRecord
<1>3. QED
  BY <1>1, <1>2 DEF Rs!Init, NeedsInv, OneJob, RecordsFit

\* A step leaves everything of project o as it was.
SameFor(o) ==
  /\ records'[o] = records[o] /\ proxies'[o] = proxies[o] /\ socket'[o] = socket[o]
  /\ live'[o] = live[o] /\ routed'[o] = routed[o] /\ running' = running
  /\ \A m : /\ <<o, m>> \in nets' <=> <<o, m>> \in nets
            /\ <<o, m>> \in joined' <=> <<o, m>> \in joined
            /\ <<o, m>> \in own' <=> <<o, m>> \in own
  /\ \A k : k.p = o => (k \in works' <=> k \in works)
  /\ o \in changed' <=> o \in changed
  /\ o \in partial' <=> o \in partial
  /\ (\E q \in waits' : q[1] = o) <=> (\E q \in waits : q[1] = o)

LEMMA OthersFit ==
  ASSUME NEW o \in Projects, Fits(o), SameFor(o)
  PROVE  Fits(o)'
<1>1. Accounted(o)' = Accounted(o)
  BY DEF SameFor, Accounted
<1>2. NetsFit(o) => NetsFit(o)'
  BY <1>1 DEF NetsFit, SameFor
<1>3. HasSockets(o)' <=> HasSockets(o)
  BY DEF HasSockets, Rs!SocketServes, SameFor
<1>4. Rs!Reached(o)' <=> Rs!Reached(o)
  <2>1. Rs!Reached(o) <=> /\ routed[o] # {}
                          /\ \A m \in routed[o] : <<o, m>> \in own /\ <<o, m>> \in joined
    BY DEF Rs!Reached
  <2>2. Rs!Reached(o)' <=> /\ routed'[o] # {}
                           /\ \A m \in routed'[o] : <<o, m>> \in own' /\ <<o, m>> \in joined'
    BY DEF Rs!Reached
  <2>3. QED
    BY <2>1, <2>2 DEF SameFor
<1>5. CalmFits(o) => CalmFits(o)'
  BY <1>3, <1>4 DEF CalmFits, SameFor, Rs!OwnRecord
<1>6. ASSUME NEW j, j.p = o, JobFits(j)
      PROVE  JobFits(j)'
  BY <1>3, <1>4, <1>6 DEF JobFits, SameFor, Rs!Net
<1>7. QED
  BY <1>2, <1>5, <1>6 DEF Fits, SameFor

\* The only job, and its types.
LEMMA OnlyJob ==
  ASSUME NeedsInv, NEW j \in works
  PROVE  /\ works = {j} /\ j \in Rs!Job /\ running
         /\ j.p \in Projects /\ j.loc \in Rs!Record /\ j.n \in Rs!Servers
         /\ j.loc.mode \in Rs!Modes /\ j.loc.kind \in {"own", "shared"}
         /\ Rs!Net(j) = <<j.p, j.loc.mode>> /\ Rs!Net(j) \in Rs!Nets
         /\ Accounted(j.p) = records[j.p] \cup {j.loc}
<1>1. works = {j} /\ j \in Rs!Job /\ running
  BY DEF NeedsInv, OneJob, Rs!TypeOK
<1>2. /\ j.p \in Projects /\ j.loc \in Rs!Record /\ j.n \in Rs!Servers
      /\ j.loc.mode \in Rs!Modes /\ j.loc.kind \in {"own", "shared"}
  BY <1>1, ResourcesAssumption DEF Rs!Job, Rs!Record, Rs!ConstantsAssumption
<1>3. Rs!Net(j) = <<j.p, j.loc.mode>> /\ Rs!Net(j) \in Rs!Nets
  BY <1>2 DEF Rs!Net, Rs!Nets
<1>4. Accounted(j.p) = records[j.p] \cup {j.loc}
  BY <1>1 DEF Accounted
<1>5. QED
  BY <1>1, <1>2, <1>3, <1>4

JobSteps == {"binding", "registering", "netting", "joining", "starting", "saving", "replacing",
             "deleting", "stopping", "closing", "unlinking", "leaving", "removing"}

\* k is the job j at another step.
MovesTo(j, k, pc) ==
  /\ works' = {k} /\ k \in Rs!Job
  /\ k.id = j.id /\ k.n = j.n /\ k.p = j.p /\ k.op = j.op /\ k.loc = j.loc /\ k.pc = pc

LEMMA Moves ==
  ASSUME NeedsInv, NEW j \in works, NEW pc \in JobSteps, Rs!GoesTo(j, pc)
  PROVE  \E k : MovesTo(j, k, pc)
<1>1. works = {j} /\ j \in Rs!Job
  BY OnlyJob
<1> DEFINE k == [j EXCEPT !.pc = pc]
<1>2. /\ k \in Rs!Job /\ k.id = j.id /\ k.n = j.n /\ k.p = j.p /\ k.op = j.op /\ k.loc = j.loc
      /\ k.pc = pc
  BY <1>1 DEF Rs!Job, JobSteps
<1>3. works' = {k}
  BY <1>1 DEF Rs!GoesTo
<1> HIDE DEF k
<1>4. QED
  BY <1>2, <1>3 DEF MovesTo

\* A step of the only job keeps the invariant, if it does for its own project.
LEMMA StepKeeps ==
  ASSUME NeedsInv, NEW j \in works, Rs!TypeOK',
         works' = {} \/ \E k \in Rs!Job : works' = {k} /\ k.id = j.id,
         requests' = requests, waits' = waits, running' = running,
         \A p \in Projects : \A r, x \in records'[p] : r = x,
         \A o \in Projects \ {j.p} : SameFor(o),
         Fits(j.p)', \A q \in waits : q[2] \in records'[q[1]],
         proxies'[j.p] \subseteq live'[j.p], \A k \in works' : JobRuns(k)'
  PROVE  NeedsInv'
<1>1. j.p \in Projects /\ running
  BY OnlyJob
<1>2. ASSUME NEW p \in Projects
      PROVE  Fits(p)' /\ proxies'[p] \subseteq live'[p]
  <2>1. CASE p = j.p
    BY <2>1
  <2>2. CASE p # j.p
    <3>1. Fits(p) /\ SameFor(p) /\ proxies[p] \subseteq live[p]
      BY <2>2 DEF NeedsInv
    <3>2. Fits(p)'
      BY <3>1, OthersFit
    <3>3. QED
      BY <3>1, <3>2 DEF SameFor
  <2>3. QED
    BY <2>1, <2>2
<1>3. OneJob'
  BY <1>1 DEF NeedsInv, OneJob
<1>4. RecordsFit'
  BY DEF NeedsInv, RecordsFit
<1>5. QED
  BY <1>2, <1>3, <1>4 DEF NeedsInv

\* What a step does to the job, and that it keeps the types.
LEMMA StepTypes ==
  ASSUME NeedsInv, NEW j \in works, Rs!Step(j)
  PROVE  /\ Rs!TypeOK' /\ requests' = requests /\ waits' = waits /\ running' = running
         /\ works' = {} \/ \E k, pc : MovesTo(j, k, pc)
<1>0. works = {j} /\ j \in Rs!Job /\ running
  BY OnlyJob
<1>1. /\ j.p \in Projects /\ j.n \in Rs!Servers /\ j.loc \in Rs!Record
      /\ j.loc.mode \in Rs!Modes /\ Rs!Net(j) \in Rs!Nets
      /\ {j.p} \X Rs!Modes \subseteq Rs!Nets /\ Rs!TypeOK
  BY OnlyJob DEF Rs!Nets, NeedsInv
<1>2. /\ requests' = requests /\ faults' = faults /\ running' = running /\ waits' = waits
      /\ torn' = torn
  BY DEF Rs!Step, Rs!AlreadyServed, Rs!Binds, Rs!Registers, Rs!Closes, Rs!Unlinks,
         Rs!NetCreated, Rs!PoolIsEmpty, Rs!Joins, Rs!Starts, Rs!NoNetwork, Rs!Resaved,
         Rs!Replaces, Rs!Deletes, Rs!Stops, Rs!Leaves, Rs!RemovesNet
<1>3. /\ records' \in [Projects -> SUBSET Rs!Record] /\ changed' \subseteq Projects
      /\ partial' \subseteq Projects
  BY <1>1 DEF Rs!Step, Rs!AlreadyServed, Rs!Binds, Rs!Registers, Rs!Closes, Rs!Unlinks,
              Rs!NetCreated, Rs!PoolIsEmpty, Rs!Joins, Rs!Starts, Rs!NoNetwork, Rs!Resaved,
              Rs!Replaces, Rs!Deletes, Rs!Stops, Rs!Leaves, Rs!RemovesNet, Rs!Raises,
              Rs!Saves, Rs!TypeOK
<1>4. /\ nets' \subseteq Rs!Nets /\ joined' \subseteq Rs!Nets /\ own' \subseteq Rs!Nets
      /\ routed' \in [Projects -> SUBSET Rs!Modes]
  BY <1>1 DEF Rs!Step, Rs!AlreadyServed, Rs!Binds, Rs!Registers, Rs!Closes, Rs!Unlinks,
              Rs!NetCreated, Rs!PoolIsEmpty, Rs!Joins, Rs!Starts, Rs!NoNetwork, Rs!Resaved,
              Rs!Replaces, Rs!Deletes, Rs!Stops, Rs!Leaves, Rs!RemovesNet, Rs!Halts,
              Rs!docker, Rs!TypeOK
<1>5. /\ proxies' \in [Projects -> SUBSET Rs!Servers]
      /\ socket' \in [Projects -> SUBSET Rs!Servers]
      /\ live' \in [Projects -> SUBSET Rs!Servers]
  BY <1>1 DEF Rs!Step, Rs!AlreadyServed, Rs!Binds, Rs!Registers, Rs!Closes, Rs!Unlinks,
              Rs!NetCreated, Rs!PoolIsEmpty, Rs!Joins, Rs!Starts, Rs!NoNetwork, Rs!Resaved,
              Rs!Replaces, Rs!Deletes, Rs!Stops, Rs!Leaves, Rs!RemovesNet, Rs!sockets,
              Rs!TypeOK
<1>6. Rs!AfterSockets(j) \in {"netting", "saving"}
  BY DEF Rs!AfterSockets
<1>7. Rs!Ends(j) \/ \E pc \in JobSteps : Rs!GoesTo(j, pc)
  BY <1>6 DEF Rs!Step, Rs!AlreadyServed, Rs!Binds, Rs!Registers, Rs!Closes, Rs!Unlinks,
              Rs!NetCreated, Rs!PoolIsEmpty, Rs!Joins, Rs!Starts, Rs!NoNetwork, Rs!Resaved,
              Rs!Replaces, Rs!Deletes, Rs!Stops, Rs!Leaves, Rs!RemovesNet, Rs!Raises,
              JobSteps
<1>8. works' = {} \/ \E k, pc : MovesTo(j, k, pc)
  BY <1>0, <1>7, Moves DEF Rs!Ends
<1>9. works' \subseteq Rs!Job
  BY <1>8 DEF MovesTo
<1>10. QED
  BY <1>1, <1>2, <1>3, <1>4, <1>5, <1>8, <1>9 DEF Rs!TypeOK

\* It leaves the other projects as they are.
LEMMA StepOthers ==
  ASSUME NeedsInv, NEW j \in works, Rs!Step(j), NEW o \in Projects \ {j.p}
  PROVE  SameFor(o)
<1>1. /\ works = {j} /\ j.p \in Projects /\ o # j.p /\ Rs!Net(j) = <<j.p, j.loc.mode>>
      /\ waits' = waits /\ running' = running
      /\ works' = {} \/ \E k, pc : MovesTo(j, k, pc)
  BY OnlyJob, StepTypes
<1>2. \A k : k.p = o => (k \in works' <=> k \in works)
  BY <1>1 DEF MovesTo
<1>3. o \in Projects /\ j.p \in Projects /\ o # j.p /\ Rs!TypeOK
  BY <1>1 DEF NeedsInv
<1>4. records'[o] = records[o] /\ (o \in changed' <=> o \in changed)
  BY <1>3 DEF Rs!Step, Rs!AlreadyServed, Rs!Binds, Rs!Registers, Rs!Closes, Rs!Unlinks,
              Rs!NetCreated, Rs!PoolIsEmpty, Rs!Joins, Rs!Starts, Rs!NoNetwork, Rs!Resaved,
              Rs!Replaces, Rs!Deletes, Rs!Stops, Rs!Leaves, Rs!RemovesNet, Rs!Saves,
              Rs!TypeOK
<1>5. routed'[o] = routed[o]
  BY <1>3 DEF Rs!Step, Rs!AlreadyServed, Rs!Binds, Rs!Registers, Rs!Closes, Rs!Unlinks,
              Rs!NetCreated, Rs!PoolIsEmpty, Rs!Joins, Rs!Starts, Rs!NoNetwork, Rs!Resaved,
              Rs!Replaces, Rs!Deletes, Rs!Stops, Rs!Leaves, Rs!RemovesNet, Rs!Halts,
              Rs!TypeOK
<1>6. o \in partial' <=> o \in partial
  BY <1>3 DEF Rs!Step, Rs!AlreadyServed, Rs!Binds, Rs!Registers, Rs!Closes, Rs!Unlinks,
              Rs!NetCreated, Rs!PoolIsEmpty, Rs!Joins, Rs!Starts, Rs!NoNetwork, Rs!Resaved,
              Rs!Replaces, Rs!Deletes, Rs!Stops, Rs!Leaves, Rs!RemovesNet, Rs!Raises
<1>7. proxies'[o] = proxies[o] /\ socket'[o] = socket[o] /\ live'[o] = live[o]
  BY <1>3 DEF Rs!Step, Rs!AlreadyServed, Rs!Binds, Rs!Registers, Rs!Closes, Rs!Unlinks,
              Rs!NetCreated, Rs!PoolIsEmpty, Rs!Joins, Rs!Starts, Rs!NoNetwork, Rs!Resaved,
              Rs!Replaces, Rs!Deletes, Rs!Stops, Rs!Leaves, Rs!RemovesNet, Rs!sockets,
              Rs!TypeOK
<1>8. /\ \/ nets' = nets \/ nets' = nets \cup {Rs!Net(j)}
         \/ nets' = nets \ ({Rs!Net(j)} \ (own \cup joined))
      /\ joined' = joined \/ joined' = joined \cup ({Rs!Net(j)} \cap nets) \/ joined' = joined \ {Rs!Net(j)}
      /\ \/ own' = own \/ own' = own \cup {Rs!Net(j)} \/ own' = own \ {Rs!Net(j)}
         \/ own' = own \ ({j.p} \X Rs!Modes)
  BY DEF Rs!Step, Rs!AlreadyServed, Rs!Binds, Rs!Registers, Rs!Closes, Rs!Unlinks,
         Rs!NetCreated, Rs!PoolIsEmpty, Rs!Joins, Rs!Starts, Rs!NoNetwork, Rs!Resaved,
         Rs!Replaces, Rs!Deletes, Rs!Stops, Rs!Leaves, Rs!RemovesNet, Rs!docker, Rs!Halts
<1>9. \A m : /\ <<o, m>> \in nets' <=> <<o, m>> \in nets
             /\ <<o, m>> \in joined' <=> <<o, m>> \in joined
             /\ <<o, m>> \in own' <=> <<o, m>> \in own
  <2>1. \A m : <<o, m>> # Rs!Net(j) /\ <<o, m>> \notin {j.p} \X Rs!Modes
    BY <1>1
  <2>2. QED
    BY <1>8, <2>1
<1>10. QED
  BY <1>1, <1>2, <1>4, <1>5, <1>6, <1>7, <1>9 DEF SameFor

\* There is one record of a project, and those to be recovered stay as they are.
LEMMA StepRecords ==
  ASSUME NeedsInv, NEW j \in works, Rs!Step(j)
  PROVE  /\ \A p \in Projects : \A r, x \in records'[p] : r = x
         /\ \A q \in waits : q[2] \in records'[q[1]]
<1>1. /\ j.p \in Projects /\ j.loc \in Rs!Record
      /\ records \in [Projects -> SUBSET Rs!Record]
      /\ \A p \in Projects : \A r, x \in records[p] : r = x
      /\ \A q \in waits : q[2] \in records[q[1]]
  BY OnlyJob DEF NeedsInv, RecordsFit, Rs!TypeOK
<1>2. CASE Rs!Resaved(j)
  <2>1. j.op # "recover"
    BY <1>2 DEF Rs!Resaved, NeedsInv, JobRuns, StepsOf
  <2>2. waits = {}
    BY <2>1 DEF NeedsInv, OneJob, JobRuns
  <2>3. records' = [records EXCEPT ![j.p] = {j.loc}]
    BY <1>2 DEF Rs!Resaved, Rs!Saves
  <2>4. QED
    BY <1>1, <2>2, <2>3
<1>3. CASE Rs!Deletes(j)
  <2>1. j.op # "recover"
    BY <1>3 DEF Rs!Deletes, NeedsInv, JobRuns, StepsOf
  <2>2. waits = {}
    BY <2>1 DEF NeedsInv, OneJob, JobRuns
  <2>3. records' = [records EXCEPT ![j.p] = {}]
    BY <1>3 DEF Rs!Deletes
  <2>4. QED
    BY <1>1, <2>2, <2>3
<1>4. CASE ~Rs!Resaved(j) /\ ~Rs!Deletes(j)
  <2>1. records' = records
    BY <1>4 DEF Rs!Step, Rs!AlreadyServed, Rs!Binds, Rs!Registers,
                Rs!Closes, Rs!Unlinks, Rs!NetCreated, Rs!PoolIsEmpty, Rs!Joins, Rs!Starts,
                Rs!NoNetwork, Rs!Replaces, Rs!Stops, Rs!Leaves, Rs!RemovesNet
  <2>2. QED
    BY <1>1, <2>1
<1>5. QED
  BY <1>2, <1>3, <1>4

\* What the invariant says of the job in progress, if nothing failed at its project.
LEMMA KnownOfJob ==
  ASSUME NeedsInv, NEW j \in works, j.p \notin partial
  PROVE  /\ JobFits(j) /\ JobRuns(j)
         /\ j.p \notin changed => \A m \in Rs!Modes : <<j.p, m>> \in nets \cup own =>
              [mode |-> m, kind |-> "own"] \in records[j.p] \cup {j.loc}
<1>1. j.p \in Projects /\ Accounted(j.p) = records[j.p] \cup {j.loc}
  BY OnlyJob
<1>2. Fits(j.p) /\ JobRuns(j)
  BY <1>1 DEF NeedsInv
<1>3. JobFits(j) /\ NetsFit(j.p)
  BY <1>2 DEF Fits
<1>4. QED
  BY <1>1, <1>2, <1>3 DEF NetsFit

LEMMA MovedFits ==
  ASSUME NEW j, NEW k, NEW pc, MovesTo(j, k, pc), JobFits(k)',
         j.p \notin changed' => \A m \in Rs!Modes : <<j.p, m>> \in nets' \cup own' =>
           [mode |-> m, kind |-> "own"] \in records'[j.p] \cup {j.loc}
  PROVE  Fits(j.p)'
<1>1. Accounted(j.p)' = records'[j.p] \cup {j.loc}
  BY DEF MovesTo, Accounted
<1>2. NetsFit(j.p)'
  BY <1>1 DEF NetsFit
<1>3. QED
  BY <1>2 DEF Fits, MovesTo

LEMMA EndedFits ==
  ASSUME NEW p, works' = {}, CalmFits(p)',
         p \notin changed' => \A m \in Rs!Modes : <<p, m>> \in nets' \cup own' =>
           [mode |-> m, kind |-> "own"] \in records'[p]
  PROVE  Fits(p)'
<1>1. Accounted(p)' = records'[p]
  BY DEF Accounted
<1>2. NetsFit(p)'
  BY <1>1 DEF NetsFit
<1>3. QED
  BY <1>2 DEF Fits

LEMMA SocketsFits ==
  ASSUME NeedsInv, NEW j \in works, j.p \notin partial,
         \/ Rs!AlreadyServed(j) \/ Rs!Binds(j) \/ Rs!Registers(j)
  PROVE  Fits(j.p)'
<1>1. JobFits(j) /\ JobRuns(j)
  BY KnownOfJob
<1>2. /\ j.p \in Projects /\ j.loc.kind \in {"own", "shared"} /\ Rs!TypeOK
  BY OnlyJob DEF NeedsInv
<1>3. /\ records' = records /\ nets' = nets /\ own' = own /\ changed' = changed
  BY DEF Rs!AlreadyServed, Rs!Binds, Rs!Registers, Rs!docker
<1>4. j.p \notin changed' => \A m \in Rs!Modes : <<j.p, m>> \in nets' \cup own' =>
        [mode |-> m, kind |-> "own"] \in records'[j.p] \cup {j.loc}
  BY <1>3, KnownOfJob
<1>5. CASE Rs!AlreadyServed(j)
  <2>1. Rs!AfterSockets(j) \in JobSteps
    BY DEF Rs!AfterSockets, JobSteps
  <2>2. PICK k : MovesTo(j, k, Rs!AfterSockets(j))
    BY <1>5, <2>1, Moves DEF Rs!AlreadyServed
  <2>3. HasSockets(j.p)'
    BY <1>1, <1>5 DEF Rs!AlreadyServed, JobFits, HasSockets, Rs!SocketServes, Rs!sockets
  <2>4. j.op # "teardown" /\ records[j.p] = {j.loc}
    BY <1>1, <1>5 DEF Rs!AlreadyServed, JobFits, JobRuns, StepsOf
  <2>5. JobFits(k)'
    BY <1>2, <1>3, <2>2, <2>3, <2>4 DEF MovesTo, JobFits, Rs!AfterSockets
  <2>6. QED
    BY <1>4, <2>2, <2>5, MovedFits
<1>6. CASE Rs!Binds(j)
  <2>1. PICK k : MovesTo(j, k, "registering")
    BY <1>6, Moves DEF Rs!Binds, JobSteps
  <2>2. socket'[j.p] = {j.n} /\ j.n \in live'[j.p]
    BY <1>2, <1>6 DEF Rs!Binds, Rs!TypeOK
  <2>3. j.op # "teardown" /\ records[j.p] = {j.loc}
    BY <1>1, <1>6 DEF Rs!Binds, JobFits, JobRuns, StepsOf
  <2>4. JobFits(k)'
    BY <1>2, <1>3, <2>1, <2>2, <2>3 DEF MovesTo, JobFits
  <2>5. QED
    BY <1>4, <2>1, <2>4, MovedFits
<1>7. CASE Rs!Registers(j)
  <2>1. Rs!AfterSockets(j) \in JobSteps
    BY DEF Rs!AfterSockets, JobSteps
  <2>2. PICK k : MovesTo(j, k, Rs!AfterSockets(j))
    BY <1>7, <2>1, Moves DEF Rs!Registers
  <2>3. proxies'[j.p] = {j.n} /\ socket'[j.p] = {j.n} /\ j.n \in live'[j.p]
    BY <1>1, <1>2, <1>7 DEF Rs!Registers, Rs!TypeOK, JobFits
  <2>4. HasSockets(j.p)'
    BY <2>3 DEF HasSockets, Rs!SocketServes
  <2>5. j.op # "teardown" /\ records[j.p] = {j.loc}
    BY <1>1, <1>7 DEF Rs!Registers, JobFits, JobRuns, StepsOf
  <2>6. JobFits(k)'
    BY <1>2, <1>3, <2>2, <2>4, <2>5 DEF MovesTo, JobFits, Rs!AfterSockets
  <2>7. QED
    BY <1>4, <2>2, <2>6, MovedFits
<1>8. QED
  BY <1>5, <1>6, <1>7

LEMMA StartsFits ==
  ASSUME NeedsInv, NEW j \in works, j.p \notin partial,
         \/ Rs!NetCreated(j) \/ Rs!Joins(j) \/ Rs!Starts(j) \/ Rs!Resaved(j)
  PROVE  Fits(j.p)'
<1>1. JobFits(j) /\ JobRuns(j)
  BY KnownOfJob
<1>2. /\ j.p \in Projects /\ j.loc.kind \in {"own", "shared"} /\ Rs!TypeOK
      /\ j.loc \in Rs!Record /\ j.loc.mode \in Rs!Modes /\ Rs!Net(j) = <<j.p, j.loc.mode>>
      /\ works = {j}
  BY OnlyJob DEF NeedsInv
<1>3. j.pc \in {"netting", "joining", "starting", "saving"}
  BY DEF Rs!NetCreated, Rs!Joins, Rs!Starts, Rs!Resaved
<1>4. j.op # "teardown" /\ records[j.p] = {j.loc} /\ HasSockets(j.p)
  BY <1>1, <1>3 DEF JobFits, JobRuns, StepsOf
<1>5. proxies' = proxies /\ socket' = socket /\ live' = live
  BY DEF Rs!NetCreated, Rs!Joins, Rs!Starts, Rs!Resaved, Rs!sockets
<1>6. HasSockets(j.p)'
  BY <1>4, <1>5 DEF HasSockets, Rs!SocketServes
<1>7. records'[j.p] = {j.loc} /\ changed' = changed
  BY <1>2, <1>4 DEF Rs!NetCreated, Rs!Joins, Rs!Starts, Rs!Resaved, Rs!Saves, Rs!TypeOK
<1>8. j.loc.kind = "own" => [mode |-> j.loc.mode, kind |-> "own"] = j.loc
  BY <1>2 DEF Rs!Record
<1>9. nets' \cup own' \subseteq nets \cup own \cup {Rs!Net(j)}
  BY DEF Rs!NetCreated, Rs!Joins, Rs!Starts, Rs!Resaved, Rs!docker
<1>10. j.pc # "saving" => j.loc.kind = "own"
  BY <1>1, <1>3 DEF JobFits
<1>11. j.pc = "saving" => nets' = nets /\ own' = own
  BY DEF Rs!NetCreated, Rs!Joins, Rs!Starts, Rs!Resaved, Rs!docker
<1>12. ASSUME j.p \notin changed', NEW m \in Rs!Modes, <<j.p, m>> \in nets' \cup own'
       PROVE  [mode |-> m, kind |-> "own"] \in records'[j.p]
  <2>1. CASE <<j.p, m>> \in nets \cup own
    BY <1>4, <1>7, <1>12, <2>1, KnownOfJob
  <2>2. CASE <<j.p, m>> \notin nets \cup own
    <3>1. <<j.p, m>> = Rs!Net(j) /\ j.pc # "saving"
      BY <1>9, <1>11, <1>12, <2>2
    <3>2. m = j.loc.mode
      BY <1>2, <3>1
    <3>3. QED
      BY <1>7, <1>8, <1>10, <3>1, <3>2
  <2>3. QED
    BY <2>1, <2>2
<1>13. CASE Rs!NetCreated(j)
  <2>1. PICK k : MovesTo(j, k, "joining")
    BY <1>13, Moves DEF Rs!NetCreated, JobSteps
  <2>2. Rs!Net(j) \in nets' /\ Rs!Net(k) = Rs!Net(j)
    BY <1>13, <2>1 DEF Rs!NetCreated, MovesTo, Rs!Net
  <2>3. j.loc.kind = "own"
    BY <1>10, <1>13 DEF Rs!NetCreated
  <2>4. JobFits(k)'
    BY <1>4, <1>6, <1>7, <2>1, <2>2, <2>3 DEF MovesTo, JobFits, Rs!Net
  <2>5. QED
    BY <1>12, <2>1, <2>4, MovedFits
<1>14. CASE Rs!Joins(j)
  <2>1. PICK k : MovesTo(j, k, "starting")
    BY <1>14, Moves DEF Rs!Joins, JobSteps
  <2>2. Rs!Net(j) \in nets
    BY <1>1, <1>14 DEF Rs!Joins, JobFits
  <2>3. Rs!Net(j) \in nets' /\ Rs!Net(j) \in joined' /\ Rs!Net(k) = Rs!Net(j)
    BY <1>14, <2>1, <2>2 DEF Rs!Joins, MovesTo, Rs!Net
  <2>4. j.loc.kind = "own"
    BY <1>10, <1>14 DEF Rs!Joins
  <2>5. JobFits(k)'
    BY <1>4, <1>6, <1>7, <2>1, <2>3, <2>4 DEF MovesTo, JobFits, Rs!Net
  <2>6. QED
    BY <1>12, <2>1, <2>5, MovedFits
<1>15. CASE Rs!Starts(j)
  <2>1. Rs!Net(j) \in joined
    BY <1>1, <1>15 DEF Rs!Starts, JobFits
  <2>2. /\ routed'[j.p] = {j.loc.mode} /\ own' = own \cup {Rs!Net(j)} /\ joined' = joined
        /\ Rs!Ends(j) \/ Rs!GoesTo(j, "saving")
    BY <1>2, <1>15 DEF Rs!Starts, Rs!TypeOK
  <2>3. Rs!Reached(j.p)'
    BY <1>2, <2>1, <2>2 DEF Rs!Reached
  <2>4. CASE Rs!Ends(j)
    <3>1. works' = {}
      BY <1>2, <2>4 DEF Rs!Ends
    <3>2. CalmFits(j.p)'
      BY <1>6, <1>7, <2>3 DEF CalmFits
    <3>3. QED
      BY <1>12, <3>1, <3>2, EndedFits
  <2>5. CASE Rs!GoesTo(j, "saving")
    <3>1. PICK k : MovesTo(j, k, "saving")
      BY <2>5, Moves DEF JobSteps
    <3>2. JobFits(k)'
      BY <1>4, <1>6, <1>7, <2>3, <3>1 DEF MovesTo, JobFits
    <3>3. QED
      BY <1>12, <3>1, <3>2, MovedFits
  <2>6. QED
    BY <2>2, <2>4, <2>5
<1>16. CASE Rs!Resaved(j)
  <2>1. /\ works' = {} /\ own' = own /\ joined' = joined /\ routed' = routed
    BY <1>2, <1>16 DEF Rs!Resaved, Rs!Ends, Rs!docker
  <2>2. j.loc.kind = "own" => Rs!Reached(j.p)'
    BY <1>1, <1>16, <2>1 DEF Rs!Resaved, JobFits, Rs!Reached
  <2>3. CalmFits(j.p)'
    BY <1>6, <1>7, <2>2 DEF CalmFits, Rs!OwnRecord
  <2>4. QED
    BY <1>12, <2>1, <2>3, EndedFits
<1>17. QED
  BY <1>13, <1>14, <1>15, <1>16

LEMMA StopsFits ==
  ASSUME NeedsInv, NEW j \in works, j.p \notin partial,
         Rs!Replaces(j) \/ Rs!Deletes(j) \/ Rs!Stops(j)
  PROVE  Fits(j.p)'
<1>0. j.op \in {"deploy", "promote", "teardown", "recover"}
  BY OnlyJob DEF Rs!Job
<1>1. JobFits(j) /\ JobRuns(j)
  BY KnownOfJob
<1>2. /\ j.p \in Projects /\ j.loc.kind \in {"own", "shared"} /\ Rs!TypeOK
      /\ j.loc \in Rs!Record /\ j.loc.mode \in Rs!Modes
  BY OnlyJob DEF NeedsInv
<1>3. /\ proxies' = proxies /\ socket' = socket /\ live' = live /\ changed' = changed
      /\ j.pc \in {"replacing", "deleting", "stopping"} /\ nets' = nets
  BY DEF Rs!Replaces, Rs!Deletes, Rs!Stops, Rs!sockets, Rs!docker
<1>4. HasSockets(j.p)'
  BY <1>1, <1>3 DEF JobFits, HasSockets, Rs!SocketServes
<1>5. own' \subseteq own
  BY DEF Rs!Replaces, Rs!Deletes, Rs!Stops, Rs!Halts, Rs!docker
<1>6. /\ j.pc = "deleting" => records[j.p] = {j.loc}
      /\ j.pc = "stopping" => records[j.p] = {}
      /\ j.pc = "replacing" => records[j.p] = {j.loc} /\ j.loc.kind = "own"
  BY <1>0, <1>1 DEF JobFits, JobRuns, StepsOf
<1>7. records[j.p] \subseteq {j.loc}
  BY <1>3, <1>6
<1>8. j.p \notin changed' => \A m \in Rs!Modes : <<j.p, m>> \in nets' \cup own' =>
        [mode |-> m, kind |-> "own"] = j.loc
  BY <1>3, <1>5, <1>7, KnownOfJob
<1>9. CASE Rs!Replaces(j)
  <2>1. PICK k : MovesTo(j, k, "netting")
    BY <1>9, Moves DEF Rs!Replaces, JobSteps
  <2>2. records' = records /\ j.op # "teardown"
    BY <1>1, <1>9 DEF Rs!Replaces, JobRuns, StepsOf
  <2>3. JobFits(k)'
    BY <1>4, <1>6, <1>9, <2>1, <2>2 DEF Rs!Replaces, MovesTo, JobFits
  <2>4. QED
    BY <1>8, <2>1, <2>3, MovedFits
<1>10. CASE Rs!Deletes(j)
  <2>1. records' = [records EXCEPT ![j.p] = {}] /\ j.op = "teardown" /\ own' = own
    BY <1>0, <1>1, <1>10 DEF Rs!Deletes, JobRuns, StepsOf, Rs!docker
  <2>2. records'[j.p] = {}
    BY <1>2, <2>1 DEF Rs!TypeOK
  <2>3. CASE j.loc.kind = "own"
    <3>1. PICK k : MovesTo(j, k, "stopping")
      BY <1>10, <2>3, Moves DEF Rs!Deletes, JobSteps
    <3>2. JobFits(k)'
      BY <1>4, <2>1, <2>2, <3>1 DEF MovesTo, JobFits
    <3>3. QED
      BY <1>8, <3>1, <3>2, MovedFits
  <2>4. CASE j.loc.kind # "own"
    <3>1. PICK k : MovesTo(j, k, "closing")
      BY <1>10, <2>4, Moves DEF Rs!Deletes, JobSteps
    <3>2. \A m : [mode |-> m, kind |-> "own"] # j.loc
      BY <2>4
    <3>3. j.p \notin changed' => \A m \in Rs!Modes : <<j.p, m>> \notin own'
      BY <1>8, <3>2
    <3>4. JobFits(k)'
      BY <1>4, <2>1, <2>2, <3>1, <3>3 DEF MovesTo, JobFits
    <3>5. QED
      BY <1>8, <3>1, <3>4, MovedFits
  <2>5. QED
    BY <2>3, <2>4
<1>11. CASE Rs!Stops(j)
  <2>1. PICK k : MovesTo(j, k, "closing")
    BY <1>11, Moves DEF Rs!Stops, JobSteps
  <2>2. /\ records' = records /\ j.op = "teardown" /\ records[j.p] = {}
        /\ own' = own \ ({j.p} \X Rs!Modes)
    BY <1>0, <1>1, <1>6, <1>11 DEF Rs!Stops, Rs!Halts, JobRuns, StepsOf
  <2>3. \A m \in Rs!Modes : <<j.p, m>> \notin own'
    BY <2>2
  <2>4. JobFits(k)'
    BY <1>4, <2>1, <2>2, <2>3 DEF MovesTo, JobFits
  <2>5. QED
    BY <1>8, <2>1, <2>4, MovedFits
<1>12. QED
  BY <1>9, <1>10, <1>11

LEMMA RemovesFits ==
  ASSUME NeedsInv, NEW j \in works, j.p \notin partial,
         Rs!Closes(j) \/ Rs!Unlinks(j) \/ Rs!Leaves(j) \/ Rs!RemovesNet(j)
  PROVE  Fits(j.p)'
<1>0. j.op \in {"deploy", "promote", "teardown", "recover"}
  BY OnlyJob DEF Rs!Job
<1>1. JobFits(j) /\ JobRuns(j)
  BY KnownOfJob
<1>2. /\ j.p \in Projects /\ Rs!TypeOK /\ works = {j}
      /\ j.loc.mode \in Rs!Modes /\ Rs!Net(j) = <<j.p, j.loc.mode>>
  BY OnlyJob DEF NeedsInv
<1>3. /\ records' = records /\ changed' = changed /\ own' = own /\ nets' \subseteq nets
      /\ j.pc \in {"closing", "unlinking", "leaving", "removing"}
  BY DEF Rs!Closes, Rs!Unlinks, Rs!Leaves, Rs!RemovesNet, Rs!docker
<1>4. records[j.p] = {} /\ j.op = "teardown"
  BY <1>0, <1>1, <1>3 DEF JobFits, JobRuns, StepsOf
<1>5. j.p \notin changed => \A m \in Rs!Modes : <<j.p, m>> \notin own
  BY <1>1, <1>3 DEF JobFits
<1>6. j.p \notin changed' => \A m \in Rs!Modes : <<j.p, m>> \in nets' \cup own' =>
        [mode |-> m, kind |-> "own"] = j.loc
  BY <1>3, <1>4, KnownOfJob
<1>7. CASE Rs!Closes(j)
  <2>1. HasSockets(j.p)
    BY <1>1, <1>7 DEF Rs!Closes, JobFits
  <2>2. PICK k : MovesTo(j, k, "unlinking")
    BY <1>7, <2>1, Moves DEF Rs!Closes, HasSockets, JobSteps
  <2>3. proxies'[j.p] = {}
    BY <1>2, <1>7 DEF Rs!Closes, Rs!TypeOK
  <2>4. JobFits(k)'
    BY <1>3, <1>4, <1>5, <2>2, <2>3 DEF MovesTo, JobFits
  <2>5. QED
    BY <1>6, <2>2, <2>4, MovedFits
<1>8. CASE Rs!Unlinks(j)
  <2>1. PICK k : MovesTo(j, k, "leaving")
    BY <1>8, Moves DEF Rs!Unlinks, JobSteps
  <2>2. proxies'[j.p] = {} /\ socket'[j.p] = {}
    BY <1>1, <1>2, <1>8 DEF Rs!Unlinks, Rs!TypeOK, JobFits
  <2>3. JobFits(k)'
    BY <1>3, <1>4, <1>5, <2>1, <2>2 DEF MovesTo, JobFits
  <2>4. QED
    BY <1>6, <2>1, <2>3, MovedFits
<1>9. CASE Rs!Leaves(j)
  <2>1. PICK k : MovesTo(j, k, "removing")
    BY <1>9, Moves DEF Rs!Leaves, JobSteps
  <2>2. proxies'[j.p] = {} /\ socket'[j.p] = {}
    BY <1>1, <1>9 DEF Rs!Leaves, Rs!sockets, JobFits
  <2>3. Rs!Net(k) = Rs!Net(j) /\ Rs!Net(j) \notin joined'
    BY <1>9, <2>1 DEF Rs!Leaves, MovesTo, Rs!Net
  <2>4. JobFits(k)'
    BY <1>3, <1>4, <1>5, <2>1, <2>2, <2>3 DEF MovesTo, JobFits, Rs!Net
  <2>5. QED
    BY <1>6, <2>1, <2>4, MovedFits
<1>10. CASE Rs!RemovesNet(j)
  <2>1. works' = {} /\ nets' = nets \ ({Rs!Net(j)} \ (own \cup joined))
    BY <1>2, <1>10 DEF Rs!RemovesNet, Rs!Ends
  <2>2. proxies[j.p] = {} /\ socket[j.p] = {} /\ Rs!Net(j) \notin joined
    BY <1>1, <1>10 DEF Rs!RemovesNet, JobFits
  <2>3. proxies'[j.p] = {} /\ socket'[j.p] = {}
    BY <1>10, <2>2 DEF Rs!RemovesNet, Rs!sockets
  <2>4. CalmFits(j.p)'
    BY <1>3, <1>4, <2>3 DEF CalmFits, Rs!OwnRecord
  <2>5. ASSUME j.p \notin changed', NEW m \in Rs!Modes, <<j.p, m>> \in nets' \cup own'
        PROVE  [mode |-> m, kind |-> "own"] \in records'[j.p]
    <3>1. [mode |-> m, kind |-> "own"] = j.loc
      BY <1>6, <2>5
    <3>2. m = j.loc.mode
      BY <3>1
    <3>3. Rs!Net(j) \in nets' \cup own'
      BY <1>2, <2>5, <3>2
    <3>4. Rs!Net(j) \notin own
      BY <1>2, <1>3, <1>5, <2>5
    <3>5. QED
      BY <1>3, <2>1, <2>2, <3>3, <3>4
  <2>6. QED
    BY <2>1, <2>4, <2>5, EndedFits
<1>11. QED
  BY <1>7, <1>8, <1>9, <1>10

LEMMA NeedsInvStep ==
  ASSUME NeedsInv, NEW j \in works, Rs!Step(j)
  PROVE  NeedsInv'
<1>1. /\ Rs!TypeOK' /\ requests' = requests /\ waits' = waits /\ running' = running
      /\ works' = {} \/ \E k, pc : MovesTo(j, k, pc)
  BY StepTypes
<1>2. works' = {} \/ \E k \in Rs!Job : works' = {k} /\ k.id = j.id
  BY <1>1 DEF MovesTo
<1>3. \A o \in Projects \ {j.p} : SameFor(o)
  BY StepOthers
<1>4. /\ \A p \in Projects : \A r, x \in records'[p] : r = x
      /\ \A q \in waits : q[2] \in records'[q[1]]
  BY StepRecords
<1>5. /\ j.p \in Projects /\ works = {j} /\ Rs!TypeOK /\ JobRuns(j)
      /\ proxies[j.p] \subseteq live[j.p]
  BY OnlyJob DEF NeedsInv
<1>6. Fits(j.p)'
  <2>1. CASE j.p \in partial'
    BY <2>1 DEF Fits
  <2>2. CASE j.p \notin partial'
    <3>1. ~Rs!PoolIsEmpty(j) /\ ~Rs!NoNetwork(j)
      BY <2>2 DEF Rs!PoolIsEmpty, Rs!NoNetwork, Rs!Raises
    <3>2. j.p \notin partial
      BY <2>2, <3>1 DEF Rs!Step, Rs!AlreadyServed, Rs!Binds, Rs!Registers, Rs!Closes, Rs!Unlinks,
           Rs!NetCreated, Rs!Joins, Rs!Starts, Rs!Resaved, Rs!Replaces, Rs!Deletes, Rs!Stops,
           Rs!Leaves, Rs!RemovesNet
    <3>3. QED
      BY <3>1, <3>2, SocketsFits, StartsFits, StopsFits, RemovesFits DEF Rs!Step
  <2>3. QED
    BY <2>1, <2>2
<1>7. proxies'[j.p] \subseteq live'[j.p]
  <2>1. CASE Rs!Binds(j)
    BY <1>5, <2>1 DEF Rs!Binds, Rs!TypeOK
  <2>2. CASE Rs!Registers(j)
    BY <1>5, <2>2 DEF Rs!Registers, Rs!TypeOK, JobRuns
  <2>3. CASE Rs!Closes(j)
    BY <1>5, <2>3 DEF Rs!Closes, Rs!TypeOK
  <2>4. CASE ~Rs!Binds(j) /\ ~Rs!Registers(j) /\ ~Rs!Closes(j)
    <3>1. proxies' = proxies /\ live' = live
      BY <2>4 DEF Rs!Step, Rs!AlreadyServed, Rs!Unlinks, Rs!NetCreated, Rs!PoolIsEmpty, Rs!Joins,
           Rs!Starts, Rs!NoNetwork, Rs!Resaved, Rs!Replaces, Rs!Deletes, Rs!Stops, Rs!Leaves,
           Rs!RemovesNet, Rs!sockets
    <3>2. QED
      BY <1>5, <3>1
  <2>5. QED
    BY <2>1, <2>2, <2>3, <2>4
<1>8. ASSUME NEW k \in works'
      PROVE  JobRuns(k)'
  <2>1. k.p = j.p /\ k.n = j.n /\ k.op = j.op /\ k.id = j.id
    BY <1>1 DEF MovesTo
  <2>2. ASSUME NEW pc \in JobSteps \cap StepsOf(j.op), Rs!GoesTo(j, pc),
               pc = "registering" => j.n \in live'[j.p]
        PROVE  JobRuns(k)'
    <3>1. k.pc = pc
      BY <2>2, Moves DEF MovesTo
    <3>2. QED
      BY <1>5, <2>1, <2>2, <3>1 DEF JobRuns
  <2>3. CASE Rs!Binds(j)
    <3>1. j.n \in live'[j.p] /\ "registering" \in JobSteps \cap StepsOf(j.op)
      BY <1>5, <2>3 DEF Rs!Binds, Rs!TypeOK, JobRuns, StepsOf, JobSteps
    <3>2. QED
      BY <2>2, <2>3, <3>1 DEF Rs!Binds
  <2>4. CASE ~Rs!Binds(j)
    <3>1. \/ Rs!Ends(j)
          \/ \E pc \in (JobSteps \cap StepsOf(j.op)) \ {"registering"} : Rs!GoesTo(j, pc)
      <4>1. j.pc \in StepsOf(j.op)
        BY <1>5 DEF JobRuns
      <4>2. CASE Rs!AlreadyServed(j) \/ Rs!Registers(j)
        <5>1. Rs!AfterSockets(j) \in (JobSteps \cap StepsOf(j.op)) \ {"registering"}
          BY <4>1, <4>2 DEF Rs!AlreadyServed, Rs!Registers, Rs!AfterSockets, JobSteps, StepsOf
        <5>2. QED
          BY <4>2, <5>1 DEF Rs!AlreadyServed, Rs!Registers
      <4>3. CASE \/ Rs!Closes(j) \/ Rs!Unlinks(j) \/ Rs!Deletes(j) \/ Rs!Stops(j) \/ Rs!Leaves(j)
                 \/ Rs!RemovesNet(j)
        <5>1. StepsOf(j.op) = {"deleting", "stopping", "closing", "unlinking", "leaving", "removing"}
          BY <4>1, <4>3 DEF Rs!Closes, Rs!Unlinks, Rs!Deletes, Rs!Stops, Rs!Leaves, Rs!RemovesNet,
                            StepsOf
        <5>2. QED
          BY <4>3, <5>1 DEF Rs!Closes, Rs!Unlinks, Rs!Deletes, Rs!Stops, Rs!Leaves, Rs!RemovesNet,
                            JobSteps
      <4>4. CASE Rs!NetCreated(j) \/ Rs!Joins(j) \/ Rs!Replaces(j)
        <5>1. {"netting", "joining", "starting"} \subseteq StepsOf(j.op)
          BY <4>1, <4>4 DEF Rs!NetCreated, Rs!Joins, Rs!Replaces, StepsOf
        <5>2. QED
          BY <4>4, <5>1 DEF Rs!NetCreated, Rs!Joins, Rs!Replaces, JobSteps
      <4>5. CASE Rs!Starts(j)
        <5>1. j.op = "deploy" => "saving" \in StepsOf(j.op)
          BY DEF StepsOf
        <5>2. QED
          BY <4>5, <5>1 DEF Rs!Starts, JobSteps
      <4>6. CASE Rs!PoolIsEmpty(j) \/ Rs!NoNetwork(j) \/ Rs!Resaved(j)
        BY <4>6 DEF Rs!PoolIsEmpty, Rs!NoNetwork, Rs!Resaved, Rs!Raises
      <4>7. QED
        BY <2>4, <4>2, <4>3, <4>4, <4>5, <4>6 DEF Rs!Step
    <3>2. CASE Rs!Ends(j)
      BY <1>5, <3>2 DEF Rs!Ends
    <3>3. QED
      BY <2>2, <3>1, <3>2
  <2>5. QED
    BY <2>3, <2>4
<1>9. QED
  BY <1>1, <1>2, <1>3, <1>4, <1>6, <1>7, <1>8, StepKeeps

\* The calls, which wait for the work in progress.
LEMMA NeedsInvCalls ==
  ASSUME NeedsInv, NEW s \in Callers, NEW p \in Projects, Rs!Calls(s, p)
  PROVE  NeedsInv'
<1>1. /\ running /\ works = {} /\ waits = {} /\ requests < SerialRequests
      /\ requests' = requests + 1 /\ running' = running /\ waits' = waits /\ torn' = torn
      /\ nets' = nets /\ joined' = joined /\ own' = own /\ routed' = routed
      /\ proxies' = proxies /\ socket' = socket /\ live' = live
      /\ partial' = partial /\ faults' = faults
  BY DEF Rs!Calls, Rs!Deploy, Rs!Promote, Rs!Unpromote, Rs!Teardown, Rs!Accepts, Rs!docker,
         Rs!sockets
<1>2. /\ Rs!TypeOK /\ Fits(p) /\ proxies[p] \subseteq live[p]
      /\ \A r, x \in records[p] : r = x
      /\ \A r \in records[p] : r \in Rs!Record
  BY DEF NeedsInv, RecordsFit, Rs!TypeOK
<1>3. ASSUME p \notin partial
      PROVE  /\ CalmFits(p)
             /\ p \notin changed => \A m \in Rs!Modes : <<p, m>> \in nets \cup own =>
                  [mode |-> m, kind |-> "own"] \in records[p]
  <2>1. Accounted(p) = records[p]
    BY <1>1 DEF Accounted
  <2>2. QED
    BY <1>1, <1>2, <1>3, <2>1 DEF Fits, NetsFit
<1>4. requests' \in Rs!Servers /\ requests' \in Nat /\ requests' <= SerialRequests
  BY <1>1, <1>2, ResourcesAssumption DEF Rs!TypeOK, Rs!Servers, Rs!ConstantsAssumption
<1>5. "boot" # s
  BY ResourcesAssumption DEF Rs!ConstantsAssumption
<1>6. HasSockets(p)' = HasSockets(p) /\ Rs!Reached(p)' = Rs!Reached(p)
  BY <1>1 DEF HasSockets, Rs!SocketServes, Rs!Reached
<1>7. ASSUME NEW r \in Rs!Record, NEW op \in {"deploy", "promote", "teardown"},
             NEW pc \in {"binding", "replacing", "deleting"}
      PROVE  \E k \in Rs!Job : /\ k = Rs!NewJob(s, requests', p, op, pc, r)
                               /\ k.id = s /\ k.n = requests' /\ k.p = p /\ k.op = op /\ k.pc = pc
                               /\ k.loc = r
  <2> DEFINE k == Rs!NewJob(s, requests', p, op, pc, r)
  <2>1. k \in Rs!Job /\ k.id = s /\ k.n = requests' /\ k.p = p /\ k.op = op /\ k.pc = pc /\ k.loc = r
    BY <1>4 DEF Rs!NewJob, Rs!Job
  <2>2. QED
    BY <2>1
\* What is left to show of each call.
<1>8. ASSUME NEW R \in SUBSET Rs!Record, records' = [records EXCEPT ![p] = R],
             \A r, x \in R : r = x, changed' \subseteq Projects,
             \A o \in Projects \ {p} : o \in changed' <=> o \in changed,
             Fits(p)',
             \/ works' = {}
             \/ \E k \in Rs!Job : /\ works' = {k} /\ k.p = p /\ k.id = s /\ JobRuns(k)'
      PROVE  NeedsInv'
  <2>1. works' \subseteq Rs!Job /\ \A k \in works' : k.p = p /\ k.id = s /\ JobRuns(k)'
    BY <1>8
  <2>2. records' \in [Projects -> SUBSET Rs!Record]
    BY <1>2, <1>8 DEF Rs!TypeOK
  <2>3. Rs!TypeOK'
    BY <1>1, <1>2, <1>4, <1>8, <2>1, <2>2 DEF Rs!TypeOK
  <2>4. \A o \in Projects \ {p} : SameFor(o)
    BY <1>1, <1>2, <1>8, <2>1 DEF SameFor, Rs!TypeOK
  <2>5. \A o \in Projects : Fits(o)' /\ proxies'[o] \subseteq live'[o]
    <3>1. ASSUME NEW o \in Projects \ {p}
          PROVE  Fits(o)'
      BY <2>4, OthersFit DEF NeedsInv
    <3>2. QED
      BY <1>1, <1>8, <3>1 DEF NeedsInv
  <2>6. OneJob'
    BY <1>1, <1>8 DEF OneJob
  <2>7. RecordsFit'
    BY <1>1, <1>2, <1>8 DEF NeedsInv, RecordsFit, Rs!TypeOK
  <2>8. QED
    BY <1>4, <2>1, <2>3, <2>5, <2>6, <2>7 DEF NeedsInv
<1>9. ASSUME NEW r \in Rs!Record, Rs!Saves(p, r)
      PROVE  /\ records' = [records EXCEPT ![p] = {r}] /\ records'[p] = {r}
             /\ changed' \subseteq Projects
             /\ \A o \in Projects \ {p} : o \in changed' <=> o \in changed
             /\ p \notin changed' => p \notin changed /\ records[p] \in {{}, {r}}
  BY <1>2, <1>9 DEF Rs!Saves, Rs!TypeOK
<1>10. ASSUME NEW r \in Rs!Record, Rs!Deploy(s, p, r)
       PROVE  NeedsInv'
  <2>2. PICK k \in Rs!Job : /\ k = Rs!NewJob(s, requests', p, "deploy", "binding", r)
                           /\ k.id = s /\ k.n = requests' /\ k.p = p /\ k.op = "deploy"
                           /\ k.pc = "binding" /\ k.loc = r
    BY <1>7
  <2>1. works' = {k} /\ Rs!Saves(p, r)
    BY <1>1, <1>10, <2>2 DEF Rs!Deploy
  <2>3. JobRuns(k)'
    BY <1>5, <2>2 DEF JobRuns, StepsOf
  <2>4. ASSUME p \notin partial'
        PROVE  JobFits(k)'
    <3>1. proxies[p] # {} => HasSockets(p)
      BY <1>1, <1>3, <2>4 DEF CalmFits
    <3>2. QED
      BY <1>1, <1>6, <1>9, <2>1, <2>2, <3>1 DEF JobFits
  <2>5. ASSUME p \notin partial'
        PROVE  NetsFit(p)'
    <3>1. Accounted(p)' = {r}
      BY <1>9, <2>1, <2>2 DEF Accounted
    <3>2. QED
      BY <1>1, <1>3, <1>9, <2>1, <2>5, <3>1 DEF NetsFit
  <2>6. Fits(p)'
    BY <2>1, <2>2, <2>4, <2>5 DEF Fits
  <2>7. {r} \in SUBSET Rs!Record /\ \A y, x \in {r} : y = x
    OBVIOUS
  <2>8. works' = {k} /\ k.p = p /\ k.id = s
    BY <2>1, <2>2
  <2>9. QED
    BY <1>8, <1>9, <2>1, <2>3, <2>6, <2>7, <2>8
<1>11. ASSUME Rs!Promote(s, p)
       PROVE  NeedsInv'
  <2>1. PICK r \in records[p] :
          /\ r.mode = "dev" /\ Rs!Saves(p, [r EXCEPT !.mode = "attested"])
          /\ works' = works \cup
               (IF r.kind = "own"
                  THEN {Rs!NewJob(s, requests', p, "promote", "replacing",
                                  [r EXCEPT !.mode = "attested"])}
                  ELSE {})
    BY <1>11 DEF Rs!Promote
  <2> DEFINE a == [r EXCEPT !.mode = "attested"]
  <2>2. a \in Rs!Record /\ a.kind = r.kind /\ a # r
    <3>1. r \in Rs!Record
      BY <1>2
    <3>2. QED
      BY <2>1, <3>1 DEF Rs!Record, Rs!Modes
  <2>3. PICK k \in Rs!Job : /\ k = Rs!NewJob(s, requests', p, "promote", "replacing", a)
                           /\ k.id = s /\ k.n = requests' /\ k.p = p /\ k.op = "promote"
                           /\ k.pc = "replacing" /\ k.loc = a
    BY <1>7, <2>2
  <2>4. Rs!Saves(p, a) /\ works' = IF r.kind = "own" THEN {k} ELSE {}
    BY <1>1, <2>1, <2>3
  <2> HIDE DEF a
  <2>5. p \in changed'
    BY <1>9, <2>2, <2>4
  <2>6. p \notin partial' => HasSockets(p)'
    BY <1>1, <1>3, <1>6 DEF CalmFits
  <2>7. CASE r.kind = "own"
    <3>1. JobRuns(k)'
      BY <1>5, <2>3 DEF JobRuns, StepsOf
    <3>2. p \notin partial' => JobFits(k)'
      BY <1>9, <2>2, <2>3, <2>4, <2>6, <2>7 DEF JobFits
    <3>3. Fits(p)'
      BY <2>3, <2>4, <2>5, <2>7, <3>2 DEF Fits, NetsFit
    <3>4. QED
      BY <1>8, <1>9, <2>2, <2>3, <2>4, <2>7, <3>1, <3>3
  <2>8. CASE r.kind # "own"
    <3>1. p \notin partial' => CalmFits(p)'
      BY <1>9, <2>2, <2>4, <2>6, <2>8 DEF CalmFits, Rs!OwnRecord
    <3>2. Fits(p)'
      BY <2>4, <2>5, <2>8, <3>1 DEF Fits, NetsFit
    <3>3. QED
      BY <1>8, <1>9, <2>2, <2>4, <2>8, <3>2
  <2>9. QED
    BY <2>7, <2>8
<1>12. ASSUME Rs!Unpromote(s, p)
       PROVE  NeedsInv'
  <2>1. PICK r \in records[p] :
          r.mode = "attested" /\ Rs!Saves(p, [r EXCEPT !.mode = "dev"]) /\ works' = works
    BY <1>12 DEF Rs!Unpromote
  <2> DEFINE a == [r EXCEPT !.mode = "dev"]
  <2>2. a \in Rs!Record /\ a.kind = r.kind /\ a # r
    <3>1. r \in Rs!Record
      BY <1>2
    <3>2. QED
      BY <2>1, <3>1 DEF Rs!Record, Rs!Modes
  <2>3. Rs!Saves(p, a) /\ works' = {}
    BY <1>1, <2>1
  <2> HIDE DEF a
  <2>4. p \in changed'
    BY <1>9, <2>2, <2>3
  <2>5. ASSUME p \notin partial'
        PROVE  CalmFits(p)'
    <3>1. HasSockets(p)'
      BY <1>1, <1>3, <1>6, <2>5 DEF CalmFits
    <3>2. r.kind = "own" => Rs!Reached(p)'
      BY <1>1, <1>3, <1>6, <2>5 DEF CalmFits, Rs!OwnRecord
    <3>3. QED
      BY <1>9, <2>2, <2>3, <3>1, <3>2 DEF CalmFits, Rs!OwnRecord
  <2>6. Fits(p)'
    BY <2>3, <2>4, <2>5 DEF Fits, NetsFit
  <2>7. QED
    BY <1>8, <1>9, <2>2, <2>3, <2>6
<1>13. ASSUME Rs!Teardown(s, p)
       PROVE  NeedsInv'
  <2>1. PICK r \in records[p] :
          works' = works \cup {Rs!NewJob(s, requests', p, "teardown", "deleting", r)}
    BY <1>13 DEF Rs!Teardown
  <2>3. PICK k \in Rs!Job : /\ k = Rs!NewJob(s, requests', p, "teardown", "deleting", r)
                           /\ k.id = s /\ k.n = requests' /\ k.p = p /\ k.op = "teardown"
                           /\ k.pc = "deleting" /\ k.loc = r
    BY <1>2, <1>7
  <2>2. works' = {k} /\ records' = records /\ changed' = changed
    BY <1>1, <1>13, <2>1, <2>3 DEF Rs!Teardown
  <2>4. records[p] = {r}
    BY <1>2
  <2>5. JobRuns(k)'
    BY <1>5, <2>3 DEF JobRuns, StepsOf
  <2>6. ASSUME p \notin partial'
        PROVE  JobFits(k)' /\ NetsFit(p)'
    <3>1. HasSockets(p)'
      BY <1>1, <1>3, <1>6, <2>4, <2>6 DEF CalmFits
    <3>2. JobFits(k)'
      BY <2>2, <2>3, <2>4, <3>1 DEF JobFits
    <3>3. Accounted(p)' = {r}
      BY <2>2, <2>3, <2>4 DEF Accounted
    <3>4. QED
      BY <1>1, <1>3, <2>2, <2>4, <2>6, <3>2, <3>3 DEF NetsFit
  <2>7. Fits(p)'
    BY <2>2, <2>3, <2>6 DEF Fits
  <2>8. records' = [records EXCEPT ![p] = records[p]] /\ changed' \subseteq Projects
    BY <1>2, <2>2 DEF Rs!TypeOK
  <2>9. records[p] \in SUBSET Rs!Record
    BY <1>2
  <2>10. QED
    BY <1>2, <1>8, <2>2, <2>3, <2>5, <2>7, <2>8, <2>9
<1>14. QED
  BY <1>10, <1>11, <1>12, <1>13 DEF Rs!Calls

\* What fails is done no further, and nothing is claimed of its project then.
LEMMA NeedsInvFails ==
  ASSUME NeedsInv, NEW j \in works, Rs!Fails(j)
  PROVE  NeedsInv'
<1>1. /\ works = {j} /\ j.p \in Projects /\ running /\ Rs!TypeOK
      /\ proxies[j.p] \subseteq live[j.p]
      /\ \A p \in Projects : \A r, x \in records[p] : r = x
      /\ \A q \in waits : q[2] \in records[q[1]]
  BY OnlyJob DEF NeedsInv, RecordsFit
<1>2. /\ works' = {} /\ partial' = partial \cup {j.p} /\ faults' = faults + 1
      /\ records' = records /\ nets' = nets /\ joined' = joined /\ own' = own
      /\ routed' = routed /\ proxies' = proxies /\ socket' = socket /\ live' = live
      /\ running' = running /\ waits' = waits /\ changed' = changed /\ requests' = requests
      /\ torn' = torn
  BY <1>1 DEF Rs!Fails, Rs!Raises, Rs!Ends, Rs!docker, Rs!sockets
<1>3. Rs!TypeOK'
  BY <1>1, <1>2 DEF Rs!TypeOK
<1>4. \A o \in Projects \ {j.p} : SameFor(o)
  BY <1>1, <1>2 DEF SameFor
<1>5. Fits(j.p)'
  BY <1>2 DEF Fits
<1>6. QED
  BY <1>1, <1>2, <1>3, <1>4, <1>5, StepKeeps

\* The end of the process, also in the middle of the saves of the projects in S.
LEMMA NeedsInvDies ==
  ASSUME NeedsInv, NEW again \in BOOLEAN, Rs!Dies(again), NEW S \in SUBSET Projects,
         records' = [p \in Projects |-> IF p \in S THEN {} ELSE records[p]],
         torn' \subseteq Projects, partial' = partial \cup S \cup Rs!CutShort
  PROVE  NeedsInv'
<1> DEFINE lost == S \cup Rs!CutShort
<1>1. /\ works' = {} /\ waits' = {} /\ running' = FALSE /\ faults' = faults + 1
      /\ joined' \subseteq joined /\ partial' = partial \cup lost
      /\ routed' = [p \in Projects |-> {}] /\ proxies' = [p \in Projects |-> {}]
      /\ live' = [p \in Projects |-> {}]
      /\ nets' = nets /\ own' = own /\ socket' = socket
      /\ changed' = changed /\ requests' = requests
  BY DEF Rs!Dies
<1>2. Rs!TypeOK /\ lost \subseteq Projects
  BY DEF NeedsInv, Rs!TypeOK, Rs!Job, Rs!CutShort
<1>3. /\ running' \in BOOLEAN /\ partial' \subseteq Projects
      /\ records' \in [Projects -> SUBSET Rs!Record]
  BY <1>1, <1>2 DEF Rs!TypeOK
<1>4. Rs!TypeOK'
  BY <1>1, <1>2, <1>3 DEF Rs!TypeOK
<1>5. ASSUME NEW p \in Projects
      PROVE  Fits(p)'
  <2>1. CASE p \in partial'
    BY <2>1 DEF Fits
  <2>2. CASE p \notin partial'
    <3>1. /\ p \notin partial /\ records'[p] = records[p]
          /\ \A j \in works : j.p = p => j.op = "recover"
      BY <1>1, <2>2 DEF Rs!CutShort
    <3>2. NetsFit(p) /\ \A j \in works : j.p = p => JobFits(j)
      BY <3>1 DEF NeedsInv, Fits
    <3>3. \A j \in works : j.p = p => records[p] = {j.loc}
      BY <3>1, <3>2 DEF JobFits
    <3>4. Accounted(p) \subseteq records[p] /\ Accounted(p)' = records[p]
      BY <1>1, <3>1, <3>3 DEF Accounted
    <3>5. NetsFit(p)'
      BY <1>1, <3>2, <3>4 DEF NetsFit
    <3>6. QED
      BY <1>1, <3>5 DEF Fits
  <2>3. QED
    BY <2>1, <2>2
<1>6. OneJob' /\ RecordsFit'
  BY <1>1 DEF NeedsInv, OneJob, RecordsFit
<1>7. QED
  BY <1>1, <1>4, <1>5, <1>6 DEF NeedsInv

LEMMA NeedsInvCrash ==
  ASSUME NeedsInv, NEW again \in BOOLEAN, Rs!Crash(again)
  PROVE  NeedsInv'
<1>1. /\ records' = [p \in Projects |-> IF p \in {} THEN {} ELSE records[p]]
      /\ torn' \subseteq Projects /\ partial' = partial \cup {} \cup Rs!CutShort
  BY DEF Rs!Crash, NeedsInv, Rs!TypeOK
<1>2. QED
  BY <1>1, NeedsInvDies DEF Rs!Crash

LEMMA NeedsInvTorn ==
  ASSUME NeedsInv, NEW again \in BOOLEAN, NEW q \in Projects, Rs!TornSave(q, again)
  PROVE  NeedsInv'
<1>1. /\ records' = [p \in Projects |-> IF p \in {q} THEN {} ELSE records[p]]
      /\ torn' \subseteq Projects /\ partial' = partial \cup {q} \cup Rs!CutShort
  BY DEF Rs!TornSave, NeedsInv, Rs!TypeOK
<1>2. QED
  BY <1>1, NeedsInvDies DEF Rs!TornSave

\* A boot that fails has only reclaimed networks.
LEMMA NeedsInvBootFails ==
  ASSUME NeedsInv, Rs!BootFails
  PROVE  NeedsInv'
<1>1. /\ works = {} /\ works' = works /\ waits' = waits /\ ~running /\ running' = running
      /\ nets' \subseteq nets /\ torn' = torn
      /\ proxies' = proxies /\ socket' = socket /\ live' = live
      /\ records' = records /\ joined' = joined /\ own' = own /\ routed' = routed
      /\ changed' = changed /\ partial' = partial /\ requests' = requests /\ faults' = faults
  BY DEF Rs!BootFails, Rs!sockets, NeedsInv, OneJob
<1>2. Rs!TypeOK'
  BY <1>1 DEF NeedsInv, Rs!TypeOK
<1>3. ASSUME NEW p \in Projects
      PROVE  Fits(p)' /\ proxies'[p] \subseteq live'[p]
  <2>1. Accounted(p)' = Accounted(p)
    BY <1>1 DEF Accounted
  <2>2. NetsFit(p) => NetsFit(p)'
    BY <1>1, <2>1 DEF NetsFit
  <2>3. QED
    BY <1>1, <2>2 DEF NeedsInv, Fits
<1>4. OneJob' /\ RecordsFit'
  BY <1>1 DEF NeedsInv, OneJob, RecordsFit
<1>5. QED
  BY <1>1, <1>2, <1>3, <1>4 DEF NeedsInv

LEMMA NeedsInvBoot ==
  ASSUME NeedsInv, Rs!Boot
  PROVE  NeedsInv'
<1>1. /\ works = {} /\ works' = {} /\ running' = TRUE /\ nets' \subseteq nets
      /\ proxies' = [p \in Projects |-> IF p \in Rs!Stored THEN {0} ELSE {}]
      /\ socket' = [p \in Projects |-> IF p \in Rs!Stored THEN {0} ELSE socket[p]]
      /\ live' = proxies'
      /\ waits' = {q \in Rs!Stored \X Rs!Record : q[2] \in records[q[1]] /\ q[2].kind = "own"}
      /\ records' = records /\ joined' = joined /\ own' = own /\ routed' = routed
      /\ changed' = changed /\ partial' = partial /\ requests' = requests /\ faults' = faults
      /\ torn' = torn
  BY DEF Rs!Boot, NeedsInv, OneJob
<1>2. /\ Rs!TypeOK /\ 0 \in Rs!Servers /\ Rs!Stored \subseteq Projects
      /\ \A p \in Projects : p \in Rs!Stored <=> records[p] # {}
  BY ResourcesAssumption DEF NeedsInv, Rs!Servers, Rs!ConstantsAssumption, Rs!Stored
<1>3. Rs!TypeOK'
  <2>1. waits' \subseteq Projects \X Rs!Record
    BY <1>1, <1>2
  <2>2. /\ proxies' \in [Projects -> SUBSET Rs!Servers]
        /\ socket' \in [Projects -> SUBSET Rs!Servers]
        /\ live' \in [Projects -> SUBSET Rs!Servers]
    BY <1>1, <1>2 DEF Rs!TypeOK
  <2>3. running' \in BOOLEAN
    BY <1>1
  <2>4. QED
    BY <1>1, <1>2, <2>1, <2>2, <2>3 DEF Rs!TypeOK
<1>4. ASSUME NEW p \in Projects, p \notin partial
      PROVE  NetsFit(p)' /\ CalmFits(p)'
  <2>1. NetsFit(p) /\ Accounted(p) = records[p] /\ Accounted(p)' = records[p]
    BY <1>1, <1>4 DEF NeedsInv, Fits, Accounted
  <2>2. NetsFit(p)'
    BY <1>1, <2>1 DEF NetsFit
  <2>3. records[p] # {} => HasSockets(p)'
    BY <1>1, <1>2 DEF HasSockets, Rs!SocketServes
  <2>4. records[p] = {} => proxies'[p] = {} /\ socket'[p] \cap live'[p] = {}
    BY <1>1, <1>2
  <2>5. Rs!OwnRecord(p) => \E q \in waits' : q[1] = p
    <3>1. ASSUME NEW r \in records[p], r.kind = "own"
          PROVE  <<p, r>> \in waits'
      BY <1>1, <1>2, <3>1 DEF Rs!TypeOK
    <3>2. QED
      BY <3>1 DEF Rs!OwnRecord
  <2>6. QED
    BY <1>1, <2>2, <2>3, <2>4, <2>5 DEF CalmFits, Rs!OwnRecord
<1>5. \A p \in Projects : Fits(p)' /\ proxies'[p] \subseteq live'[p]
  BY <1>1, <1>4 DEF Fits
<1>6. OneJob' /\ RecordsFit'
  BY <1>1, <1>2 DEF NeedsInv, OneJob, RecordsFit
<1>7. QED
  BY <1>1, <1>3, <1>5, <1>6 DEF NeedsInv

LEMMA NeedsInvRecover ==
  ASSUME NeedsInv, Rs!RecoverNext
  PROVE  NeedsInv'
<1>1. PICK q \in waits :
        /\ waits' = waits \ {q}
        /\ works' = works \cup {Rs!NewJob("boot", 0, q[1], "recover", "netting", q[2])}
  BY DEF Rs!RecoverNext
<1>2. /\ q[1] \in Projects /\ q[2] \in Rs!Record /\ q[2] \in records[q[1]] /\ q[2].kind = "own"
      /\ 0 \in Rs!Servers /\ Rs!TypeOK /\ \A r, x \in records[q[1]] : r = x
  BY ResourcesAssumption
     DEF NeedsInv, RecordsFit, Rs!TypeOK, Rs!Servers, Rs!ConstantsAssumption
<1>3. PICK k \in Rs!Job : /\ k = Rs!NewJob("boot", 0, q[1], "recover", "netting", q[2])
                          /\ k.id = "boot" /\ k.p = q[1] /\ k.op = "recover" /\ k.pc = "netting"
                          /\ k.loc = q[2]
  <2> DEFINE k == Rs!NewJob("boot", 0, q[1], "recover", "netting", q[2])
  <2>1. k \in Rs!Job /\ k.id = "boot" /\ k.p = q[1] /\ k.op = "recover" /\ k.pc = "netting" /\ k.loc = q[2]
    BY <1>2 DEF Rs!NewJob, Rs!Job
  <2>2. QED
    BY <2>1
<1>4. works = {}
  BY DEF Rs!RecoverNext, NeedsInv, OneJob
<1>5. works' = {k}
  BY <1>1, <1>3, <1>4
<1>6. /\ running /\ running' = running
      /\ records' = records /\ nets' = nets /\ joined' = joined /\ own' = own
      /\ routed' = routed /\ proxies' = proxies /\ socket' = socket /\ live' = live
      /\ changed' = changed /\ partial' = partial /\ requests' = requests /\ faults' = faults
      /\ torn' = torn
  BY DEF Rs!RecoverNext, Rs!docker, Rs!sockets
<1>7. Rs!TypeOK'
  BY <1>1, <1>2, <1>5, <1>6 DEF Rs!TypeOK
<1>8. \A o \in Projects \ {q[1]} : SameFor(o)
  BY <1>1, <1>3, <1>4, <1>5, <1>6 DEF SameFor
<1>9. Fits(q[1])'
  <2>1. CASE q[1] \in partial
    BY <1>6, <2>1 DEF Fits
  <2>2. CASE q[1] \notin partial
    <3>1. CalmFits(q[1]) /\ NetsFit(q[1])
      BY <1>2, <1>4, <1>6, <2>2 DEF NeedsInv, Fits
    <3>2. records[q[1]] = {q[2]}
      BY <1>2
    <3>3. HasSockets(q[1])'
      BY <1>6, <3>1, <3>2 DEF CalmFits, HasSockets, Rs!SocketServes
    <3>4. JobFits(k)'
      BY <1>2, <1>3, <1>6, <3>2, <3>3 DEF JobFits
    <3>5. Accounted(q[1]) \subseteq Accounted(q[1])'
      BY <1>4, <1>6 DEF Accounted
    <3>6. NetsFit(q[1])'
      BY <1>6, <3>1, <3>5 DEF NetsFit
    <3>7. QED
      BY <1>3, <1>5, <3>4, <3>6 DEF Fits
  <2>3. QED
    BY <2>1, <2>2
<1>10. \A p \in Projects : Fits(p)' /\ proxies'[p] \subseteq live'[p]
  <2>1. ASSUME NEW o \in Projects \ {q[1]}
        PROVE  Fits(o)'
    BY <1>8, OthersFit DEF NeedsInv
  <2>2. QED
    BY <1>6, <1>9, <2>1 DEF NeedsInv
<1>11. OneJob' /\ RecordsFit' /\ JobRuns(k)'
  BY <1>1, <1>3, <1>5, <1>6 DEF NeedsInv, OneJob, RecordsFit, JobRuns, StepsOf
<1>12. QED
  BY <1>5, <1>6, <1>7, <1>10, <1>11 DEF NeedsInv

LEMMA NeedsInvNext ==
  ASSUME NeedsInv, Rs!Next
  PROVE  NeedsInv'
BY NeedsInvCalls, NeedsInvStep, NeedsInvFails, NeedsInvCrash, NeedsInvTorn, NeedsInvBoot,
   NeedsInvBootFails, NeedsInvRecover
   DEF Rs!Next

LEMMA NeedsInvStutter ==
  ASSUME NeedsInv, UNCHANGED <<resources, requests>>, SharedOK'
  PROVE  NeedsInv'
<1>1. /\ records' = records /\ nets' = nets /\ joined' = joined /\ own' = own
      /\ routed' = routed /\ proxies' = proxies /\ socket' = socket /\ live' = live
      /\ works' = works /\ waits' = waits /\ changed' = changed /\ partial' = partial
      /\ running' = running /\ requests' = requests
  BY DEF resources
<1>2. Rs!TypeOK'
  BY <1>1 DEF NeedsInv, Rs!TypeOK, SharedOK
<1>3. \A o \in Projects : SameFor(o)
  BY <1>1 DEF SameFor
<1>4. \A o \in Projects : Fits(o)'
  BY <1>3, OthersFit DEF NeedsInv
<1>5. QED
  BY <1>1, <1>2, <1>4 DEF NeedsInv, OneJob, RecordsFit, JobRuns

\* At rest every project has what its record asks for.
LEMMA NeedsAreHeld ==
  ASSUME NeedsInv
  PROVE  Rs!HoldsItsNeeds
<1> SUFFICES ASSUME Rs!AtRest
             PROVE  Rs!HoldsItsNeeds
  BY DEF Rs!HoldsItsNeeds, Rs!Provided, Rs!NothingElseHeld
<1>1. /\ running /\ works = {} /\ waits = {}
      /\ \A p \in Projects : \A r \in records[p] : r \in Rs!Record
  BY DEF Rs!AtRest, NeedsInv, Rs!TypeOK
<1>2. ASSUME NEW p \in Projects \ partial
      PROVE  CalmFits(p) /\ NetsFit(p) /\ Accounted(p) = records[p]
  BY <1>1 DEF NeedsInv, Fits, Accounted
<1>3. Rs!Provided
  BY <1>1, <1>2 DEF Rs!Provided, CalmFits, HasSockets
<1>4. Rs!NothingElseHeld
  <2>1. ASSUME NEW p \in Projects \ (partial \cup changed), NEW m \in Rs!Modes,
               <<p, m>> \in nets \cup own
        PROVE  \E r \in records[p] : r = [mode |-> m, kind |-> "own"]
    BY <1>2, <2>1 DEF NetsFit
  <2>2. ASSUME NEW p \in Projects \ (partial \cup changed), records[p] = {}
        PROVE  proxies[p] = {} /\ socket[p] \cap live[p] = {}
    BY <1>2, <2>2 DEF CalmFits
  <2>3. QED
    BY <2>1, <2>2 DEF Rs!NothingElseHeld
<1>5. QED
  BY <1>3, <1>4 DEF Rs!HoldsItsNeeds

-----------------------------------------------------------------------------
(* The behaviours that TLC follows, each of one component *)

\* What the behaviours of Resources keep; the others leave its servers alone.
ServersInv ==
  /\ component = "resources" => NeedsInv
  /\ component = "overlaps" => ListingInv
  /\ Ov!ListedListens

ContainersInv == IInv /\ ServersInv /\ RuntimesInv /\ SocketInv /\ RouterInv

LEMMA IInvStutter ==
  ASSUME IInv, UNCHANGED images, SharedOK'
  PROVE  IInv'
<1>1. UNCHANGED <<registry, cache, store, ledger, ctr, route, up, jobs, queue, spoiled,
                  pinned, moved>>
  BY DEF images, docker, history
<1>2. TypeOK' /\ CopiesTrue' /\ IdleWhileDown'
  BY <1>1 DEF IInv, TypeOK, CopiesTrue, IdleWhileDown, Served, SharedOK
<1>3. \A j \in jobs' : JobHolds(j)'
  BY <1>1 DEF IInv, JobHolds, Served
<1>4. \A p \in Projects : Single(p)' /\ Alone(p)' /\ Told(p)' /\ RunsOwn(p)'
  BY <1>1 DEF IInv, Single, Alone, Told, RunsOwn, Unmoved, Whole, Deploying, Reading, Served
<1>5. QED
  BY <1>2, <1>3, <1>4 DEF IInv

LEMMA ServersListen ==
  /\ NeedsInv => Ov!ListedListens /\ Rs!TypeOK /\ SharedOK
  /\ ListingInv => Ov!ListedListens /\ Ov!TypeOK /\ SharedOK
<1>1. NeedsInv => Ov!ListedListens /\ Rs!TypeOK /\ SharedOK
  BY DEF NeedsInv, Ov!ListedListens, Rs!TypeOK, SharedOK
<1>2. ListingInv => Ov!ListedListens /\ Ov!TypeOK /\ SharedOK
  BY DEF ListingInv, Ov!ListedListens, Ov!TypeOK, SharedOK
<1>3. QED
  BY <1>1, <1>2

LEMMA ListedListensStutter ==
  ASSUME UNCHANGED resources, UNCHANGED component,
         component \notin {"resources", "overlaps"}, ServersInv
  PROVE  ServersInv'
BY DEF resources, ServersInv, Ov!ListedListens

LEMMA ContainersInvInit == MCInit => ContainersInv
<1> SUFFICES ASSUME MCInit
             PROVE  ContainersInv
  OBVIOUS
<1>1. Init /\ Rs!Init /\ Sh!Init /\ Dp!Init /\ Ro!Init
  BY DEF MCInit
<1>2. Ov!Init
  BY <1>1 DEF Rs!Init, Ov!Init
<1>3. NeedsInv /\ ListingInv
  BY <1>1, <1>2, NeedsInvInit, ListingInvInit
<1>4. ServersInv
  BY <1>3, ServersListen DEF ServersInv
<1>5. QED
  BY <1>1, <1>4, InitIInv, RuntimesInvInit, SocketInvInit, RouterInvInit DEF ContainersInv

\* A step of one component leaves what holds of each of the others.
LEMMA ContainersInvNext ==
  ASSUME ContainersInv, MCNext
  PROVE  ContainersInv'
<1>1. IInv /\ ServersInv /\ RuntimesInv /\ SocketInv /\ RouterInv /\ component' = component
  BY DEF ContainersInv, MCNext
<1>2. CASE component = "images" /\ Next /\ UNCHANGED <<resources, runtimes, proxy, router>>
  <2>1. IInv'
    BY <1>1, <1>2, NextIInv
  <2>2. SharedOK'
    BY <2>1 DEF IInv, TypeOK, SharedOK
  <2>3. ServersInv'
    BY <1>1, <1>2, ListedListensStutter
  <2>4. RuntimesInv' /\ SocketInv' /\ RouterInv'
    BY <1>1, <1>2, <2>2, RuntimesInvStutter, SocketInvStutter, RouterInvStutter DEF SharedOK
  <2>5. QED
    BY <2>1, <2>3, <2>4 DEF ContainersInv
<1>3. CASE component = "resources" /\ Rs!Next /\ UNCHANGED <<images, runtimes, proxy, router>>
  <2>1. NeedsInv'
    BY <1>1, <1>3, NeedsInvNext DEF ServersInv
  <2>2. Ov!ListedListens' /\ SharedOK'
    BY <2>1, ServersListen, PTL
  <2>3. ServersInv'
    BY <1>1, <1>3, <2>1, <2>2 DEF ServersInv
  <2>4. RuntimesInv' /\ SocketInv' /\ RouterInv' /\ IInv'
    BY <1>1, <1>3, <2>2, RuntimesInvStutter, SocketInvStutter, RouterInvStutter, IInvStutter
       DEF SharedOK
  <2>5. QED
    BY <2>3, <2>4 DEF ContainersInv
<1>4. CASE component = "overlaps" /\ Ov!Next /\ UNCHANGED <<images, runtimes, proxy, router>>
  <2>1. ListingInv'
    BY <1>1, <1>4, ListingInvNext DEF ServersInv
  <2>2. Ov!ListedListens' /\ SharedOK'
    BY <2>1, ServersListen, PTL
  <2>3. ServersInv'
    BY <1>1, <1>4, <2>1, <2>2 DEF ServersInv
  <2>4. RuntimesInv' /\ SocketInv' /\ RouterInv' /\ IInv'
    BY <1>1, <1>4, <2>2, RuntimesInvStutter, SocketInvStutter, RouterInvStutter, IInvStutter
       DEF SharedOK
  <2>5. QED
    BY <2>3, <2>4 DEF ContainersInv
<1>5. CASE component = "runtimes" /\ Sh!Next /\ UNCHANGED <<images, resources, proxy, router>>
  <2>1. RuntimesInv'
    BY <1>1, <1>5, RuntimesInvNext
  <2>2. SharedOK'
    BY <2>1 DEF RuntimesInv, Sh!TypeOK, SharedOK
  <2>3. ServersInv'
    BY <1>1, <1>5, ListedListensStutter
  <2>4. IInv' /\ SocketInv' /\ RouterInv'
    BY <1>1, <1>5, <2>2, IInvStutter, SocketInvStutter, RouterInvStutter DEF SharedOK
  <2>5. QED
    BY <2>1, <2>3, <2>4 DEF ContainersInv
<1>6. CASE /\ component = "proxy" /\ Dp!Next
           /\ UNCHANGED <<images, resources, runtimes, router, torn>>
  <2>1. SocketInv'
    BY <1>1, <1>6, SocketInvNext
  <2>2. SharedOK'
    BY <1>1, <1>6, <2>1 DEF SocketInv, Dp!TypeOK, IInv, TypeOK, SharedOK
  <2>3. ServersInv'
    BY <1>1, <1>6, ListedListensStutter
  <2>4. IInv' /\ RuntimesInv' /\ RouterInv'
    BY <1>1, <1>6, <2>2, IInvStutter, RuntimesInvStutter, RouterInvStutter DEF SharedOK
  <2>5. QED
    BY <2>1, <2>3, <2>4 DEF ContainersInv
<1>7. CASE /\ component = "router" /\ Ro!Next
           /\ UNCHANGED <<images, resources, runtimes, proxy, torn, faults>>
  <2>1. RouterInv'
    BY <1>1, <1>7, RouterInvNext
  <2>2. SharedOK'
    BY <1>1, <1>7, <2>1 DEF RouterInv, Ro!TypeOK, IInv, TypeOK, SharedOK
  <2>3. ServersInv'
    BY <1>1, <1>7, ListedListensStutter
  <2>4. IInv' /\ RuntimesInv' /\ SocketInv'
    BY <1>1, <1>7, <2>2, IInvStutter, RuntimesInvStutter, SocketInvStutter DEF SharedOK
  <2>5. QED
    BY <2>1, <2>3, <2>4 DEF ContainersInv
<1>8. QED
  BY <1>2, <1>3, <1>4, <1>5, <1>6, <1>7 DEF MCNext

LEMMA ContainersInvIdle ==
  ASSUME ContainersInv,
         UNCHANGED <<images, resources, runtimes, proxy, router, torn, counts, component>>
  PROVE  ContainersInv'
<1>1. /\ requests' = requests /\ faults' = faults /\ torn' = torn
      /\ UNCHANGED images /\ UNCHANGED runtimes /\ UNCHANGED proxy /\ UNCHANGED router
      /\ UNCHANGED resources /\ UNCHANGED <<resources, requests>> /\ UNCHANGED component
  BY DEF counts
<1>2. SharedOK'
  BY <1>1 DEF ContainersInv, IInv, TypeOK, SharedOK
<1>3. IInv' /\ RuntimesInv' /\ SocketInv' /\ RouterInv'
  BY <1>1, <1>2, IInvStutter, RuntimesInvStutter, SocketInvStutter, RouterInvStutter
     DEF SharedOK, ContainersInv
<1>4. /\ NeedsInv => NeedsInv'
      /\ ListingInv => ListingInv'
  BY <1>1, <1>2, NeedsInvStutter, ListingInvStutter DEF SharedOK
<1>5. Ov!ListedListens => Ov!ListedListens'
  BY <1>1 DEF resources, Ov!ListedListens
<1>6. ServersInv'
  BY <1>1, <1>4, <1>5 DEF ContainersInv, ServersInv
<1>7. QED
  BY <1>3, <1>6 DEF ContainersInv

THEOREM ContainersHold == MCSpec => []ContainersInv
<1>1. ContainersInv
        /\ [MCNext]_<<images, resources, runtimes, proxy, router, torn, counts, component>>
      => ContainersInv'
  BY ContainersInvNext, ContainersInvIdle
<1>2. QED
  BY ContainersInvInit, <1>1, PTL DEF MCSpec

\* The variables of the containers, the records and the jobs have their types.
THEOREM ContainersTypesHold == MCSpec => []TypesOK
<1>1. ContainersInv => TypesOK
  <2> SUFFICES ASSUME ContainersInv
               PROVE  TypesOK
    OBVIOUS
  <2>1. TypeOK /\ Ro!TypeOK /\ Sh!TypeOK /\ Dp!TypeOK
    BY DEF ContainersInv, IInv, RouterInv, RuntimesInv, SocketInv
  <2>2. (component = "resources" => Rs!TypeOK) /\ (component = "overlaps" => Ov!TypeOK)
    BY ServersListen DEF ContainersInv, ServersInv
  <2>3. QED
    BY <2>1, <2>2 DEF TypesOK
<1>2. QED
  BY <1>1, ContainersHold, PTL

\* At rest each project has the network, the sockets and the container that its record
\* asks for, and no other has any, if callers wait for each other; and a server that is
\* taken for the project's own listens even if they do not, for any number of projects,
\* calls, failures and restarts (runtimes.py:607-616, 868-876; main.py:147-150;
\* deploy.py:451-455; dstack_proxy.py:106-151).
THEOREM NeedsHold == MCSpec => []HoldsItsNeeds
<1>1. ContainersInv => HoldsItsNeeds
  BY NeedsAreHeld DEF ContainersInv, ServersInv, HoldsItsNeeds
<1>2. QED
  BY <1>1, ContainersHold, PTL

\* What an app is told of a container holds, in the behaviours that TLC follows: a creation
\* that was attested, named its project and was answered 201 is in the ledger, and what runs
\* is on the list (docker_proxy.py:72-79, 169-171, 183-193).
THEOREM ToldHolds == MCSpec => []ToldIsTrue
<1>1. ContainersInv => ToldIsTrue
  BY DEF ContainersInv, SocketInv, ToldIsTrue
<1>2. QED
  BY <1>1, ContainersHold, PTL

\* At rest requests for a shared project of deno or node reach a container that has loaded
\* it, also beside projects of bun (runtimes.py:497-605, 888-905).
THEOREM RoutesHold == MCSpec => []RoutesAreTrue
<1>1. ContainersInv => RoutesAreTrue
  BY SettledIsTrue DEF ContainersInv, RoutesAreTrue
<1>2. QED
  BY <1>1, ContainersHold, PTL

\* No request is sent to a child that does not listen yet, or hangs, in the behaviours that
\* TLC follows (runtimes.py:234, 253, 263, 290-299).
THEOREM ListenersHold == MCSpec => []ClientsListen
<1>1. ContainersInv => ClientsListen
  BY DEF ContainersInv, RouterInv, ClientsListen
<1>2. QED
  BY <1>1, ContainersHold, PTL
=============================================================================
