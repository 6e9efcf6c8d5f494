----------------------------- MODULE DockerProxy -----------------------------
(***************************************************************************)
(* The docker socket that apps are given (proxy/docker_proxy.py) and the   *)
(* list of the containers it lets them operate (proxy/tracker.py), which   *)
(* the daemon shares for the containers that it runs itself.               *)
(*                                                                         *)
(* The list is in memory; containers are docker's and outlive the daemon.  *)
(* A request awaits docker, then the daemon, then docker again: each       *)
(* answer is a step.  Containers that are neither an app's nor the         *)
(* daemon's are there from the start.  An abbreviated id stands for the    *)
(* container that it abbreviates; docker itself is not restarted.          *)
(***************************************************************************)
EXTENDS Naturals

CONSTANTS
  Ids,           \* docker's ids; docker gives each out once
  Others,        \* those of containers that are not the daemon's business
  Slots,         \* bound on the requests in progress at once
  MaxRequests,   \* bound on the requests
  MaxFaults      \* bound on crashes, failing calls and containers that end

ConstantsAssumption ==
  /\ Others \subseteq Ids
  /\ {MaxRequests, MaxFaults} \subseteq Nat

VARIABLES
  made,      \* made[c]: what container c was made as, or none
  state,     \* state[c]: docker's state of it
  tracked,   \* ContainerTracker._ids
  entries,   \* what audit logs say of containers
  told,      \* containers whose creator was answered 201 (a history variable)
  up,        \* the daemon process runs
  jobs,      \* requests in progress
  requests, faults

vars == <<made, state, tracked, entries, told, up, jobs, requests, faults>>

States == {"none", "created", "running", "exited"}
Operations == {"start", "stop", "kill", "remove"}
Labels == {"attested", "project"}
Kind == [by: {"app", "daemon", "other"}, labels: SUBSET Labels]
Job ==
  [s: Slots, c: Ids, pc: {"making", "made", "recording", "forwarding", "auditing", "removing", "removed"},
   op: Operations \cup {"create", "run", "replace"}, labels: SUBSET Labels]

Managed(c) == \E k \in made[c] : k.by # "other"

\* An entry is made of what is attested and names its project, and of nothing else.
Recorded(L) == Labels \subseteq L

-----------------------------------------------------------------------------
(* Requests *)

Accepts(s) ==
  /\ up /\ requests < MaxRequests
  /\ \A j \in jobs : j.s # s
  /\ requests' = requests + 1

GoesTo(j, pc) == jobs' = (jobs \ {j}) \cup {[j EXCEPT !.pc = pc]}
Ends(j) == jobs' = jobs \ {j}

Opens(s, c, op, pc, L) ==
  /\ Accepts(s)
  /\ jobs' = jobs \cup {[s |-> s, c |-> c, op |-> op, pc |-> pc, labels |-> L]}
  /\ UNCHANGED <<made, state, tracked, entries, told, up, faults>>

Fresh(c) == made[c] = {} /\ \A j \in jobs : j.c # c

\* POST /containers/create, by an app, and what start_image() and the others do: their
\* label for a project has another name.
Create(s, c, L) == Fresh(c) /\ Opens(s, c, "create", "making", L)
Run(s, c, L) == Fresh(c) /\ Opens(s, c, "run", "making", L \ {"project"})

\* The other routes are for containers on the list.
Operate(s, c, op) == c \in tracked /\ Opens(s, c, op, "forwarding", {})

\* The daemon finds a container of its own by its name, and stops and removes it.
Replace(s, c) ==
  /\ \E k \in made[c] : k.by = "daemon"
  /\ state[c] # "none"
  /\ Opens(s, c, "replace", "removing", {})

-----------------------------------------------------------------------------
(* Containers are made *)

\* docker makes it, with the labels and the network that the request was given.
Makes(j) ==
  /\ j.pc = "making"
  /\ made' = [made EXCEPT ![j.c] =
       {[by |-> IF j.op = "run" THEN "daemon" ELSE "app", labels |-> j.labels]}]
  /\ state' = [state EXCEPT ![j.c] = IF j.op = "run" THEN "running" ELSE "created"]
  /\ GoesTo(j, "made")
  /\ UNCHANGED <<tracked, entries, told, up, requests, faults>>

\* docker's answer is there.  A creation that is not recorded is answered without more.
Tracks(j) ==
  /\ j.pc = "made"
  /\ tracked' = tracked \cup {j.c}
  /\ told' = IF j.op = "create" /\ ~Recorded(j.labels) THEN told \cup {j.c} ELSE told
  /\ IF j.op = "create" /\ Recorded(j.labels) THEN GoesTo(j, "recording") ELSE Ends(j)
  /\ UNCHANGED <<made, state, entries, up, requests, faults>>

Records(j) ==
  /\ j.pc = "recording"
  /\ entries' = entries \cup {<<"create", j.c>>}
  /\ told' = told \cup {j.c}
  /\ Ends(j)
  /\ UNCHANGED <<made, state, tracked, up, requests, faults>>

-----------------------------------------------------------------------------
(* Operations *)

\* docker's state machine.
After(op, st) ==
  CASE op = "start"  -> "running"
    [] op = "remove" -> "none"
    [] OTHER         -> IF st = "running" THEN "exited" ELSE st

\* docker does it, or says that there is no such container.
Forwards(j) ==
  /\ j.pc = "forwarding"
  /\ IF state[j.c] = "none" THEN Ends(j) /\ UNCHANGED state
     ELSE /\ state' = [state EXCEPT ![j.c] = After(j.op, @)]
          /\ GoesTo(j, "auditing")
  /\ UNCHANGED <<made, tracked, entries, told, up, requests, faults>>

\* What inspect answers has the labels under Config, and none beside it.
InspectLabels(c) == {}

\* _maybe_audit() asks docker for the labels, after the fact.
Audits(j) ==
  /\ j.pc = "auditing"
  /\ entries' =
       IF state[j.c] # "none" /\ Recorded(InspectLabels(j.c))
       THEN entries \cup {<<j.op, j.c>>} ELSE entries
  /\ tracked' = IF j.op = "remove" THEN tracked \ {j.c} ELSE tracked
  /\ Ends(j)
  /\ UNCHANGED <<made, state, told, up, requests, faults>>

\* The daemon's own: docker removes it, then it goes from the list.
Removes(j) ==
  /\ j.pc = "removing"
  /\ IF state[j.c] = "none" THEN Ends(j) /\ UNCHANGED state
     ELSE state' = [state EXCEPT ![j.c] = "none"] /\ GoesTo(j, "removed")
  /\ UNCHANGED <<made, tracked, entries, told, up, requests, faults>>

Untracks(j) ==
  /\ j.pc = "removed"
  /\ tracked' = tracked \ {j.c}
  /\ Ends(j)
  /\ UNCHANGED <<made, state, entries, told, up, requests, faults>>

-----------------------------------------------------------------------------
(* Faults *)

\* docker, or the record of the entry, fails the call that a request waits for, or
\* docker's answer is lost when it has done its part: 500.
Fails(j) ==
  /\ faults < MaxFaults
  /\ faults' = faults + 1
  /\ Ends(j)
  /\ UNCHANGED <<made, state, tracked, entries, told, up, requests>>

\* A container ends by itself.
Exits(c) ==
  /\ state[c] = "running" /\ Managed(c)
  /\ faults < MaxFaults
  /\ faults' = faults + 1
  /\ state' = [state EXCEPT ![c] = "exited"]
  /\ UNCHANGED <<made, tracked, entries, told, up, jobs, requests>>

Crash ==
  /\ up
  /\ faults < MaxFaults
  /\ faults' = faults + 1
  /\ up' = FALSE
  /\ tracked' = {}
  /\ jobs' = {}
  /\ UNCHANGED <<made, state, entries, told, requests>>

\* Mutant of Boot: nothing is recovered.
BootForgets ==
  /\ ~up
  /\ up' = TRUE
  /\ UNCHANGED <<made, state, tracked, entries, told, jobs, requests, faults>>

\* recover_tracked() asks docker for the containers with the label: those that run.
Boot ==
  /\ ~up
  /\ up' = TRUE
  /\ tracked' = {c \in Ids : Managed(c) /\ state[c] = "running"}
  /\ UNCHANGED <<made, state, entries, told, jobs, requests, faults>>

-----------------------------------------------------------------------------
Init ==
  /\ made = [c \in Ids |-> IF c \in Others THEN {[by |-> "other", labels |-> {}]} ELSE {}]
  /\ state = [c \in Ids |-> IF c \in Others THEN "running" ELSE "none"]
  /\ tracked = {} /\ entries = {} /\ told = {}
  /\ up = TRUE
  /\ jobs = {}
  /\ requests = 0 /\ faults = 0

Calls(s, c) ==
  \/ \E L \in SUBSET Labels : Create(s, c, L) \/ Run(s, c, L)
  \/ \E op \in Operations : Operate(s, c, op)
  \/ Replace(s, c)

Step(j) ==
  \/ Makes(j) \/ Tracks(j) \/ Records(j) \/ Forwards(j) \/ Audits(j) \/ Removes(j) \/ Untracks(j)

Next ==
  \/ \E s \in Slots, c \in Ids : Calls(s, c)
  \/ \E j \in jobs : Step(j) \/ Fails(j)
  \/ \E c \in Ids : Exits(c)
  \/ Crash \/ Boot

Spec == Init /\ [][Next]_vars

-----------------------------------------------------------------------------
(* Properties *)

TypeOK ==
  /\ made \in [Ids -> SUBSET Kind]
  /\ state \in [Ids -> States]
  /\ tracked \subseteq Ids
  /\ entries \subseteq (Operations \cup {"create"}) \X Ids
  /\ told \subseteq Ids
  /\ up \in BOOLEAN
  /\ jobs \subseteq Job
  /\ requests \in Nat /\ faults \in Nat

\* What an app is told holds.  The creation of an attested container that names its
\* project is in the ledger, as one whose entry failed was answered with an error
\* (docker_proxy.py:183-193; of one without the name there is no entry, 185-186), and a
\* container can be operated through the socket as long as it runs, also after the daemon
\* was restarted (docker_proxy.py:72-79, 169-171).
ToldIsTrue ==
  \A c \in told :
    /\ (\E k \in made[c] : Recorded(k.labels)) => <<"create", c>> \in entries
    /\ up /\ state[c] = "running" => c \in tracked
=============================================================================
