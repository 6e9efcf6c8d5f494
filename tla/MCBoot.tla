------------------------------- MODULE MCBoot -------------------------------
(* The instances of Routing and Restore for TLC, one behaviour being of one of them,  *)
(* for they share the counters only.  Routing has two projects, one with the name of  *)
(* the tunnels' path, and the ports 8080, which is the ingress and that for paths,    *)
(* 9000, and 70000, which is none.  Restore has two projects, numbered in the order   *)
(* in which they are listed, whose callers either take no notice of the restore       *)
(* ("restored"), or wait for each other and for it ("asked").  The commits of a       *)
(* source are interchangeable, so all begin with one.                                 *)
EXTENDS Routing

CONSTANTS
  Listed, Commits, Envs, Callers, MaxPushes, RestoreRequests, RestoreFaults,  \* of Restore
  s1, s2, c1, c2, none, e1

VARIABLES
  component, head, there, records, bundle, attached, up, halved, work, fresh,
  renewed, pushes

R == INSTANCE Restore WITH
       Projects <- Listed, NoEnv <- none, Slots <- Callers, OneAtATime <- FALSE,
       MaxRequests <- RestoreRequests, MaxFaults <- RestoreFaults,
       store <- records, torn <- halved, jobs <- work

A == INSTANCE Restore WITH
       Projects <- Listed, NoEnv <- none, Slots <- Callers, OneAtATime <- TRUE,
       MaxRequests <- RestoreRequests, MaxFaults <- RestoreFaults,
       store <- records, torn <- halved, jobs <- work

ASSUME RestoreAssumption == R!ConstantsAssumption /\ A!ConstantsAssumption

routing == <<store, torn, jobs, phase, sockets, moved>>
restore ==
  <<head, there, records, bundle, attached, up, halved, work, fresh, renewed, pushes>>

MCInit ==
  /\ component \in {"routing", "restored", "asked"}
  /\ Init /\ R!Init
  /\ head = [p \in Listed |-> CHOOSE c \in Commits : TRUE]

MCNext ==
  /\ \/ component = "routing" /\ Next /\ UNCHANGED restore
     \/ component = "restored" /\ R!Next /\ UNCHANGED routing
     \/ component = "asked" /\ A!Next /\ UNCHANGED routing
  /\ UNCHANGED component

MCFairness ==
  /\ WF_vars(component = "routing" /\ Boot)
  /\ \A s \in Slots : WF_vars(\E j \in jobs : j.id = s /\ Step(j))
  /\ R!Fairness

MCSpec == MCInit /\ [][MCNext]_<<vars, restore, component>> /\ MCFairness

-----------------------------------------------------------------------------
\* The types of the records, jobs, ports and exports (projects.py:11-29, main.py:209-260,
\* deploy.py:620-649).
TypesOK == TypeOK /\ (component = "asked" => A!TypeOK) /\ (component = "restored" => R!TypeOK)

\* Until somebody calls, what runs on a new CVM runs at its commit in the export,
\* whatever was pushed since (deploy.py:627-628).
RestoredAtPins == R!RestoredAtPins

\* If callers wait for each other, a project changes by what is asked for only: its env
\* by a deploy that gives one, its other settings not by a redeploy, its commit not by
\* the restore that a restarted daemon might do once more (deploy.py:198-205, 637-640;
\* ingress.py:922; runtimes.py:984-989).
ChangesAreAsked ==
  [][component = "asked" =>
       \A p \in Listed : \A r \in records[p], n \in records'[p] : A!Asked(p, r, n)]_records

\* The daemon is up in the end, unless a record was left half written, a project listens
\* on a number that is no port, two records have one port, or one wants TCP on a port
\* that the checks leave out; and a new CVM restores every project whose commit is still
\* there, also past those whose commit is not, if nothing fails (projects.py:100-101;
\* main.py:213-260; deploy.py:271, 383, 644-649; runtimes.py:954-955).
ComesBack ==
  /\ <>[](component = "routing" => IsUpIfItCan)
  /\ R!FleetReturns
=============================================================================
