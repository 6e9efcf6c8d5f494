----------------------------- MODULE MCEvidence -----------------------------
(* Instances of Evidence and Lifecycle for TLC, one behaviour being of one of them: *)
(* two overlapping calls of any kind, or two that change an attested project beside *)
(* a verification of it.                                                            *)
EXTENDS Evidence, TLC

CONSTANTS p1, t1, t2, s1, s2, Components

VARIABLE component

Symmetry == Permutations(Slots) \cup Permutations(Trees)

\* Beside a verification, the calls are uploads and promotions, and what they store has
\* no capabilities, of which a bundle does not speak.
Plain == \A p \in Projects : \A r \in store[p] : ~r.caps
UploadsAndPromotes ==
  \A j \in jobs' : j.pc \notin {"cloning", "staging"} /\ j.op # "unpromote" /\ ~j.loc.caps

MCInit ==
  /\ EvidenceInit /\ component \in Components
  /\ component = "evidence" => Plain

MCNext ==
  /\ \/ component = "evidence" /\ EvidenceNext /\ UploadsAndPromotes
     \/ component = "handlers" /\ Next /\ UNCHANGED evidence
  /\ UNCHANGED component

MCSpec == MCInit /\ [][MCNext]_<<vars, evidence, component>>

\* Records, jobs and containers have their types, and so has a verification
\* (projects.py:29-83, verify/bundle.py:33-74).
TypesOK == TypeOK /\ EvidenceTypeOK
=============================================================================
