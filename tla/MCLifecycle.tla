---------------------------- MODULE MCLifecycle ----------------------------
(* Instances of Lifecycle for TLC. *)
EXTENDS Lifecycle, TLC

CONSTANTS p1, p2, t1, t2, s1, s2

SlotSymmetry == Permutations(Slots)
TreeSymmetry == Permutations(Trees)
Symmetry == SlotSymmetry \cup TreeSymmetry
=============================================================================
