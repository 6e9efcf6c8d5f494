----------------------------- MODULE MeasuredLog -----------------------------
(***************************************************************************)
(* What the audit ledgers promise to those who read them beside RTMR3      *)
(* (proxy/audit.py), with no files, hashes or boots.  What was said is     *)
(* said for good and in order; only what was said is measured, each time   *)
(* with all that was said before it; and a daemon that claims to have      *)
(* replayed its ledgers owes no measurement but those it has still to hear *)
(* of, or of which a caller has heard that they failed.                    *)
(***************************************************************************)
EXTENDS Naturals, Sequences

CONSTANTS Projects, Contents

VARIABLES
  said,         \* said[p]: what was said of project p
  measured,     \* what RTMR3 holds, each as a project and what was said of it so far
  owed,         \* what was asked to be measured, and is not known to be
  attested      \* the daemon claims that the rest is

vars == <<said, measured, owed, attested>>

Init ==
  /\ said \in [Projects -> Seq(Contents)]
  /\ measured = {} /\ owed = {} /\ attested = FALSE

\* All that can be measured of p: each thing said, with those before it.
Told(p) == {<<p, [i \in 1..n |-> said[p][i]]>> : n \in 1..Len(said[p])}

Adds(p, c) == said' = [said EXCEPT ![p] = Append(@, c)]

Say(p, c) ==
  /\ Adds(p, c)
  /\ \/ owed' = owed \cup {<<p, said'[p]>>}
     \/ ~attested /\ owed' = owed
  /\ UNCHANGED <<measured, attested>>

Measure(p) ==
  /\ \E m \in Told(p) :
       /\ measured' = measured \cup {m}
       /\ owed' \in {owed, owed \ {m}}
  /\ UNCHANGED <<said, attested>>

Attest ==
  /\ \A p \in Projects : Told(p) \subseteq measured \cup owed
  /\ attested' = TRUE
  /\ UNCHANGED <<said, measured, owed>>

\* The daemon ends, and RTMR3 with it or not; what it was saying is said or not.
End ==
  /\ attested' = FALSE /\ owed' = {}
  /\ measured' \in {measured, {}}
  /\ said' = said \/ \E p \in Projects, c \in Contents : Adds(p, c)

Next ==
  \/ \E p \in Projects, c \in Contents : Say(p, c)
  \/ \E p \in Projects : Measure(p)
  \/ Attest
  \/ End

Spec == Init /\ [][Next]_vars
=============================================================================
