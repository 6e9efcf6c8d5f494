----------------------------- MODULE Delegation -----------------------------
(***************************************************************************)
(* What the daemon promises of everything it issues for a while, be it a   *)
(* credential grant (proxy/broker.py), an API token (proxy/tokens.py) or a *)
(* tunnel (proxy/tunnel.py): an id is issued once, is honored from then on *)
(* until it ends, and is never honored again, whatever restarts follow.    *)
(***************************************************************************)
CONSTANT Ids

VARIABLE standing     \* of each id: "unissued", "live" or "over"

Init == standing = [i \in Ids |-> "unissued"]

Issue(i) ==
  /\ standing[i] = "unissued"
  /\ standing' = [standing EXCEPT ![i] = "live"]

\* Ids are revoked, deleted, expire, or are lost with the process.
End(S) ==
  /\ S # {}
  /\ \A i \in S : standing[i] = "live"
  /\ standing' = [i \in Ids |-> IF i \in S THEN "over" ELSE standing[i]]

Next ==
  \/ \E i \in Ids : Issue(i)
  \/ \E S \in SUBSET Ids : End(S)

Spec == Init /\ [][Next]_standing
=============================================================================
