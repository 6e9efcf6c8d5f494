--------------------------- MODULE MCAuditLedger ---------------------------
(* Two ledgers, two contents: the smallest instance in which a change can    *)
(* alter an entry and one broken ledger can stop the boot of the other.      *)
EXTENDS AuditLedger
=============================================================================
