------------------------------ MODULE Verifier ------------------------------
(***************************************************************************)
(* What consumers make of an evidence bundle: the facts library and its    *)
(* reference policies (verify/), the flat facts of proxy/evidence.py, and  *)
(* the command line of proxy/verify.py.  A bundle has the fields of the    *)
(* wire form that these read; one that a bundle need not have is a set of  *)
(* at most one, or "" for a string.                                        *)
(*                                                                         *)
(* Hashes are atoms, and a preimage is the tuple of what is hashed.  The   *)
(* bundle parses, and a chain_config that is given is not empty.           *)
(***************************************************************************)
EXTENDS Naturals

CONSTANT Hashes      \* of trees, compose files and measurements

\* A chain that the facts library has a policy for is not anchored, or Base.
NotAnchored == 0
Base == 8453

-----------------------------------------------------------------------------
(* The two preimages of a report_data *)

\* verify/facts.py hashes the app id and the tree as their hex text, proxy/evidence.py
\* the bytes that they encode; the public key is bytes in both.
TextPreimage(app, name, tree, key) == <<"text", app, name, tree, key>>
AppReportData(app, name, tree, key) == <<"bytes", app, name, tree, key>>

-----------------------------------------------------------------------------
(* verify_from_bundle(): the facts, and the legs with an error.              *)
(* e.tool: dcap-qvl runs.  e.config: the chain_config given, if any, with     *)
(* what its RPC endpoint answers.                                            *)

QuoteValid(b, e) == e.tool /\ \E q \in b.platform_quote : q.quote = "genuine"

\* An RPC endpoint must be named, answer, be of Base, and is asked about an app id.
RpcAnswers(b, c) == b.webhost_app_id # "" /\ c.rpc \in {"allowed", "refused"}

Approved(b, e) == \E c \in e.config : RpcAnswers(b, c) /\ c.rpc = "allowed"

ChainId(b, e) ==
  IF e.config = {} THEN b.onchain.chain_id
  ELSE IF \E c \in e.config : RpcAnswers(b, c) THEN Base ELSE NotAnchored

OnchainError(b, e) ==
  \/ e.config = {} /\ b.onchain.chain_id \notin {NotAnchored, Base}
  \/ \E c \in e.config : ~RpcAnswers(b, c)

\* The consumer's approval data replaces what the bundle declares.  MRTD and RTMRs
\* are those of a verified quote only.
MeasurementError(b, e) ==
  LET compose == {q.compose : q \in b.platform_quote}
      mrtd == {q.mrtd : q \in {q \in b.platform_quote : QuoteValid(b, e)}}
  IN  IF e.config = {}
        THEN b.onchain.allowed_compose_hash \notin compose \cup {""}
        ELSE \E c \in e.config : c.compose \notin compose \cup {""} \/ c.mrtd \notin mrtd \cup {""}

\* Mutant of BindingError: what is not there is not compared.
BindingErrorLoose(b) ==
  /\ "" \notin {b.project, b.tree_hash, b.pubkey}
  /\ \A q \in b.platform_quote :
       q.report_data # {TextPreimage(b.webhost_app_id, b.project, b.tree_hash, b.pubkey)}

\* The claimed preimage must be complete and be what the quote commits to.
BindingError(b) ==
  \/ "" \in {b.project, b.tree_hash, b.pubkey}
  \/ \A q \in b.platform_quote :
       q.report_data # {TextPreimage(b.webhost_app_id, b.project, b.tree_hash, b.pubkey)}

NoPromote(b) == \A a \in b.audit : a.action # "promote"
AuditedTrees(b) == {a.tree_hash : a \in b.audit} \ {""}
SourceError(b) ==
  b.tree_hash # "" /\ AuditedTrees(b) # {} /\ b.tree_hash \notin AuditedTrees(b)

\* Each leg is judged whatever the others say; nothing is raised.
Errors(b, e) ==
  (IF ~QuoteValid(b, e) THEN {"quote"} ELSE {}) \cup
  (IF MeasurementError(b, e) THEN {"measurement"} ELSE {}) \cup
  (IF BindingError(b) THEN {"binding"} ELSE {}) \cup
  (IF OnchainError(b, e) THEN {"onchain"} ELSE {}) \cup
  (IF b.zt_cert_ref = "" THEN {"gateway"} ELSE {}) \cup
  (IF NoPromote(b) THEN {"audit"} ELSE {}) \cup
  (IF SourceError(b) THEN {"source"} ELSE {})

IsValid(b, e) == Errors(b, e) = {}

AllowlistPolicy(b, allowed) == b.tree_hash \in allowed

StrictPolicy(b, e, chain) ==
  QuoteValid(b, e) /\ Approved(b, e) /\ b.zt_cert_ref # "" /\ ChainId(b, e) = chain

-----------------------------------------------------------------------------
(* verify() of proxy/evidence.py: is report_data, as it is read from the bytes of *)
(* the binding quote, the hash of the preimage that goes with it                  *)

BindingVerified(b) ==
  /\ b.attestation_kind # ""
  /\ \E x \in b.binding : x.quoted = AppReportData(x.app_id, x.name, x.tree_hash, x.app_pubkey)

-----------------------------------------------------------------------------
(* The command line: project is what the server says of the project (its mode, and *)
(* whether its repository with a commit, and its ref, are recorded), data the       *)
(* bundle; {} where the server did not answer 200                                   *)

MetadataStatus(project) ==
  CASE project = {} -> "fail"
    [] \E r \in project : r.mode # "attested" -> "skip"
    [] \E r \in project : r.source /\ r.ref -> "pass"
    [] OTHER -> "partial"

\* verification_data.get("quote")
QuoteStatus(data) == IF \E b \in data : "quote" \in DOMAIN b THEN "pass" ELSE "fail"

AuditStatus(data) ==
  CASE \A b \in data : b.audit = {} -> "fail"
    [] \E b \in data : NoPromote(b) -> "partial"
    [] OTHER -> "pass"

SourceStatus(project) == IF \E r \in project : r.source THEN "pass" ELSE "fail"

\* One fail fails all, and only all passes pass.
Overall(statuses) ==
  CASE statuses = {} -> "skip"
    [] "fail" \in statuses -> "fail"
    [] statuses = {"pass"} -> "pass"
    [] OTHER -> "partial"

\* verify_project()
ProjectStatus(project, data) ==
  IF MetadataStatus(project) = "skip" THEN "skip"
  ELSE Overall({MetadataStatus(project), QuoteStatus(data), AuditStatus(data), SourceStatus(project)})

\* verify_all(), over the statuses of the projects listed
InstanceStatus(statuses) == Overall(statuses \ {"skip"})

-----------------------------------------------------------------------------
(* Bundles and consumers, to ask the operators above about *)

Quotes ==
  [quote: {"refused", "genuine"},
   report_data: {{}} \cup {{TextPreimage("app", "name", t, "key")} : t \in Hashes},
   compose: Hashes \cup {""}, mrtd: Hashes]

Bundles ==
  [platform_quote: {{}} \cup {{q} : q \in Quotes},
   webhost_app_id: {"app"}, attestation_kind: {""}, binding: {{}},
   onchain: [chain_id: {NotAnchored, Base, 1}, allowed_compose_hash: Hashes \cup {""}],
   zt_cert_ref: {"", "cert"}, project: {"name"}, tree_hash: Hashes, pubkey: {"key"},
   audit: SUBSET [action: {"deploy", "promote"}, tree_hash: Hashes]]

Consumers ==
  [tool: BOOLEAN,
   config: {{}} \cup {{c} : c \in [compose: Hashes \cup {""}, mrtd: Hashes \cup {""},
                                  rpc: {"allowed", "refused", "failed"}]}]

\* What b looks like when one thing that a leg rests on got lost or is another.
Spoilt(b) ==
  {[b EXCEPT !.platform_quote = {}], [b EXCEPT !.webhost_app_id = ""],
   [b EXCEPT !.zt_cert_ref = ""], [b EXCEPT !.project = ""], [b EXCEPT !.tree_hash = ""],
   [b EXCEPT !.pubkey = ""], [b EXCEPT !.audit = {}]}
  \cup {[b EXCEPT !.tree_hash = t] : t \in Hashes \ {b.tree_hash}}
=============================================================================
