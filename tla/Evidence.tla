------------------------------ MODULE Evidence ------------------------------
(***************************************************************************)
(* How the evidence of an attested project is put together and read while  *)
(* handlers work on the project: the verification endpoint (ingress.py,    *)
(* _api_verification) beside the handlers of Lifecycle, and the consumers  *)
(* of Verifier.  The endpoint loads the record, waits for dstack twice and *)
(* reads the audit log last, so a bundle mixes two moments.  The command   *)
(* line reads the project's status before, in a request of its own.        *)
(*                                                                         *)
(* One verification is followed from its first request to its report.  Or  *)
(* a consumer is handed bundles, by whomever (verify_from_bundle): that has *)
(* nothing to do with the handlers, and is let happen before any.          *)
(***************************************************************************)
EXTENDS Lifecycle, Verifier

\* What hashes a tree is not the empty string, which stands for a hash that is missing.
ASSUME HashesAssumption == "" \notin Code

VARIABLES
  check,     \* the verification in progress, if any
  report,    \* what came of it, once it is over
  consumer   \* one that has been handed bundles instead, if any

evidence == <<check, report, consumer>>

\* calm: no handler was at work on the project, or had been cut short, when it was read.
Check ==
  [p: Projects, by: {"library", "cli"}, at: {"looked", "quoting", "keying"},
   project: SUBSET Modes, loc: SUBSET Record, quoted: BOOLEAN, calm: BOOLEAN]

-----------------------------------------------------------------------------
(* The bundle *)

\* GetQuote, asked with a path alone, commits to no report_data.
PlatformQuote(answered) ==
  IF answered THEN {[quote |-> "genuine", report_data |-> {}, compose |-> "", mrtd |-> ""]}
              ELSE {}

\* build_app_binding(), when promote() asked for it: what was quoted then.
AppBinding(p, t) ==
  [app_id |-> "app", name |-> p, tree_hash |-> t, app_pubkey |-> "key",
   quoted |-> AppReportData("app", p, t, "key")]

\* The detail of a teardown is no JSON, and tells no tree.
Shown(a) == [action |-> a.act, tree_hash |-> IF a.act = "teardown" THEN "" ELSE a.tree]

\* Mutant of Trail: the newest entry only.
TrailsEnd(p) == {Shown(ledger[p][i]) : i \in DOMAIN ledger[p] \cap {Len(ledger[p])}}

\* The audit log as it is by now.
Trail(p) == {Shown(ledger[p][i]) : i \in DOMAIN ledger[p]}

\* Mutant of AttestationKind: attested stands for bound.
AttestationKindOfMode(r) == IF r.mode = "attested" THEN "daemon-vouched" ELSE ""

AttestationKind(r) == IF r.bound = {} THEN "" ELSE "daemon-vouched"

\* The record as it was loaded.  Chain and channel are not declared.
Bundle(c, r, key) ==
  [platform_quote |-> PlatformQuote(c.quoted),
   webhost_app_id |-> "app",
   attestation_kind |-> AttestationKind(r),
   onchain |-> [chain_id |-> NotAnchored, allowed_compose_hash |-> ""],
   zt_cert_ref |-> "",
   project |-> c.p, tree_hash |-> r.tree, pubkey |-> key,
   binding |-> {AppBinding(c.p, t) : t \in r.bound},
   audit |-> Trail(c.p)]

-----------------------------------------------------------------------------
(* The requests *)

Idle == check = {} /\ report = {} /\ consumer = {}
Attested(p) == {r \in store[p] : r.mode = "attested"}

\* The project's status also tells whether its record names a repository with a commit,
\* and a ref.
Reports(c, data) ==
  /\ check' = {}
  /\ \E source, ref \in BOOLEAN :
       LET project == {[mode |-> m, source |-> source, ref |-> ref] : m \in c.project}
       IN  report' = {[p |-> c.p, by |-> c.by, calm |-> c.calm, project |-> project, data |-> data,
                       status |-> InstanceStatus({ProjectStatus(project, data)})]}

\* The status endpoint answers anybody about an attested project, and holders of a
\* token about others, of which the command line has no more to ask.
CliLooks(p, token) ==
  /\ up /\ Idle
  /\ LET c == [p |-> p, by |-> "cli", at |-> "looked", loc |-> {}, quoted |-> FALSE,
               project |-> {r.mode : r \in IF token THEN store[p] ELSE Attested(p)},
               calm |-> Settled(p)]
     IN  IF c.project = {"dev"} THEN Reports(c, {}) ELSE check' = {c} /\ UNCHANGED report
  /\ UNCHANGED <<vars, consumer>>

\* The verification endpoint loads the record.
CliAsks(c) ==
  /\ up /\ c.at = "looked"
  /\ IF Attested(c.p) = {} THEN Reports(c, {})
     ELSE /\ check' = {[c EXCEPT !.at = "quoting", !.loc = Attested(c.p),
                                 !.calm = @ /\ Settled(c.p)]}
          /\ UNCHANGED report
  /\ UNCHANGED <<vars, consumer>>

LibraryAsks(p) ==
  /\ up /\ Idle
  /\ Attested(p) # {}
  /\ check' = {[p |-> p, by |-> "library", at |-> "quoting", project |-> {},
                loc |-> Attested(p), quoted |-> FALSE, calm |-> Settled(p)]}
  /\ UNCHANGED <<vars, report, consumer>>

\* GetQuote answers, or fails, which only leaves the quote out.
Quoted(c, answered) ==
  /\ c.at = "quoting"
  /\ check' = {[c EXCEPT !.at = "keying", !.quoted = answered]}
  /\ UNCHANGED <<vars, report, consumer>>

\* So does GetKey, of which the bundle has the public key; the audit log is read and
\* the bundle sent.
Keyed(c, key) ==
  /\ c.at = "keying"
  /\ Reports(c, {Bundle(c, r, key) : r \in c.loc})
  /\ UNCHANGED <<vars, consumer>>

\* A consumer with a configuration of its own.
Handed(e) ==
  /\ Idle
  /\ requests = 0 /\ faults = 0 /\ \A p \in Projects : store[p] = {}
  /\ consumer' = {e}
  /\ UNCHANGED <<vars, check, report>>

-----------------------------------------------------------------------------
EvidenceInit == Init /\ check = {} /\ report = {} /\ consumer = {}

\* With the daemon's process ends a request that it was answering.  What comes after
\* the report is left out.
Handlers ==
  /\ report = {} /\ consumer = {}
  /\ Next
  /\ check' = IF up /\ ~up' THEN {} ELSE check
  /\ UNCHANGED <<report, consumer>>

EvidenceNext ==
  \/ Handlers
  \/ \E p \in Projects, token \in BOOLEAN : CliLooks(p, token)
  \/ \E p \in Projects : LibraryAsks(p)
  \/ \E c \in check : CliAsks(c)
  \/ \E c \in check, answered \in BOOLEAN : Quoted(c, answered)
  \/ \E c \in check, key \in {"", "key"} : Keyed(c, key)
  \/ \E e \in Consumers : Handed(e)

EvidenceSpec == EvidenceInit /\ [][EvidenceNext]_<<vars, evidence>>

-----------------------------------------------------------------------------
(* Properties *)

\* The types of a verification (verify/bundle.py:33-74); only attested records
\* are loaded, and a bundle is of the project it was asked of.
EvidenceTypeOK ==
  /\ \A c \in check :
       c \in Check /\ (c.at = "looked" <=> c.loc = {}) /\ \A r \in c.loc : r.mode = "attested"
  /\ \A x \in report : \A b \in x.data : b.project = x.p /\ b.tree_hash \in Code

\* A bundle that says of what kind its attestation is passes the verification of its
\* binding, and the binding is for the project and the tree that its source names:
\* whatever is promoted and deployed while it is put together (ingress.py:1128-1149,
\* evidence.py:152-171).
BundleBindsItsSource ==
  \A x \in report : \A b \in x.data : b.attestation_kind # "" =>
    /\ BindingVerified(b)
    /\ \A k \in b.binding : k.name = b.project /\ k.tree_hash = b.tree_hash

\* The bundle of a project nobody was at work on when it was asked for names a tree that
\* its audit log tells, and a promotion if it is bound, although the log is read after
\* the record and others may write meanwhile (ingress.py:1151-1156, facts.py:470-485).
CalmBundleIsTold ==
  \A x \in report : \A b \in x.data : x.calm =>
    /\ AllowlistPolicy(b, AuditedTrees(b))
    /\ b.binding # {} => ~NoPromote(b)

\* No leg "could stop checking without anyone noticing" (facts.py:249-252): a bundle
\* without errors has some as soon as its quote, app id, channel, project, key, trail or
\* tree is missing, or another tree is claimed, for consumers with and without a config.
\* Nor can the daemon silence one: what it declares of its chain makes no difference to
\* the strict policy (facts.py:398-422, 488-570).
NoLegFallsSilent ==
  \A e \in consumer : \A b \in Bundles :
    /\ IsValid(b, e) => \A c \in Spoilt(b) : ~IsValid(c, e)
    /\ StrictPolicy(b, e, Base) =
         StrictPolicy([b EXCEPT !.onchain = [chain_id |-> NotAnchored, allowed_compose_hash |-> ""]],
                      e, Base)

-----------------------------------------------------------------------------
(* What the documentation says, and the code does not keep *)

\* "The existing proxy/verify.py CLI works against an attested project without --token"
\* (rfcs/0015-public-verification-endpoints.md:43): it does not fail a project that was
\* promoted in peace, names its source, and whose bundle is complete.
CliWorks ==
  \A x \in report : \A b \in x.data :
    x.by = "cli" /\ x.calm /\ MetadataStatus(x.project) = "pass"
      /\ b.binding # {} /\ b.platform_quote # {} /\ b.pubkey # ""
    => x.status # "fail"
=============================================================================
