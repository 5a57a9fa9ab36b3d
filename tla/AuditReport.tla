----------------------------- MODULE AuditReport -----------------------------
(***************************************************************************)
(* What makes a finished report acceptable (report_validator.py).  The     *)
(* report repeats its plan, its selection and the records of its           *)
(* execution; every state it declares is derived from them again.          *)
(*                                                                         *)
(* Left out are rules on form only, and digests that repeat what the       *)
(* report holds: a report is what it says.  Its lifecycle log is one that  *)
(* replays, and stands for the state it replays to.                        *)
(***************************************************************************)
EXTENDS ModuleExecution, Lifecycle

CONSTANTS
  Claims,             \* claims of the provenance registry
  ClaimReceipts,      \* its validation receipts
  ClaimOf,            \* ClaimOf[c]: status, gate trace, tainted sources, receipts
  ClaimReceiptOf      \* ClaimReceiptOf[r]: success, sources it covers

ASSUME ClaimsAssumption ==
  \A c \in Claims : ClaimOf[c].trace \subseteq Gates /\ ClaimOf[c].receipts \subseteq ClaimReceipts

KnownTo(report) == Known(report.artifacts, report.receipts)

DerivedFor(report) == Derived(report.plan, report.selection, report.runs, KnownTo(report))

-----------------------------------------------------------------------------
(* validate_claim_trust: a claim over tainted sources needs receipts, and  *)
(* each one it names must be good and cover all of these sources.          *)
ClaimTrusted(c) ==
  ClaimOf[c].tainted # {} =>
    /\ ClaimOf[c].receipts # {}
    /\ \A r \in ClaimOf[c].receipts :
         ClaimReceiptOf[r].good /\ ClaimOf[c].tainted \subseteq ClaimReceiptOf[r].covers

ClaimSupports(c, g) == ClaimOf[c].verified /\ g \in ClaimOf[c].trace /\ ClaimTrusted(c)

ArtifactSupports(artifact, report) ==
  /\ artifact \in report.artifacts
  /\ artifact.taint \in Trusted
  /\ artifact.receipts \cap report.receipts \cap Validated # {}

(* Evidence of a gate that passed; sources never support one directly.     *)
Supports(ref, g, report) ==
  \/ ref.kind = "claim" /\ ref.of \in report.claims /\ ClaimSupports(ref.of, g)
  \/ ref.kind = "receipt" /\ ref.of \in report.receipts \cap Validated
  \/ ref.kind = "artifact" /\ ArtifactSupports(ref.of, report)

EvidenceSupports(report) ==
  \A g \in Gates : report.results[g].state = "pass" =>
    /\ report.results[g].evidence # {}
    /\ \A ref \in report.results[g].evidence : Supports(ref, g, report)

(* The gate results are those the records of the execution give.  Evidence *)
(* counts where it matters, for a gate that passed.                        *)
ResultsDerived(report) ==
  LET derived == DerivedFor(report) IN
  /\ OneRunPerModule(report.runs)
  /\ \A g \in Gates :
       /\ report.results[g].state = derived[g].state
       /\ report.results[g].state = "pass" => report.results[g].evidence = derived[g].evidence

-----------------------------------------------------------------------------
(* Findings.  An item of evidence names a claim or None, says whether it   *)
(* is verified, and whether its text and sources are those of the claim.   *)
NeedsProvenance(finding, item) ==
  finding.priority = "mandatory" \/ finding.status = "verified" \/ item.verified

ItemSupports(item, finding, report) ==
  /\ NeedsProvenance(finding, item) => item.claim # None
  /\ item.claim # None =>
       /\ item.claim \in report.claims
       /\ item.faithful
       /\ finding.status = "verified" \/ item.verified =>
            ClaimOf[item.claim].verified /\ ClaimTrusted(item.claim)
       /\ NeedsProvenance(finding, item) => finding.trace \subseteq ClaimOf[item.claim].trace

FindingsBacked(report) ==
  \A finding \in report.findings :
    /\ finding.trace \subseteq Gates
    /\ \A item \in finding.evidence : ItemSupports(item, finding, report)

-----------------------------------------------------------------------------
(* derive_cycle_status.                                                    *)

ActiveMet(plan, results) ==
  \A g \in Gates :
    /\ plan.states[g] = "active" => results[g].state = "pass"
    /\ plan.states[g] = "inactive" => results[g].state = "not_applicable"

Closed(finding) ==
  \/ finding.disposition = "remediated" /\ finding.status = "verified"
  \/ finding.disposition = "false_positive" /\ finding.status \in {"verified", "contradicted"}

DerivedStatus(plan, results, findings) ==
  IF GatesIn("unknown", plan.states) # {} \/ ~ActiveMet(plan, results) THEN "blocked"
  ELSE IF \E f \in findings : f.priority = "mandatory" /\ ~Closed(f) THEN "partial"
  ELSE "complete"

StatusOf(report) == DerivedStatus(report.plan, report.results, report.findings)

StatusDerived(report) ==
  /\ report.status = StatusOf(report)
  /\ report.lifecycle \in {StatusOf(report)}
                          \cup (IF StatusOf(report) = "complete" THEN {"attested"} ELSE {})

-----------------------------------------------------------------------------
(* What a plan allows a gate to be.                                        *)
ResultsAllowed(report) ==
  \A g \in Gates :
    CASE report.plan.states[g] = "inactive" -> report.results[g].state = "not_applicable"
      [] report.plan.states[g] = "unknown"  -> report.results[g].state = "unknown"
      [] OTHER -> report.results[g].state \in {"pass", "fail", "unknown"}

(* validate_report_semantics without a bundle and a canonical selection:   *)
(* what the MCP tool vheatm_validate_report checks.                        *)
SemanticsValid(report) ==
  /\ ~report.expired
  /\ StatusDerived(report)
  /\ ResultsAllowed(report)
  /\ FindingsBacked(report)
  /\ EvidenceSupports(report)
  /\ ResultsDerived(report)

SelectionCanonical(bundle, report) ==
  /\ MayRoute(bundle, report.plan)
  /\ report.selection = Routed(Contents[bundle], report.plan.states, None)

(* validate_report_file: the plan is for the bundle on disk, and routing   *)
(* it there gives the selection.                                           *)
ReportValid(bundle, report) == SemanticsValid(report) /\ SelectionCanonical(bundle, report)
=============================================================================
