----------------------------- MODULE AuditCycle -----------------------------
(***************************************************************************)
(* One audit cycle as its tools see it: a plan is evaluated for the bundle *)
(* on disk and routed to modules, modules are run by providers in any      *)
(* order and more than once, and a report made of what was obtained is     *)
(* submitted.  Meanwhile the repository may be edited.                     *)
(*                                                                         *)
(* The caller is the agent: it may keep runs of an earlier plan, leave     *)
(* records out of a report, or declare results other than the derived.     *)
(***************************************************************************)
EXTENDS AuditReport

CONSTANTS
  Installed,   \* bundles an audit starts with
  Edited,      \* what they may be edited to
  Activations, \* the states of the gates contexts evaluate to
  Disclosable, \* phases whose instructions are asked for
  Outcomes,    \* what a provider may return
  Instants,    \* when runs may start
  Findings,    \* the findings a report may have
  MaxEdits,    \* bound on the edits of the repository
  MaxRuns      \* bound on the module runs of an audit

ASSUME InstalledAssumption == Installed \cup Edited \subseteq Bundles
ASSUME BoundsAssumption == MaxEdits \in Nat

VARIABLES
  bundle,     \* the bundle root of the repository on disk
  edits,      \* how often it was edited
  plan,       \* the plan in use, or None
  selection,  \* the routed selection in use, or None
  runs,       \* the records run_module returned
  accepted    \* the report that was accepted, with the bundle then, or None

vars == <<bundle, edits, plan, selection, runs, accepted>>

-----------------------------------------------------------------------------
Init ==
  /\ bundle \in Installed
  /\ edits = 0
  /\ plan = None
  /\ selection = None
  /\ runs = {}
  /\ accepted = None

EditRepository ==
  /\ accepted = None
  /\ edits < MaxEdits
  /\ bundle' \in Edited \ {bundle}
  /\ edits' = edits + 1
  /\ UNCHANGED <<plan, selection, runs, accepted>>

(* vheatm-evaluate binds the plan to the bundle on disk; the MCP tool      *)
(* vheatm_evaluate to the manifest only, for which None stands.            *)
EvaluatePlan ==
  /\ accepted = None
  /\ \E states \in Activations, bound \in {bundle, None} :
       plan' = [bundle |-> bound, states |-> states]
  /\ selection' = None
  /\ UNCHANGED <<bundle, edits, runs, accepted>>

(* vheatm-route, vheatm_route: a refused plan leaves no selection.         *)
Route ==
  /\ accepted = None
  /\ plan # None
  /\ MayRoute(bundle, plan)
  /\ \E phase \in Disclosable \cup {None} :
       selection' = Routed(Contents[bundle], plan.states, phase)
  /\ UNCHANGED <<bundle, edits, plan, runs, accepted>>

Artifacts(records) == UNION {r.outputs : r \in records}

(* The inputs a caller may pass are artifacts under names the contract     *)
(* gives.                                                                  *)
Candidates(contract) ==
  {a \in Artifacts(runs) : \E need \in contract.needs : a.output = need.output}

(* run_module with the contract the caller loaded, and inputs and receipts *)
(* it chose.  It raises, and nothing is kept, when the record is not valid.*)
RunModule ==
  /\ accepted = None
  /\ selection # None
  /\ Cardinality(runs) < MaxRuns
  /\ \E entry \in selection.entries, receipts \in SUBSET Receipts,
        outcome \in Outcomes \cup {ProviderError}, at \in Instants :
     \E inputs \in SUBSET Candidates(ContractOf(Contents[bundle], entry.id)) :
       LET contract == ContractOf(Contents[bundle], entry.id)
           run == RunOf(contract, at, inputs, receipts, outcome)
       IN /\ entry.id \in Contents[bundle].listed
          /\ DocumentSound(Contents[bundle], entry.id)
          /\ InstructionsSound(Contents[bundle], entry.id)
          /\ DecisionAgrees(outcome)
          /\ RunGood(run, contract, Known(run.outputs \cup inputs, receipts))
          /\ runs' = runs \cup {run}
  /\ UNCHANGED <<bundle, edits, plan, selection, accepted>>

(* Reports made of records the caller has, with the results they give and  *)
(* some findings.                                                          *)
HonestReports(chosen, used, found) ==
  LET held    == Artifacts(used) \cup UNION {r.inputs : r \in used}
      results == Derived(plan, chosen, used, Known(held, Receipts))
      status(findings) == DerivedStatus(plan, results, findings)
  IN {[plan |-> plan, selection |-> chosen, runs |-> used, artifacts |-> held,
       receipts |-> Receipts, claims |-> Claims, results |-> results, findings |-> findings,
       status |-> status(findings), lifecycle |-> status(findings), expired |-> FALSE] :
        findings \in found}

(* The same, or one that leaves records out, claims a pass, claims to be   *)
(* complete, or is overdue.                                                *)
Variants(report) ==
  {report,
   [report EXCEPT !.status = "complete", !.lifecycle = "complete"],
   [report EXCEPT !.lifecycle = "attested"],
   [report EXCEPT !.expired = TRUE],
   [report EXCEPT !.artifacts = {}],
   [report EXCEPT !.receipts = {}]}
  \cup {[report EXCEPT !.results[g] = [state |-> "pass", evidence |-> {Ref("claim", c)}],
                       !.status = "complete", !.lifecycle = "complete"] :
          g \in Gates, c \in Claims}

(* An accepted report ends the cycle; the caller needs nothing else of it. *)
Accept(report, tool) ==
  /\ accepted' = [report |-> report, bundle |-> bundle, tool |-> tool]
  /\ plan' = None
  /\ selection' = None
  /\ runs' = {}
  /\ UNCHANGED <<bundle, edits>>

(* A selection as it was routed, or one the caller made up of it.          *)
Offered == {selection} \cup {[selection EXCEPT !.entries = @ \ {e}] : e \in selection.entries}

(* The report is accepted when vheatm-validate-report (ReportValid) or the *)
(* MCP tool vheatm_validate_report (SemanticsValid) finds no issue.        *)
SubmitReport ==
  /\ accepted = None
  /\ selection # None
  /\ \E chosen \in Offered, used \in SUBSET runs :
       \E honest \in HonestReports(chosen, used, Findings) : \E report \in Variants(honest) :
         /\ SemanticsValid(report)
         /\ \/ SelectionCanonical(bundle, report) /\ Accept(report, "cli")
            \/ Accept(report, "mcp")

Next ==
  \/ EditRepository
  \/ EvaluatePlan
  \/ Route
  \/ RunModule
  \/ SubmitReport

Spec == Init /\ [][Next]_vars

-----------------------------------------------------------------------------
(* Properties.                                                             *)

(* The shape of each variable; a selection is of a plan bound to a bundle. *)
TypeOK ==
  /\ bundle \in Bundles
  /\ edits \in 0..MaxEdits
  /\ plan # None => plan.bundle \in Bundles \cup {None} /\ plan.states \in Activations
  /\ selection # None => plan.bundle \in Bundles /\ \A entry \in selection.entries : entry.id \in Modules
  /\ \A r \in runs : r.module \in Modules /\ r.receipts \subseteq Receipts
  /\ accepted # None => accepted.bundle \in Bundles /\ accepted.tool \in {"cli", "mcp"}

(* A run that decides gate g of a report, by the bundle it was made for.   *)
Decides(r, g, report, R) ==
  /\ g \in R.documents[r.module].covers
  /\ r.digest = R.documents[r.module].rev
  /\ r.instructions = R.files[r.module].rev
  /\ r.status = "completed"
  /\ g \in r.result.trace
  /\ r.result.state = "pass"
  /\ r.result.evidence # {}
  /\ \A ref \in r.result.evidence : Supports(ref, g, report)

(* What vheatm-validate-report accepts as complete is earned: every gate   *)
(* is decided, each active one by a single module of the bundle on disk,   *)
(* whose run completed with a pass that traces the gate and rests on       *)
(* trusted evidence; and no mandatory finding is left open.                *)
CompleteIsEarned ==
  accepted # None /\ accepted.tool = "cli" /\ accepted.report.status = "complete" =>
    LET report == accepted.report
        R == Contents[accepted.bundle]
    IN /\ GatesIn("unknown", report.plan.states) = {}
       /\ \A g \in GatesIn("active", report.plan.states) :
            \E m \in R.listed :
              /\ \A n \in R.listed : g \in R.documents[n].covers <=> n = m
              /\ \E r \in report.runs : r.module = m /\ Decides(r, g, report, R)
       /\ \A f \in report.findings : f.priority = "mandatory" =>
            f.disposition \in {"remediated", "false_positive"}

(* A record run_module returned is never refused by derive_gate_results,   *)
(* whatever the bundle became in between, if digests still agree: what a   *)
(* selection tells of a module is enough to validate its runs again.       *)
RunsSurviveDerivation ==
  selection # None =>
    \A entry \in selection.entries : \A r \in runs :
      r.module = entry.id /\ r.digest = entry.digest /\ r.instructions = entry.instructions =>
        RunGood(r, SelectedContract(entry), Known(r.outputs \cup r.inputs, Receipts))

(* Under the plan, validate_report_semantics allows every state that       *)
(* derive_gate_results gives a gate: a report of derived states is refused *)
(* for its evidence only.  That its results and its status are the derived *)
(* ones holds by the way it is made.                                       *)
HonestReportsStand ==
  selection # None =>
    \A used \in SUBSET runs :
      \A report \in HonestReports(selection, used, {{}}) :
        OneRunPerModule(used) /\ EvidenceSupports(report) => SemanticsValid(report)

(* A module that the plan asks for by its own gates and policy.            *)
AskedFor(m, R, states) ==
  LET covers == R.documents[m].covers IN
  /\ \E g \in covers : states[g] = "active"
  /\ R.documents[m].policy = "all_active_gates" => \A g \in covers : states[g] = "active"

(* What the plan asks for is selected, and so is all it depends on; no     *)
(* group of modules is selected for one another's sake only, some member   *)
(* is asked for or needed by a module outside the group, so the selection  *)
(* is the least.  In a repository said to be complete an active gate has   *)
(* one module, which is selected unless its policy asks for more gates.    *)
SelectionJustified ==
  selection # None =>
    LET R == Contents[plan.bundle]
        ids == {entry.id : entry \in selection.entries}
    IN /\ \A m \in R.listed : AskedFor(m, R, plan.states) => m \in ids
       /\ \A m \in ids : R.documents[m].deps \subseteq ids
       /\ \A S \in (SUBSET ids) \ {{}} : \E m \in S :
            \/ AskedFor(m, R, plan.states)
            \/ \E n \in ids \ S : m \in R.documents[n].deps
       /\ R.complete => \A g \in GatesIn("active", plan.states) : \E m \in R.listed :
            /\ \A n \in R.listed : g \in R.documents[n].covers <=> n = m
            /\ m \in ids \/ R.documents[m].policy = "all_active_gates"

(* docs/module-system.md: "Routing blocks completion when the plan         *)
(* contains unknown gates, a module remains unresolved, selected modules   *)
(* conflict, or any phase exceeds the derived disclosure budget."          *)
BlockedNotComplete ==
  accepted # None /\ accepted.tool = "cli" /\ accepted.report.status = "complete" =>
    ~CompletionBlocked(accepted.report.selection)

(* SKILL.md calls the MCP tools equivalent to the commands: what           *)
(* vheatm_validate_report accepts, vheatm-validate-report accepts.         *)
ToolsEquivalent ==
  accepted # None /\ accepted.tool = "mcp" => ReportValid(accepted.bundle, accepted.report)
=============================================================================
