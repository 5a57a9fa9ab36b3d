--------------------------- MODULE AuditCycleProofs ---------------------------
(***************************************************************************)
(* What holds of an audit cycle for every repository, plan, provider and   *)
(* order of edits: AuditCycle's properties as theorems.                    *)
(*                                                                         *)
(* A report is judged by what it says, so CompleteIsEarned needs nothing   *)
(* of the history but the step that accepted it.  The two properties of    *)
(* selections and of records rest on IInv: what is in use was made of one  *)
(* bundle of the repository, and is known by the revisions of its files.   *)
(***************************************************************************)
EXTENDS AuditCycle, TLAPS

(* The selection in use is that of the plan in use, for a valid repository.*)
SelectionMade ==
  selection # None =>
    /\ plan.bundle \in Bundles
    /\ RepositoryValid(Contents[plan.bundle])
    /\ selection.entries = {Entry(Contents[plan.bundle], m) :
                              m \in Selected(Contents[plan.bundle], plan.states)}

(* A record was valid by the contract of a module of some bundle, with the *)
(* artifacts it names and receipts there are.                              *)
RunMade(r) ==
  \E b \in Bundles, m \in Modules, receipts \in SUBSET Receipts :
    RunGood(r, ContractOf(Contents[b], m), Known(r.outputs \cup r.inputs, receipts))

RunsMade == \A r \in runs : RunMade(r)

IInv ==
  /\ bundle \in Bundles
  /\ SelectionMade
  /\ RunsMade

-----------------------------------------------------------------------------
(* Routing.                                                                *)

LEMMA SelectedListed ==
  ASSUME NEW R, NEW states
  PROVE  Selected(R, states) \subseteq R.listed
BY DEF Selected

LEMMA ChosenSelected ==
  ASSUME NEW R, NEW states
  PROVE  Chosen(R, states) \subseteq Selected(R, states)
BY DEF Selected, Chosen

(* What is selected is selected with its dependencies.                     *)
LEMMA SelectedClosed ==
  ASSUME NEW R, NEW states, NeighboursKnown(R)
  PROVE  ClosedUnder(R, Selected(R, states))
<1> SUFFICES ASSUME NEW m \in Selected(R, states), NEW n \in R.documents[m].deps
             PROVE  n \in Selected(R, states)
  BY DEF ClosedUnder
<1>1. n \in R.listed
  BY DEF NeighboursKnown, Selected
<1>2. ASSUME NEW S \in SUBSET R.listed, Chosen(R, states) \subseteq S, ClosedUnder(R, S)
      PROVE  n \in S
  <2>1. m \in S
    BY <1>2 DEF Selected
  <2> QED
    BY <1>2, <2>1 DEF ClosedUnder
<1> QED
  BY <1>1, <1>2 DEF Selected

(* No group of modules is selected for one another's sake only: the        *)
(* selection without it would do.                                          *)
LEMMA SelectedLeast ==
  ASSUME NEW R, NEW states, NeighboursKnown(R),
         NEW S \in SUBSET Selected(R, states), S # {}
  PROVE  \E m \in S : \/ m \in Chosen(R, states)
                     \/ \E n \in Selected(R, states) \ S : m \in R.documents[n].deps
<1> DEFINE rest == Selected(R, states) \ S
<1> SUFFICES ASSUME \A m \in S : /\ m \notin Chosen(R, states)
                                 /\ \A n \in rest : m \notin R.documents[n].deps
             PROVE  FALSE
  OBVIOUS
<1>1. rest \in SUBSET R.listed /\ Chosen(R, states) \subseteq rest
  BY SelectedListed, ChosenSelected
<1>2. ClosedUnder(R, rest)
  BY SelectedClosed DEF ClosedUnder
<1>3. \A m \in S : m \in rest
  BY <1>1, <1>2 DEF Selected
<1> QED
  BY <1>3

LEMMA EntryFields ==
  ASSUME NEW R, NEW m
  PROVE  /\ Entry(R, m).id = m
         /\ Entry(R, m).digest = R.documents[m].rev
         /\ Entry(R, m).instructions = R.files[m].rev
         /\ Entry(R, m).makes = R.documents[m].makes
         /\ Entry(R, m).covers = R.documents[m].covers
BY DEF Entry

-----------------------------------------------------------------------------
(* Records.                                                                *)

(* More known artifacts and receipts refuse nothing.                       *)
LEMMA GoodWithMore ==
  ASSUME NEW run, NEW contract, NEW artifacts, NEW receipts, NEW more,
         receipts \subseteq more,
         RunGood(run, contract, Known(artifacts, receipts))
  PROVE  RunGood(run, contract, Known(artifacts, more))
<1> DEFINE k == Known(artifacts, receipts)
           l == Known(artifacts, more)
<1>1. l.artifacts = k.artifacts /\ k.receipts \subseteq l.receipts
  BY DEF Known
<1> HIDE DEF k, l
<1>2. RunGood(run, contract, k)
  BY DEF k
<1>3. ASSUME NEW refs, ReceiptsGood(refs, k) PROVE ReceiptsGood(refs, l)
  BY <1>1, <1>3 DEF ReceiptsGood
<1>4. ASSUME NEW a, ArtifactGood(a, k) PROVE ArtifactGood(a, l)
  BY <1>3, <1>4 DEF ArtifactGood
<1>5. InputsGood(run, contract, k) => InputsGood(run, contract, l)
  BY <1>1, <1>4 DEF InputsGood
<1>6. OutputsGood(run, contract, k) => OutputsGood(run, contract, l)
  BY <1>1, <1>4 DEF OutputsGood
<1>7. ResultGood(run, k) => ResultGood(run, l)
  BY <1>1 DEF ResultGood
<1>8. RunGood(run, contract, l)
  BY <1>2, <1>3, <1>5, <1>6, <1>7 DEF RunGood
<1> QED
  BY <1>8 DEF l

(* A contract that asks for no inputs and is otherwise the same refuses no *)
(* record the whole contract accepts.                                      *)
LEMMA GoodByLess ==
  ASSUME NEW run, NEW contract, NEW less, NEW known,
         RunGood(run, contract, known),
         run.module = less.id, run.digest = less.digest,
         run.instructions = less.instructions,
         less.needs = {}, less.makes = contract.makes
  PROVE  RunGood(run, less, known)
<1>1. InputsGood(run, less, known)
  BY DEF RunGood, InputsGood
<1>2. OutputsGood(run, less, known)
  BY DEF RunGood, OutputsGood
<1> QED
  BY <1>1, <1>2 DEF RunGood

-----------------------------------------------------------------------------
(* The invariant.                                                          *)

LEMMA InitIInv == Init => IInv
BY InstalledAssumption DEF Init, IInv, SelectionMade, RunsMade

(* One way RunModule is taken.                                             *)
Ran(entry, receipts, outcome, at, inputs) ==
  LET contract == ContractOf(Contents[bundle], entry.id)
      run == RunOf(contract, at, inputs, receipts, outcome)
  IN /\ entry.id \in Contents[bundle].listed
     /\ DocumentSound(Contents[bundle], entry.id)
     /\ InstructionsSound(Contents[bundle], entry.id)
     /\ DecisionAgrees(outcome)
     /\ RunGood(run, contract, Known(run.outputs \cup inputs, receipts))
     /\ runs' = runs \cup {run}

LEMMA RunKept ==
  ASSUME IInv, RunModule
  PROVE  RunsMade'
<1>1. PICK entry \in selection.entries, receipts \in SUBSET Receipts,
           outcome \in Outcomes \cup {ProviderError}, at \in Instants :
        \E inputs \in SUBSET Candidates(ContractOf(Contents[bundle], entry.id)) :
          Ran(entry, receipts, outcome, at, inputs)
  BY DEF RunModule, Ran
<1>2. PICK inputs \in SUBSET Candidates(ContractOf(Contents[bundle], entry.id)) :
          Ran(entry, receipts, outcome, at, inputs)
  BY <1>1
<1> DEFINE contract == ContractOf(Contents[bundle], entry.id)
           run == RunOf(contract, at, inputs, receipts, outcome)
<1>3. /\ entry.id \in Contents[bundle].listed
      /\ RunGood(run, contract, Known(run.outputs \cup inputs, receipts))
      /\ runs' = runs \cup {run}
  BY <1>2 DEF Ran
<1>4. run.inputs = inputs
  BY DEF RunOf
<1> HIDE DEF run
<1>5. entry.id \in Modules
  BY <1>3, ContentsAssumption DEF IInv
<1>6. RunGood(run, contract, Known(run.outputs \cup run.inputs, receipts))
  BY <1>3, <1>4 DEF run
<1>7. RunMade(run)
  BY <1>5, <1>6 DEF RunMade, IInv
<1>8. runs' = runs \cup {run}
  BY <1>3 DEF run
<1> QED
  BY <1>7, <1>8 DEF IInv, RunsMade, RunMade

LEMMA NextIInv == IInv /\ [Next]_vars => IInv'
<1> SUFFICES ASSUME IInv, [Next]_vars PROVE IInv'
  OBVIOUS
<1>1. CASE EditRepository
  BY <1>1, InstalledAssumption DEF EditRepository, IInv, SelectionMade, RunsMade, RunMade
<1>2. CASE EvaluatePlan
  BY <1>2 DEF EvaluatePlan, IInv, SelectionMade, RunsMade, RunMade
<1>3. CASE Route
  <2>1. PICK phase \in Disclosable \cup {None} :
          selection' = Routed(Contents[bundle], plan.states, phase)
    BY <1>3 DEF Route
  <2>2. plan.bundle = bundle /\ RepositoryValid(Contents[bundle])
    BY <1>3 DEF Route, MayRoute
  <2>3. selection'.entries = {Entry(Contents[bundle], m) : m \in Selected(Contents[bundle], plan.states)}
    BY <2>1 DEF Routed
  <2> QED
    BY <1>3, <2>2, <2>3 DEF Route, IInv, SelectionMade, RunsMade, RunMade
<1>4. CASE RunModule
  <2>1. UNCHANGED <<bundle, plan, selection>>
    BY <1>4 DEF RunModule
  <2> QED
    BY <1>4, <2>1, RunKept DEF IInv, SelectionMade
<1>5. CASE SubmitReport
  <2>1. UNCHANGED bundle /\ selection' = None /\ runs' = {}
    BY <1>5 DEF SubmitReport, Accept
  <2> QED
    BY <2>1 DEF IInv, SelectionMade, RunsMade
<1>6. CASE UNCHANGED vars
  BY <1>6 DEF vars, IInv, SelectionMade, RunsMade, RunMade
<1> QED
  BY <1>1, <1>2, <1>3, <1>4, <1>5, <1>6 DEF Next

THEOREM IInvHolds == Spec => []IInv
BY InitIInv, NextIInv, PTL DEF Spec

(* Every variable keeps its shape; a selection is only ever in use with a  *)
(* plan that is bound to a bundle.                                         *)
THEOREM TypeCorrect == Spec => []TypeOK
<1>1. Init => TypeOK
  BY InstalledAssumption, BoundsAssumption DEF Init, TypeOK
<1>2. ASSUME IInv, TypeOK, [Next]_vars PROVE TypeOK'
  <2>1. CASE EditRepository
    BY <1>2, <2>1, InstalledAssumption, BoundsAssumption DEF EditRepository, TypeOK
  <2>2. CASE EvaluatePlan
    BY <1>2, <2>2 DEF EvaluatePlan, TypeOK, IInv
  <2>3. CASE Route
    <3>1. plan.bundle = bundle /\ bundle \in Bundles
      BY <1>2, <2>3 DEF Route, MayRoute, IInv
    <3>2. selection'.entries = {Entry(Contents[bundle], m) :
                                  m \in Selected(Contents[bundle], plan.states)}
      BY <2>3 DEF Route, Routed
    <3>3. Selected(Contents[bundle], plan.states) \subseteq Modules
      BY <3>1, SelectedListed, ContentsAssumption
    <3>4. \A entry \in selection'.entries : entry.id \in Modules
      BY <3>2, <3>3, EntryFields
    <3> QED
      BY <1>2, <2>3, <3>1, <3>4 DEF Route, TypeOK
  <2>4. CASE RunModule
    <3>1. PICK entry \in selection.entries, receipts \in SUBSET Receipts :
            \E outcome, at, inputs :
              runs' = runs \cup {RunOf(ContractOf(Contents[bundle], entry.id),
                                       at, inputs, receipts, outcome)}
      BY <2>4 DEF RunModule
    <3>2. entry.id \in Modules
      BY <1>2, <2>4 DEF RunModule, TypeOK
    <3>3. \A outcome, at, inputs :
            LET run == RunOf(ContractOf(Contents[bundle], entry.id), at, inputs, receipts, outcome)
            IN run.module = entry.id /\ run.receipts = receipts
      BY DEF RunOf, ContractOf
    <3>4. PICK run : /\ run.module = entry.id /\ run.receipts = receipts
                     /\ runs' = runs \cup {run}
      BY <3>1, <3>3
    <3> QED
      BY <1>2, <2>4, <3>2, <3>4 DEF RunModule, TypeOK
  <2>5. CASE SubmitReport
    <3>1. /\ \E report : \E tool \in {"cli", "mcp"} :
               accepted' = [report |-> report, bundle |-> bundle, tool |-> tool]
          /\ plan' = None /\ selection' = None /\ runs' = {}
          /\ UNCHANGED <<bundle, edits>>
      BY <2>5 DEF SubmitReport, Accept
    <3> QED
      BY <1>2, <3>1 DEF TypeOK, IInv
  <2>6. CASE UNCHANGED vars
    BY <1>2, <2>6 DEF vars, TypeOK
  <2> QED
    BY <1>2, <2>1, <2>2, <2>3, <2>4, <2>5, <2>6 DEF Next
<1> QED
  BY <1>1, <1>2, IInvHolds, PTL DEF Spec

-----------------------------------------------------------------------------
(* derive_gate_results never refuses a record that run_module returned for *)
(* the same revisions: what a selection tells of a module is enough to     *)
(* validate its runs again, however the repository was edited in between.  *)
LEMMA SurvivesIfMade == IInv => RunsSurviveDerivation
<1> SUFFICES ASSUME IInv, selection # None,
                    NEW entry \in selection.entries, NEW r \in runs,
                    r.module = entry.id, r.digest = entry.digest,
                    r.instructions = entry.instructions
             PROVE  RunGood(r, SelectedContract(entry), Known(r.outputs \cup r.inputs, Receipts))
  BY DEF RunsSurviveDerivation
<1> DEFINE R == Contents[plan.bundle]
<1>1. PICK m \in Selected(R, plan.states) : entry = Entry(R, m)
  BY DEF IInv, SelectionMade
<1>2. PICK b \in Bundles, n \in Modules, receipts \in SUBSET Receipts :
        RunGood(r, ContractOf(Contents[b], n), Known(r.outputs \cup r.inputs, receipts))
  BY DEF IInv, RunsMade, RunMade
<1>3. /\ r.module = n
      /\ r.digest = Contents[b].documents[n].rev
  BY <1>2 DEF RunGood, ContractOf
<1>4. m = n /\ R.documents[m].rev = Contents[b].documents[m].rev
  BY <1>1, <1>3, EntryFields
<1>5. R.documents[m].makes = Contents[b].documents[m].makes
  BY <1>4, RevisionsAssumption DEF IInv, SelectionMade
<1>6. RunGood(r, ContractOf(Contents[b], n), Known(r.outputs \cup r.inputs, Receipts))
  BY <1>2, GoodWithMore
<1> DEFINE less == SelectedContract(entry)
           contract == ContractOf(Contents[b], n)
<1>7. /\ less.id = entry.id /\ less.digest = entry.digest
      /\ less.instructions = entry.instructions
      /\ less.needs = {} /\ less.makes = contract.makes
  BY <1>1, <1>4, <1>5, EntryFields DEF SelectedContract, ContractOf
<1> HIDE DEF less, contract
<1>8. RunGood(r, contract, Known(r.outputs \cup r.inputs, Receipts))
  BY <1>6 DEF contract
<1>9. RunGood(r, less, Known(r.outputs \cup r.inputs, Receipts))
  BY <1>7, <1>8, GoodByLess
<1> QED
  BY <1>9 DEF less

THEOREM RunsAlwaysSurvive == Spec => []RunsSurviveDerivation
BY IInvHolds, SurvivesIfMade, PTL

-----------------------------------------------------------------------------
(* Selected is the least set that has what the plan asks for and is closed *)
(* under dependencies, and a valid repository has one module for a gate.   *)
LEMMA ChosenAsked ==
  ASSUME NEW R, NEW states, NEW m \in R.listed, R.documents[m].covers \subseteq Gates,
         R.documents[m].policy \in {"any_active_gate", "all_active_gates"}
  PROVE  m \in Chosen(R, states) <=> AskedFor(m, R, states)
<1> DEFINE covers == R.documents[m].covers
           active == covers \cap GatesIn("active", states)
<1>1. \A g \in covers : g \in active <=> states[g] = "active"
  BY DEF GatesIn
<1>2. active # {} <=> \E g \in covers : states[g] = "active"
  BY <1>1
<1>3. active = covers <=> \A g \in covers : states[g] = "active"
  BY <1>1
<1> HIDE DEF active
<1>4. m \in Chosen(R, states) <=> IF R.documents[m].policy = "any_active_gate" THEN active # {}
                                  ELSE covers # {} /\ active = covers
  BY DEF Chosen, Satisfied, active
<1> QED
  BY <1>2, <1>3, <1>4 DEF AskedFor

(* In a repository said to be complete each gate has one module.           *)
LEMMA OneOwner ==
  ASSUME NEW R, DocumentsValid(R), R.complete, NEW g \in Gates
  PROVE  \E m \in R.listed : \A n \in R.listed : g \in R.documents[n].covers <=> n = m
<1>1. PICK m \in R.listed : g \in R.documents[m].covers
  BY DEF DocumentsValid, CoverageKept, Covered
<1>2. \A n \in R.listed : g \in R.documents[n].covers => n = m
  BY <1>1 DEF DocumentsValid, OwnedOnce
<1> QED
  BY <1>1, <1>2

LEMMA JustifiedIfMade == IInv => SelectionJustified
<1> SUFFICES ASSUME IInv, selection # None PROVE SelectionJustified
  BY DEF SelectionJustified
<1> DEFINE R == Contents[plan.bundle]
           ids == {entry.id : entry \in selection.entries}
           states == plan.states
<1>1. DocumentsValid(R)
  BY DEF IInv, SelectionMade, RepositoryValid
<1>2. ids = Selected(R, states)
  BY EntryFields DEF IInv, SelectionMade
<1>3. R.listed \subseteq Modules
       /\ \A m \in Modules : R.documents[m].policy \in {"any_active_gate", "all_active_gates"}
  BY ContentsAssumption DEF IInv, SelectionMade
<1> HIDE DEF R, ids, states
<1>4. NeighboursKnown(R) /\ \A m \in R.listed : R.documents[m].covers \subseteq Gates
  BY <1>1 DEF DocumentsValid, PhasesDeclared
<1>5. \A m \in R.listed : m \in Chosen(R, states) <=> AskedFor(m, R, states)
  BY <1>3, <1>4, ChosenAsked
<1>6. \A m \in R.listed : AskedFor(m, R, states) => m \in ids
  BY <1>2, <1>5, ChosenSelected
<1>7. \A m \in ids : R.documents[m].deps \subseteq ids
  BY <1>2, <1>4, SelectedClosed DEF ClosedUnder
<1>8. \A S \in (SUBSET ids) \ {{}} : \E m \in S :
        \/ AskedFor(m, R, states)
        \/ \E n \in ids \ S : m \in R.documents[n].deps
  BY <1>2, <1>4, <1>5, SelectedLeast, SelectedListed
<1>9. ASSUME R.complete, NEW g \in GatesIn("active", states)
      PROVE  \E m \in R.listed :
               /\ \A n \in R.listed : g \in R.documents[n].covers <=> n = m
               /\ m \in ids \/ R.documents[m].policy = "all_active_gates"
  <2>1. g \in Gates /\ states[g] = "active"
    BY DEF GatesIn
  <2>2. PICK m \in R.listed : \A n \in R.listed : g \in R.documents[n].covers <=> n = m
    BY <1>1, <1>9, <2>1, OneOwner
  <2>3. R.documents[m].policy # "all_active_gates" => AskedFor(m, R, states)
    BY <2>1, <2>2 DEF AskedFor
  <2> QED
    BY <1>6, <2>2, <2>3
<1> QED
  BY <1>6, <1>7, <1>8, <1>9 DEF SelectionJustified, R, ids, states

(* The selection in use is the least set of modules that has what the plan *)
(* asks for with all it depends on, and leaves no active gate to no one    *)
(* but by a policy (module_router.py, _route_modules_unchecked).           *)
THEOREM SelectionAlwaysJustified == Spec => []SelectionJustified
BY IInvHolds, JustifiedIfMade, PTL

-----------------------------------------------------------------------------
(* A report the command accepts as complete is earned: its declared states *)
(* are those derived of its own records, and the selection it repeats is   *)
(* the one routing gives for the bundle on disk, in which a gate has one   *)
(* module.                                                                 *)

(* A gate derived as passed and owned by one selected module was decided   *)
(* by a counted run of that module, and rests on its evidence.             *)
LEMMA PassDecided ==
  ASSUME NEW thePlan, NEW chosen, NEW used, NEW known, NEW g \in Gates,
         Derived(thePlan, chosen, used, known)[g].state = "pass"
  PROVE  \E entry \in Owners(chosen, g) : \E r \in Counted(entry, used, known) :
           /\ g \in r.result.trace
           /\ r.result.state = "pass"
           /\ Derived(thePlan, chosen, used, known)[g].evidence = r.result.evidence
<1> DEFINE derived == Derived(thePlan, chosen, used, known)[g]
           deciding == {r \in UNION {Counted(entry, used, known) : entry \in Owners(chosen, g)} :
                          /\ thePlan.states[g] = "active"
                          /\ Cardinality(Owners(chosen, g)) = 1
                          /\ g \in r.result.trace}
           r == CHOOSE r \in deciding : TRUE
<1>1. derived = IF thePlan.states[g] = "inactive" THEN NotApplicable
                ELSE IF deciding = {} THEN Undecided
                ELSE [state |-> r.result.state, evidence |-> r.result.evidence]
  BY DEF Derived
<1>2. derived.state = "pass"
  OBVIOUS
<1> HIDE DEF derived, deciding
<1>3. deciding # {} /\ derived = [state |-> r.result.state, evidence |-> r.result.evidence]
  BY <1>1, <1>2 DEF NotApplicable, Undecided
<1>4. r \in deciding
  BY <1>3
<1>5. r.result.state = "pass" /\ derived.evidence = r.result.evidence
  BY <1>2, <1>3
<1>6. g \in r.result.trace /\ \E entry \in Owners(chosen, g) : r \in Counted(entry, used, known)
  BY <1>4 DEF deciding
<1> QED
  BY <1>5, <1>6 DEF derived

(* What is said of the gates, of one bundle's contents and one report.     *)
GateEarned(report, R, g) ==
  \E m \in R.listed :
    /\ \A n \in R.listed : g \in R.documents[n].covers <=> n = m
    /\ \E r \in report.runs : r.module = m /\ Decides(r, g, report, R)

LEMMA ActiveGateEarned ==
  ASSUME NEW b, NEW report, NEW g \in Gates,
         SemanticsValid(report), SelectionCanonical(b, report),
         report.results[g].state = "pass"
  PROVE  GateEarned(report, Contents[b], g)
<1> DEFINE R == Contents[b]
           known == KnownTo(report)
           derived == Derived(report.plan, report.selection, report.runs, known)
<1>1. OwnedOnce(R)
  BY DEF SelectionCanonical, MayRoute, RepositoryValid, DocumentsValid
<1>2. report.selection.entries = {Entry(R, m) : m \in Selected(R, report.plan.states)}
  BY DEF SelectionCanonical, Routed
<1>3. derived[g].state = "pass" /\ derived[g].evidence = report.results[g].evidence
  BY DEF SemanticsValid, ResultsDerived, DerivedFor
<1>4. /\ report.results[g].evidence # {}
      /\ \A ref \in report.results[g].evidence : Supports(ref, g, report)
  BY DEF SemanticsValid, EvidenceSupports
<1>5. PICK entry \in Owners(report.selection, g) :
        \E r \in Counted(entry, report.runs, known) :
          /\ g \in r.result.trace
          /\ r.result.state = "pass"
          /\ derived[g].evidence = r.result.evidence
  BY <1>3, PassDecided
<1>6. PICK r \in Counted(entry, report.runs, known) :
        /\ g \in r.result.trace
        /\ r.result.state = "pass"
        /\ derived[g].evidence = r.result.evidence
  BY <1>5
<1>7. PICK m \in Selected(R, report.plan.states) : entry = Entry(R, m)
  BY <1>2 DEF Owners
<1>8. m \in R.listed /\ g \in R.documents[m].covers
  BY <1>7, SelectedListed, EntryFields DEF Owners
<1>9. \A n \in R.listed : g \in R.documents[n].covers <=> n = m
  BY <1>1, <1>8 DEF OwnedOnce
<1>10. /\ r \in report.runs /\ r.module = m /\ r.status = "completed"
      /\ RunGood(r, SelectedContract(entry), known)
  BY <1>7, EntryFields DEF Counted
<1>11. r.digest = R.documents[m].rev /\ r.instructions = R.files[m].rev
  BY <1>7, <1>10, EntryFields DEF RunGood, SelectedContract
<1>12. Decides(r, g, report, R)
  BY <1>3, <1>4, <1>6, <1>8, <1>10, <1>11 DEF Decides
<1> QED
  BY <1>8, <1>9, <1>10, <1>12 DEF GateEarned

LEMMA CompleteEarned ==
  ASSUME NEW b, NEW report,
         SemanticsValid(report), SelectionCanonical(b, report), report.status = "complete"
  PROVE  /\ GatesIn("unknown", report.plan.states) = {}
         /\ \A g \in GatesIn("active", report.plan.states) : GateEarned(report, Contents[b], g)
         /\ \A f \in report.findings : f.priority = "mandatory" =>
              f.disposition \in {"remediated", "false_positive"}
<1>1. DerivedStatus(report.plan, report.results, report.findings) = "complete"
  BY DEF SemanticsValid, StatusDerived, StatusOf
<1>2. /\ GatesIn("unknown", report.plan.states) = {}
      /\ ActiveMet(report.plan, report.results)
      /\ ~\E f \in report.findings : f.priority = "mandatory" /\ ~Closed(f)
  BY <1>1 DEF DerivedStatus
<1>3. ASSUME NEW g \in GatesIn("active", report.plan.states)
      PROVE  GateEarned(report, Contents[b], g)
  <2>1. g \in Gates /\ report.results[g].state = "pass"
    BY <1>2, <1>3 DEF GatesIn, ActiveMet
  <2> QED
    BY <2>1, ActiveGateEarned
<1>4. \A f \in report.findings : f.priority = "mandatory" =>
        f.disposition \in {"remediated", "false_positive"}
  BY <1>2 DEF Closed
<1> QED
  BY <1>2, <1>3, <1>4

LEMMA SubmitEarns ==
  ASSUME SubmitReport
  PROVE  CompleteIsEarned'
<1>1. PICK report :
        /\ SemanticsValid(report)
        /\ \/ SelectionCanonical(bundle, report) /\ Accept(report, "cli")
           \/ Accept(report, "mcp")
  BY DEF SubmitReport
<1>2. CASE SelectionCanonical(bundle, report) /\ Accept(report, "cli")
  <2>1. accepted'.report = report /\ accepted'.bundle = bundle
    BY <1>2 DEF Accept
  <2>2. CASE report.status = "complete"
    BY <1>1, <1>2, <2>1, <2>2, CompleteEarned DEF CompleteIsEarned, GateEarned
  <2>3. CASE report.status # "complete"
    BY <2>1, <2>3 DEF CompleteIsEarned
  <2> QED
    BY <2>2, <2>3
<1>3. CASE Accept(report, "mcp")
  BY <1>3 DEF Accept, CompleteIsEarned
<1> QED
  BY <1>1, <1>2, <1>3

THEOREM CompleteAlwaysEarned == Spec => []CompleteIsEarned
<1>1. Init => CompleteIsEarned
  BY DEF Init, CompleteIsEarned
<1>2. CompleteIsEarned /\ [Next]_vars => CompleteIsEarned'
  <2> SUFFICES ASSUME CompleteIsEarned, [Next]_vars PROVE CompleteIsEarned'
    OBVIOUS
  <2>1. CASE SubmitReport
    BY <2>1, SubmitEarns
  <2>2. CASE UNCHANGED accepted
    BY <2>2 DEF CompleteIsEarned
  <2> QED
    BY <2>1, <2>2 DEF Next, vars, EditRepository, EvaluatePlan, Route, RunModule
<1> QED
  BY <1>1, <1>2, PTL DEF Spec

-----------------------------------------------------------------------------
(* A report of derived states, in any plan and of any records, is refused  *)
(* for its evidence or for two runs of one module, never for its states.   *)

(* A derived state is one a plan allows.                                   *)
LEMMA DerivedAllowed ==
  ASSUME NEW thePlan, NEW chosen, NEW used, NEW known, NEW g \in Gates
  PROVE  LET state == Derived(thePlan, chosen, used, known)[g].state
         IN CASE thePlan.states[g] = "inactive" -> state = "not_applicable"
              [] thePlan.states[g] = "unknown"  -> state = "unknown"
              [] OTHER -> state \in {"pass", "fail", "unknown"}
<1> DEFINE derived == Derived(thePlan, chosen, used, known)[g]
           deciding == {r \in UNION {Counted(entry, used, known) : entry \in Owners(chosen, g)} :
                          /\ thePlan.states[g] = "active"
                          /\ Cardinality(Owners(chosen, g)) = 1
                          /\ g \in r.result.trace}
           r == CHOOSE r \in deciding : TRUE
<1>1. derived = IF thePlan.states[g] = "inactive" THEN NotApplicable
                ELSE IF deciding = {} THEN Undecided
                ELSE [state |-> r.result.state, evidence |-> r.result.evidence]
  BY DEF Derived
<1>2. \A d \in deciding : d.result.state \in {"pass", "fail", "unknown"}
  BY DEF Counted, RunGood, ResultGood
<1>3. thePlan.states[g] # "active" => deciding = {}
  OBVIOUS
<1> HIDE DEF derived, deciding
<1>4. deciding # {} => r \in deciding
  OBVIOUS
<1>5. CASE thePlan.states[g] = "inactive"
  BY <1>1, <1>5 DEF NotApplicable, derived
<1>6. CASE thePlan.states[g] # "inactive" /\ deciding = {}
  BY <1>1, <1>6 DEF Undecided, derived
<1>7. CASE thePlan.states[g] # "inactive" /\ deciding # {}
  <2>1. derived.state \in {"pass", "fail", "unknown"}
    BY <1>1, <1>2, <1>4, <1>7
  <2> QED
    BY <1>3, <1>7, <2>1 DEF derived
<1> QED
  BY <1>5, <1>6, <1>7

LEMMA HonestStands ==
  ASSUME NEW chosen, NEW used, NEW report \in HonestReports(chosen, used, {{}}),
         OneRunPerModule(used), EvidenceSupports(report)
  PROVE  SemanticsValid(report)
<1> DEFINE held == Artifacts(used) \cup UNION {r.inputs : r \in used}
           known == Known(held, Receipts)
           results == Derived(plan, chosen, used, known)
           status == DerivedStatus(plan, results, {})
<1>1. /\ report.plan = plan /\ report.selection = chosen /\ report.runs = used
      /\ report.artifacts = held /\ report.receipts = Receipts
      /\ report.results = results /\ report.findings = {}
      /\ report.status = status /\ report.lifecycle = status /\ report.expired = FALSE
  BY DEF HonestReports
<1>2. DerivedFor(report) = results
  BY <1>1 DEF DerivedFor, KnownTo
<1> HIDE DEF held, known, status
<1>3. StatusDerived(report)
  BY <1>1 DEF StatusDerived, StatusOf, status
<1>4. ResultsAllowed(report)
  BY <1>1, DerivedAllowed DEF ResultsAllowed
<1>5. FindingsBacked(report)
  BY <1>1 DEF FindingsBacked
<1>6. ResultsDerived(report)
  BY <1>1, <1>2 DEF ResultsDerived
<1> QED
  BY <1>1, <1>3, <1>4, <1>5, <1>6 DEF SemanticsValid

THEOREM HonestReportsAlwaysStand == Spec => []HonestReportsStand
<1>1. HonestReportsStand
  BY HonestStands DEF HonestReportsStand
<1> QED
  BY <1>1, PTL
=============================================================================
