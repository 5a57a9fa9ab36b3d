--------------------------- MODULE ModuleExecution ---------------------------
(***************************************************************************)
(* Module runs and their artifacts, and the gate states derived from them  *)
(* (execution.py).  run_module calls a provider and keeps its outcome only *)
(* if validate_module_run accepts the record made of it;                   *)
(* derive_gate_results later validates each record of a report once more,  *)
(* against what the selection says of the module.                          *)
(*                                                                         *)
(* Records are known by content: an artifact is its own id, and the id of  *)
(* a run is what _module_run_identity covers of it, which is neither its   *)
(* outputs nor its result.                                                 *)
(***************************************************************************)
EXTENDS ModuleRouter

CONSTANTS
  Receipts,   \* validation receipts of module executions
  Validated   \* those with result "validated"

ASSUME ReceiptsAssumption == Validated \subseteq Receipts

(* Evidence of a result: a claim, a source, a receipt or an artifact.      *)
Ref(kind, of) == [kind |-> kind, of |-> of]

RefsOf(kind, refs) == {ref.of : ref \in {r \in refs : r.kind = kind}}

Trusted == {"validated", "human_approved"}

-----------------------------------------------------------------------------
Identity(run) ==
  [module |-> run.module, digest |-> run.digest, instructions |-> run.instructions,
   status |-> run.status, at |-> run.at, inputs |-> run.inputs, receipts |-> run.receipts]

(* What a caller has at hand when it validates a run.                      *)
Known(artifacts, receipts) == [artifacts |-> artifacts, receipts |-> receipts]

ReceiptsGood(refs, known) == refs \subseteq known.receipts \cap Validated

ArtifactGood(artifact, known) ==
  /\ artifact.taint \in Trusted => artifact.receipts # {}
  /\ ReceiptsGood(artifact.receipts, known)

Outputs(run, output) == {a \in run.outputs : a.output = output}

(* Of two inputs under one name the one with the last hash is looked at.   *)
InputsGood(run, contract, known) ==
  /\ \A need \in contract.needs :
       LET found == {a \in run.inputs : a.output = need.output}
       IN IF found = {} THEN ~need.required
          ELSE (CHOOSE a \in found : TRUE).schema = need.schema
  /\ run.inputs \subseteq known.artifacts
  /\ \A a \in run.inputs : ArtifactGood(a, known)

OutputsGood(run, contract, known) ==
  /\ run.outputs \subseteq known.artifacts
  /\ \A a \in run.outputs :
       /\ ArtifactGood(a, known)
       /\ a.run = Identity(run)
       /\ \E out \in contract.makes : out.output = a.output /\ out.schema = a.schema
  /\ \A out \in contract.makes :
       /\ out.single => Cardinality(Outputs(run, out.output)) <= 1
       /\ out.required /\ run.status = "completed" => Outputs(run, out.output) # {}

(* Mutant: a result is taken at its word.                                  *)
AnyResult(run, known) ==
  LET result == run.result IN
  /\ result.trace # {}
  /\ \E a \in run.outputs : Outputs(run, "module_decision") = {a} /\ a.payload = result

ResultGood(run, known) ==
  LET result == run.result IN
  /\ result.trace # {}
  /\ result.state \in {"pass", "fail", "unknown"}
  /\ \E a \in run.outputs : Outputs(run, "module_decision") = {a} /\ a.payload = result
  /\ result.state = "pass" =>
       /\ result.evidence # {}
       /\ run.receipts # {}
       /\ RefsOf("artifact", result.evidence) \subseteq known.artifacts

(* validate_module_run.                                                    *)
RunGood(run, contract, known) ==
  /\ run.module = contract.id
  /\ run.digest = contract.digest
  /\ run.instructions = contract.instructions
  /\ ReceiptsGood(run.receipts, known)
  /\ InputsGood(run, contract, known)
  /\ OutputsGood(run, contract, known)
  /\ run.status = "completed" => ResultGood(run, known)

-----------------------------------------------------------------------------
(* run_module.                                                             *)

(* The contract of a document, and what is left of it in a selection.      *)
ContractOf(R, m) ==
  [id |-> m, digest |-> R.documents[m].rev, instructions |-> R.documents[m].instructions,
   needs |-> R.documents[m].needs, makes |-> R.documents[m].makes]

SelectedContract(entry) ==
  [id |-> entry.id, digest |-> entry.digest, instructions |-> entry.instructions,
   needs |-> {}, makes |-> entry.makes]

(* The provider raised: a failure to retry.                                *)
ProviderError == [status |-> "failed", result |-> None, outputs |-> {}]

(* The record run_module makes of a provider's outcome before it validates *)
(* it.  Artifacts carry the receipts of the run unless told otherwise.     *)
RunOf(contract, at, inputs, receipts, outcome) ==
  LET begun == [module |-> contract.id, digest |-> contract.digest,
                instructions |-> contract.instructions, status |-> outcome.status,
                at |-> at, inputs |-> inputs, receipts |-> receipts]
      done  == outcome.status = "completed"
      result == IF done
                THEN [state |-> outcome.result.state, trace |-> outcome.result.trace,
                      evidence |-> outcome.result.evidence \cup
                        (IF outcome.result.citesInputs
                         THEN {Ref("artifact", a) : a \in inputs} ELSE {})]
                ELSE None
      envelope(out) == [run |-> begun, output |-> out.output, schema |-> out.schema,
                        payload |-> IF out.output = "module_decision" THEN result ELSE None,
                        taint |-> out.taint,
                        receipts |-> IF out.receipts = None THEN receipts ELSE out.receipts]
  IN [module |-> begun.module, digest |-> begun.digest, instructions |-> begun.instructions,
      status |-> begun.status, at |-> at, inputs |-> inputs, receipts |-> receipts,
      result |-> result,
      outputs |-> IF done THEN {envelope(out) : out \in outcome.outputs} ELSE {}]

(* A decision must be the result; only then is a record made at all.       *)
DecisionAgrees(outcome) ==
  \A out \in outcome.outputs : out.output = "module_decision" => out.agrees

-----------------------------------------------------------------------------
(* derive_gate_results.                                                    *)

OneRunPerModule(runs) == \A r, s \in runs : r.module = s.module => r = s

Owners(selection, g) == {entry \in selection.entries : g \in entry.covers}

(* The runs that count for a selected module.                              *)
Counted(entry, runs, known) ==
  {r \in runs : r.module = entry.id /\ r.status = "completed"
                /\ RunGood(r, SelectedContract(entry), known)}

NotApplicable == [state |-> "not_applicable", evidence |-> {}]
Undecided     == [state |-> "unknown", evidence |-> {}]

(* Mutant: a result counts for every gate its module covers.               *)
DerivedUntraced(plan, selection, runs, known) ==
  [g \in Gates |->
     IF plan.states[g] = "inactive" THEN NotApplicable
     ELSE LET deciding ==
                {r \in UNION {Counted(entry, runs, known) : entry \in Owners(selection, g)} :
                   plan.states[g] = "active" /\ Cardinality(Owners(selection, g)) = 1}
          IN IF deciding = {} THEN Undecided
             ELSE LET result == (CHOOSE r \in deciding : TRUE).result
                  IN [state |-> result.state, evidence |-> result.evidence]]

Derived(plan, selection, runs, known) ==
  [g \in Gates |->
     IF plan.states[g] = "inactive" THEN NotApplicable
     ELSE LET deciding ==
                {r \in UNION {Counted(entry, runs, known) : entry \in Owners(selection, g)} :
                   /\ plan.states[g] = "active"
                   /\ Cardinality(Owners(selection, g)) = 1
                   /\ g \in r.result.trace}
          IN IF deciding = {} THEN Undecided
             ELSE LET result == (CHOOSE r \in deciding : TRUE).result
                  IN [state |-> result.state, evidence |-> result.evidence]]
=============================================================================
