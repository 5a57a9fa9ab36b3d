--------------------------- MODULE MCPlanRevision ---------------------------
(***************************************************************************)
(* Instances of PlanRevision: the gates of manifests/vheatm-v17.yaml with  *)
(* a condition (one of each kind of them), contexts of both versions, and  *)
(* amendments that agree with them, conflict with them, or say the same    *)
(* thing in another place of the context.                                  *)
(***************************************************************************)
EXTENDS PlanRevision, TLC

CONSTANTS HG_P, HG_AS, HG_FL, HG_ORG, HG_HV, HG_AD, HG_CPT, HG_IJ, yes, no

MCGates == {HG_P, HG_AS, HG_FL, HG_ORG, HG_HV, HG_AD, HG_CPT, HG_IJ}

Always == [op |-> "always"]
Compare(field, values) == [op |-> "compare", field |-> field, values |-> values]
And(left, right) == [op |-> "and", left |-> left, right |-> right]
Or(left, right)  == [op |-> "or", left |-> left, right |-> right]

Thorough == Compare("mode", {"standard", "full"})
Answered(name) == Compare(name, {yes})

(* Numbers are cut off at 4.                                               *)
MCActivation ==
  HG_P   :> <<Always>> @@
  HG_AS  :> <<Thorough>> @@
  HG_FL  :> <<Thorough, Answered("safety_critical"), Compare("blast_radius", {3, 4}),
              Or(2, 3), And(1, 4)>> @@
  HG_ORG :> <<Compare("context_mode", {"enterprise"}), Thorough, And(1, 2)>> @@
  HG_HV  :> <<Compare("mandatory_findings", 1..4)>> @@
  HG_AD  :> <<Answered("ai_executor"), Thorough, And(1, 2)>> @@
  HG_CPT :> <<Compare("write_chain_components", {3, 4}), Answered("financial_path"),
              Answered("async_worker"), Or(1, 2), Or(4, 3)>> @@
  HG_IJ  :> <<Compare("target_tier", {3}), Answered("self_audit"), Answered("async_worker"),
              Or(1, 2), Or(4, 3)>>

Names == {"self_audit", "ai_executor", "async_worker", "safety_critical", "financial_path"}

MCValues ==
  [field \in {"mode", "context_mode", "target_tier", "mandatory_findings",
             "blast_radius", "write_chain_components"} \cup Names |->
     CASE field = "mode"         -> {"fast", "standard", "full"}
       [] field = "context_mode" -> {"single", "enterprise"}
       [] field = "target_tier"  -> 1..3
       [] field \in Names        -> {yes, no}
       [] OTHER                  -> 0..4]

MCDefaults == [mode |-> "standard", target_tier |-> 2,
               declarations |-> [name \in Names |-> Unknown]]

Finding(id, open) == [id |-> id, open |-> open]

(* A version 1 context, one without a version, and version 2 contexts      *)
(* whose facts are given once or in both places.                           *)
V1 == [schema_version |-> "1.0.0", mode |-> "fast", context_mode |-> "single",
       blast_radius |-> 1, mandatory_findings |-> 2,
       declarations |-> [async_worker |-> no, ai_executor |-> yes]]
Bare == [write_chain_components |-> 1, pii |-> Unknown]
V2 == [schema_version |-> "2.0.0", execution_profile |-> "standard",
       organization_scope |-> "multi-team", pii |-> no,
       declarations |-> [safety_critical |-> no, self_audit |-> no],
       finding_ledger |-> {Finding("F1", TRUE)},
       facts |-> [blast_radius |-> 1]]
V2Twice == [schema_version |-> "2.0.0", execution_profile |-> "full",
            organization_scope |-> "single-team", pii |-> Unknown,
            declarations |-> [async_worker |-> no], finding_ledger |-> {},
            facts |-> <<>>, blast_radius |-> 4]

MCSupplied == {V1, Bare, V2, V2Twice}

MCAmendments ==
  {[blast_radius |-> 3],
   [facts |-> [blast_radius |-> 2]],
   [facts |-> [blast_radius |-> 4, write_chain_components |-> 3], blast_radius |-> 1],
   [declarations |-> [async_worker |-> yes]],
   [declarations |-> [async_worker |-> no, safety_critical |-> yes], pii |-> yes],
   [finding_ledger |-> {Finding("F1", TRUE), Finding("F2", TRUE)}],
   [finding_ledger |-> {Finding("F1", FALSE), Finding("F3", FALSE)}, mandatory_findings |-> 1],
   [mandatory_findings |-> 1],
   [mode |-> "standard", context_mode |-> "enterprise"],
   [schema_version |-> "2.0.0", execution_profile |-> "full",
    organization_scope |-> "single-team", facts |-> [blast_radius |-> 1]]}

=============================================================================
