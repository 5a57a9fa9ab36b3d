---------------------------- MODULE PlanRevision ----------------------------
(***************************************************************************)
(* Activation plans and their revisions (evaluator.py, activation.py).  A  *)
(* plan is the evaluator's verdict, gate by gate, on an audit context with *)
(* unknowns.  revise_plan merges newly discovered facts into the context   *)
(* of an earlier plan, one key of the amendment after the other, and makes *)
(* a child plan of the result, unless that would lose obligations.         *)
(*                                                                         *)
(* Contexts and amendments are functions on the keys they have.  That an   *)
(* amendment is valid against schemas/audit-context.schema.json, so that   *)
(* facts are numbers and comparisons never mix types, is assumed:          *)
(* revise_plan merges it before anything validates it.  The list of        *)
(* amendments a context may carry is left out.  A plan is known by its     *)
(* place in plans: its digests bind what is recorded here.                 *)
(***************************************************************************)
EXTENDS Integers, Sequences, FiniteSets

CONSTANTS
  Gates,
  Activation,  \* Activation[g]: the expression of gate g, see PartTruth
  Values,      \* Values[f]: what a field f of some expression may turn out to be
  Defaults,    \* mode, target_tier and declarations of the manifest
  Supplied,    \* contexts audits start from
  Amendments,  \* what may be discovered later
  MaxPlans,    \* bound on the number of plans of an audit
  Unknown,     \* "unknown", and the value of a field that is missing
  None

Facts      == {"blast_radius", "write_chain_components"}
Immutable  == {"schema_version", "goal", "decision_owner", "stakeholder", "subject", "scope",
               "audit_stage", "legacy_state", "organization_scope", "execution_profile",
               "audit_intent", "mode", "context_mode", "target_tier"}
RiskFields == {"pii", "multi_tenant", "post_incident"}

(* Reading and updating a context.  (What TLC calls f @@ g and d :> e is    *)
(* opaque to proofs.)                                                      *)

Has(fields, key) == key \in DOMAIN fields

Updated(fields, by) ==
  [key \in DOMAIN fields \cup DOMAIN by |-> IF Has(by, key) THEN by[key] ELSE fields[key]]

With(fields, key, value) == Updated(fields, [k \in {key} |-> value])

(* The part of a context that is itself an object, empty when missing.     *)
Part(ctx, key) == IF Has(ctx, key) THEN ctx[key] ELSE <<>>

Ledger(ctx) == IF Has(ctx, "finding_ledger") THEN ctx["finding_ledger"] ELSE {}

IsV2(ctx) == Has(ctx, "schema_version") /\ ctx["schema_version"] = "2.0.0"

(* A finding is a record of its id and whether it is mandatory and open.   *)
OpenMandatory(ledger) == Cardinality({finding \in ledger : finding.open})

(* A context gives every field that expressions read a value: only         *)
(* declarations may say that something is unknown.                         *)
Known(ctx) ==
  /\ \A field \in DOMAIN ctx \cap (DOMAIN Values \cup {"execution_profile"}) :
       ctx[field] # Unknown
  /\ \A fact \in DOMAIN Part(ctx, "facts") : ctx["facts"][fact] # Unknown
  /\ IsFiniteSet(Ledger(ctx))

(* What the schemas say of contexts, and what a manifest gives defaults to.*)
ContextsValid ==
  \A ctx \in Supplied \cup Amendments :
    /\ Has(ctx, "facts") => DOMAIN ctx["facts"] \subseteq Facts
    /\ IsV2(ctx) => Has(ctx, "organization_scope") /\ Has(ctx, "execution_profile")
    /\ Known(ctx)

ASSUME ContextsAssumption == ContextsValid
ASSUME DefaultsAssumption == DOMAIN Defaults = {"mode", "target_tier", "declarations"}
ASSUME SettingsAssumption == Unknown \notin {Defaults["mode"], Defaults["target_tier"]}
ASSUME UnknownAssumption  == Unknown \notin Nat \cup {"single", "enterprise"}

VARIABLES
  plans,  \* the plans of one audit in the order they were made
  draft   \* the revision being made, or None

vars == <<plans, draft>>

-----------------------------------------------------------------------------
(* The activation language.                                                *)

(* Fields of the context come before declarations.                         *)
Resolved(ctx, field) ==
  IF Has(ctx, field) THEN ctx[field]
  ELSE IF Has(ctx["declarations"], field) THEN ctx["declarations"][field] ELSE Unknown

Both(a, b) == IF "false" \in {a, b} THEN "false"
              ELSE IF {a, b} = {"true"} THEN "true" ELSE "unknown"

(* Mutant: the right operand is not looked at when the left is unknown.    *)
EitherInOrder(a, b) == IF a \in {"true", "unknown"} THEN a ELSE b

Either(a, b) == IF "true" \in {a, b} THEN "true"
                ELSE IF {a, b} = {"false"} THEN "false" ELSE "unknown"

Compared(value, values) == IF value = Unknown THEN "unknown"
                           ELSE IF value \in values THEN "true" ELSE "false"

(* An expression is the sequence of its subexpressions, each after those   *)
(* it is made of.  A comparison stands for the values that satisfy it.     *)
PartTruth(part, truth, ctx) ==
  CASE part.op = "always"  -> "true"
    [] part.op = "compare" -> Compared(Resolved(ctx, part.field), part.values)
    [] part.op = "and"     -> Both(truth[part.left], truth[part.right])
    [] part.op = "or"      -> Either(truth[part.left], truth[part.right])

Truths(expression, ctx) ==
  LET truth[i \in DOMAIN expression] == PartTruth(expression[i], truth, ctx) IN truth

Truth(expression, ctx) == Truths(expression, ctx)[Len(expression)]

(* What the parser makes of an expression of the manifest: a comparison is *)
(* of an allowed field, with values that it may or may not have.           *)
Operands(part) == IF part.op \in {"and", "or"} THEN {part.left, part.right} ELSE {}

Parsed(expression) ==
  /\ Len(expression) \in Nat \ {0}
  /\ DOMAIN expression = 1..Len(expression)
  /\ \A i \in DOMAIN expression :
       /\ expression[i].op \in {"always", "compare", "and", "or"}
       /\ Operands(expression[i]) \subseteq 1..(i - 1)
       /\ expression[i].op = "compare" =>
            /\ expression[i].field \in DOMAIN Values
            /\ Values[expression[i].field] \cap expression[i].values # {}
            /\ Values[expression[i].field] \ expression[i].values # {}

FieldsValid ==
  /\ {"declarations", "facts", "finding_ledger"} \cap DOMAIN Values = {}
  /\ \A field \in DOMAIN Values : Unknown \notin Values[field]

(* The parts that part i is made of, itself included, and what they read.  *)
PartsOf(expression, i) ==
  {j \in DOMAIN expression :
     \A parts \in SUBSET DOMAIN expression :
       (i \in parts /\ \A k \in parts : Operands(expression[k]) \subseteq parts) => j \in parts}

FieldsOf(expression, i) ==
  {expression[j].field : j \in {k \in PartsOf(expression, i) : expression[k].op = "compare"}}

(* The expressions of manifests/vheatm-v17.yaml read no field twice ...    *)
ReadOnce(expression) ==
  \A i \in DOMAIN expression : expression[i].op \in {"and", "or"} =>
    FieldsOf(expression, expression[i].left) \cap FieldsOf(expression, expression[i].right) = {}

(* ... and of what an "and" joins, one compares a setting, in fact mode:   *)
(* a field that has a default and that no revision changes.                *)
Settings == Immutable \cap DOMAIN Defaults

Guarded(expression) ==
  \A i \in DOMAIN expression : expression[i].op = "and" =>
    \E guard \in Operands(expression[i]) :
      expression[guard].op = "compare" /\ expression[guard].field \in Settings

ASSUME FieldsAssumption      == FieldsValid
ASSUME ExpressionsAssumption == \A g \in Gates : Parsed(Activation[g])
ASSUME ManifestAssumption    == \A g \in Gates : ReadOnce(Activation[g]) /\ Guarded(Activation[g])

-----------------------------------------------------------------------------
(* normalize_context and evaluate_manifest.                                *)

ContextMode(scope) == IF scope = "single-team" THEN "single" ELSE "enterprise"

(* What a version 2 context says in other words.                           *)
DerivedFields(ctx) ==
  {field \in {"mode"} : Has(ctx, "execution_profile")} \cup
  {field \in {"context_mode"} : Has(ctx, "organization_scope")} \cup
  {field \in {"mandatory_findings"} : Has(ctx, "finding_ledger")} \cup
  DOMAIN Part(ctx, "facts")

(* Mutant: the ledger is counted on top of what the context says already.  *)
DerivedAdding(ctx) ==
  [field \in DerivedFields(ctx) |->
     CASE field = "mode" -> ctx["execution_profile"]
       [] field = "context_mode" -> ContextMode(ctx["organization_scope"])
       [] field = "mandatory_findings" ->
            OpenMandatory(ctx["finding_ledger"])
            + (IF Has(ctx, field) THEN ctx[field] ELSE 0)
       [] OTHER -> ctx["facts"][field]]

Derived(ctx) ==
  [field \in DerivedFields(ctx) |->
     CASE field = "mode" -> ctx["execution_profile"]
       [] field = "context_mode" -> ContextMode(ctx["organization_scope"])
       [] field = "mandatory_findings" -> OpenMandatory(ctx["finding_ledger"])
       [] OTHER -> ctx["facts"][field]]

Normalized(supplied) ==
  LET declared == Updated(Defaults["declarations"], Part(supplied, "declarations"))
      ctx      == With(Updated(Defaults, supplied), "declarations", declared)
  IN IF IsV2(supplied) THEN Updated(ctx, Derived(supplied)) ELSE ctx

GatesThat(truth, ctx) == {g \in Gates : Truth(Activation[g], ctx) = truth}

PlanFor(supplied, parent) ==
  LET ctx == Normalized(supplied)
  IN [context |-> ctx,
      active  |-> GatesThat("true", ctx),
      unknown |-> GatesThat("unknown", ctx),
      parent  |-> parent]

(* assert_plan_matches: evaluating the plan's own context gives the plan.  *)
Matches(plan) == PlanFor(plan.context, plan.parent) = plan

-----------------------------------------------------------------------------
(* _merge_context.                                                         *)

(* When merging key raises.                                                *)
Refuses(ctx, v2, key, value) ==
  \/ /\ key \in Immutable
     /\ Has(ctx, key) /\ ctx[key] # value
  \/ /\ key = "declarations"
     /\ \E name \in DOMAIN value :
          /\ Has(ctx["declarations"], name)
          /\ ctx["declarations"][name] \notin {Unknown, value[name]}
  \/ /\ key = "facts" /\ v2
     /\ \E fact \in DOMAIN value :
          Has(Part(ctx, "facts"), fact) /\ value[fact] < ctx["facts"][fact]
  \/ /\ key = "facts" /\ ~v2
     /\ \E fact \in DOMAIN value : Has(ctx, fact) /\ value[fact] < ctx[fact]
  \/ /\ key = "finding_ledger" /\ v2
     /\ \E new \in value, old \in value \cup Ledger(ctx) :
          new.id = old.id /\ new # old
  \/ /\ key = "finding_ledger" /\ ~v2
     /\ Has(ctx, "mandatory_findings") /\ OpenMandatory(value) < ctx["mandatory_findings"]
  \/ /\ key \in Facts
     /\ Has(ctx, key) /\ value < ctx[key]
  \/ /\ key \in RiskFields
     /\ Has(ctx, key) /\ ctx[key] \notin {Unknown, value}

(* Mutant: the declarations of the amendment replace those of the plan.    *)
MergedDeclarationsOver(ctx, v2, key, value) ==
  CASE key = "facts" /\ v2 -> With(ctx, key, Updated(Part(ctx, key), value))
    [] key = "facts" /\ ~v2 -> Updated(ctx, value)
    [] key = "finding_ledger" /\ v2 -> With(ctx, key, Ledger(ctx) \cup value)
    [] key = "finding_ledger" /\ ~v2 -> With(ctx, "mandatory_findings", OpenMandatory(value))
    [] OTHER -> With(ctx, key, value)

(* The context once key is merged; any other key is simply replaced.       *)
Merged(ctx, v2, key, value) ==
  CASE key = "declarations" -> With(ctx, key, Updated(ctx[key], value))
    [] key = "facts" /\ v2 -> With(ctx, key, Updated(Part(ctx, key), value))
    [] key = "facts" /\ ~v2 -> Updated(ctx, value)
    [] key = "finding_ledger" /\ v2 -> With(ctx, key, Ledger(ctx) \cup value)
    [] key = "finding_ledger" /\ ~v2 -> With(ctx, "mandatory_findings", OpenMandatory(value))
    [] OTHER -> With(ctx, key, value)

(* After the last key: facts raise the fields they are about, the ledger   *)
(* counts its findings.                                                    *)
Settled(ctx) ==
  LET facts == Part(ctx, "facts")
      raised == [fact \in DOMAIN facts |->
                   IF Has(ctx, fact) /\ ctx[fact] > facts[fact] THEN ctx[fact] ELSE facts[fact]]
      counted == [field \in {f \in {"mandatory_findings"} : Has(ctx, "finding_ledger")} |->
                    OpenMandatory(Ledger(ctx))]
  IN Updated(Updated(ctx, raised), counted)

-----------------------------------------------------------------------------
(* revise_plan.                                                            *)

Init == /\ \E supplied \in Supplied : plans = <<PlanFor(supplied, 0)>>
        /\ draft = None

(* The plan to revise is evaluated again first.                            *)
Revise(parent, amendment) ==
  /\ draft = None
  /\ Len(plans) < MaxPlans
  /\ Matches(plans[parent])
  /\ draft' = [parent  |-> parent,
               context |-> plans[parent].context,
               v2      |-> IsV2(plans[parent].context) \/ IsV2(amendment),
               left    |-> amendment]
  /\ UNCHANGED plans

(* The keys come in the order the amendment lists them, which may be any.  *)
MergeKey(key) ==
  /\ draft # None
  /\ draft' = IF Refuses(draft.context, draft.v2, key, draft.left[key]) THEN None
              ELSE [draft EXCEPT
                      !.context = Merged(@, draft.v2, key, draft.left[key]),
                      !.left = [k \in DOMAIN @ \ {key} |-> @[k]]]
  /\ UNCHANGED plans

(* Mutant: the child plan is not compared with its parent.                 *)
EvaluateAnyway ==
  /\ draft # None
  /\ DOMAIN draft.left = {}
  /\ plans' = Append(plans, PlanFor(Settled(draft.context), draft.parent))
  /\ draft' = None

(* The child plan, refused when an active gate would not be active in it.  *)
Evaluate ==
  /\ draft # None
  /\ DOMAIN draft.left = {}
  /\ LET child == PlanFor(Settled(draft.context), draft.parent)
     IN plans' = IF plans[draft.parent].active \subseteq child.active
                 THEN Append(plans, child) ELSE plans
  /\ draft' = None

Next == \/ \E parent \in DOMAIN plans, amendment \in Amendments : Revise(parent, amendment)
        \/ draft # None /\ \E key \in DOMAIN draft.left : MergeKey(key)
        \/ Evaluate

Spec == Init /\ [][Next]_vars

-----------------------------------------------------------------------------
(* Properties.                                                             *)

(* A gate has one verdict and a plan is revised from an earlier one; a     *)
(* revision in the making holds a context the evaluator can read.          *)
TypeOK ==
  /\ \A i \in DOMAIN plans :
       /\ plans[i].active \subseteq Gates
       /\ plans[i].unknown \subseteq Gates \ plans[i].active
       /\ plans[i].parent \in 0..(i - 1)
       /\ Has(plans[i].context, "declarations")
  /\ draft # None =>
       /\ draft.parent \in DOMAIN plans
       /\ Has(draft.context, "declarations")

(* No plan the evaluator makes is ever refused by assert_plan_matches: a   *)
(* context it has normalised is not changed when it is normalised again.   *)
PlansMatch == \A i \in DOMAIN plans : Matches(plans[i])

(* The ways in which what an expression needs may still turn out.          *)
Completions(expression, ctx) ==
  LET compared == {part \in {expression[i] : i \in DOMAIN expression} : part.op = "compare"}
      missing  == {field \in {part.field : part \in compared} : Resolved(ctx, field) = Unknown}
      found    == {f \in [missing -> UNION {Values[field] : field \in missing}] :
                     \A field \in missing : f[field] \in Values[field]}
  IN {Updated(ctx, f) : f \in found}

(* Verdicts are exact: a gate is active when it is required however the    *)
(* unknowns of the plan's context turn out, inactive when it is not        *)
(* however they turn out, and blocks the audit only when that depends.     *)
VerdictsExact ==
  \A i \in DOMAIN plans, g \in Gates :
    LET outcomes == {Truth(Activation[g], ctx) :
                       ctx \in Completions(Activation[g], plans[i].context)}
    IN /\ g \in plans[i].active <=> outcomes = {"true"}
       /\ g \in plans[i].unknown <=> outcomes = {"true", "false"}

(* Plan q is a revision of plan p, direct or by way of others: every line  *)
(* of plans from q back to an initial plan has p in it.                    *)
RevisionOf(q, p) ==
  /\ p # q
  /\ \A line \in SUBSET DOMAIN plans :
       (q \in line /\ \A i \in line : plans[i].parent \in line \cup {0}) => p \in line

SameVersion(was, is) == IsV2(was) = IsV2(is)

FindingsKept(was, is) == Ledger(was) \subseteq Ledger(is)

AnswersKept(was, is) ==
  \A name \in DOMAIN was["declarations"] :
    was["declarations"][name] # Unknown =>
      /\ Has(is["declarations"], name)
      /\ is["declarations"][name] = was["declarations"][name]

ImmutablesKept(was, is) ==
  \A field \in Immutable : Has(was, field) => Has(is, field) /\ is[field] = was[field]

(* Whatever is amended, in whatever order, a later plan keeps what an      *)
(* earlier one of its line required: the active gates, the findings of the *)
(* ledger, the answers yes and no, and, unless the context was upgraded to *)
(* version 2, the immutable fields.                                        *)
ObligationsKept ==
  \A p, q \in DOMAIN plans : RevisionOf(q, p) =>
    LET was == plans[p].context
        is  == plans[q].context
    IN /\ plans[p].active \subseteq plans[q].active
       /\ FindingsKept(was, is)
       /\ AnswersKept(was, is)
       /\ SameVersion(was, is) => ImmutablesKept(was, is)

(* What is decided stays decided: a revision never makes a gate undecided  *)
(* that was active or inactive, and so never blocks an audit anew.         *)
DecidedStays ==
  \A p, q \in DOMAIN plans :
    RevisionOf(q, p) /\ SameVersion(plans[p].context, plans[q].context) =>
      plans[q].unknown \subseteq plans[p].unknown

(* A discovered fact and the number of mandatory findings are never        *)
(* reduced by a later plan.                                                *)
FactsKept ==
  \A p, q \in DOMAIN plans, field \in Facts \cup {"mandatory_findings"} :
    LET was == plans[p].context
        is  == plans[q].context
    IN RevisionOf(q, p) /\ Has(was, field) => Has(is, field) /\ is[field] >= was[field]

=============================================================================
