------------------------- MODULE PlanRevisionProofs -------------------------
(***************************************************************************)
(* Proofs about PlanRevision for any gates, contexts and amendments.       *)
(***************************************************************************)
EXTENDS PlanRevision, SequenceTheorems, FiniteSetTheorems, WellFoundedInduction, TLAPS

-----------------------------------------------------------------------------
(* The truth of an expression.                                            *)

(* A set of numbers has a least one; the libraries' induction theorems     *)
(* cannot be instantiated, this one is used in their place.                *)
LEMMA LeastExists ==
  ASSUME NEW S \in SUBSET Nat, S # {}
  PROVE  \E m \in S : \A k \in S : m <= k
<1> DEFINE below == {0..k : k \in S}
<1>1. below \subseteq FiniteSubsetsOf(Nat)
  <2>1. \A k \in S : IsFiniteSet(0..k)
    BY FS_Interval
  <2>2. QED
    BY <2>1 DEF FiniteSubsetsOf
<1>2. PICK least \in below : \A other \in below : <<other, least>> \notin StrictSubsetOrdering(Nat)
  <2>1. below # {}
    OBVIOUS
  <2>2. QED
    BY <1>1, <2>1, FS_StrictSubsetOrderingWellFounded, WFMin
<1>3. PICK m \in S : least = 0..m
  OBVIOUS
<1>4. ASSUME NEW k \in S, k < m PROVE FALSE
  <2>1. 0..k \subseteq 0..m /\ 0..k # 0..m
    <3>1. m \in 0..m /\ m \notin 0..k
      BY <1>4
    <3>2. 0..k \subseteq 0..m
      BY <1>4
    <3>3. QED
      BY <3>1, <3>2
  <2>2. <<0..k, least>> \in StrictSubsetOrdering(Nat)
    BY <1>3, <2>1 DEF StrictSubsetOrdering
  <2>3. QED
    BY <1>2, <2>2
<1>5. QED
  BY <1>4

(* What holds of an expression's part when it holds of the parts before it *)
(* holds of all its parts.                                                 *)
LEMMA PartsInduction ==
  ASSUME NEW n \in Nat, NEW S, \A i \in 1..n : 1..(i - 1) \subseteq S => i \in S
  PROVE  1..n \subseteq S
<1> SUFFICES ASSUME (1..n) \ S # {} PROVE FALSE
  OBVIOUS
<1>1. PICK m \in (1..n) \ S : \A k \in (1..n) \ S : m <= k
  <2>1. (1..n) \ S \in SUBSET Nat
    OBVIOUS
  <2>2. QED
    BY <2>1, LeastExists
<1>2. 1..(m - 1) \subseteq S
  BY <1>1
<1>3. QED
  BY <1>1, <1>2

(* The truth of a part depends on its operands' only.                      *)
LEMMA PartTruthLocal ==
  ASSUME NEW part, part.op \in {"always", "compare", "and", "or"},
         NEW one, NEW other, \A k \in Operands(part) : one[k] = other[k], NEW ctx
  PROVE  PartTruth(part, one, ctx) = PartTruth(part, other, ctx)
<1>1. CASE part.op \in {"and", "or"}
  BY <1>1 DEF PartTruth, Operands
<1>2. CASE part.op \in {"always", "compare"}
  BY <1>2 DEF PartTruth
<1>3. QED
  BY <1>1, <1>2

(* There are truths of the parts of an expression up to any of them.       *)
LEMMA TruthsExist ==
  ASSUME NEW expression, Parsed(expression), NEW ctx
  PROVE  \E truth : truth = [i \in DOMAIN expression |-> PartTruth(expression[i], truth, ctx)]
<1> DEFINE n == Len(expression)
           S == {k \in 0..n : \E truth : truth = [i \in 1..k |-> PartTruth(expression[i], truth, ctx)]}
<1>0. n \in Nat /\ n # 0 /\ DOMAIN expression = 1..n
  BY DEF Parsed
<1>1. 0 \in S
  <2>1. \E truth : truth = [i \in 1..0 |-> PartTruth(expression[i], truth, ctx)]
    <3>1. PICK truth : truth = [i \in 1..0 |-> "true"]
      OBVIOUS
    <3>2. truth = [i \in 1..0 |-> PartTruth(expression[i], truth, ctx)]
      BY <3>1
    <3>3. QED
      BY <3>2
  <2>2. 0 \in 0..n
    BY <1>0
  <2>3. QED
    BY <2>1, <2>2
<1>2. ASSUME NEW k \in 1..n, k - 1 \in S PROVE k \in S
  <2>1. PICK f : f = [i \in 1..(k - 1) |-> PartTruth(expression[i], f, ctx)]
    BY <1>2
  <2>2. PICK truth : truth = [i \in 1..k |-> PartTruth(expression[i], f, ctx)]
    OBVIOUS
  <2>3. \A i \in 1..(k - 1) : truth[i] = f[i]
    BY <1>0, <2>1, <2>2
  <2>4. ASSUME NEW i \in 1..k
        PROVE  PartTruth(expression[i], f, ctx) = PartTruth(expression[i], truth, ctx)
    <3>1. /\ expression[i].op \in {"always", "compare", "and", "or"}
          /\ Operands(expression[i]) \subseteq 1..(i - 1)
      BY <1>0 DEF Parsed
    <3>2. \A j \in Operands(expression[i]) : f[j] = truth[j]
      BY <1>0, <2>3, <3>1
    <3>3. QED
      BY <3>1, <3>2, PartTruthLocal
  <2>5. truth = [i \in 1..k |-> PartTruth(expression[i], truth, ctx)]
    BY <2>2, <2>4
  <2>6. QED
    BY <1>0, <2>5
<1>3. 1..n \subseteq S
  <2>1. ASSUME NEW i \in 1..n, 1..(i - 1) \subseteq S PROVE i \in S
    <3>1. i - 1 \in S
      BY <1>0, <1>1, <2>1
    <3>2. QED
      BY <1>2, <3>1
  <2> HIDE DEF S, n
  <2>2. QED
    BY <1>0, <2>1, PartsInduction
<1>4. n \in S
  BY <1>0, <1>3
<1>5. QED
  BY <1>0, <1>4

(* The recursive definition says what it looks like.                       *)
LEMMA TruthsDef ==
  ASSUME NEW expression, Parsed(expression), NEW ctx,
         NEW truth, truth = Truths(expression, ctx)
  PROVE  truth = [i \in DOMAIN expression |-> PartTruth(expression[i], truth, ctx)]
BY TruthsExist DEF Truths

Verdicts == {"true", "false", "unknown"}

LEMMA TruthOf ==
  ASSUME NEW expression, Parsed(expression), NEW ctx,
         NEW truth, truth = Truths(expression, ctx),
         NEW i \in DOMAIN expression, NEW part, part = expression[i]
  PROVE  /\ part.op = "always"  => truth[i] = "true"
         /\ part.op = "compare" => truth[i] = Compared(Resolved(ctx, part.field), part.values)
         /\ part.op = "and"     => truth[i] = Both(truth[part.left], truth[part.right])
         /\ part.op = "or"      => truth[i] = Either(truth[part.left], truth[part.right])
         /\ truth[i] \in Verdicts
<1>1. truth[i] = PartTruth(part, truth, ctx)
  <2>1. truth = [k \in DOMAIN expression |-> PartTruth(expression[k], truth, ctx)]
    BY TruthsDef
  <2>2. QED
    BY <2>1
<1>2. part.op \in {"always", "compare", "and", "or"}
  BY DEF Parsed
<1>3. /\ part.op = "always"  => truth[i] = "true"
      /\ part.op = "compare" => truth[i] = Compared(Resolved(ctx, part.field), part.values)
      /\ part.op = "and"     => truth[i] = Both(truth[part.left], truth[part.right])
      /\ part.op = "or"      => truth[i] = Either(truth[part.left], truth[part.right])
  BY <1>1 DEF PartTruth
<1>4. truth[i] \in Verdicts
  BY <1>2, <1>3 DEF Compared, Both, Either, Verdicts
<1>5. QED
  BY <1>3, <1>4

(* What a part reads is read by the parts made of it.                      *)
LEMMA FieldsBelow ==
  ASSUME NEW expression, Parsed(expression), NEW i \in DOMAIN expression,
         NEW part, part = expression[i]
  PROVE  /\ part.op = "compare" => part.field \in FieldsOf(expression, i)
         /\ \A k \in Operands(part) :
              k \in DOMAIN expression /\ FieldsOf(expression, k) \subseteq FieldsOf(expression, i)
<1>1. i \in PartsOf(expression, i)
  BY DEF PartsOf
<1>2. ASSUME NEW k \in Operands(part)
      PROVE  k \in DOMAIN expression /\ PartsOf(expression, k) \subseteq PartsOf(expression, i)
  <2>1. k \in DOMAIN expression
    BY <1>2 DEF Parsed
  <2>2. QED
    BY <1>2, <2>1 DEF PartsOf
<1>3. QED
  BY <1>1, <1>2 DEF FieldsOf

(* The truth of a part depends on the fields it reads, and on no others.   *)
LEMMA TruthReads ==
  ASSUME NEW expression, Parsed(expression), NEW one, NEW other, NEW i \in DOMAIN expression,
         \A field \in FieldsOf(expression, i) : Resolved(one, field) = Resolved(other, field)
  PROVE  Truths(expression, one)[i] = Truths(expression, other)[i]
<1> DEFINE n == Len(expression)
           Agree(k) == \A field \in FieldsOf(expression, k) :
                         Resolved(one, field) = Resolved(other, field)
           S == {k \in 1..n : Agree(k) =>
                   Truths(expression, one)[k] = Truths(expression, other)[k]}
<1>0. n \in Nat /\ DOMAIN expression = 1..n
  BY DEF Parsed
<1>1. PICK ofOne : ofOne = Truths(expression, one)
  OBVIOUS
<1>2. PICK ofOther : ofOther = Truths(expression, other)
  OBVIOUS
<1>3. ASSUME NEW k \in 1..n, 1..(k - 1) \subseteq S PROVE k \in S
  <2> SUFFICES ASSUME Agree(k) PROVE ofOne[k] = ofOther[k]
    BY <1>1, <1>2
  <2>0. PICK part : part = expression[k]
    OBVIOUS
  <2>1. part.op \in {"always", "compare", "and", "or"} /\ Operands(part) \subseteq 1..(k - 1)
    BY <1>0, <2>0 DEF Parsed
  <2>2. ASSUME NEW j \in Operands(part) PROVE ofOne[j] = ofOther[j]
    <3>1. Agree(j)
      BY <1>0, <2>0, <2>2, FieldsBelow
    <3>2. j \in S
      BY <1>3, <2>1
    <3>3. QED
      BY <1>1, <1>2, <3>1, <3>2
  <2>3. CASE part.op = "always"
    BY <1>0, <1>1, <1>2, <2>0, <2>3, TruthOf
  <2>4. CASE part.op = "compare"
    <3>1. Resolved(one, part.field) = Resolved(other, part.field)
      BY <1>0, <2>0, <2>4, FieldsBelow
    <3>2. QED
      BY <1>0, <1>1, <1>2, <2>0, <2>4, <3>1, TruthOf
  <2>5. CASE part.op \in {"and", "or"}
    <3>1. ofOne[part.left] = ofOther[part.left] /\ ofOne[part.right] = ofOther[part.right]
      BY <2>2, <2>5 DEF Operands
    <3>2. QED
      BY <1>0, <1>1, <1>2, <2>0, <2>5, <3>1, TruthOf
  <2>6. QED
    BY <2>1, <2>3, <2>4, <2>5
<1>4. 1..n \subseteq S
  <2> HIDE DEF S, n
  <2>1. QED
    BY <1>0, <1>3, PartsInduction
<1>5. QED
  BY <1>0, <1>4

-----------------------------------------------------------------------------
(* Completions.                                                            *)

ComparedFields(expression) ==
  {expression[i].field : i \in {k \in DOMAIN expression : expression[k].op = "compare"}}

Missing(expression, ctx) ==
  {field \in ComparedFields(expression) : Resolved(ctx, field) = Unknown}

Answers(expression, ctx) ==
  {f \in [Missing(expression, ctx) -> UNION {Values[field] : field \in Missing(expression, ctx)}] :
     \A field \in Missing(expression, ctx) : f[field] \in Values[field]}

LEMMA CompletionsDef ==
  ASSUME NEW expression, NEW ctx
  PROVE  Completions(expression, ctx) = {Updated(ctx, f) : f \in Answers(expression, ctx)}
<1> DEFINE compared == {part \in {expression[i] : i \in DOMAIN expression} : part.op = "compare"}
           missing  == {field \in {part.field : part \in compared} : Resolved(ctx, field) = Unknown}
<1>1. {part.field : part \in compared} = ComparedFields(expression)
  BY DEF ComparedFields
<1>2. missing = Missing(expression, ctx)
  BY <1>1 DEF Missing
<1>3. QED
  BY <1>2 DEF Completions, Answers

LEMMA AnswersFields ==
  ASSUME NEW expression, Parsed(expression), NEW ctx
  PROVE  /\ Missing(expression, ctx) \subseteq DOMAIN Values \ {"declarations"}
         /\ \A field \in Missing(expression, ctx) : Values[field] # {}
         /\ \A f : f \in Answers(expression, ctx) <=>
              /\ f \in [Missing(expression, ctx) ->
                          UNION {Values[field] : field \in Missing(expression, ctx)}]
              /\ \A field \in Missing(expression, ctx) : f[field] \in Values[field]
<1>1. \A field \in ComparedFields(expression) :
        field \in DOMAIN Values /\ Values[field] # {}
  BY DEF ComparedFields, Parsed
<1>2. QED
  BY <1>1, FieldsAssumption DEF Missing, Answers, FieldsValid

(* Choosing an answer for what is missing, field by field.                 *)
LEMMA AnswersExist ==
  ASSUME NEW expression, Parsed(expression), NEW ctx,
         NEW f, DOMAIN f = Missing(expression, ctx), f = [field \in DOMAIN f |-> f[field]],
         \A field \in Missing(expression, ctx) : f[field] \in Values[field]
  PROVE  f \in Answers(expression, ctx)
<1>1. \A field \in Missing(expression, ctx) :
        f[field] \in UNION {Values[k] : k \in Missing(expression, ctx)}
  OBVIOUS
<1>2. f \in [Missing(expression, ctx) -> UNION {Values[k] : k \in Missing(expression, ctx)}]
  BY <1>1
<1>3. QED
  BY <1>2 DEF Answers

LEMMA Completed ==
  ASSUME NEW expression, Parsed(expression), NEW ctx, Has(ctx, "declarations"),
         NEW f \in Answers(expression, ctx), NEW full, full = Updated(ctx, f)
  PROVE  \A field \in ComparedFields(expression) :
           /\ field \in Missing(expression, ctx) =>
                /\ Resolved(full, field) = f[field]
                /\ f[field] \in Values[field]
           /\ field \notin Missing(expression, ctx) =>
                Resolved(full, field) = Resolved(ctx, field)
           /\ Resolved(full, field) # Unknown
<1> SUFFICES ASSUME NEW field \in ComparedFields(expression)
             PROVE  /\ field \in Missing(expression, ctx) =>
                         /\ Resolved(full, field) = f[field]
                         /\ f[field] \in Values[field]
                    /\ field \notin Missing(expression, ctx) =>
                         Resolved(full, field) = Resolved(ctx, field)
                    /\ Resolved(full, field) # Unknown
  OBVIOUS
<1>1. DOMAIN f = Missing(expression, ctx) /\ \A k \in DOMAIN f : f[k] \in Values[k]
  BY DEF Answers
<1>2. /\ DOMAIN full = DOMAIN ctx \cup DOMAIN f
      /\ \A k \in DOMAIN f : full[k] = f[k]
      /\ \A k \in DOMAIN ctx \ DOMAIN f : full[k] = ctx[k]
  BY DEF Updated, Has
<1>3. "declarations" \notin DOMAIN f
  BY <1>1, AnswersFields
<1>4. full["declarations"] = ctx["declarations"]
  BY <1>2, <1>3 DEF Has
<1>5. CASE field \in Missing(expression, ctx)
  <2>1. Resolved(full, field) = f[field]
    BY <1>1, <1>2, <1>5 DEF Resolved, Has
  <2>2. f[field] \in Values[field] /\ field \in DOMAIN Values
    BY <1>1, <1>5, AnswersFields
  <2>3. QED
    BY <1>5, <2>1, <2>2, FieldsAssumption DEF FieldsValid
<1>6. CASE field \notin Missing(expression, ctx)
  <2>1. Resolved(full, field) = Resolved(ctx, field)
    BY <1>1, <1>2, <1>4, <1>6 DEF Resolved, Has
  <2>2. QED
    BY <1>6, <2>1 DEF Missing
<1>7. QED
  BY <1>5, <1>6

(* An unknown field may turn out to be any of its values ...               *)
LEMMA CompletionWith ==
  ASSUME NEW expression, Parsed(expression), NEW ctx, Has(ctx, "declarations"),
         NEW field \in Missing(expression, ctx), NEW value \in Values[field]
  PROVE  \E full \in Completions(expression, ctx) : Resolved(full, field) = value
<1>1. PICK f : f = [k \in Missing(expression, ctx) |->
                      IF k = field THEN value ELSE CHOOSE v \in Values[k] : TRUE]
  OBVIOUS
<1>2. \A k \in Missing(expression, ctx) : f[k] \in Values[k]
  BY <1>1, AnswersFields
<1>3. DOMAIN f = Missing(expression, ctx) /\ f = [k \in DOMAIN f |-> f[k]]
  BY <1>1
<1>4. f \in Answers(expression, ctx)
  BY <1>2, <1>3, AnswersExist
<1>5. PICK full : full = Updated(ctx, f)
  OBVIOUS
<1>6. field \in ComparedFields(expression)
  BY DEF Missing
<1>7. Resolved(full, field) = value
  BY <1>1, <1>4, <1>5, <1>6, Completed
<1>8. QED
  BY <1>4, <1>5, <1>7, CompletionsDef

(* ... and the unknown fields turn out independently of each other.        *)
Mixes(expression, full, one, other, fields) ==
  \A field \in ComparedFields(expression) :
    /\ field \in fields => Resolved(full, field) = Resolved(one, field)
    /\ field \notin fields => Resolved(full, field) = Resolved(other, field)

LEMMA CompletionsMix ==
  ASSUME NEW expression, Parsed(expression), NEW ctx, Has(ctx, "declarations"),
         NEW one \in Completions(expression, ctx), NEW other \in Completions(expression, ctx),
         NEW fields
  PROVE  \E full \in Completions(expression, ctx) : Mixes(expression, full, one, other, fields)
<1>1. PICK f \in Answers(expression, ctx) : one = Updated(ctx, f)
  BY CompletionsDef
<1>2. PICK g \in Answers(expression, ctx) : other = Updated(ctx, g)
  BY CompletionsDef
<1>3. PICK h : h = [k \in Missing(expression, ctx) |-> IF k \in fields THEN f[k] ELSE g[k]]
  OBVIOUS
<1>4. h \in Answers(expression, ctx)
  <2>1. \A k \in Missing(expression, ctx) : h[k] \in Values[k]
    BY <1>3 DEF Answers
  <2>2. DOMAIN h = Missing(expression, ctx) /\ h = [k \in DOMAIN h |-> h[k]]
    BY <1>3
  <2>3. QED
    BY <2>1, <2>2, AnswersExist
<1>5. PICK full : full = Updated(ctx, h)
  OBVIOUS
<1>6. ASSUME NEW field \in ComparedFields(expression)
      PROVE  /\ field \in fields => Resolved(full, field) = Resolved(one, field)
             /\ field \notin fields => Resolved(full, field) = Resolved(other, field)
  <2>1. CASE field \in Missing(expression, ctx)
    <3>1. /\ Resolved(one, field) = f[field] /\ Resolved(other, field) = g[field]
          /\ Resolved(full, field) = h[field]
      BY <1>1, <1>2, <1>4, <1>5, <2>1, Completed
    <3>2. QED
      BY <1>3, <2>1, <3>1
  <2>2. CASE field \notin Missing(expression, ctx)
    <3>1. /\ Resolved(one, field) = Resolved(ctx, field)
          /\ Resolved(other, field) = Resolved(ctx, field)
          /\ Resolved(full, field) = Resolved(ctx, field)
      BY <1>1, <1>2, <1>4, <1>5, <2>2, Completed
    <3>2. QED
      BY <3>1
  <2>3. QED
    BY <2>1, <2>2
<1>7. QED
  BY <1>4, <1>5, <1>6, CompletionsDef DEF Mixes

LEMMA CompletionExists ==
  ASSUME NEW expression, Parsed(expression), NEW ctx
  PROVE  Completions(expression, ctx) # {}
<1>1. PICK f : f = [k \in Missing(expression, ctx) |-> CHOOSE v \in Values[k] : TRUE]
  OBVIOUS
<1>2. \A k \in Missing(expression, ctx) : f[k] \in Values[k]
  BY <1>1, AnswersFields
<1>3. DOMAIN f = Missing(expression, ctx) /\ f = [k \in DOMAIN f |-> f[k]]
  BY <1>1
<1>4. f \in Answers(expression, ctx)
  BY <1>2, <1>3, AnswersExist
<1>5. QED
  BY <1>4, CompletionsDef

(* What is decided does not depend on what is missing, and when nothing is *)
(* missing everything is decided.                                          *)
LEMMA CompletedTruth ==
  ASSUME NEW expression, Parsed(expression), NEW ctx, Has(ctx, "declarations"),
         NEW full \in Completions(expression, ctx), NEW i \in DOMAIN expression
  PROVE  /\ Truths(expression, full)[i] \in {"true", "false"}
         /\ Truths(expression, ctx)[i] # "unknown" =>
              Truths(expression, full)[i] = Truths(expression, ctx)[i]
<1>1. PICK before : before = Truths(expression, ctx)
  OBVIOUS
<1>2. PICK after : after = Truths(expression, full)
  OBVIOUS
<1> DEFINE n == Len(expression)
           S == {k \in 1..n : /\ after[k] \in {"true", "false"}
                              /\ before[k] # "unknown" => after[k] = before[k]}
<1>0. n \in Nat /\ DOMAIN expression = 1..n
  BY DEF Parsed
<1>3. PICK f \in Answers(expression, ctx) : full = Updated(ctx, f)
  BY CompletionsDef
<1>4. ASSUME NEW k \in 1..n, 1..(k - 1) \subseteq S PROVE k \in S
  <2>0. PICK part : part = expression[k]
    OBVIOUS
  <2>1. part.op \in {"always", "compare", "and", "or"} /\ Operands(part) \subseteq 1..(k - 1)
    BY <1>0, <2>0 DEF Parsed
  <2>2. CASE part.op = "always"
    BY <1>0, <1>1, <1>2, <2>0, <2>2, TruthOf
  <2>3. CASE part.op = "compare"
    <3>1. part.field \in ComparedFields(expression)
      BY <1>0, <2>0, <2>3 DEF ComparedFields
    <3>2. /\ Resolved(full, part.field) # Unknown
          /\ Resolved(ctx, part.field) # Unknown =>
               Resolved(full, part.field) = Resolved(ctx, part.field)
      BY <1>3, <3>1, Completed DEF Missing
    <3>3. /\ before[k] = Compared(Resolved(ctx, part.field), part.values)
          /\ after[k] = Compared(Resolved(full, part.field), part.values)
      BY <1>0, <1>1, <1>2, <2>0, <2>3, TruthOf
    <3>4. QED
      BY <3>2, <3>3 DEF Compared
  <2>4. CASE part.op \in {"and", "or"}
    <3>1. part.left \in S /\ part.right \in S
      BY <1>4, <2>1, <2>4 DEF Operands
    <3>2. /\ part.op = "and" => /\ before[k] = Both(before[part.left], before[part.right])
                                /\ after[k] = Both(after[part.left], after[part.right])
          /\ part.op = "or" => /\ before[k] = Either(before[part.left], before[part.right])
                               /\ after[k] = Either(after[part.left], after[part.right])
      BY <1>0, <1>1, <1>2, <2>0, TruthOf
    <3>3. CASE part.op = "and"
      BY <3>1, <3>2, <3>3 DEF Both
    <3>4. CASE part.op = "or"
      BY <3>1, <3>2, <3>4 DEF Either
    <3>5. QED
      BY <2>4, <3>3, <3>4
  <2>5. QED
    BY <2>1, <2>2, <2>3, <2>4
<1>5. 1..n \subseteq S
  <2> HIDE DEF S, n
  <2>1. QED
    BY <1>0, <1>4, PartsInduction
<1>6. QED
  BY <1>0, <1>1, <1>2, <1>5

(* Operands that read nothing in common turn out independently.            *)
MayBe(expression, ctx, i, truth) ==
  \E full \in Completions(expression, ctx) : Truths(expression, full)[i] = truth

MayBoth(expression, ctx, left, u, right, v) ==
  \E full \in Completions(expression, ctx) :
    Truths(expression, full)[left] = u /\ Truths(expression, full)[right] = v

LEMMA Independent ==
  ASSUME NEW expression, Parsed(expression), NEW ctx, Has(ctx, "declarations"),
         NEW left \in DOMAIN expression, NEW right \in DOMAIN expression,
         FieldsOf(expression, left) \cap FieldsOf(expression, right) = {},
         NEW u, MayBe(expression, ctx, left, u), NEW v, MayBe(expression, ctx, right, v)
  PROVE  MayBoth(expression, ctx, left, u, right, v)
<1>1. PICK one \in Completions(expression, ctx) : Truths(expression, one)[left] = u
  BY DEF MayBe
<1>2. PICK other \in Completions(expression, ctx) : Truths(expression, other)[right] = v
  BY DEF MayBe
<1>3. PICK fields : fields = FieldsOf(expression, left)
  OBVIOUS
<1>4. PICK full \in Completions(expression, ctx) : Mixes(expression, full, one, other, fields)
  BY CompletionsMix
<1>5. \A j : FieldsOf(expression, j) \subseteq ComparedFields(expression)
  BY DEF FieldsOf, PartsOf, ComparedFields
<1>6. Truths(expression, full)[left] = Truths(expression, one)[left]
  <2>1. \A field \in FieldsOf(expression, left) : Resolved(full, field) = Resolved(one, field)
    BY <1>3, <1>4, <1>5 DEF Mixes
  <2>2. QED
    BY <2>1, TruthReads
<1>7. Truths(expression, full)[right] = Truths(expression, other)[right]
  <2>1. \A field \in FieldsOf(expression, right) : Resolved(full, field) = Resolved(other, field)
    BY <1>3, <1>4, <1>5 DEF Mixes
  <2>2. QED
    BY <2>1, TruthReads
<1>8. QED
  BY <1>1, <1>2, <1>6, <1>7 DEF MayBoth

(* What is undecided can turn out either way, when the operands of "and"   *)
(* and "or" read nothing in common.                                        *)
LEMMA UndecidedOpen ==
  ASSUME NEW expression, Parsed(expression), ReadOnce(expression),
         NEW ctx, Has(ctx, "declarations"),
         NEW i \in DOMAIN expression, Truths(expression, ctx)[i] = "unknown"
  PROVE  MayBe(expression, ctx, i, "true") /\ MayBe(expression, ctx, i, "false")
<1>1. PICK before : before = Truths(expression, ctx)
  OBVIOUS
<1> DEFINE n == Len(expression)
           May(k, t) == MayBe(expression, ctx, k, t)
           S == {k \in 1..n : before[k] = "unknown" => May(k, "true") /\ May(k, "false")}
<1>0. n \in Nat /\ DOMAIN expression = 1..n
  BY DEF Parsed
<1>2. ASSUME NEW k \in 1..n, 1..(k - 1) \subseteq S PROVE k \in S
  <2> SUFFICES ASSUME before[k] = "unknown", NEW t \in {"true", "false"} PROVE May(k, t)
    OBVIOUS
  <2>0. PICK part : part = expression[k]
    OBVIOUS
  <2>1. part.op \in {"always", "compare", "and", "or"} /\ Operands(part) \subseteq 1..(k - 1)
    BY <1>0, <2>0 DEF Parsed
  <2>2. CASE part.op = "always"
    BY <1>0, <1>1, <2>0, <2>2, TruthOf
  <2>3. CASE part.op = "compare"
    <3>1. before[k] = Compared(Resolved(ctx, part.field), part.values)
      BY <1>0, <1>1, <2>0, <2>3, TruthOf
    <3>2. part.field \in Missing(expression, ctx)
      <4>1. Resolved(ctx, part.field) = Unknown
        BY <3>1 DEF Compared
      <4>2. part.field \in ComparedFields(expression)
        BY <1>0, <2>0, <2>3 DEF ComparedFields
      <4>3. QED
        BY <4>1, <4>2 DEF Missing
    <3>3. PICK value \in Values[part.field] : value \in part.values <=> t = "true"
      BY <1>0, <2>0, <2>3 DEF Parsed
    <3>4. PICK full \in Completions(expression, ctx) : Resolved(full, part.field) = value
      BY <3>2, CompletionWith
    <3>5. Truths(expression, full)[k] = Compared(value, part.values)
      BY <1>0, <2>0, <2>3, <3>4, TruthOf
    <3>6. value # Unknown
      <4>1. part.field \in DOMAIN Values
        BY <3>2, AnswersFields
      <4>2. QED
        BY <4>1, FieldsAssumption DEF FieldsValid
    <3>7. Truths(expression, full)[k] = t
      BY <3>3, <3>5, <3>6 DEF Compared
    <3>8. QED
      BY <3>4, <3>7 DEF MayBe
  <2>4. CASE part.op \in {"and", "or"}
    <3>1. /\ part.left \in S /\ part.right \in S
          /\ part.left \in DOMAIN expression /\ part.right \in DOMAIN expression
      BY <1>0, <1>2, <2>1, <2>4 DEF Operands
    <3>2. before[part.left] \in Verdicts /\ before[part.right] \in Verdicts
      BY <1>1, <3>1, TruthOf
    <3>3. ASSUME NEW j \in {part.left, part.right}, NEW u \in {"true", "false"},
                 before[j] \in {u, "unknown"}
          PROVE  May(j, u)
      <4>1. CASE before[j] = "unknown"
        BY <3>1, <3>3, <4>1
      <4>2. CASE before[j] = u
        <5>1. PICK full \in Completions(expression, ctx) : TRUE
          BY CompletionExists
        <5>2. Truths(expression, full)[j] = u
          BY <1>1, <3>1, <3>3, <4>2, <5>1, CompletedTruth
        <5>3. QED
          BY <5>1, <5>2 DEF MayBe
      <4>3. QED
        BY <3>3, <4>1, <4>2
    <3>5. \A full : LET after == Truths(expression, full) IN
            /\ part.op = "and" => after[k] = Both(after[part.left], after[part.right])
            /\ part.op = "or" => after[k] = Either(after[part.left], after[part.right])
      BY <1>0, <2>0, TruthOf
    <3>6. \E u \in {"true", "false"}, v \in {"true", "false"} :
            /\ before[part.left] \in {u, "unknown"} /\ before[part.right] \in {v, "unknown"}
            /\ part.op = "and" => Both(u, v) = t
            /\ part.op = "or" => Either(u, v) = t
      <4>1. /\ part.op = "and" => before[k] = Both(before[part.left], before[part.right])
            /\ part.op = "or" => before[k] = Either(before[part.left], before[part.right])
        BY <1>0, <1>1, <2>0, TruthOf
      <4>2. CASE part.op = "and"
        BY <3>2, <4>1, <4>2 DEF Both, Verdicts
      <4>3. CASE part.op = "or"
        BY <3>2, <4>1, <4>3 DEF Either, Verdicts
      <4>4. QED
        BY <2>4, <4>2, <4>3
    <3>7. PICK u \in {"true", "false"}, v \in {"true", "false"} :
            /\ before[part.left] \in {u, "unknown"} /\ before[part.right] \in {v, "unknown"}
            /\ part.op = "and" => Both(u, v) = t
            /\ part.op = "or" => Either(u, v) = t
      BY <3>6
    <3>8. PICK full \in Completions(expression, ctx) :
            Truths(expression, full)[part.left] = u /\ Truths(expression, full)[part.right] = v
      <4>1. FieldsOf(expression, part.left) \cap FieldsOf(expression, part.right) = {}
        BY <1>0, <2>0, <2>4 DEF ReadOnce
      <4>2. MayBe(expression, ctx, part.left, u) /\ MayBe(expression, ctx, part.right, v)
        BY <3>3, <3>7
      <4>3. QED
        BY <3>1, <4>1, <4>2, Independent DEF MayBoth
    <3>9. Truths(expression, full)[k] = t
      BY <2>4, <3>5, <3>7, <3>8
    <3>10. QED
      BY <3>8, <3>9 DEF MayBe
  <2>5. QED
    BY <2>1, <2>2, <2>3, <2>4
<1>3. 1..n \subseteq S
  <2> HIDE DEF S, n
  <2>1. QED
    BY <1>0, <1>2, PartsInduction
<1>4. QED
  BY <1>0, <1>1, <1>3

(* The verdict on an expression is "true" when it is true however things   *)
(* turn out, "unknown" when that depends.                                  *)
LEMMA TruthExact ==
  ASSUME NEW expression, Parsed(expression), ReadOnce(expression),
         NEW ctx, Has(ctx, "declarations"),
         NEW outcomes, outcomes = {Truth(expression, full) : full \in Completions(expression, ctx)}
  PROVE  /\ Truth(expression, ctx) = "true" <=> outcomes = {"true"}
         /\ Truth(expression, ctx) = "unknown" <=> outcomes = {"true", "false"}
<1>1. PICK last : last = Len(expression) /\ last \in DOMAIN expression
  BY DEF Parsed
<1>2. /\ \A full \in Completions(expression, ctx) :
           Truth(expression, full) = Truths(expression, full)[last]
      /\ Truth(expression, ctx) = Truths(expression, ctx)[last]
  BY <1>1 DEF Truth
<1>3. Truth(expression, ctx) \in Verdicts
  BY <1>1, <1>2, TruthOf
<1>4. outcomes # {} /\ outcomes \subseteq {"true", "false"}
  BY <1>1, <1>2, CompletionExists, CompletedTruth
<1>5. CASE Truth(expression, ctx) # "unknown"
  <2>1. outcomes \subseteq {Truth(expression, ctx)}
    BY <1>1, <1>2, <1>5, CompletedTruth
  <2>2. outcomes = {Truth(expression, ctx)}
    BY <1>4, <2>1
  <2>3. QED
    BY <1>3, <1>5, <2>2 DEF Verdicts
<1>6. CASE Truth(expression, ctx) = "unknown"
  <2>1. MayBe(expression, ctx, last, "true") /\ MayBe(expression, ctx, last, "false")
    BY <1>1, <1>2, <1>6, UndecidedOpen
  <2>2. outcomes = {"true", "false"}
    BY <1>2, <1>4, <2>1 DEF MayBe
  <2>3. QED
    BY <1>6, <2>2
<1>7. QED
  BY <1>5, <1>6

(* What was false never becomes undecided, when no field does and an "and" *)
(* is guarded by a field that stays as it is.                              *)
StaysKnown(was, is) ==
  \A field \in DOMAIN Values : Resolved(was, field) # Unknown => Resolved(is, field) # Unknown

SettingsStay(was, is) ==
  \A field \in Settings \cap DOMAIN Values :
    Resolved(was, field) # Unknown /\ Resolved(is, field) = Resolved(was, field)

LEMMA FalseStaysDecided ==
  ASSUME NEW expression, Parsed(expression), Guarded(expression),
         NEW was, NEW is, StaysKnown(was, is), SettingsStay(was, is),
         Truth(expression, was) = "false"
  PROVE  Truth(expression, is) # "unknown"
<1>1. PICK before : before = Truths(expression, was)
  OBVIOUS
<1>2. PICK after : after = Truths(expression, is)
  OBVIOUS
<1> DEFINE n == Len(expression)
           S == {k \in 1..n : before[k] = "false" => after[k] # "unknown"}
<1>0. n \in Nat /\ n \in DOMAIN expression /\ DOMAIN expression = 1..n
  BY DEF Parsed
<1>3. ASSUME NEW k \in 1..n, 1..(k - 1) \subseteq S PROVE k \in S
  <2> SUFFICES ASSUME before[k] = "false" PROVE after[k] # "unknown"
    OBVIOUS
  <2>0. PICK part : part = expression[k]
    OBVIOUS
  <2>1. part.op \in {"always", "compare", "and", "or"} /\ Operands(part) \subseteq 1..(k - 1)
    BY <1>0, <2>0 DEF Parsed
  <2>2. CASE part.op = "always"
    BY <1>0, <1>2, <2>0, <2>2, TruthOf
  <2>3. CASE part.op = "compare"
    <3>1. part.field \in DOMAIN Values
      BY <1>0, <2>0, <2>3 DEF Parsed
    <3>2. /\ before[k] = Compared(Resolved(was, part.field), part.values)
          /\ after[k] = Compared(Resolved(is, part.field), part.values)
      BY <1>0, <1>1, <1>2, <2>0, <2>3, TruthOf
    <3>3. QED
      BY <3>1, <3>2 DEF Compared, StaysKnown
  <2>4. CASE part.op = "or"
    <3>1. part.left \in S /\ part.right \in S
      BY <1>3, <2>1, <2>4 DEF Operands
    <3>2. /\ before[k] = Either(before[part.left], before[part.right])
          /\ after[k] = Either(after[part.left], after[part.right])
      BY <1>0, <1>1, <1>2, <2>0, <2>4, TruthOf
    <3>3. before[part.left] = "false" /\ before[part.right] = "false"
      BY <3>2 DEF Either
    <3>4. after[part.left] # "unknown" /\ after[part.right] # "unknown"
      BY <3>1, <3>3
    <3>5. after[part.left] \in Verdicts /\ after[part.right] \in Verdicts
      BY <1>0, <1>2, <3>1, TruthOf
    <3>6. QED
      BY <3>2, <3>4, <3>5 DEF Either, Verdicts
  <2>5. CASE part.op = "and"
    <3>1. part.left \in S /\ part.right \in S
      BY <1>3, <2>1, <2>5 DEF Operands
    <3>2. /\ before[k] = Both(before[part.left], before[part.right])
          /\ after[k] = Both(after[part.left], after[part.right])
      BY <1>0, <1>1, <1>2, <2>0, <2>5, TruthOf
    <3>3. PICK guard \in {part.left, part.right} :
            expression[guard].op = "compare" /\ expression[guard].field \in Settings
      BY <1>0, <2>0, <2>5 DEF Guarded, Operands
    <3>4. guard \in DOMAIN expression /\ expression[guard].field \in DOMAIN Values
      BY <1>0, <3>1, <3>3 DEF Parsed
    <3>5. PICK field : field = expression[guard].field
      OBVIOUS
    <3>6. /\ before[guard] = Compared(Resolved(was, field), expression[guard].values)
          /\ after[guard] = Compared(Resolved(is, field), expression[guard].values)
      BY <1>1, <1>2, <3>3, <3>4, <3>5, TruthOf
    <3>7. before[guard] \in {"true", "false"} /\ after[guard] = before[guard]
      BY <3>3, <3>4, <3>5, <3>6 DEF Compared, SettingsStay
    <3>8. \A j \in {part.left, part.right} :
            /\ before[j] \in Verdicts /\ after[j] \in Verdicts
            /\ before[j] = "false" => after[j] # "unknown"
      <4>1. \A j \in {part.left, part.right} : j \in DOMAIN expression /\ j \in S
        BY <1>0, <3>1
      <4>2. QED
        BY <1>1, <1>2, <4>1, TruthOf
    <3>9. QED
      BY <3>2, <3>3, <3>7, <3>8 DEF Both, Verdicts
  <2>6. QED
    BY <2>1, <2>2, <2>3, <2>4, <2>5
<1>4. 1..n \subseteq S
  <2> HIDE DEF S, n
  <2>1. QED
    BY <1>0, <1>3, PartsInduction
<1>5. QED
  BY <1>0, <1>1, <1>2, <1>4 DEF Truth

-----------------------------------------------------------------------------
(* Merging one key.                                                        *)

Sound(ctx) ==
  /\ Has(ctx, "declarations")
  /\ Has(ctx, "facts") => DOMAIN ctx["facts"] \subseteq Facts

Keeps(was, is) == FindingsKept(was, is) /\ AnswersKept(was, is) /\ ImmutablesKept(was, is)

LEMMA KeepsReflexive == ASSUME NEW ctx PROVE Keeps(ctx, ctx)
BY DEF Keeps, FindingsKept, AnswersKept, ImmutablesKept, Has

LEMMA KeepsTransitive ==
  ASSUME NEW a, NEW b, NEW c, Keeps(a, b), Keeps(b, c)
  PROVE  Keeps(a, c)
<1>1. FindingsKept(a, c)
  BY DEF Keeps, FindingsKept
<1>2. AnswersKept(a, c)
  BY DEF Keeps, AnswersKept, Has
<1>3. ImmutablesKept(a, c)
  BY DEF Keeps, ImmutablesKept
<1>4. QED
  BY <1>1, <1>2, <1>3 DEF Keeps

(* A context that agrees with another on all but these fields keeps it.    *)
Counted == Facts \cup {"mandatory_findings"}

Agrees(was, is, apart) ==
  /\ DOMAIN was \subseteq DOMAIN is
  /\ DOMAIN is \subseteq DOMAIN was \cup apart
  /\ \A field \in DOMAIN was \ apart : is[field] = was[field]

LEMMA AgreesKeeps ==
  ASSUME NEW was, NEW is, Sound(was), Agrees(was, is, Counted)
  PROVE  Sound(is) /\ Keeps(was, is)
<1>0. /\ "declarations" \notin Counted /\ "facts" \notin Counted
      /\ "finding_ledger" \notin Counted /\ Immutable \cap Counted = {}
  BY DEF Counted, Facts, Immutable
<1>1. Sound(is)
  BY <1>0 DEF Sound, Agrees, Has
<1>2. FindingsKept(was, is)
  BY <1>0 DEF FindingsKept, Ledger, Agrees, Has
<1>3. AnswersKept(was, is)
  BY <1>0 DEF AnswersKept, Sound, Agrees, Has
<1>4. ImmutablesKept(was, is)
  BY <1>0 DEF ImmutablesKept, Agrees, Has
<1>5. QED
  BY <1>1, <1>2, <1>3, <1>4 DEF Keeps

LEMMA MergedKeeps ==
  ASSUME NEW ctx, NEW v2 \in BOOLEAN, NEW key, NEW value, Sound(ctx),
         key = "facts" => DOMAIN value \subseteq Facts,
         ~Refuses(ctx, v2, key, value),
         NEW merged, merged = Merged(ctx, v2, key, value)
  PROVE  /\ Sound(merged) /\ Keeps(ctx, merged)
         /\ DOMAIN ctx \subseteq DOMAIN merged
         /\ key \in Immutable => Has(merged, key) /\ merged[key] = value
<1>1. CASE key = "declarations"
  <2>0. PICK declared : declared = Updated(ctx["declarations"], value)
    OBVIOUS
  <2>1. merged = With(ctx, key, declared)
    BY <1>1, <2>0 DEF Merged
  <2>2. /\ DOMAIN merged = DOMAIN ctx
        /\ merged["declarations"] = declared
        /\ \A k \in DOMAIN ctx \ {"declarations"} : merged[k] = ctx[k]
    BY <1>1, <2>1 DEF With, Updated, Sound, Has
  <2>3. Sound(merged)
    BY <2>2 DEF Sound, Has
  <2>4. AnswersKept(ctx, merged)
    <3> SUFFICES ASSUME NEW name \in DOMAIN ctx["declarations"],
                        ctx["declarations"][name] # Unknown
                 PROVE  /\ Has(merged["declarations"], name)
                        /\ merged["declarations"][name] = ctx["declarations"][name]
      BY DEF AnswersKept
    <3>1. Has(merged["declarations"], name)
      BY <2>0, <2>2 DEF Updated, Has
    <3>2. CASE name \in DOMAIN value
      <4>1. ctx["declarations"][name] = value[name]
        BY <1>1, <3>2 DEF Refuses, Has
      <4>2. QED
        BY <2>0, <2>2, <3>1, <3>2, <4>1 DEF Updated, Has
    <3>3. CASE name \notin DOMAIN value
      BY <2>0, <2>2, <3>1, <3>3 DEF Updated, Has
    <3>4. QED
      BY <3>2, <3>3
  <2>5. FindingsKept(ctx, merged) /\ ImmutablesKept(ctx, merged)
    BY <2>2 DEF FindingsKept, Ledger, ImmutablesKept, Immutable, Has
  <2>6. QED
    BY <1>1, <2>2, <2>3, <2>4, <2>5 DEF Keeps, Immutable
<1>2. CASE key = "facts" /\ v2
  <2>0. PICK facts : facts = Updated(Part(ctx, "facts"), value)
    OBVIOUS
  <2>1. merged = With(ctx, key, facts)
    BY <1>2, <2>0 DEF Merged
  <2>2. /\ DOMAIN merged = DOMAIN ctx \cup {"facts"}
        /\ merged["facts"] = facts
        /\ \A k \in DOMAIN ctx \ {"facts"} : merged[k] = ctx[k]
    BY <1>2, <2>1 DEF With, Updated, Has
  <2>3. DOMAIN Part(ctx, "facts") \subseteq Facts
    BY DEF Part, Sound
  <2>4. DOMAIN merged["facts"] \subseteq Facts
    BY <1>2, <2>0, <2>2, <2>3 DEF Updated
  <2>5. Sound(merged)
    BY <2>2, <2>4 DEF Sound, Has
  <2>6. FindingsKept(ctx, merged)
    BY <2>2 DEF FindingsKept, Ledger, Has
  <2>7. AnswersKept(ctx, merged)
    BY <2>2 DEF AnswersKept, Sound, Has
  <2>8. ImmutablesKept(ctx, merged)
    BY <2>2 DEF ImmutablesKept, Immutable, Has
  <2>9. QED
    BY <1>2, <2>2, <2>5, <2>6, <2>7, <2>8 DEF Keeps, Immutable
<1>3. CASE key = "facts" /\ ~v2
  <2>1. merged = Updated(ctx, value)
    BY <1>3 DEF Merged
  <2>2. Agrees(ctx, merged, Counted)
    BY <1>3, <2>1 DEF Updated, Has, Agrees, Counted
  <2>3. QED
    BY <1>3, <2>2, AgreesKeeps DEF Agrees, Immutable
<1>4. CASE key = "finding_ledger" /\ v2
  <2>0. PICK ledger : ledger = Ledger(ctx) \cup value
    OBVIOUS
  <2>1. merged = With(ctx, key, ledger)
    BY <1>4, <2>0 DEF Merged
  <2>2. /\ DOMAIN merged = DOMAIN ctx \cup {"finding_ledger"}
        /\ merged["finding_ledger"] = ledger
        /\ \A k \in DOMAIN ctx \ {"finding_ledger"} : merged[k] = ctx[k]
    BY <1>4, <2>1 DEF With, Updated, Has
  <2>3. Sound(merged)
    BY <2>2 DEF Sound, Has
  <2>4. Ledger(merged) = ledger
    BY <2>2 DEF Ledger, Has
  <2>5. FindingsKept(ctx, merged)
    BY <2>0, <2>4 DEF FindingsKept
  <2>6. AnswersKept(ctx, merged)
    BY <2>2 DEF AnswersKept, Sound, Has
  <2>7. ImmutablesKept(ctx, merged)
    BY <2>2 DEF ImmutablesKept, Immutable, Has
  <2>8. QED
    BY <1>4, <2>2, <2>3, <2>5, <2>6, <2>7 DEF Keeps, Immutable
<1>5. CASE key = "finding_ledger" /\ ~v2
  <2>1. merged = With(ctx, "mandatory_findings", OpenMandatory(value))
    BY <1>5 DEF Merged
  <2>2. Agrees(ctx, merged, Counted)
    BY <2>1 DEF With, Updated, Has, Agrees, Counted
  <2>3. QED
    BY <1>5, <2>2, AgreesKeeps DEF Agrees, Immutable
<1>6. CASE key \notin {"declarations", "facts", "finding_ledger"}
  <2>1. merged = With(ctx, key, value)
    BY <1>6 DEF Merged
  <2>2. /\ DOMAIN merged = DOMAIN ctx \cup {key}
        /\ merged[key] = value
        /\ \A k \in DOMAIN ctx \ {key} : merged[k] = ctx[k]
    BY <2>1 DEF With, Updated, Has
  <2>3. Sound(merged)
    BY <1>6, <2>2 DEF Sound, Has
  <2>4. FindingsKept(ctx, merged)
    BY <1>6, <2>2 DEF FindingsKept, Ledger, Has
  <2>5. AnswersKept(ctx, merged)
    BY <1>6, <2>2 DEF AnswersKept, Sound, Has
  <2>6. ImmutablesKept(ctx, merged)
    <3>1. key \in Immutable /\ Has(ctx, key) => ctx[key] = value
      BY DEF Refuses
    <3>2. QED
      BY <2>2, <3>1 DEF ImmutablesKept, Has
  <2>7. QED
    BY <2>2, <2>3, <2>4, <2>5, <2>6 DEF Keeps, Has
<1>7. QED
  BY <1>1, <1>2, <1>3, <1>4, <1>5, <1>6

(* Merging a key gives the context no other key that is immutable.         *)
LEMMA NewKeyMerged ==
  ASSUME NEW ctx, NEW v2 \in BOOLEAN, NEW key, NEW value, Sound(ctx),
         key = "facts" => DOMAIN value \subseteq Facts,
         NEW merged, merged = Merged(ctx, v2, key, value),
         NEW field \in Immutable, ~Has(ctx, field), Has(merged, field)
  PROVE  key = field
<1>1. CASE key = "facts" /\ ~v2
  <2>1. merged = Updated(ctx, value)
    BY <1>1 DEF Merged
  <2>2. QED
    BY <1>1, <2>1 DEF Updated, Has, Immutable, Facts
<1>2. CASE ~(key = "facts" /\ ~v2)
  <2>1. \E k, v : k \in {key, "mandatory_findings"} /\ merged = With(ctx, k, v)
    BY <1>2 DEF Merged
  <2>2. PICK k, v : k \in {key, "mandatory_findings"} /\ merged = With(ctx, k, v)
    BY <2>1
  <2>3. DOMAIN merged = DOMAIN ctx \cup {k}
    BY <2>2 DEF With, Updated
  <2>4. QED
    BY <2>2, <2>3 DEF Has, Immutable
<1>3. QED
  BY <1>1, <1>2

-----------------------------------------------------------------------------
(* After the last key.                                                     *)

LEMMA UpdatedAgrees ==
  ASSUME NEW ctx, NEW by, NEW apart, DOMAIN by \subseteq apart,
         NEW updated, updated = Updated(ctx, by)
  PROVE  Agrees(ctx, updated, apart)
BY DEF Updated, Has, Agrees

LEMMA AgreesTransitive ==
  ASSUME NEW a, NEW b, NEW c, NEW apart, Agrees(a, b, apart), Agrees(b, c, apart)
  PROVE  Agrees(a, c, apart)
BY DEF Agrees

LEMMA SettledAgrees ==
  ASSUME NEW ctx, Sound(ctx), NEW settled, settled = Settled(ctx)
  PROVE  Agrees(ctx, settled, Counted)
<1>1. DOMAIN Part(ctx, "facts") \subseteq Facts
  BY DEF Part, Sound
<1>2. PICK raised : /\ DOMAIN raised = DOMAIN Part(ctx, "facts")
                    /\ \E counted : /\ DOMAIN counted \subseteq {"mandatory_findings"}
                                    /\ settled = Updated(Updated(ctx, raised), counted)
  BY DEF Settled
<1>3. PICK counted : /\ DOMAIN counted \subseteq {"mandatory_findings"}
                     /\ settled = Updated(Updated(ctx, raised), counted)
  BY <1>2
<1>4. PICK updated : updated = Updated(ctx, raised)
  OBVIOUS
<1>5. Agrees(ctx, updated, Counted)
  BY <1>1, <1>2, <1>4, UpdatedAgrees DEF Counted
<1>6. Agrees(updated, settled, Counted)
  BY <1>3, <1>4, UpdatedAgrees DEF Counted
<1>7. QED
  BY <1>5, <1>6, AgreesTransitive

-----------------------------------------------------------------------------
(* Normalisation.                                                          *)

Versioned(ctx) == IsV2(ctx) => Has(ctx, "organization_scope") /\ Has(ctx, "execution_profile")

(* What is known of the context of a plan.                                 *)
PlanSound(ctx) ==
  /\ Sound(ctx)
  /\ Versioned(ctx)
  /\ IsV2(ctx) => /\ Has(ctx, "mode") /\ ctx["mode"] = ctx["execution_profile"]
                  /\ Has(ctx, "context_mode")
                  /\ ctx["context_mode"] = ContextMode(ctx["organization_scope"])

Overwritten == {"mode", "context_mode"}

LEMMA NormalizedSound ==
  ASSUME NEW ctx, Has(ctx, "facts") => DOMAIN ctx["facts"] \subseteq Facts, Versioned(ctx),
         NEW normal, normal = Normalized(ctx)
  PROVE  /\ PlanSound(normal)
         /\ Has(ctx, "declarations") => AnswersKept(ctx, normal)
         /\ FindingsKept(ctx, normal)
         /\ SameVersion(ctx, normal)
         /\ \A field \in Immutable : Has(ctx, field) /\ (IsV2(ctx) => field \notin Overwritten)
              => Has(normal, field) /\ normal[field] = ctx[field]
<1>1. PICK declared : declared = Updated(Defaults["declarations"], Part(ctx, "declarations"))
  OBVIOUS
<1>2. PICK over : over = Updated(Defaults, ctx)
  OBVIOUS
<1>3. PICK base : base = With(over, "declarations", declared)
  OBVIOUS
<1>4. normal = IF IsV2(ctx) THEN Updated(base, Derived(ctx)) ELSE base
  BY <1>1, <1>2, <1>3 DEF Normalized
<1>5. /\ DOMAIN over = DOMAIN Defaults \cup DOMAIN ctx
      /\ \A k \in DOMAIN ctx : over[k] = ctx[k]
  BY <1>2 DEF Updated, Has
<1>6. /\ DOMAIN base = {"mode", "target_tier", "declarations"} \cup DOMAIN ctx
      /\ base["declarations"] = declared
      /\ \A k \in DOMAIN ctx \ {"declarations"} : base[k] = ctx[k]
  <2>1. /\ DOMAIN base = DOMAIN over \cup {"declarations"}
        /\ base["declarations"] = declared
        /\ \A k \in DOMAIN over \ {"declarations"} : base[k] = over[k]
    BY <1>3 DEF With, Updated, Has
  <2>2. QED
    BY <1>5, <2>1, DefaultsAssumption
<1>7. PICK derived : derived = Derived(ctx)
  OBVIOUS
<1>8. DOMAIN derived = DerivedFields(ctx)
  BY <1>7 DEF Derived
<1>9. DerivedFields(ctx) \subseteq Overwritten \cup Counted
  BY DEF DerivedFields, Part, Has, Overwritten, Counted
<1>10. /\ DOMAIN base \subseteq DOMAIN normal
       /\ DOMAIN normal \subseteq DOMAIN base \cup Overwritten \cup Counted
       /\ \A k \in DOMAIN base \ (Overwritten \cup Counted) : normal[k] = base[k]
       /\ ~IsV2(ctx) => normal = base
       /\ IsV2(ctx) => /\ DOMAIN normal = DOMAIN base \cup DOMAIN derived
                       /\ \A k \in DOMAIN derived : normal[k] = derived[k]
  <2>1. CASE IsV2(ctx)
    <3>1. normal = Updated(base, derived)
      BY <1>4, <1>7, <2>1
    <3>2. QED
      BY <1>8, <1>9, <2>1, <3>1 DEF Updated, Has
  <2>2. CASE ~IsV2(ctx)
    BY <1>4, <2>2
  <2>3. QED
    BY <2>1, <2>2
<1>11. \A k \in {"schema_version", "organization_scope", "execution_profile", "facts",
                 "finding_ledger"} :
         /\ Has(normal, k) <=> Has(ctx, k)
         /\ Has(ctx, k) => normal[k] = ctx[k]
  BY <1>6, <1>10 DEF Has, Overwritten, Counted, Facts
<1>12. Has(normal, "declarations") /\ normal["declarations"] = declared
  BY <1>6, <1>10 DEF Has, Overwritten, Counted, Facts
<1>13. SameVersion(ctx, normal)
  BY <1>11 DEF SameVersion, IsV2
<1>14. FindingsKept(ctx, normal)
  BY <1>11 DEF FindingsKept, Ledger
<1>15. Has(ctx, "declarations") => AnswersKept(ctx, normal)
  BY <1>1, <1>12 DEF AnswersKept, Part, Updated, Has
<1>16. Sound(normal) /\ Versioned(normal)
  BY <1>11, <1>12, <1>13 DEF Sound, Versioned, SameVersion
<1>17. ASSUME IsV2(ctx)
       PROVE  /\ Has(normal, "mode") /\ normal["mode"] = normal["execution_profile"]
              /\ Has(normal, "context_mode")
              /\ normal["context_mode"] = ContextMode(normal["organization_scope"])
  <2>1. {"mode", "context_mode"} \subseteq DOMAIN derived
    BY <1>8, <1>17 DEF DerivedFields, Versioned
  <2>2. derived["mode"] = ctx["execution_profile"]
    BY <1>7, <1>8, <2>1 DEF Derived
  <2>3. derived["context_mode"] = ContextMode(ctx["organization_scope"])
    BY <1>7, <1>8, <2>1 DEF Derived
  <2>4. QED
    BY <1>10, <1>11, <1>17, <2>1, <2>2, <2>3 DEF Versioned, Has
<1>18. PlanSound(normal)
  BY <1>13, <1>16, <1>17 DEF PlanSound, SameVersion
<1>19. ASSUME NEW field \in Immutable, Has(ctx, field), IsV2(ctx) => field \notin Overwritten
       PROVE  Has(normal, field) /\ normal[field] = ctx[field]
  <2>1. field \notin Counted /\ field # "declarations"
    BY DEF Immutable, Counted, Facts
  <2>2. QED
    BY <1>6, <1>10, <1>19, <2>1 DEF Has
<1>20. QED
  BY <1>13, <1>14, <1>15, <1>18, <1>19

(* Normalising once more changes nothing.                                  *)
OverwrittenFields(ctx) == IF IsV2(ctx) THEN DerivedFields(ctx) ELSE {}

NormalOf(ctx, fields, normal) ==
  /\ normal = [k \in DOMAIN normal |-> normal[k]]
  /\ DOMAIN normal = {"mode", "target_tier", "declarations"} \cup DOMAIN ctx \cup fields
  /\ normal["declarations"] = Updated(Defaults["declarations"], Part(ctx, "declarations"))
  /\ \A k \in DOMAIN ctx \ (fields \cup {"declarations"}) : normal[k] = ctx[k]
  /\ \A k \in fields : normal[k] = Derived(ctx)[k]

LEMMA NormalizedShape ==
  ASSUME NEW ctx, Has(ctx, "facts") => DOMAIN ctx["facts"] \subseteq Facts
  PROVE  NormalOf(ctx, OverwrittenFields(ctx), Normalized(ctx))
<1>0. PICK normal : normal = Normalized(ctx)
  OBVIOUS
<1> DEFINE fields == OverwrittenFields(ctx)
<1>1. PICK declared : declared = Updated(Defaults["declarations"], Part(ctx, "declarations"))
  OBVIOUS
<1>2. PICK over : over = Updated(Defaults, ctx)
  OBVIOUS
<1>3. PICK base : base = With(over, "declarations", declared)
  OBVIOUS
<1>4. normal = IF IsV2(ctx) THEN Updated(base, Derived(ctx)) ELSE base
  BY <1>0, <1>1, <1>2, <1>3 DEF Normalized
<1>5. /\ DOMAIN over = DOMAIN Defaults \cup DOMAIN ctx
      /\ \A k \in DOMAIN ctx : over[k] = ctx[k]
  BY <1>2 DEF Updated, Has
<1>6. /\ DOMAIN base = {"mode", "target_tier", "declarations"} \cup DOMAIN ctx
      /\ base["declarations"] = declared
      /\ \A k \in DOMAIN ctx \ {"declarations"} : base[k] = ctx[k]
      /\ base = [k \in DOMAIN base |-> base[k]]
  <2>1. /\ DOMAIN base = DOMAIN over \cup {"declarations"}
        /\ base["declarations"] = declared
        /\ \A k \in DOMAIN over \ {"declarations"} : base[k] = over[k]
        /\ base = [k \in DOMAIN base |-> base[k]]
    BY <1>3 DEF With, Updated, Has
  <2>2. QED
    BY <1>5, <2>1, DefaultsAssumption
<1>7. CASE ~IsV2(ctx)
  BY <1>0, <1>1, <1>4, <1>6, <1>7 DEF NormalOf, OverwrittenFields
<1>8. CASE IsV2(ctx)
  <2>1. PICK derived : derived = Derived(ctx)
    OBVIOUS
  <2>2. DOMAIN derived = DerivedFields(ctx) /\ "declarations" \notin DerivedFields(ctx)
    BY <2>1 DEF Derived, DerivedFields, Part, Facts
  <2>3. normal = Updated(base, derived)
    BY <1>4, <1>8, <2>1
  <2>4. /\ DOMAIN normal = DOMAIN base \cup DOMAIN derived
        /\ normal = [k \in DOMAIN normal |-> normal[k]]
        /\ \A k \in DOMAIN derived : normal[k] = derived[k]
        /\ \A k \in DOMAIN base \ DOMAIN derived : normal[k] = base[k]
    BY <2>3 DEF Updated, Has
  <2>5. normal["declarations"] = declared
    BY <1>6, <2>2, <2>4
  <2>6. QED
    BY <1>0, <1>1, <1>6, <1>8, <2>1, <2>2, <2>4, <2>5 DEF NormalOf, OverwrittenFields
<1>9. QED
  BY <1>7, <1>8

LEMMA UpdatedTwice ==
  ASSUME NEW fields, NEW by, NEW once, once = Updated(fields, by)
  PROVE  Updated(fields, once) = once
<1>1. /\ DOMAIN once = DOMAIN fields \cup DOMAIN by
      /\ once = [k \in DOMAIN once |-> once[k]]
  BY DEF Updated
<1>2. PICK twice : twice = Updated(fields, once)
  OBVIOUS
<1>3. /\ DOMAIN twice = DOMAIN once
      /\ twice = [k \in DOMAIN twice |-> twice[k]]
      /\ \A k \in DOMAIN once : twice[k] = once[k]
  BY <1>1, <1>2 DEF Updated, Has
<1>4. QED
  BY <1>1, <1>2, <1>3

LEMMA NormalizedTwice ==
  ASSUME NEW ctx, Has(ctx, "facts") => DOMAIN ctx["facts"] \subseteq Facts
  PROVE  Normalized(Normalized(ctx)) = Normalized(ctx)
<1>1. PICK once : once = Normalized(ctx)
  OBVIOUS
<1>2. PICK twice : twice = Normalized(once)
  OBVIOUS
<1>3. PICK fields : fields = OverwrittenFields(ctx)
  OBVIOUS
<1>4. /\ once = [k \in DOMAIN once |-> once[k]]
      /\ DOMAIN once = {"mode", "target_tier", "declarations"} \cup DOMAIN ctx \cup fields
      /\ once["declarations"] = Updated(Defaults["declarations"], Part(ctx, "declarations"))
      /\ \A k \in DOMAIN ctx \ (fields \cup {"declarations"}) : once[k] = ctx[k]
      /\ \A k \in fields : once[k] = Derived(ctx)[k]
  BY <1>1, <1>3, NormalizedShape DEF NormalOf
<1>5. fields \subseteq Overwritten \cup Counted
  BY <1>3 DEF OverwrittenFields, DerivedFields, Part, Overwritten, Counted
<1>6. \A k \in {"schema_version", "organization_scope", "execution_profile", "facts",
                 "finding_ledger"} :
         (Has(once, k) <=> Has(ctx, k)) /\ (Has(ctx, k) => once[k] = ctx[k])
  BY <1>4, <1>5 DEF Has, Overwritten, Counted, Facts
<1>7. /\ IsV2(once) <=> IsV2(ctx)
      /\ Has(once, "facts") => DOMAIN once["facts"] \subseteq Facts
      /\ Part(once, "facts") = Part(ctx, "facts")
  BY <1>6 DEF IsV2, Part
<1>8. DerivedFields(once) = DerivedFields(ctx)
  BY <1>6, <1>7 DEF DerivedFields
<1>9. ASSUME NEW k \in DerivedFields(ctx) PROVE Derived(once)[k] = Derived(ctx)[k]
  <2>1. k \in Overwritten \cup {"mandatory_findings"} \/ (Has(ctx, "facts") /\ k \in DOMAIN ctx["facts"])
    BY <1>9 DEF DerivedFields, Part, Has, Overwritten
  <2>2. CASE k = "mode"
    BY <1>6, <1>8, <1>9, <2>2 DEF Derived, DerivedFields, Part, Facts
  <2>3. CASE k = "context_mode"
    BY <1>6, <1>8, <1>9, <2>3 DEF Derived, DerivedFields, Part, Facts
  <2>4. CASE k = "mandatory_findings"
    BY <1>6, <1>8, <1>9, <2>4 DEF Derived, DerivedFields, Part, Facts
  <2>5. CASE k \notin Overwritten \cup {"mandatory_findings"}
    BY <1>6, <1>8, <1>9, <2>1, <2>5 DEF Derived, Overwritten
  <2>6. QED
    BY <2>2, <2>3, <2>4, <2>5 DEF Overwritten
<1>10. /\ twice = [k \in DOMAIN twice |-> twice[k]]
       /\ DOMAIN twice = {"mode", "target_tier", "declarations"} \cup DOMAIN once \cup fields
       /\ twice["declarations"] = Updated(Defaults["declarations"], Part(once, "declarations"))
       /\ \A k \in DOMAIN once \ (fields \cup {"declarations"}) : twice[k] = once[k]
       /\ \A k \in fields : twice[k] = Derived(once)[k]
  <2>1. fields = OverwrittenFields(once)
    BY <1>3, <1>7, <1>8 DEF OverwrittenFields
  <2>2. QED
    BY <1>2, <1>7, <2>1, NormalizedShape DEF NormalOf
<1>11. twice["declarations"] = once["declarations"]
  <2>1. Part(once, "declarations") = once["declarations"]
    BY <1>4 DEF Part, Has
  <2>2. QED
    BY <1>4, <1>10, <2>1, UpdatedTwice
<1>12. DOMAIN twice = DOMAIN once
  BY <1>4, <1>10
<1>13. ASSUME NEW k \in DOMAIN once PROVE twice[k] = once[k]
  <2>1. CASE k \in fields
    BY <1>3, <1>4, <1>9, <1>10, <2>1 DEF OverwrittenFields
  <2>2. CASE k = "declarations"
    BY <1>11, <2>2
  <2>3. CASE k \notin fields \cup {"declarations"}
    BY <1>10, <1>13, <2>3
  <2>4. QED
    BY <2>1, <2>2, <2>3
<1>14. twice = once
  BY <1>4, <1>10, <1>12, <1>13
<1>15. QED
  BY <1>1, <1>2, <1>14

LEMMA PlanForMatches ==
  ASSUME NEW ctx, Has(ctx, "facts") => DOMAIN ctx["facts"] \subseteq Facts,
         NEW parent, NEW plan, plan = PlanFor(ctx, parent)
  PROVE  Matches(plan)
<1>1. plan.context = Normalized(ctx) /\ plan.parent = parent
  BY DEF PlanFor
<1>2. Normalized(plan.context) = plan.context
  BY <1>1, NormalizedTwice
<1>3. QED
  BY <1>1, <1>2 DEF Matches, PlanFor

(* What a plan keeps of the one it is made from.                           *)
DirectlyKept(old, new) ==
  /\ old.active \subseteq new.active
  /\ FindingsKept(old.context, new.context)
  /\ AnswersKept(old.context, new.context)
  /\ IsV2(old.context) => IsV2(new.context)
  /\ SameVersion(old.context, new.context) => ImmutablesKept(old.context, new.context)

LEMMA DirectlyKeptTransitive ==
  ASSUME NEW a, NEW b, NEW c, DirectlyKept(a, b), DirectlyKept(b, c)
  PROVE  DirectlyKept(a, c)
<1>1. a.active \subseteq c.active /\ FindingsKept(a.context, c.context)
  BY DEF DirectlyKept, FindingsKept
<1>2. AnswersKept(a.context, c.context)
  BY DEF DirectlyKept, AnswersKept, Has
<1>3. IsV2(a.context) => IsV2(c.context)
  BY DEF DirectlyKept
<1>4. ASSUME SameVersion(a.context, c.context) PROVE ImmutablesKept(a.context, c.context)
  <2>1. SameVersion(a.context, b.context) /\ SameVersion(b.context, c.context)
    BY <1>4 DEF DirectlyKept, SameVersion, IsV2
  <2>2. QED
    BY <2>1 DEF DirectlyKept, ImmutablesKept
<1>5. QED
  BY <1>1, <1>2, <1>3, <1>4 DEF DirectlyKept

(* The context of a child plan keeps that of its parent.                   *)
LEMMA ChildKeeps ==
  ASSUME NEW was, PlanSound(was), NEW merged, Sound(merged), Versioned(merged),
         Keeps(was, merged), NEW is, is = Normalized(Settled(merged))
  PROVE  /\ PlanSound(is)
         /\ FindingsKept(was, is) /\ AnswersKept(was, is)
         /\ IsV2(was) => IsV2(is)
         /\ SameVersion(was, is) => ImmutablesKept(was, is)
<1>1. PICK settled : settled = Settled(merged)
  OBVIOUS
<1>2. Agrees(merged, settled, Counted)
  BY <1>1, SettledAgrees
<1>3. Sound(settled) /\ Keeps(merged, settled)
  BY <1>2, AgreesKeeps
<1>4. SameVersion(merged, settled) /\ Versioned(settled)
  <2>1. \A k \in Immutable : /\ Has(settled, k) <=> Has(merged, k)
                             /\ Has(merged, k) => settled[k] = merged[k]
    BY <1>2 DEF Agrees, Immutable, Counted, Facts, Has
  <2>2. {"schema_version", "organization_scope", "execution_profile"} \subseteq Immutable
    BY DEF Immutable
  <2>3. QED
    BY <2>1, <2>2 DEF SameVersion, Versioned, IsV2
<1>5. Keeps(was, settled)
  BY <1>3, KeepsTransitive
<1>6. /\ PlanSound(is) /\ AnswersKept(settled, is) /\ FindingsKept(settled, is)
      /\ SameVersion(settled, is)
      /\ \A field \in Immutable :
           Has(settled, field) /\ (IsV2(settled) => field \notin Overwritten)
             => Has(is, field) /\ is[field] = settled[field]
  BY <1>1, <1>3, <1>4, NormalizedSound DEF Sound
<1>7. FindingsKept(was, is)
  BY <1>5, <1>6 DEF Keeps, FindingsKept
<1>8. AnswersKept(was, is)
  BY <1>5, <1>6 DEF Keeps, AnswersKept, Has
<1>9. IsV2(was) => IsV2(is)
  <2>1. IsV2(was) => IsV2(settled)
    BY <1>5 DEF Keeps, ImmutablesKept, Immutable, IsV2
  <2>2. QED
    BY <1>6, <2>1 DEF SameVersion
<1>10. ASSUME SameVersion(was, is), NEW field \in Immutable, Has(was, field)
       PROVE  Has(is, field) /\ is[field] = was[field]
  <2>1. Has(settled, field) /\ settled[field] = was[field]
    BY <1>5, <1>10 DEF Keeps, ImmutablesKept
  <2>2. CASE IsV2(was) /\ field \in Overwritten
    <3>1. IsV2(is) /\ IsV2(settled)
      BY <1>6, <1>9, <2>2 DEF SameVersion
    <3>2. /\ Has(was, "execution_profile") /\ Has(was, "organization_scope")
          /\ was["mode"] = was["execution_profile"]
          /\ was["context_mode"] = ContextMode(was["organization_scope"])
      BY <2>2 DEF PlanSound, Versioned
    <3>3. /\ Has(is, "mode") /\ is["mode"] = is["execution_profile"]
          /\ Has(is, "context_mode")
          /\ is["context_mode"] = ContextMode(is["organization_scope"])
      BY <1>6, <3>1 DEF PlanSound
    <3>4. /\ is["execution_profile"] = was["execution_profile"]
          /\ is["organization_scope"] = was["organization_scope"]
      <4>1. {"execution_profile", "organization_scope"} \subseteq Immutable \ Overwritten
        BY DEF Immutable, Overwritten
      <4>2. QED
        BY <1>5, <1>6, <3>2, <4>1 DEF Keeps, ImmutablesKept
    <3>5. QED
      BY <2>2, <3>2, <3>3, <3>4 DEF Overwritten
  <2>3. CASE ~(IsV2(was) /\ field \in Overwritten)
    <3>1. IsV2(settled) => field \notin Overwritten
      BY <1>6, <1>10, <2>3 DEF SameVersion
    <3>2. QED
      BY <1>6, <2>1, <3>1
  <2>4. QED
    BY <2>2, <2>3
<1>11. QED
  BY <1>6, <1>7, <1>8, <1>9, <1>10 DEF ImmutablesKept

-----------------------------------------------------------------------------
(* The inductive invariant.                                                *)

PlansInv ==
  /\ \E S : plans \in Seq(S)
  /\ \A i \in DOMAIN plans :
       /\ plans[i].active \subseteq Gates
       /\ plans[i].unknown \subseteq Gates \ plans[i].active
       /\ PlanSound(plans[i].context)
       /\ plans[i].parent \in 0..(i - 1)
       /\ plans[i].parent # 0 => DirectlyKept(plans[plans[i].parent], plans[i])

(* What is left of an amendment and what is merged of it make up all that  *)
(* a version 2 context has to have.                                        *)
DraftInv ==
  draft # None =>
    /\ DOMAIN draft = {"parent", "context", "v2", "left"}
    /\ draft.parent \in DOMAIN plans
    /\ draft.v2 \in BOOLEAN
    /\ Sound(draft.context)
    /\ Keeps(plans[draft.parent].context, draft.context)
    /\ Has(draft.left, "facts") => DOMAIN draft.left["facts"] \subseteq Facts
    /\ IsV2(draft.context) \/ IsV2(draft.left) =>
         {"organization_scope", "execution_profile"}
           \subseteq DOMAIN draft.left \cup DOMAIN draft.context

IInv == PlansInv /\ DraftInv

LEMMA PlanForSound ==
  ASSUME NEW ctx, NEW parent, NEW plan, plan = PlanFor(ctx, parent)
  PROVE  /\ plan.context = Normalized(ctx) /\ plan.parent = parent
         /\ plan.active \subseteq Gates /\ plan.unknown \subseteq Gates \ plan.active
<1>1. /\ plan.context = Normalized(ctx) /\ plan.parent = parent
      /\ plan.active = GatesThat("true", Normalized(ctx))
      /\ plan.unknown = GatesThat("unknown", Normalized(ctx))
  BY DEF PlanFor
<1>2. QED
  BY <1>1 DEF GatesThat

LEMMA InitInv == Init => IInv
<1> SUFFICES ASSUME Init PROVE IInv
  OBVIOUS
<1>1. PICK supplied \in Supplied : plans = <<PlanFor(supplied, 0)>>
  BY DEF Init
<1>2. PICK plan : plan = PlanFor(supplied, 0)
  OBVIOUS
<1>3. plans \in Seq({plan}) /\ DOMAIN plans = {1} /\ plans[1] = plan
  BY <1>1, <1>2
<1>4. PlanSound(plan.context)
  <2>1. Versioned(supplied) /\ (Has(supplied, "facts") => DOMAIN supplied["facts"] \subseteq Facts)
    BY ContextsAssumption DEF ContextsValid, Versioned
  <2>2. QED
    BY <1>2, <2>1, PlanForSound, NormalizedSound
<1>5. plan.parent = 0 /\ plan.active \subseteq Gates /\ plan.unknown \subseteq Gates \ plan.active
  BY <1>2, PlanForSound
<1>6. PlansInv
  BY <1>3, <1>4, <1>5 DEF PlansInv
<1>7. QED
  BY <1>6 DEF Init, IInv, DraftInv

LEMMA ReviseInv ==
  ASSUME IInv, NEW parent \in DOMAIN plans, NEW amendment \in Amendments,
         Revise(parent, amendment)
  PROVE  IInv'
<1>1. PlansInv'
  BY DEF IInv, PlansInv, Revise
<1>2. Sound(plans[parent].context) /\ Versioned(plans[parent].context)
  BY DEF IInv, PlansInv, PlanSound
<1>3. /\ Versioned(amendment)
      /\ Has(amendment, "facts") => DOMAIN amendment["facts"] \subseteq Facts
  BY ContextsAssumption DEF ContextsValid, Versioned
<1>4. /\ DOMAIN draft' = {"parent", "context", "v2", "left"}
      /\ draft'.parent = parent /\ draft'.context = plans[parent].context
      /\ draft'.v2 \in BOOLEAN /\ draft'.left = amendment
      /\ plans' = plans
  BY DEF Revise, IsV2
<1>5. Keeps(plans[parent].context, plans[parent].context)
  BY KeepsReflexive
<1>6. DraftInv'
  BY <1>2, <1>3, <1>4, <1>5 DEF DraftInv, Versioned, Has
<1>7. QED
  BY <1>1, <1>6 DEF IInv

LEMMA MergeKeyInv ==
  ASSUME IInv, draft # None, NEW key \in DOMAIN draft.left, MergeKey(key)
  PROVE  IInv'
<1>1. PlansInv'
  BY DEF IInv, PlansInv, MergeKey
<1>2. CASE Refuses(draft.context, draft.v2, key, draft.left[key])
  <2>1. draft' = None
    BY <1>2 DEF MergeKey
  <2>2. QED
    BY <1>1, <2>1 DEF IInv, DraftInv
<1>3. CASE ~Refuses(draft.context, draft.v2, key, draft.left[key])
  <2>1. /\ DOMAIN draft = {"parent", "context", "v2", "left"}
        /\ draft.parent \in DOMAIN plans /\ draft.v2 \in BOOLEAN
        /\ Sound(draft.context)
        /\ Keeps(plans[draft.parent].context, draft.context)
        /\ Has(draft.left, "facts") => DOMAIN draft.left["facts"] \subseteq Facts
        /\ IsV2(draft.context) \/ IsV2(draft.left) =>
             {"organization_scope", "execution_profile"}
               \subseteq DOMAIN draft.left \cup DOMAIN draft.context
    BY DEF IInv, DraftInv
  <2>2. PICK merged : merged = Merged(draft.context, draft.v2, key, draft.left[key])
    OBVIOUS
  <2>3. /\ plans' = plans
        /\ DOMAIN draft' = {"parent", "context", "v2", "left"}
        /\ draft'.parent = draft.parent /\ draft'.v2 = draft.v2
        /\ draft'.context = merged
        /\ draft'.left = [k \in DOMAIN draft.left \ {key} |-> draft.left[k]]
    BY <1>3, <2>1, <2>2 DEF MergeKey
  <2>4. key = "facts" => DOMAIN draft.left[key] \subseteq Facts
    BY <2>1 DEF Has
  <2>5. /\ Sound(merged) /\ Keeps(draft.context, merged)
        /\ DOMAIN draft.context \subseteq DOMAIN merged
        /\ key \in Immutable => Has(merged, key) /\ merged[key] = draft.left[key]
    BY <1>3, <2>1, <2>2, <2>4, MergedKeeps
  <2>6. Keeps(plans[draft.parent].context, merged)
    BY <2>1, <2>5, KeepsTransitive
  <2>7. DOMAIN draft'.left = DOMAIN draft.left \ {key}
        /\ \A k \in DOMAIN draft.left \ {key} : draft'.left[k] = draft.left[k]
    BY <2>3
  <2>8. Has(draft'.left, "facts") => DOMAIN draft'.left["facts"] \subseteq Facts
    BY <2>1, <2>7 DEF Has
  <2>9. ASSUME IsV2(merged) \/ IsV2(draft'.left)
        PROVE  {"organization_scope", "execution_profile"}
                 \subseteq DOMAIN draft'.left \cup DOMAIN merged
    <3>1. IsV2(draft.context) \/ IsV2(draft.left)
      <4>1. CASE IsV2(draft'.left)
        BY <2>7, <4>1 DEF IsV2, Has
      <4>2. CASE IsV2(merged) /\ Has(draft.context, "schema_version")
        BY <2>5, <4>2 DEF Keeps, ImmutablesKept, Immutable, IsV2
      <4>3. CASE IsV2(merged) /\ ~Has(draft.context, "schema_version")
        <5>1. key = "schema_version"
          BY <1>3, <2>1, <2>2, <2>4, <4>3, NewKeyMerged DEF IsV2, Immutable
        <5>2. QED
          BY <2>5, <4>3, <5>1 DEF Immutable, IsV2, Has
      <4>4. QED
        BY <2>9, <4>1, <4>2, <4>3
    <3>2. key \in {"organization_scope", "execution_profile"} => key \in DOMAIN merged
      BY <2>5 DEF Immutable, Has
    <3>3. QED
      BY <2>1, <2>5, <2>7, <3>1, <3>2
  <2>10. DraftInv'
    BY <2>1, <2>3, <2>5, <2>6, <2>8, <2>9 DEF DraftInv
  <2>11. QED
    BY <1>1, <2>10 DEF IInv
<1>4. QED
  BY <1>2, <1>3

LEMMA EvaluateInv ==
  ASSUME IInv, Evaluate
  PROVE  IInv'
<1>1. PICK parent : parent = draft.parent
  OBVIOUS
<1>2. PICK child : child = PlanFor(Settled(draft.context), parent)
  OBVIOUS
<1>3. /\ draft # None /\ DOMAIN draft.left = {} /\ draft' = None
      /\ plans' = IF plans[parent].active \subseteq child.active
                  THEN Append(plans, child) ELSE plans
  BY <1>1, <1>2 DEF Evaluate
<1>4. DraftInv'
  BY <1>3 DEF DraftInv
<1>5. CASE ~(plans[parent].active \subseteq child.active)
  <2>1. plans' = plans
    BY <1>3, <1>5
  <2>2. QED
    BY <1>4, <2>1 DEF IInv, PlansInv
<1>6. CASE plans[parent].active \subseteq child.active
  <2>1. /\ parent \in DOMAIN plans /\ Sound(draft.context) /\ Versioned(draft.context)
        /\ Keeps(plans[parent].context, draft.context)
    BY <1>1, <1>3 DEF IInv, DraftInv, Versioned, Has
  <2>2. PlanSound(plans[parent].context)
    BY <2>1 DEF IInv, PlansInv
  <2>3. /\ child.context = Normalized(Settled(draft.context)) /\ child.parent = parent
        /\ child.active \subseteq Gates /\ child.unknown \subseteq Gates \ child.active
    BY <1>2, PlanForSound
  <2>4. PlanSound(child.context) /\ DirectlyKept(plans[parent], child)
    BY <1>6, <2>1, <2>2, <2>3, ChildKeeps DEF DirectlyKept
  <2>5. PICK S : plans \in Seq(S)
    BY DEF IInv, PlansInv
  <2>6. /\ Len(plans) \in Nat /\ DOMAIN plans = 1..Len(plans)
        /\ plans' \in Seq(S \cup {child})
        /\ DOMAIN plans' = 1..(Len(plans) + 1)
        /\ plans'[Len(plans) + 1] = child
        /\ \A i \in DOMAIN plans : plans'[i] = plans[i]
    <3>1. plans \in Seq(S \cup {child})
      BY <2>5, SeqMonotonic
    <3>2. plans' = Append(plans, child)
      BY <1>3, <1>6
    <3>3. QED
      BY <2>5, <3>1, <3>2
  <2>7. ASSUME NEW i \in DOMAIN plans
        PROVE  /\ plans'[i].active \subseteq Gates
               /\ plans'[i].unknown \subseteq Gates \ plans'[i].active
               /\ PlanSound(plans'[i].context)
               /\ plans'[i].parent \in 0..(i - 1)
               /\ plans'[i].parent # 0 => DirectlyKept(plans'[plans'[i].parent], plans'[i])
    <3>1. plans'[i] = plans[i]
      BY <2>6, <2>7
    <3>2. /\ plans[i].active \subseteq Gates
          /\ plans[i].unknown \subseteq Gates \ plans[i].active
          /\ PlanSound(plans[i].context)
          /\ plans[i].parent \in 0..(i - 1)
          /\ plans[i].parent # 0 => DirectlyKept(plans[plans[i].parent], plans[i])
      BY <2>7 DEF IInv, PlansInv
    <3>3. plans[i].parent # 0 => plans'[plans[i].parent] = plans[plans[i].parent]
      BY <2>6, <2>7, <3>2
    <3>4. QED
      BY <3>1, <3>2, <3>3
  <2>8. /\ child.parent \in 0..Len(plans) /\ child.parent # 0
        /\ plans'[child.parent] = plans[parent]
    BY <2>1, <2>3, <2>6
  <2>9. PlansInv'
    <3>1. \A i \in DOMAIN plans' : i \in DOMAIN plans \/ i = Len(plans) + 1
      BY <2>6
    <3>2. DirectlyKept(plans'[child.parent], child)
      BY <2>4, <2>8
    <3>3. \A i \in DOMAIN plans' :
            /\ plans'[i].active \subseteq Gates
            /\ plans'[i].unknown \subseteq Gates \ plans'[i].active
            /\ PlanSound(plans'[i].context)
            /\ plans'[i].parent \in 0..(i - 1)
            /\ plans'[i].parent # 0 => DirectlyKept(plans'[plans'[i].parent], plans'[i])
      <4> SUFFICES ASSUME NEW i \in DOMAIN plans', i = Len(plans) + 1
                   PROVE  /\ plans'[i].active \subseteq Gates
                          /\ plans'[i].unknown \subseteq Gates \ plans'[i].active
                          /\ PlanSound(plans'[i].context)
                          /\ plans'[i].parent \in 0..(i - 1)
                          /\ plans'[i].parent # 0 =>
                               DirectlyKept(plans'[plans'[i].parent], plans'[i])
        BY <2>7, <3>1
      <4>1. plans'[i] = child /\ i - 1 = Len(plans)
        BY <2>6
      <4>2. QED
        BY <2>3, <2>4, <2>8, <3>2, <4>1
    <3>4. QED
      BY <2>6, <3>3 DEF PlansInv
  <2>10. QED
    BY <1>4, <2>9 DEF IInv
<1>7. QED
  BY <1>5, <1>6

LEMMA StepInv == IInv /\ [Next]_vars => IInv'
<1> SUFFICES ASSUME IInv, [Next]_vars PROVE IInv'
  OBVIOUS
<1>1. CASE \E parent \in DOMAIN plans, amendment \in Amendments : Revise(parent, amendment)
  BY <1>1, ReviseInv
<1>2. CASE draft # None /\ \E key \in DOMAIN draft.left : MergeKey(key)
  BY <1>2, MergeKeyInv
<1>3. CASE Evaluate
  BY <1>3, EvaluateInv
<1>4. CASE UNCHANGED vars
  BY <1>4 DEF IInv, PlansInv, DraftInv, vars
<1>5. QED
  BY <1>1, <1>2, <1>3, <1>4 DEF Next

LEMMA Invariance == Spec => []IInv
BY InitInv, StepInv, PTL DEF Spec

-----------------------------------------------------------------------------
(* What a revision keeps known.                                            *)

LEMMA OpenMandatoryNat ==
  ASSUME NEW ledger, IsFiniteSet(ledger)
  PROVE  OpenMandatory(ledger) # Unknown
<1>1. IsFiniteSet({finding \in ledger : finding.open})
  BY FS_Subset
<1>2. OpenMandatory(ledger) \in Nat
  BY <1>1, FS_CardinalityType DEF OpenMandatory
<1>3. QED
  BY <1>2, UnknownAssumption

Read == DOMAIN Values \cup {"execution_profile"}

LEMMA ReadFields == {"declarations", "facts", "finding_ledger"} \cap Read = {}
BY FieldsAssumption DEF Read, FieldsValid

(* Updating a context with values that are known.                          *)
LEMMA UpdatedKnown ==
  ASSUME NEW ctx, Known(ctx), NEW by, NEW updated, updated = Updated(ctx, by),
         \A field \in DOMAIN by \cap Read : by[field] # Unknown,
         {"facts", "finding_ledger"} \cap DOMAIN by = {}
  PROVE  Known(updated)
<1>1. /\ DOMAIN updated = DOMAIN ctx \cup DOMAIN by
      /\ \A field \in DOMAIN by : updated[field] = by[field]
      /\ \A field \in DOMAIN ctx \ DOMAIN by : updated[field] = ctx[field]
  BY DEF Updated, Has
<1>2. \A field \in DOMAIN updated \cap Read : updated[field] # Unknown
  BY <1>1 DEF Known, Read
<1>3. Part(updated, "facts") = Part(ctx, "facts") /\ Ledger(updated) = Ledger(ctx)
  BY <1>1 DEF Part, Ledger, Has
<1>4. \A fact \in DOMAIN Part(updated, "facts") : updated["facts"][fact] # Unknown
  BY <1>1, <1>3 DEF Known, Part, Has
<1>5. QED
  BY <1>2, <1>3, <1>4 DEF Known, Read

LEMMA WithKnown ==
  ASSUME NEW ctx, Known(ctx), NEW key, key \notin {"facts", "finding_ledger"},
         NEW value, key \in Read => value # Unknown,
         NEW updated, updated = With(ctx, key, value)
  PROVE  Known(updated)
<1>1. PICK by : by = [k \in {key} |-> value]
  OBVIOUS
<1>2. DOMAIN by = {key} /\ by[key] = value
  BY <1>1
<1>3. updated = Updated(ctx, by)
  BY <1>1 DEF With
<1>4. QED
  BY <1>2, <1>3, UpdatedKnown

KnownValue(key, value) ==
  /\ key \in Read => value # Unknown
  /\ key = "facts" => \A fact \in DOMAIN value : value[fact] # Unknown
  /\ key = "finding_ledger" => IsFiniteSet(value)

LEMMA MergedKnown ==
  ASSUME NEW ctx, Known(ctx), NEW v2 \in BOOLEAN, NEW key, NEW value, KnownValue(key, value),
         key = "facts" => DOMAIN value \subseteq Facts,
         NEW merged, merged = Merged(ctx, v2, key, value)
  PROVE  Known(merged)
<1>1. CASE key = "declarations"
  <2>1. \E declared : merged = With(ctx, key, declared)
    BY <1>1 DEF Merged
  <2>2. QED
    BY <1>1, <2>1, ReadFields, WithKnown
<1>2. CASE key = "facts" /\ v2
  <2>0. PICK facts : facts = Updated(Part(ctx, "facts"), value)
    OBVIOUS
  <2>1. merged = With(ctx, key, facts)
    BY <1>2, <2>0 DEF Merged
  <2>2. /\ DOMAIN merged = DOMAIN ctx \cup {"facts"} /\ merged["facts"] = facts
        /\ \A k \in DOMAIN ctx \ {"facts"} : merged[k] = ctx[k]
    BY <1>2, <2>1 DEF With, Updated, Has
  <2>3. \A field \in DOMAIN merged \cap Read : merged[field] # Unknown
    BY <2>2, ReadFields DEF Known, Read
  <2>4. \A fact \in DOMAIN facts : facts[fact] # Unknown
    <3>1. \A fact \in DOMAIN Part(ctx, "facts") : Part(ctx, "facts")[fact] # Unknown
      BY DEF Known, Part
    <3>2. QED
      BY <1>2, <2>0, <3>1 DEF Updated, Has, KnownValue
  <2>5. Ledger(merged) = Ledger(ctx)
    BY <2>2 DEF Ledger, Has
  <2>6. Part(merged, "facts") = facts
    BY <2>2 DEF Part, Has
  <2>7. QED
    BY <2>2, <2>3, <2>4, <2>5, <2>6 DEF Known, Read
<1>3. CASE key = "facts" /\ ~v2
  <2>1. merged = Updated(ctx, value)
    BY <1>3 DEF Merged
  <2>2. {"facts", "finding_ledger"} \cap DOMAIN value = {}
    BY <1>3 DEF Facts
  <2>3. QED
    BY <1>3, <2>1, <2>2, UpdatedKnown DEF KnownValue
<1>4. CASE key = "finding_ledger" /\ v2
  <2>0. PICK ledger : ledger = Ledger(ctx) \cup value
    OBVIOUS
  <2>1. merged = With(ctx, key, ledger)
    BY <1>4, <2>0 DEF Merged
  <2>2. /\ DOMAIN merged = DOMAIN ctx \cup {"finding_ledger"} /\ merged["finding_ledger"] = ledger
        /\ \A k \in DOMAIN ctx \ {"finding_ledger"} : merged[k] = ctx[k]
    BY <1>4, <2>1 DEF With, Updated, Has
  <2>3. \A field \in DOMAIN merged \cap Read : merged[field] # Unknown
    BY <2>2, ReadFields DEF Known, Read
  <2>4. Part(merged, "facts") = Part(ctx, "facts")
    BY <2>2 DEF Part, Has
  <2>5. \A fact \in DOMAIN Part(merged, "facts") : merged["facts"][fact] # Unknown
    BY <2>2, <2>4 DEF Known, Part, Has
  <2>6. IsFiniteSet(Ledger(merged))
    <3>1. Ledger(merged) = ledger
      BY <2>2 DEF Ledger, Has
    <3>2. IsFiniteSet(ledger)
      BY <1>4, <2>0, FS_Union DEF Known, KnownValue
    <3>3. QED
      BY <3>1, <3>2
  <2>7. QED
    BY <2>3, <2>5, <2>6 DEF Known, Read
<1>5. CASE key = "finding_ledger" /\ ~v2
  <2>1. merged = With(ctx, "mandatory_findings", OpenMandatory(value))
    BY <1>5 DEF Merged
  <2>2. OpenMandatory(value) # Unknown
    BY <1>5, OpenMandatoryNat DEF KnownValue
  <2>3. QED
    BY <2>1, <2>2, WithKnown
<1>6. CASE key \notin {"declarations", "facts", "finding_ledger"}
  <2>1. merged = With(ctx, key, value)
    BY <1>6 DEF Merged
  <2>2. QED
    BY <1>6, <2>1, WithKnown DEF KnownValue
<1>7. QED
  BY <1>1, <1>2, <1>3, <1>4, <1>5, <1>6

LEMMA SettledKnown ==
  ASSUME NEW ctx, Known(ctx), Sound(ctx), NEW settled, settled = Settled(ctx)
  PROVE  Known(settled)
<1>1. PICK facts : facts = Part(ctx, "facts")
  OBVIOUS
<1>2. PICK raised :
        raised = [fact \in DOMAIN facts |->
                    IF Has(ctx, fact) /\ ctx[fact] > facts[fact] THEN ctx[fact] ELSE facts[fact]]
  OBVIOUS
<1>3. PICK counted :
        counted = [field \in {f \in {"mandatory_findings"} : Has(ctx, "finding_ledger")} |->
                     OpenMandatory(Ledger(ctx))]
  OBVIOUS
<1>4. settled = Updated(Updated(ctx, raised), counted)
  BY <1>1, <1>2, <1>3 DEF Settled
<1>5. DOMAIN raised \subseteq Facts
  BY <1>1, <1>2 DEF Part, Sound
<1>6. \A field \in DOMAIN raised \cap Read : raised[field] # Unknown
  <2>1. \A fact \in DOMAIN facts : facts[fact] # Unknown
    BY <1>1 DEF Known, Part
  <2>2. QED
    BY <1>2, <2>1 DEF Known, Read, Has
<1>7. Known(Updated(ctx, raised))
  BY <1>5, <1>6, UpdatedKnown DEF Facts
<1>8. /\ DOMAIN counted \subseteq {"mandatory_findings"}
      /\ \A field \in DOMAIN counted : counted[field] # Unknown
  BY <1>3, OpenMandatoryNat DEF Known
<1>9. QED
  BY <1>4, <1>7, <1>8, UpdatedKnown

LEMMA NormalizedKnown ==
  ASSUME NEW ctx, Known(ctx), Versioned(ctx),
         Has(ctx, "facts") => DOMAIN ctx["facts"] \subseteq Facts,
         NEW normal, normal = Normalized(ctx)
  PROVE  Known(normal) /\ DOMAIN ctx \cup {"mode", "target_tier"} \subseteq DOMAIN normal
<1>1. PICK fields : fields = OverwrittenFields(ctx)
  OBVIOUS
<1>2. /\ DOMAIN normal = {"mode", "target_tier", "declarations"} \cup DOMAIN ctx \cup fields
      /\ \A k \in DOMAIN ctx \ (fields \cup {"declarations"}) : normal[k] = ctx[k]
      /\ \A k \in fields : normal[k] = Derived(ctx)[k]
  BY <1>1, NormalizedShape DEF NormalOf
<1>3. PICK declared : declared = Updated(Defaults["declarations"], Part(ctx, "declarations"))
  OBVIOUS
<1>4. PICK over : over = Updated(Defaults, ctx)
  OBVIOUS
<1>5. PICK base : base = With(over, "declarations", declared)
  OBVIOUS
<1>6. normal = IF IsV2(ctx) THEN Updated(base, Derived(ctx)) ELSE base
  BY <1>3, <1>4, <1>5 DEF Normalized
<1>7. Known(over)
  <2>1. /\ DOMAIN over = DOMAIN ctx \cup {"mode", "target_tier", "declarations"}
        /\ \A k \in DOMAIN ctx : over[k] = ctx[k]
        /\ \A k \in {"mode", "target_tier", "declarations"} \ DOMAIN ctx : over[k] = Defaults[k]
    BY <1>4, DefaultsAssumption DEF Updated, Has
  <2>2. \A field \in DOMAIN over \cap Read : over[field] # Unknown
    BY <2>1, SettingsAssumption, ReadFields DEF Known, Read
  <2>3. Part(over, "facts") = Part(ctx, "facts") /\ Ledger(over) = Ledger(ctx)
    BY <2>1 DEF Part, Ledger, Has
  <2>4. \A fact \in DOMAIN Part(over, "facts") : over["facts"][fact] # Unknown
    BY <2>1, <2>3 DEF Known, Part, Has
  <2>5. QED
    BY <2>2, <2>3, <2>4 DEF Known, Read
<1>8. Known(base)
  BY <1>5, <1>7, ReadFields, WithKnown
<1>9. ASSUME IsV2(ctx) PROVE Known(normal)
  <2>1. PICK derived : derived = Derived(ctx)
    OBVIOUS
  <2>2. DOMAIN derived = DerivedFields(ctx)
    BY <2>1 DEF Derived
  <2>3. DerivedFields(ctx) \subseteq Overwritten \cup Counted
    BY DEF DerivedFields, Part, Has, Overwritten, Counted
  <2>4. \A field \in DerivedFields(ctx) : derived[field] # Unknown
    <3> SUFFICES ASSUME NEW field \in DerivedFields(ctx) PROVE derived[field] # Unknown
      OBVIOUS
    <3>1. CASE field = "mode"
      <4>1. derived[field] = ctx["execution_profile"]
        BY <2>1, <3>1 DEF Derived
      <4>2. QED
        BY <1>9, <4>1 DEF Known, Versioned, Has
    <3>2. CASE field = "context_mode"
      <4>1. derived[field] \in {"single", "enterprise"}
        BY <2>1, <3>2 DEF Derived, ContextMode
      <4>2. QED
        BY <4>1, UnknownAssumption
    <3>3. CASE field = "mandatory_findings"
      <4>1. Has(ctx, "finding_ledger")
        BY <3>3 DEF DerivedFields, Part, Facts
      <4>2. derived[field] = OpenMandatory(Ledger(ctx))
        BY <2>1, <3>3, <4>1 DEF Derived, Ledger
      <4>3. QED
        BY <4>2, OpenMandatoryNat DEF Known
    <3>4. CASE field \in Facts
      <4>1. field \in DOMAIN Part(ctx, "facts")
        BY <3>4 DEF DerivedFields, Facts
      <4>2. derived[field] = ctx["facts"][field]
        BY <2>1, <3>4 DEF Derived, Facts
      <4>3. QED
        BY <4>1, <4>2 DEF Known
    <3>5. QED
      BY <2>3, <3>1, <3>2, <3>3, <3>4 DEF Overwritten, Counted
  <2>5. normal = Updated(base, derived)
    BY <1>6, <1>9, <2>1
  <2>6. {"facts", "finding_ledger"} \cap DOMAIN derived = {}
    BY <2>2, <2>3 DEF Overwritten, Counted, Facts
  <2>7. QED
    BY <1>8, <2>2, <2>4, <2>5, <2>6, UpdatedKnown
<1>10. Known(normal)
  BY <1>6, <1>8, <1>9
<1>11. QED
  BY <1>2, <1>10

KnownInv ==
  /\ \A i \in DOMAIN plans :
       /\ Known(plans[i].context)
       /\ {"mode", "target_tier"} \subseteq DOMAIN plans[i].context
       /\ plans[i].parent # 0 =>
            DOMAIN plans[plans[i].parent].context \subseteq DOMAIN plans[i].context
  /\ draft # None =>
       /\ Known(draft.context)
       /\ DOMAIN plans[draft.parent].context \subseteq DOMAIN draft.context
       /\ \A key \in DOMAIN draft.left : KnownValue(key, draft.left[key])

LEMMA AmendmentKnown ==
  ASSUME NEW ctx, Known(ctx), NEW key \in DOMAIN ctx
  PROVE  KnownValue(key, ctx[key])
BY DEF Known, KnownValue, Read, Part, Ledger, Has

LEMMA InitKnown == Init => KnownInv
<1> SUFFICES ASSUME Init PROVE KnownInv
  OBVIOUS
<1>1. PICK supplied \in Supplied : plans = <<PlanFor(supplied, 0)>>
  BY DEF Init
<1>2. PICK plan : plan = PlanFor(supplied, 0)
  OBVIOUS
<1>3. DOMAIN plans = {1} /\ plans[1] = plan
  BY <1>1, <1>2
<1>4. plan.context = Normalized(supplied) /\ plan.parent = 0
  BY <1>2, PlanForSound
<1>5. /\ Known(supplied) /\ Versioned(supplied)
      /\ Has(supplied, "facts") => DOMAIN supplied["facts"] \subseteq Facts
  BY ContextsAssumption DEF ContextsValid, Versioned
<1>6. Known(plan.context) /\ {"mode", "target_tier"} \subseteq DOMAIN plan.context
  BY <1>4, <1>5, NormalizedKnown
<1>7. QED
  BY <1>3, <1>4, <1>6 DEF KnownInv, Init

LEMMA ReviseKnown ==
  ASSUME IInv, KnownInv, NEW parent \in DOMAIN plans, NEW amendment \in Amendments,
         Revise(parent, amendment)
  PROVE  KnownInv'
<1>1. /\ draft'.parent = parent /\ draft'.context = plans[parent].context
      /\ draft'.left = amendment /\ plans' = plans
  BY DEF Revise
<1>2. Known(amendment)
  BY ContextsAssumption DEF ContextsValid
<1>3. \A key \in DOMAIN amendment : KnownValue(key, amendment[key])
  BY <1>2, AmendmentKnown
<1>4. QED
  BY <1>1, <1>3 DEF KnownInv

LEMMA MergeKeyKnown ==
  ASSUME IInv, KnownInv, draft # None, NEW key \in DOMAIN draft.left, MergeKey(key)
  PROVE  KnownInv'
<1>1. CASE Refuses(draft.context, draft.v2, key, draft.left[key])
  <2>1. draft' = None /\ plans' = plans
    BY <1>1 DEF MergeKey
  <2>2. QED
    BY <2>1 DEF KnownInv
<1>2. CASE ~Refuses(draft.context, draft.v2, key, draft.left[key])
  <2>1. /\ DOMAIN draft = {"parent", "context", "v2", "left"} /\ draft.v2 \in BOOLEAN
        /\ Sound(draft.context)
        /\ Has(draft.left, "facts") => DOMAIN draft.left["facts"] \subseteq Facts
    BY DEF IInv, DraftInv
  <2>2. PICK merged : merged = Merged(draft.context, draft.v2, key, draft.left[key])
    OBVIOUS
  <2>3. /\ plans' = plans /\ draft'.parent = draft.parent /\ draft'.context = merged
        /\ draft'.left = [k \in DOMAIN draft.left \ {key} |-> draft.left[k]]
    BY <1>2, <2>1, <2>2 DEF MergeKey
  <2>4. key = "facts" => DOMAIN draft.left[key] \subseteq Facts
    BY <2>1 DEF Has
  <2>5. DOMAIN draft.context \subseteq DOMAIN merged
    BY <1>2, <2>1, <2>2, <2>4, MergedKeeps
  <2>6. Known(merged)
    BY <2>1, <2>2, <2>4, MergedKnown DEF KnownInv
  <2>7. /\ DOMAIN plans[draft.parent].context \subseteq DOMAIN merged
        /\ \A k \in DOMAIN draft'.left : KnownValue(k, draft'.left[k])
    BY <2>3, <2>5 DEF KnownInv
  <2>8. QED
    BY <2>3, <2>6, <2>7 DEF KnownInv
<1>3. QED
  BY <1>1, <1>2

LEMMA EvaluateKnown ==
  ASSUME IInv, KnownInv, Evaluate
  PROVE  KnownInv'
<1>1. PICK parent : parent = draft.parent
  OBVIOUS
<1>2. PICK child : child = PlanFor(Settled(draft.context), parent)
  OBVIOUS
<1>3. /\ draft # None /\ DOMAIN draft.left = {} /\ draft' = None
      /\ plans' = plans \/ plans' = Append(plans, child)
  BY <1>1, <1>2 DEF Evaluate
<1>4. CASE plans' = plans
  BY <1>3, <1>4 DEF KnownInv
<1>5. CASE plans' = Append(plans, child)
  <2>1. /\ parent \in DOMAIN plans /\ Sound(draft.context) /\ Versioned(draft.context)
        /\ Keeps(plans[parent].context, draft.context)
    BY <1>1, <1>3 DEF IInv, DraftInv, Versioned, Has
  <2>2. PICK settled : settled = Settled(draft.context)
    OBVIOUS
  <2>3. child.context = Normalized(settled) /\ child.parent = parent
    BY <1>2, <2>2, PlanForSound
  <2>4. Agrees(draft.context, settled, Counted)
    BY <2>1, <2>2, SettledAgrees
  <2>5. Sound(settled) /\ Versioned(settled)
    <3>1. Sound(settled)
      BY <2>1, <2>4, AgreesKeeps
    <3>2. \A k \in Immutable : /\ Has(settled, k) <=> Has(draft.context, k)
                               /\ Has(settled, k) => settled[k] = draft.context[k]
      BY <2>4 DEF Agrees, Immutable, Counted, Facts, Has
    <3>3. {"schema_version", "organization_scope", "execution_profile"} \subseteq Immutable
      BY DEF Immutable
    <3>4. QED
      BY <2>1, <3>1, <3>2, <3>3 DEF Versioned, IsV2
  <2>6. Known(settled)
    BY <1>3, <2>1, <2>2, SettledKnown DEF KnownInv
  <2>7. /\ Known(child.context)
        /\ DOMAIN settled \cup {"mode", "target_tier"} \subseteq DOMAIN child.context
    BY <2>3, <2>5, <2>6, NormalizedKnown DEF Sound
  <2>8. DOMAIN plans[parent].context \subseteq DOMAIN child.context
    BY <1>1, <1>3, <2>4, <2>7 DEF KnownInv, Agrees
  <2>9. PICK T : plans \in Seq(T)
    BY DEF IInv, PlansInv
  <2>10. /\ Len(plans) \in Nat /\ DOMAIN plans = 1..Len(plans)
         /\ DOMAIN plans' = 1..(Len(plans) + 1)
         /\ plans'[Len(plans) + 1] = child
         /\ \A i \in DOMAIN plans : plans'[i] = plans[i]
    <3>1. plans \in Seq(T \cup {child})
      BY <2>9, SeqMonotonic
    <3>2. QED
      BY <1>5, <2>9, <3>1
  <2>11. ASSUME NEW i \in DOMAIN plans'
         PROVE  /\ Known(plans'[i].context)
                /\ {"mode", "target_tier"} \subseteq DOMAIN plans'[i].context
                /\ plans'[i].parent # 0 =>
                     DOMAIN plans'[plans'[i].parent].context \subseteq DOMAIN plans'[i].context
    <3>1. CASE i \in DOMAIN plans
      <4>1. plans'[i] = plans[i]
        BY <2>10, <3>1
      <4>2. plans[i].parent \in 0..(i - 1)
        BY <3>1 DEF IInv, PlansInv
      <4>3. plans[i].parent # 0 => plans'[plans[i].parent] = plans[plans[i].parent]
        BY <2>10, <3>1, <4>2
      <4>4. QED
        BY <3>1, <4>1, <4>3 DEF KnownInv
    <3>2. CASE i \notin DOMAIN plans
      <4>1. plans'[i] = child /\ plans'[parent] = plans[parent]
        BY <2>1, <2>10, <3>2
      <4>2. QED
        BY <2>3, <2>7, <2>8, <4>1
    <3>3. QED
      BY <3>1, <3>2
  <2>12. QED
    BY <1>3, <2>11 DEF KnownInv
<1>6. QED
  BY <1>3, <1>4, <1>5

LEMMA KnownInvariance == Spec => []KnownInv
<1>1. IInv /\ KnownInv /\ [Next]_vars => KnownInv'
  <2> SUFFICES ASSUME IInv, KnownInv, [Next]_vars PROVE KnownInv'
    OBVIOUS
  <2>1. CASE \E parent \in DOMAIN plans, amendment \in Amendments : Revise(parent, amendment)
    BY <2>1, ReviseKnown
  <2>2. CASE draft # None /\ \E key \in DOMAIN draft.left : MergeKey(key)
    BY <2>2, MergeKeyKnown
  <2>3. CASE Evaluate
    BY <2>3, EvaluateKnown
  <2>4. CASE UNCHANGED vars
    BY <2>4 DEF KnownInv, vars
  <2>5. QED
    BY <2>1, <2>2, <2>3, <2>4 DEF Next
<1>2. QED
  BY <1>1, InitKnown, Invariance, PTL DEF Spec

(* The plans that plan q keeps the obligations and the fields of.          *)
Line(q) == {i \in DOMAIN plans : /\ DirectlyKept(plans[i], plans[q])
                                 /\ DOMAIN plans[i].context \subseteq DOMAIN plans[q].context}

LEMMA RevisionKeepsFields ==
  ASSUME IInv, KnownInv, NEW p \in DOMAIN plans, NEW q \in DOMAIN plans, RevisionOf(q, p)
  PROVE  DirectlyKept(plans[p], plans[q]) /\ DOMAIN plans[p].context \subseteq DOMAIN plans[q].context
<1>1. q \in Line(q)
  BY DEF Line, DirectlyKept, FindingsKept, AnswersKept, ImmutablesKept, Has
<1>2. ASSUME NEW i \in Line(q), plans[i].parent # 0 PROVE plans[i].parent \in Line(q)
  <2>1. i \in DOMAIN plans
    BY DEF Line
  <2>2. plans[i].parent \in DOMAIN plans
    <3>1. plans[i].parent \in 0..(i - 1)
      BY <2>1 DEF IInv, PlansInv
    <3>2. DOMAIN plans = 1..Len(plans) /\ Len(plans) \in Nat
      BY DEF IInv, PlansInv
    <3>3. QED
      BY <1>2, <2>1, <3>1, <3>2
  <2>3. /\ DirectlyKept(plans[plans[i].parent], plans[i])
        /\ DOMAIN plans[plans[i].parent].context \subseteq DOMAIN plans[i].context
    BY <1>2, <2>1 DEF IInv, PlansInv, KnownInv
  <2>4. QED
    BY <2>2, <2>3, DirectlyKeptTransitive DEF Line
<1>3. Line(q) \in SUBSET DOMAIN plans
  BY DEF Line
<1>4. p \in Line(q)
  BY <1>1, <1>2, <1>3 DEF RevisionOf
<1>5. QED
  BY <1>4 DEF Line

LEMMA KnownFieldsStay ==
  ASSUME NEW was, NEW is, Known(is), DOMAIN was \subseteq DOMAIN is, AnswersKept(was, is)
  PROVE  StaysKnown(was, is)
<1> SUFFICES ASSUME NEW field \in DOMAIN Values, Resolved(was, field) # Unknown
             PROVE  Resolved(is, field) # Unknown
  BY DEF StaysKnown
<1>1. CASE Has(is, field)
  BY <1>1 DEF Known, Resolved, Has
<1>2. CASE ~Has(is, field)
  <2>1. /\ ~Has(was, field)
        /\ Has(was["declarations"], field) /\ was["declarations"][field] # Unknown
    BY <1>2 DEF Resolved, Has
  <2>2. /\ Has(is["declarations"], field)
        /\ is["declarations"][field] = was["declarations"][field]
    BY <2>1 DEF AnswersKept, Has
  <2>3. QED
    BY <1>2, <2>1, <2>2 DEF Resolved
<1>3. QED
  BY <1>1, <1>2


-----------------------------------------------------------------------------
(* The theorems.                                                           *)

(* A gate never has two verdicts, a plan is revised from an earlier plan,  *)
(* and contexts stay readable, for any manifest and any amendments.        *)
THEOREM TypeCorrect == Spec => []TypeOK
<1>1. IInv => TypeOK
  BY DEF IInv, PlansInv, DraftInv, TypeOK, PlanSound, Sound
<1>2. QED
  BY <1>1, Invariance, PTL

(* No chain of revisions, however long, loses an active gate, a finding, an *)
(* answer, or, unless the context was upgraded, an immutable field.        *)
THEOREM ObligationsAlwaysKept == Spec => []ObligationsKept
<1>1. ASSUME IInv, NEW p \in DOMAIN plans, NEW q \in DOMAIN plans, RevisionOf(q, p)
      PROVE  DirectlyKept(plans[p], plans[q])
  <2> DEFINE line == {i \in DOMAIN plans : DirectlyKept(plans[i], plans[q])}
  <2>1. q \in line
    BY DEF DirectlyKept, FindingsKept, AnswersKept, ImmutablesKept, Has
  <2>2. ASSUME NEW i \in line PROVE plans[i].parent \in line \cup {0}
    <3>1. CASE plans[i].parent = 0
      BY <3>1
    <3>2. CASE plans[i].parent # 0
      <4>1. plans[i].parent \in DOMAIN plans
        <5>1. plans[i].parent \in 0..(i - 1)
          BY <1>1, <2>2 DEF IInv, PlansInv
        <5>2. DOMAIN plans = 1..Len(plans) /\ Len(plans) \in Nat
          BY <1>1 DEF IInv, PlansInv
        <5>3. QED
          BY <2>2, <3>2, <5>1, <5>2
      <4>2. DirectlyKept(plans[plans[i].parent], plans[i])
        BY <1>1, <2>2, <3>2 DEF IInv, PlansInv
      <4>3. DirectlyKept(plans[i], plans[q])
        BY <2>2
      <4>4. QED
        BY <4>1, <4>2, <4>3, DirectlyKeptTransitive
    <3>3. QED
      BY <3>1, <3>2
  <2>3. line \in SUBSET DOMAIN plans
    OBVIOUS
  <2>4. p \in line
    BY <1>1, <2>1, <2>2, <2>3 DEF RevisionOf
  <2>5. QED
    BY <2>4
<1>2. IInv => ObligationsKept
  BY <1>1 DEF ObligationsKept, DirectlyKept
<1>3. QED
  BY <1>2, Invariance, PTL

(* Every plan ever made is accepted when it is evaluated again, so that a  *)
(* plan can always be revised and used by whoever checks it first.         *)
THEOREM PlansAlwaysMatch == Spec => []PlansMatch
<1>1. Init => PlansMatch
  <2> SUFFICES ASSUME Init PROVE PlansMatch
    OBVIOUS
  <2>1. PICK supplied \in Supplied : plans = <<PlanFor(supplied, 0)>>
    BY DEF Init
  <2>2. PICK plan : plan = PlanFor(supplied, 0)
    OBVIOUS
  <2>3. Has(supplied, "facts") => DOMAIN supplied["facts"] \subseteq Facts
    BY ContextsAssumption DEF ContextsValid
  <2>4. Matches(plan)
    BY <2>2, <2>3, PlanForMatches
  <2>5. QED
    BY <2>1, <2>2, <2>4 DEF PlansMatch
<1>2. IInv /\ PlansMatch /\ [Next]_vars => PlansMatch'
  <2> SUFFICES ASSUME IInv, PlansMatch, [Next]_vars PROVE PlansMatch'
    OBVIOUS
  <2>1. CASE UNCHANGED plans
    BY <2>1 DEF PlansMatch
  <2>2. CASE Evaluate /\ ~UNCHANGED plans
    <3>1. PICK child : child = PlanFor(Settled(draft.context), draft.parent)
      OBVIOUS
    <3>2. draft # None /\ plans' = Append(plans, child)
      BY <2>2, <3>1 DEF Evaluate
    <3>3. PICK settled : settled = Settled(draft.context)
      OBVIOUS
    <3>4. Sound(draft.context)
      BY <3>2 DEF IInv, DraftInv
    <3>5. Sound(settled)
      BY <3>3, <3>4, SettledAgrees, AgreesKeeps
    <3>6. Matches(child)
      BY <3>1, <3>3, <3>5, PlanForMatches DEF Sound
    <3>7. \A i \in DOMAIN plans' : plans'[i] = child \/ (i \in DOMAIN plans /\ plans'[i] = plans[i])
      BY <3>2 DEF IInv, PlansInv
    <3>8. QED
      BY <3>6, <3>7 DEF PlansMatch
  <2>3. QED
    BY <2>1, <2>2 DEF Next, Revise, MergeKey, vars
<1>3. QED
  BY <1>1, <1>2, Invariance, PTL DEF Spec

(* Verdicts of plans are those of their context.                           *)
LEMMA PlanVerdicts ==
  ASSUME NEW plan, Matches(plan)
  PROVE  /\ plan.active = GatesThat("true", plan.context)
         /\ plan.unknown = GatesThat("unknown", plan.context)
<1>1. PICK again : again = PlanFor(plan.context, plan.parent)
  OBVIOUS
<1>2. again = plan
  BY <1>1 DEF Matches
<1>3. /\ again.context = Normalized(plan.context)
      /\ again.active = GatesThat("true", Normalized(plan.context))
      /\ again.unknown = GatesThat("unknown", Normalized(plan.context))
  BY <1>1 DEF PlanFor
<1>4. QED
  BY <1>2, <1>3

(* A gate is active, inactive or undecided exactly as the unknowns of its  *)
(* plan's context determine, whatever has been revised.                    *)
THEOREM VerdictsAlwaysExact == Spec => []VerdictsExact
<1>1. ASSUME IInv, PlansMatch PROVE VerdictsExact
  <2> DEFINE outcomes(i, g) == {Truth(Activation[g], ctx) :
                                  ctx \in Completions(Activation[g], plans[i].context)}
  <2>1. ASSUME NEW i \in DOMAIN plans, NEW g \in Gates
        PROVE  /\ g \in plans[i].active <=> outcomes(i, g) = {"true"}
               /\ g \in plans[i].unknown <=> outcomes(i, g) = {"true", "false"}
    <3>1. Has(plans[i].context, "declarations")
      BY <1>1 DEF IInv, PlansInv, PlanSound, Sound
    <3>2. PICK turned : turned = outcomes(i, g)
      OBVIOUS
    <3>3. /\ Truth(Activation[g], plans[i].context) = "true" <=> turned = {"true"}
          /\ Truth(Activation[g], plans[i].context) = "unknown" <=> turned = {"true", "false"}
      BY <3>1, <3>2, ExpressionsAssumption, ManifestAssumption, TruthExact
    <3>4. /\ plans[i].active = GatesThat("true", plans[i].context)
          /\ plans[i].unknown = GatesThat("unknown", plans[i].context)
      BY <1>1, PlanVerdicts DEF PlansMatch
    <3>5. QED
      BY <3>2, <3>3, <3>4 DEF GatesThat
  <2>2. QED
    BY <2>1 DEF VerdictsExact
<1>2. QED
  BY <1>1, Invariance, PlansAlwaysMatch, PTL

(* No chain of revisions makes a gate undecided that was decided before.   *)
THEOREM DecidedAlwaysStays == Spec => []DecidedStays
<1>1. ASSUME IInv, KnownInv, PlansMatch PROVE DecidedStays
  <2> SUFFICES ASSUME NEW p \in DOMAIN plans, NEW q \in DOMAIN plans, RevisionOf(q, p),
                      SameVersion(plans[p].context, plans[q].context),
                      NEW g \in plans[q].unknown, g \notin plans[p].unknown
               PROVE  FALSE
    BY DEF DecidedStays
  <2>1. PICK was : was = plans[p].context
    OBVIOUS
  <2>2. PICK is : is = plans[q].context
    OBVIOUS
  <2>3. DirectlyKept(plans[p], plans[q]) /\ DOMAIN was \subseteq DOMAIN is
    BY <1>1, <2>1, <2>2, RevisionKeepsFields
  <2>4. /\ Known(was) /\ Known(is) /\ {"mode", "target_tier"} \subseteq DOMAIN was
        /\ g \in Gates /\ g \notin plans[q].active
    BY <1>1, <2>1, <2>2 DEF KnownInv, IInv, PlansInv
  <2>5. AnswersKept(was, is) /\ ImmutablesKept(was, is) /\ g \notin plans[p].active
    BY <2>1, <2>2, <2>3, <2>4 DEF DirectlyKept
  <2>6. StaysKnown(was, is)
    BY <2>3, <2>4, <2>5, KnownFieldsStay
  <2>7. SettingsStay(was, is)
    <3>1. Settings \subseteq Immutable /\ Settings \subseteq DOMAIN was
      BY <2>4, DefaultsAssumption DEF Settings, Immutable
    <3>2. QED
      BY <2>4, <2>5, <3>1 DEF SettingsStay, ImmutablesKept, Resolved, Has, Known
  <2>8. /\ Truth(Activation[g], was) \notin {"true", "unknown"}
        /\ Truth(Activation[g], is) = "unknown"
    <3>1. /\ plans[p].active = GatesThat("true", was) /\ plans[p].unknown = GatesThat("unknown", was)
          /\ plans[q].unknown = GatesThat("unknown", is)
      BY <1>1, <2>1, <2>2, PlanVerdicts DEF PlansMatch
    <3>2. QED
      BY <2>4, <2>5, <3>1 DEF GatesThat
  <2>9. Parsed(Activation[g]) /\ Guarded(Activation[g])
    BY <2>4, ExpressionsAssumption, ManifestAssumption
  <2>10. Truth(Activation[g], was) = "false"
    <3>1. Len(Activation[g]) \in DOMAIN Activation[g]
      BY <2>9 DEF Parsed
    <3>2. Truth(Activation[g], was) \in Verdicts
      BY <2>9, <3>1, TruthOf DEF Truth
    <3>3. QED
      BY <2>8, <3>2 DEF Verdicts
  <2>11. QED
    BY <2>6, <2>7, <2>8, <2>9, <2>10, FalseStaysDecided
<1>2. QED
  BY <1>1, Invariance, KnownInvariance, PlansAlwaysMatch, PTL

=============================================================================
