---------------------------- MODULE MCAuditCycle ----------------------------
(***************************************************************************)
(* Instances of AuditCycle: three modules as in modules/: evidence anchors *)
(* (E), architecture decisions that need what E produces (A), and a meta   *)
(* module (M) that covers two gates and asks for both.  Repositories the   *)
(* registry validation must refuse differ from a valid one in one place.   *)
(***************************************************************************)
EXTENDS AuditCycle, TLC

CONSTANTS E, A, M, HG_E, HG_A, HG_M, HG_EF, good, failed, sound, bare

MCModules == {E, A, M}
MCGates   == {HG_E, HG_A, HG_M, HG_EF}
MCPhases  == {"E", "M"}
MCPhaseOf == HG_E :> "E" @@ HG_A :> "E" @@ HG_M :> "M" @@ HG_EF :> "M"

Makes(output, schema, required) ==
  [output |-> output, schema |-> schema, required |-> required, single |-> TRUE]

Decision == Makes("module_decision", "decision", FALSE)
Anchors  == Makes("anchors", "artifact", TRUE)
Needs(output) == [output |-> output, schema |-> "artifact", required |-> TRUE]

Document(rev, covers, phase, deps, needs, makes) ==
  [rev |-> rev, priority |-> 10, state |-> "sound", covers |-> covers, phases |-> {phase}, deps |-> deps,
   conflicts |-> {}, policy |-> "any_active_gate", needs |-> needs, makes |-> makes,
   reads |-> {"mode"}, requires |-> {}, tools |-> {"read"}, instructions |-> 1, budget |-> 512]

DocE == Document(1, {HG_E}, "E", {}, {}, {Decision, Anchors})
DocA == Document(1, {HG_A}, "E", {E}, {Needs("anchors")}, {Decision})
DocM == [Document(1, {HG_M, HG_EF}, "M", {}, {}, {Decision}) EXCEPT
           !.policy = "all_active_gates"]

File(rev, tokens) == [rev |-> rev, state |-> "sound", tokens |-> tokens]

Base == [listed |-> MCModules, sound |-> TRUE, complete |-> TRUE, required |-> {HG_E},
         hard |-> 400, percent |-> 75,
         documents |-> E :> DocE @@ A :> DocA @@ M :> DocM,
         files |-> E :> File(1, 200) @@ A :> File(1, 100) @@ M :> File(1, 100),
         pins |-> E :> 1 @@ A :> 1 @@ M :> 1]

(* Base with another document of m, pinned.                                *)
Changed(m, document) == [Base EXCEPT !.documents[m] = document, !.pins[m] = document.rev]

(* Valid repositories: a new revision of E with other instructions for A;  *)
(* E and M at odds with each other and too little room for E.              *)
Revised  == [Changed(E, [DocE EXCEPT !.rev = 2]) EXCEPT
               !.documents[A] = [DocA EXCEPT !.rev = 3, !.instructions = 2], !.pins[A] = 3,
               !.files[A] = File(2, 90)]
Strained == [Changed(E, [DocE EXCEPT !.rev = 7, !.conflicts = {M}]) EXCEPT
               !.documents[M] = [DocM EXCEPT !.rev = 2, !.conflicts = {E}], !.pins[M] = 2,
               !.hard = 200]

(* And those that are not.                                                 *)
Written ==
  "base"          :> Base @@
  "revised"       :> Revised @@
  "strained"      :> Strained @@
  "not pinned"    :> [Base EXCEPT !.documents[E].rev = 3, !.documents[E].tools = {}] @@
  "instructions"  :> [Base EXCEPT !.files[E] = File(3, 200)] @@
  "too long"      :> Changed(E, [DocE EXCEPT !.rev = 4, !.budget = 100]) @@
  "no such tool"  :> Changed(E, [DocE EXCEPT !.rev = 5, !.requires = {"network"}]) @@
  "cycle"         :> Changed(E, [DocE EXCEPT !.rev = 6, !.deps = {A}]) @@
  "two owners"    :> Changed(M, [DocM EXCEPT !.rev = 3, !.covers = @ \cup {HG_A},
                                              !.phases = {"E", "M"}]) @@
  "no owner"      :> Changed(M, [DocM EXCEPT !.rev = 4, !.covers = {HG_M}]) @@
  "one-sided"     :> Changed(M, [DocM EXCEPT !.rev = 5, !.conflicts = {A}]) @@
  "no producer"   :> Changed(A, [DocA EXCEPT !.rev = 4, !.deps = {}]) @@
  "wrong version" :> [Base EXCEPT !.sound = FALSE]

MCBundles == DOMAIN Written
MCContents == Written
MCEdited == {"base", "revised", "strained"}
MCInstalled == MCBundles \ {"revised", "strained"}

States(e, a, m, ef) == HG_E :> e @@ HG_A :> a @@ HG_M :> m @@ HG_EF :> ef

MCActivations ==
  {States("active", "active", "inactive", "inactive"),
   States("inactive", "active", "active", "inactive"),
   States("active", "unknown", "active", "active")}

(* Claims: one that supports every gate, and one over a source its receipt *)
(* does not cover.                                                         *)
MCClaims == {sound, bare}
MCClaimOf ==
  sound :> [verified |-> TRUE, trace |-> MCGates, tainted |-> {"source"}, receipts |-> {good}] @@
  bare  :> [verified |-> TRUE, trace |-> {HG_E}, tainted |-> {"source"}, receipts |-> {failed}]
MCClaimReceiptOf ==
  good   :> [good |-> TRUE, covers |-> {"source"}] @@
  failed :> [good |-> FALSE, covers |-> {"source"}]

Output(output, taint) ==
  [output |-> output, schema |-> IF output = "module_decision" THEN "decision" ELSE "artifact",
   taint |-> taint, receipts |-> None, agrees |-> TRUE]

Result(state, trace, claims, cites) ==
  [state |-> state, trace |-> trace, evidence |-> {Ref("claim", c) : c \in claims},
   citesInputs |-> cites]

Completed(result, outputs) == [status |-> "completed", result |-> result, outputs |-> outputs]

Plain    == Output("module_decision", "tainted")
Anchored == {Plain, Output("anchors", "validated")}

MCOutcomes ==
  {Completed(Result("pass", MCGates, {sound}, FALSE), {Plain}),
   Completed(Result("pass", MCGates, {sound}, FALSE), Anchored),
   Completed(Result("pass", {HG_A}, {}, TRUE), {Plain}),
   Completed(Result("pass", {HG_E}, {bare}, FALSE), Anchored),
   Completed(Result("pass", {HG_A}, {sound}, FALSE), Anchored),
   Completed(Result("fail", MCGates, {}, FALSE), {[Plain EXCEPT !.agrees = FALSE]}),
   Completed(Result("not_applicable", MCGates, {}, FALSE), {Plain}),
   Completed(Result("unknown", {HG_E}, {}, FALSE), {Plain, Output("anchors", "tainted")})}

Item(claim) == [claim |-> claim, verified |-> FALSE, faithful |-> TRUE]
Finding(status, disposition, claim) ==
  [priority |-> "mandatory", status |-> status, disposition |-> disposition, trace |-> {HG_E},
   evidence |-> {Item(claim)}]

MCFindings ==
  {{Finding("verified", "remediated", sound)}, {Finding("inferred", "accepted_risk", sound)},
   {Finding("contradicted", "false_positive", None)}}
=============================================================================
