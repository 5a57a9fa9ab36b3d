---------------------------- MODULE JudgeProofs -----------------------------
(***************************************************************************)
(* Proofs about Judge for any requests, replies, bindings and number of    *)
(* calls, and a pipe of any size.                                          *)
(***************************************************************************)
EXTENDS Judge, TLAPS

(* What is in the queue is a reply, and who reads has seen the child end.  *)
ChildInv ==
  /\ child.state = "writing" \/ child.written > 0 => child.reply \in Replies
  /\ call # None /\ call.at = "reading" => child.state = "exited"

CallsCounted == call # None => calls > 0

(* What a verdict that is returned rests on.                               *)
ResultSound(r) ==
  r.verdict # None =>
    /\ r.status = r.verdict.status
    /\ r.verdict.packet = r.packet
    /\ Covers(r.packet, r.verdict.decisions)
    /\ r.from # None
    /\ r.from.state = "exited"
    /\ r.from.code = 0
    /\ r.from.left = 0
    /\ r.from.reply.kind = "answer"
    /\ r.from.reply.decisions = r.verdict.decisions

ResultsSound == \A r \in results : ResultSound(r)

SignedReturned == \A s \in signed : s.key = JudgeKey => s.verdict \in Verdicts

Inv == /\ TypeOK
       /\ ChildInv
       /\ CallsCounted
       /\ ResultsSound
       /\ SignedReturned
       /\ AcceptedIsJudged

LEMMA NoneApart ==
  None \notin Requests /\ None \notin VerdictRecords /\ None \notin ChildRecords
    /\ None \notin CallRecords
  BY NoneAssumption

LEMMA NoChildType == NoChild \in ChildRecords /\ NoChild.state = "exited" /\ NoChild.written = 0
  BY ConstantsAssumption DEF NoChild, ChildRecords, ChildStates

LEMMA InitInv == Init => Inv
  <1> SUFFICES ASSUME Init PROVE Inv
    OBVIOUS
  <1>1. TypeOK
    BY NoChildType, ConstantsAssumption DEF Init, TypeOK
  <1>2. QED
    BY <1>1, NoChildType
       DEF Init, Inv, ChildInv, CallsCounted, ResultsSound, SignedReturned, AcceptedIsJudged

(* The call under way, if there is one.                                    *)
LEMMA CallType ==
  ASSUME Inv, call # None
  PROVE  /\ call \in CallRecords
         /\ call.packet \in packets
         /\ call.packet \in Requests
         /\ calls \in 1..MaxCalls
  BY ConstantsAssumption DEF Inv, TypeOK, CallRecords, CallsCounted

-----------------------------------------------------------------------------
(* The kinds of steps.                                                     *)

(* Policy and evidence: the call does not notice.                          *)
LEMMA PolicyKeeps ==
  ASSUME Inv, allowed' \subseteq Bindings, packets \subseteq packets', packets' \subseteq Requests,
         UNCHANGED <<calls, call, child, results, evidenceVars>>
  PROVE  Inv'
  <1>1. UNCHANGED <<signed, accepted>>
    BY DEF evidenceVars
  <1>2. TypeOK'
    BY <1>1 DEF Inv, TypeOK
  <1>3. QED
    BY <1>1, <1>2 DEF Inv, ChildInv, CallsCounted, ResultsSound, ResultSound, SignedReturned, Verdicts,
                      AcceptedIsJudged

LEMMA ChildKeeps ==
  ASSUME Inv, ChildStep, child' \in ChildRecords,
         child'.state = "writing" \/ child'.written > 0 => child'.reply \in Replies,
         child.state = "exited" => child'.state = "exited"
  PROVE  Inv'
  <1>1. UNCHANGED <<allowed, packets, calls, call, results, signed, accepted>>
    BY DEF ChildStep, policyVars, evidenceVars
  <1>2. TypeOK'
    BY <1>1 DEF Inv, TypeOK
  <1>3. ChildInv'
    BY <1>1 DEF Inv, ChildInv
  <1>4. QED
    BY <1>1, <1>2, <1>3 DEF Inv, CallsCounted, ResultsSound, ResultSound, SignedReturned, Verdicts,
                            AcceptedIsJudged

LEMMA GoesKeeps ==
  ASSUME Inv, call # None, NEW stage \in Stages, GoesTo(stage),
         stage = "reading" => child.state = "exited"
  PROVE  Inv'
  <1> DEFINE next == [call EXCEPT !.at = stage]
  <1>1. call \in CallRecords /\ call.packet \in packets
    BY CallType
  <1>2. next \in [packet: packets, at: Stages] /\ next # None /\ next.at = stage
    BY <1>1, NoneApart DEF CallRecords, Inv, TypeOK
  <1>3. call' = next /\ UNCHANGED <<allowed, packets, calls, child, results,
                                    signed, accepted>>
    BY DEF GoesTo, policyVars, evidenceVars
  <1> HIDE DEF next
  <1>4. TypeOK'
    BY <1>2, <1>3 DEF Inv, TypeOK
  <1>5. ChildInv' /\ CallsCounted'
    BY <1>2, <1>3 DEF Inv, ChildInv, CallsCounted
  <1>6. QED
    BY <1>3, <1>4, <1>5 DEF Inv, ResultsSound, ResultSound, SignedReturned, Verdicts,
                            AcceptedIsJudged

LEMMA ReturnsKeeps ==
  ASSUME Inv, call # None,
         NEW status \in {"complete", "unknown", "blocked", "raised"}, NEW reason \in Reasons,
         NEW verdict \in VerdictRecords \cup {None}, Returns(status, reason, verdict),
         ResultSound(Result(status, reason, verdict))
  PROVE  Inv'
  <1> DEFINE r == Result(status, reason, verdict)
  <1>1. r \in ResultRecords
    BY CallType DEF Result, ResultRecords, Inv, TypeOK, PipeFull
  <1>2. /\ results' = results \cup {r} /\ call' = None /\ child' = NoChild
        /\ UNCHANGED <<allowed, packets, calls, signed, accepted>>
    BY DEF Returns, policyVars, evidenceVars
  <1>3. ResultSound(r)
    OBVIOUS
  <1> HIDE DEF r
  <1>4. TypeOK'
    BY <1>1, <1>2, NoChildType DEF Inv, TypeOK
  <1>5. ChildInv' /\ CallsCounted'
    BY <1>2, NoChildType DEF Inv, ChildInv, CallsCounted
  <1>6. ResultsSound'
    BY <1>2, <1>3 DEF Inv, ResultsSound, ResultSound
  <1>7. SignedReturned'
    BY <1>2 DEF Inv, SignedReturned, Verdicts
  <1>8. AcceptedIsJudged'
    BY <1>2 DEF Inv, AcceptedIsJudged
  <1>9. QED
    BY <1>4, <1>5, <1>6, <1>7, <1>8 DEF Inv

-----------------------------------------------------------------------------
(* Each step.                                                              *)

LEMMA ChildActions ==
  ASSUME Inv, \/ \E r \in Replies : Answer(r)
              \/ Write \/ Exit \/ ExitSilent
              \/ \E code \in {0, 1} : Die(code)
  PROVE  Inv'
  <1>1. child \in ChildRecords /\ ChildInv
    BY DEF Inv, TypeOK
  <1>2. ASSUME NEW r \in Replies, Answer(r) PROVE Inv'
    <2> DEFINE next == [child EXCEPT !.state = "writing", !.reply = r, !.left = r.size]
    <2>1. next \in ChildRecords /\ next.state = "writing" /\ next.reply = r
      BY <1>1, ConstantsAssumption DEF ChildRecords, ChildStates
    <2>2. child' = next /\ child.state = "thinking" /\ ChildStep
      BY <1>2 DEF Answer
    <2> HIDE DEF next
    <2>3. QED
      BY <2>1, <2>2, ChildKeeps
  <1>3. CASE Write
    <2> DEFINE next == [child EXCEPT !.written = @ + 1, !.left = @ - 1]
    <2>1. /\ child.written + 1 \in 0..PipeSize /\ child.left - 1 \in Nat
          /\ child.state = "writing"
      BY <1>1, <1>3, ConstantsAssumption DEF Write, ChildRecords
    <2>2. next \in ChildRecords /\ next.state = "writing" /\ next.reply = child.reply
      BY <1>1, <2>1 DEF ChildRecords
    <2>3. child' = next /\ child.reply \in Replies /\ ChildStep
      BY <1>1, <1>3 DEF Write, ChildInv
    <2> HIDE DEF next
    <2>4. QED
      BY <2>1, <2>2, <2>3, ChildKeeps
  <1>4. CASE Exit \/ ExitSilent
    <2> DEFINE next == [child EXCEPT !.state = "exited"]
    <2>1. /\ next \in ChildRecords /\ next.state = "exited" /\ next.reply = child.reply
          /\ next.written = child.written
      BY <1>1 DEF ChildRecords, ChildStates
    <2>2. child' = next /\ ChildStep
      BY <1>4 DEF Exit, ExitSilent
    <2> HIDE DEF next
    <2>3. QED
      BY <1>1, <2>1, <2>2, ChildKeeps DEF ChildInv
  <1>5. ASSUME NEW code \in {0, 1}, Die(code) PROVE Inv'
    <2> DEFINE next == [child EXCEPT !.state = "exited", !.code = code]
    <2>1. /\ next \in ChildRecords /\ next.state = "exited" /\ next.reply = child.reply
          /\ next.written = child.written
      BY <1>1 DEF ChildRecords, ChildStates
    <2>2. child' = next /\ ChildStep
      BY <1>5 DEF Die
    <2> HIDE DEF next
    <2>3. QED
      BY <1>1, <2>1, <2>2, ChildKeeps DEF ChildInv
  <1>6. QED
    BY <1>2, <1>3, <1>4, <1>5

LEMMA StartKeeps ==
  ASSUME Inv, NEW p \in Requests, Start(p)
  PROVE  Inv'
  <1> DEFINE next == [packet |-> p, at |-> "starting"]
  <1>1. next \in [packet: packets, at: Stages] /\ next.at = "starting"
    BY DEF Start, Stages
  <1>2. child' = child
    BY DEF Start
  <1>3. /\ call' = next /\ calls' = calls + 1 /\ calls < MaxCalls
        /\ UNCHANGED <<allowed, packets, results, signed, accepted>>
    BY DEF Start, policyVars, evidenceVars
  <1> HIDE DEF next
  <1>4. calls' \in 1..MaxCalls
    BY <1>3, ConstantsAssumption DEF Inv, TypeOK
  <1>5. TypeOK'
    BY <1>1, <1>2, <1>3, <1>4 DEF Inv, TypeOK
  <1>6. ChildInv' /\ CallsCounted'
    BY <1>1, <1>2, <1>3, <1>4 DEF Inv, ChildInv, CallsCounted
  <1>7. QED
    BY <1>3, <1>5, <1>6 DEF Inv, ResultsSound, ResultSound, SignedReturned, Verdicts,
                            AcceptedIsJudged

LEMMA SpawnsKeeps ==
  ASSUME Inv, Spawns
  PROVE  Inv'
  <1> DEFINE next == [call EXCEPT !.at = "joining"]
             new == [NoChild EXCEPT !.state = "thinking"]
  <1>1. call # None /\ call \in CallRecords /\ call.packet \in packets /\ calls \in 1..MaxCalls
    BY CallType DEF Spawns, At
  <1>2. next \in [packet: packets, at: Stages] /\ next.at = "joining"
    BY <1>1 DEF CallRecords, Stages
  <1>3. new \in ChildRecords /\ new.state = "thinking" /\ new.written = 0
    BY ConstantsAssumption DEF NoChild, ChildRecords, ChildStates
  <1>4. /\ call' = next /\ child' = new
        /\ UNCHANGED <<allowed, packets, calls, results, signed, accepted>>
    BY DEF Spawns, policyVars, evidenceVars
  <1> HIDE DEF next, new
  <1>5. TypeOK'
    BY <1>2, <1>3, <1>4 DEF Inv, TypeOK
  <1>6. ChildInv' /\ CallsCounted'
    BY <1>1, <1>2, <1>3, <1>4 DEF Inv, ChildInv, CallsCounted
  <1>7. QED
    BY <1>4, <1>5, <1>6 DEF Inv, ResultsSound, ResultSound, SignedReturned, Verdicts,
                            AcceptedIsJudged

LEMMA NoVerdictIsSound ==
  ASSUME NEW status, NEW reason PROVE ResultSound(Result(status, reason, None))
  BY DEF ResultSound, Result

(* A reply received that covers the packet makes a verdict, and what the   *)
(* verdict rests on is recorded with it.                                   *)
LEMMA ConcludedIsSound ==
  ASSUME Inv, Readable, ~ProviderFailed, Acceptable
  PROVE  LET v == VerdictOn(call.packet, child.reply.decisions)
         IN /\ v \in VerdictRecords
            /\ v # None
            /\ v.packet = call.packet /\ v.decisions = child.reply.decisions
            /\ v.status \in {"complete", "unknown"}
            /\ v.status = Status(child.reply.decisions)
            /\ \A reason : ResultSound(Result(v.status, reason, v))
  <1> DEFINE v == VerdictOn(call.packet, child.reply.decisions)
  <1>1. call # None /\ call.packet \in Requests
    BY CallType DEF Readable, Received, At
  <1>2. /\ child \in ChildRecords /\ child # None
        /\ child.reply \in Replies
        /\ child.state = "exited" /\ child.left = 0 /\ child.code = 0
        /\ child.reply.kind = "answer"
    BY NoneApart, ConstantsAssumption DEF Inv, TypeOK, ChildInv, Readable, Received, At,
                                            ProviderFailed, ReplyKinds
  <1>3. /\ v.packet = call.packet /\ v.decisions = child.reply.decisions
        /\ v.status = Status(child.reply.decisions)
        /\ v.status \in {"complete", "unknown"}
    BY DEF VerdictOn, Status
  <1>4. v \in VerdictRecords
    <2>1. child.reply.decisions \in DecisionSeqs /\ WellFormed(child.reply.decisions)
      BY <1>2 DEF DecisionSeqs, Acceptable, Covers
    <2>2. QED
      BY <1>1, <2>1 DEF VerdictOn, Status, VerdictRecords
  <1>5. v # None
    BY <1>4, NoneApart
  <1>6. Covers(call.packet, child.reply.decisions)
    BY DEF Acceptable
  <1> HIDE DEF v
  <1>7. ASSUME NEW reason PROVE ResultSound(Result(v.status, reason, v))
    BY <1>2, <1>3, <1>5, <1>6 DEF ResultSound, Result
  <1>8. QED
    BY <1>3, <1>4, <1>5, <1>7 DEF v

LEMMA CallerKeeps ==
  ASSUME Inv, CallerStep
  PROVE  Inv'
  <1>1. CASE Joined \/ Deadline
    BY <1>1, GoesKeeps DEF Joined, Deadline, At, Stages
  <1>2. CASE Look
    BY <1>2, GoesKeeps DEF Look, At, Stages, Alive, Inv, TypeOK, ChildRecords, ChildStates
  <1>3. CASE TimesOut \/ FindsNothing \/ Fails \/ Rejects \/ StartFails \/ Raises
    <2>1. call # None
      BY <1>3 DEF TimesOut, FindsNothing, Fails, Rejects, StartFails, Raises, Unusable, Readable,
                  Received, At
    <2>2. PICK status \in {"blocked", "raised"}, reason \in Reasons : Returns(status, reason, None)
      BY <1>3 DEF TimesOut, FindsNothing, Fails, Rejects, StartFails, Raises, Reasons
    <2>3. QED
      BY <2>1, <2>2, NoVerdictIsSound, ReturnsKeeps
  <1>4. CASE Concludes
    <2> DEFINE v == VerdictOn(call.packet, child.reply.decisions)
               reason == IF v.status = "complete" THEN "none" ELSE "unknown item"
    <2>1. Readable /\ ~ProviderFailed /\ Acceptable /\ Returns(v.status, reason, v)
      BY <1>4 DEF Concludes
    <2>2. /\ v \in VerdictRecords /\ v.status \in {"complete", "unknown", "blocked"}
          /\ ResultSound(Result(v.status, reason, v))
      BY <2>1, ConcludedIsSound
    <2>3. reason \in Reasons /\ call # None
      BY <2>1 DEF Reasons, Readable, Received, At
    <2> HIDE DEF v, reason
    <2>4. QED
      BY <2>1, <2>2, <2>3, ReturnsKeeps
  <1>5. QED
    BY <1>1, <1>2, <1>3, <1>4, SpawnsKeeps DEF CallerStep

LEMMA AcceptKeeps ==
  ASSUME Inv, NEW p \in packets, NEW s \in signed, Accept(p, s)
  PROVE  Inv'
  <1> DEFINE a == [packet |-> p, verdict |-> s.verdict]
  <1>1. /\ accepted' = accepted \cup {a}
        /\ UNCHANGED <<allowed, packets, calls, call, child, results, signed>>
    BY DEF Accept, policyVars
  <1>2. PICK r \in results : r.verdict # None /\ r.verdict = s.verdict
    BY DEF Accept, SignatureValid, Inv, SignedReturned, Verdicts
  <1>3. s.verdict.packet = p /\ s.verdict.status = "complete" /\ ItemsOf(s.verdict.decisions) = p.items
    BY DEF Accept, SignatureValid, Signable, Bound
  <1>4. ResultSound(r)
    BY DEF Inv, ResultsSound
  <1>5. /\ r.packet = a.packet
        /\ r.verdict = a.verdict
        /\ r.status = "complete"
        /\ r.from # None
        /\ r.from.state = "exited"
        /\ r.from.code = 0
        /\ r.from.left = 0
        /\ r.from.reply.kind = "answer"
        /\ r.from.reply.decisions = a.verdict.decisions
        /\ ItemsOf(a.verdict.decisions) = a.packet.items
    BY <1>2, <1>3, <1>4 DEF ResultSound
  <1>6. a \in [packet: packets, verdict: VerdictRecords]
    BY DEF Inv, TypeOK
  <1> HIDE DEF a
  <1>7. TypeOK'
    BY <1>1, <1>6 DEF Inv, TypeOK
  <1>8. AcceptedIsJudged'
    BY <1>1, <1>5 DEF Inv, AcceptedIsJudged
  <1>9. QED
    BY <1>1, <1>7, <1>8 DEF Inv, ChildInv, CallsCounted, ResultsSound, ResultSound, SignedReturned,
                            Verdicts

LEMMA SignKeeps ==
  ASSUME Inv, NEW v \in Verdicts \cup Drafts, NEW k \in Keys, Sign(v, k)
  PROVE  Inv'
  <1> DEFINE s == [verdict |-> v, key |-> k]
  <1>1. /\ signed' = signed \cup {s}
        /\ UNCHANGED <<allowed, packets, calls, call, child, results, accepted>>
    BY DEF Sign, policyVars
  <1>2. /\ s.key = JudgeKey => s.verdict \in Verdicts
        /\ s \in [verdict: VerdictRecords, key: Keys]
    BY DraftsAssumption DEF Sign, Verdicts, Inv, TypeOK, ResultRecords
  <1> HIDE DEF s
  <1>3. TypeOK'
    BY <1>1, <1>2 DEF Inv, TypeOK
  <1>4. QED
    BY <1>1, <1>2, <1>3 DEF Inv, ChildInv, CallsCounted, ResultsSound, ResultSound, SignedReturned,
                            Verdicts, AcceptedIsJudged

LEMMA NextKeeps == Inv /\ [Next]_vars => Inv'
  <1> SUFFICES ASSUME Inv, [Next]_vars PROVE Inv'
    OBVIOUS
  <1>1. CASE UNCHANGED vars
    BY <1>1, PolicyKeeps DEF vars, evidenceVars, Inv, TypeOK
  <1>2. ASSUME NEW b \in Bindings, Revoke(b) PROVE Inv'
    BY <1>2, PolicyKeeps DEF Revoke, Inv, TypeOK
  <1>3. ASSUME NEW p \in Requests, Build(p) PROVE Inv'
    BY <1>3, PolicyKeeps DEF Build, Inv, TypeOK
  <1>4. QED
    BY <1>1, <1>2, <1>3, StartKeeps, ChildActions, CallerKeeps, SignKeeps, AcceptKeeps
       DEF Next

-----------------------------------------------------------------------------
(* The policy, packets, calls and evidence keep their types (judge.py      *)
(* builds its documents of checked fields).                                *)
THEOREM TypeCorrect == Spec => []TypeOK
  <1>1. Inv => TypeOK
    BY DEF Inv
  <1>2. QED
    BY InitInv, NextKeeps, <1>1, PTL DEF Spec

(* No verdict is accepted that a provider, which ended by itself, did not  *)
(* give in full on that very packet, whatever the child, the pipe and the  *)
(* clock do, and whatever is signed with other keys than the judge's       *)
(* (judge.py, run_independent_judge, verify_signed_verdict).               *)
THEOREM AcceptedAlwaysJudged == Spec => []AcceptedIsJudged
  <1>1. Inv => AcceptedIsJudged
    BY DEF Inv
  <1>2. QED
    BY InitInv, NextKeeps, <1>1, PTL DEF Spec

(* A judge once revoked gets no verdict accepted any more (judge.py,       *)
(* validate_verdict_binding).                                              *)
THEOREM RevokedNeverAccepted == Spec => RevokedNotAccepted
  <1>1. [Next]_vars => [\A a \in accepted' : a.packet.judge \in allowed' \/ a \in accepted]_vars
    <2> SUFFICES ASSUME Next, NEW a \in accepted', a \notin accepted
                 PROVE  a.packet.judge \in allowed'
      BY DEF vars
    <2>1. PICK p \in packets, s \in signed : Accept(p, s)
      BY DEF Next, Revoke, Build, Start, Answer, Write, Exit, ExitSilent, Die, ChildStep, CallerStep,
             Spawns, StartFails, Joined, Deadline, Look, GoesTo, TimesOut, FindsNothing, Fails, Rejects,
             Concludes, Raises, Returns, Sign, evidenceVars
    <2>2. a = [packet |-> p, verdict |-> s.verdict] /\ allowed' = allowed
      BY <2>1 DEF Accept, policyVars
    <2>3. p.judge \in allowed
      BY <2>1 DEF Accept, Bound, PacketValid
    <2>4. QED
      BY <2>2, <2>3
  <1>2. QED
    BY <1>1, PTL DEF Spec, RevokedNotAccepted

-----------------------------------------------------------------------------
(* Each call is one bounded call.                                          *)

CompleteOf(rs) == {[packet |-> r.packet, decisions |-> r.verdict.decisions] :
                     r \in {x \in rs : x.status = "complete"}}

RaisedOf(rs) == {r.packet : r \in {x \in rs : x.status = "raised"}}

OpenOf(rs) == {r.packet : r \in {x \in rs : x.escalated}}

PendingOf(c) == IF c = None THEN None ELSE c.packet

(* A result that is not complete is escalated and adds nothing else.       *)
LEMMA EscalationStep ==
  ASSUME Inv, call # None, NEW status \in {"unknown", "blocked"}, NEW reason, NEW verdict,
         Returns(status, reason, verdict)
  PROVE  Bounded!Escalated
  <1> DEFINE r == Result(status, reason, verdict)
  <1>1. r.packet = call.packet /\ r.status = status /\ r.escalated
    BY DEF Result
  <1>2. results' = results \cup {r} /\ call' = None
    BY DEF Returns
  <1>3. call.packet # None
    BY CallType, NoneApart
  <1> HIDE DEF r
  <1>4. OpenOf(results') = OpenOf(results) \cup {call.packet}
    BY <1>1, <1>2 DEF OpenOf
  <1>5. CompleteOf(results') = CompleteOf(results) /\ RaisedOf(results') = RaisedOf(results)
    BY <1>1, <1>2 DEF CompleteOf, RaisedOf
  <1>6. PendingOf(call) = call.packet /\ PendingOf(call') = None
    BY <1>2 DEF PendingOf
  <1>7. QED
    BY <1>3, <1>4, <1>5, <1>6 DEF Bounded!Escalated, OpenOf, CompleteOf, RaisedOf, PendingOf

(* A call that raised adds neither a verdict nor an escalation.            *)
LEMMA RaisedStep ==
  ASSUME Inv, call # None, NEW reason, Returns("raised", reason, None)
  PROVE  Bounded!Raised
  <1> DEFINE r == Result("raised", reason, None)
  <1>1. r.packet = call.packet /\ r.status = "raised" /\ ~r.escalated
    BY DEF Result
  <1>2. results' = results \cup {r} /\ call' = None
    BY DEF Returns
  <1>3. call.packet # None
    BY CallType, NoneApart
  <1> HIDE DEF r
  <1>4. RaisedOf(results') = RaisedOf(results) \cup {call.packet}
    BY <1>1, <1>2 DEF RaisedOf
  <1>5. CompleteOf(results') = CompleteOf(results) /\ OpenOf(results') = OpenOf(results)
    BY <1>1, <1>2 DEF CompleteOf, OpenOf
  <1>6. PendingOf(call) = call.packet /\ PendingOf(call') = None
    BY <1>2 DEF PendingOf
  <1>7. QED
    BY <1>3, <1>4, <1>5, <1>6 DEF Bounded!Raised, OpenOf, CompleteOf, RaisedOf, PendingOf

LEMMA AnswerStep ==
  ASSUME Inv, call # None, NEW d \in Complete(call.packet), NEW reason, NEW verdict,
         verdict.decisions = d, Returns("complete", reason, verdict)
  PROVE  Bounded!Next
  <1> DEFINE r == Result("complete", reason, verdict)
             new == [packet |-> call.packet, decisions |-> d]
  <1>1. r.packet = call.packet /\ r.status = "complete" /\ r.verdict = verdict /\ ~r.escalated
    BY DEF Result
  <1>2. results' = results \cup {r} /\ call' = None
    BY DEF Returns
  <1>3. call.packet # None /\ call.packet \in Requests
    BY CallType, NoneApart
  <1>4. new = [packet |-> r.packet, decisions |-> r.verdict.decisions]
    BY <1>1
  <1> HIDE DEF r, new
  <1>5. CompleteOf(results') = CompleteOf(results) \cup {new}
    BY <1>1, <1>2, <1>4 DEF CompleteOf
  <1>6. OpenOf(results') = OpenOf(results) /\ RaisedOf(results') = RaisedOf(results)
    BY <1>1, <1>2 DEF OpenOf, RaisedOf
  <1>7. PendingOf(call) = call.packet /\ PendingOf(call') = None
    BY <1>2 DEF PendingOf
  <1>8. d \in [p \in Requests |-> Complete(p)][call.packet]
    BY <1>3
  <1>9. Bounded!Answered(d)
    BY <1>3, <1>5, <1>6, <1>7, <1>8 DEF Bounded!Answered, OpenOf, CompleteOf, RaisedOf,
                                                PendingOf, new
  <1>10. d \in UNION {[p \in Requests |-> Complete(p)][q] : q \in Requests}
    BY <1>3, <1>8
  <1>11. QED
    BY <1>9, <1>10 DEF Bounded!Next

Ends == TimesOut \/ FindsNothing \/ Fails \/ Rejects \/ Concludes \/ StartFails \/ Raises

LEMMA ReturningStep ==
  ASSUME Inv, Ends
  PROVE  Bounded!Next
  <1>1. call # None
    BY DEF Ends, TimesOut, FindsNothing, Fails, Rejects, Concludes, StartFails, Raises, Unusable,
           Readable, Received, At
  <1>2. CASE TimesOut \/ FindsNothing \/ Fails \/ Rejects
    <2>1. PICK reason : Returns("blocked", reason, None)
      BY <1>2 DEF TimesOut, FindsNothing, Fails, Rejects
    <2>2. QED
      BY <1>1, <2>1, EscalationStep DEF Bounded!Next
  <1>3. CASE Concludes
    <2> DEFINE v == VerdictOn(call.packet, child.reply.decisions)
               reason == IF v.status = "complete" THEN "none" ELSE "unknown item"
    <2>1. Readable /\ ~ProviderFailed /\ Acceptable /\ Returns(v.status, reason, v)
      BY <1>3 DEF Concludes
    <2>2. /\ v \in VerdictRecords /\ v.decisions = child.reply.decisions
          /\ v.status \in {"complete", "unknown"}
          /\ v.status = Status(child.reply.decisions)
      BY <2>1, ConcludedIsSound
    <2>3. v.status = "complete" => v.decisions \in Complete(call.packet)
      <3>1. Covers(call.packet, child.reply.decisions)
        BY <2>1 DEF Acceptable
      <3>2. v.decisions \in DecisionSeqs
        BY <2>2 DEF VerdictRecords
      <3>3. QED
        BY <2>2, <3>1, <3>2 DEF Complete
    <2> HIDE DEF v, reason
    <2>4. CASE v.status = "complete"
      BY <1>1, <2>1, <2>3, <2>4, AnswerStep
    <2>5. CASE v.status = "unknown"
      BY <1>1, <2>1, <2>5, EscalationStep DEF Bounded!Next
    <2>6. QED
      BY <2>2, <2>4, <2>5
  <1>4. CASE StartFails \/ Raises
    <2>1. PICK reason : Returns("raised", reason, None)
      BY <1>4 DEF StartFails, Raises
    <2>2. QED
      BY <1>1, <2>1, RaisedStep DEF Bounded!Next
  <1>5. QED
    BY <1>2, <1>3, <1>4 DEF Ends

LEMMA StartStep ==
  ASSUME Inv, NEW p \in Requests, Start(p)
  PROVE  Bounded!Next
  <1>1. call = None /\ call' = [packet |-> p, at |-> "starting"] /\ results' = results
    BY DEF Start
  <1>2. call' # None
    BY <1>1, NoneApart DEF CallRecords, Stages
  <1>3. PendingOf(call) = None /\ PendingOf(call') = p
    BY <1>1, <1>2 DEF PendingOf
  <1>4. Bounded!Ask(p)
    BY <1>1, <1>3 DEF Bounded!Ask, PendingOf
  <1>5. QED
    BY <1>4 DEF Bounded!Next

(* Every other step leaves the results and the packet judged alone.        *)
LEMMA SilentStep ==
  ASSUME Inv, [Next]_vars, \A p \in Requests : ~Start(p), ~Ends
  PROVE  UNCHANGED Bounded!vars
  <1>1. ASSUME NEW stage \in Stages, call # None, results' = results,
               call' = [call EXCEPT !.at = stage]
        PROVE  results' = results /\ PendingOf(call') = PendingOf(call)
    <2>1. call \in CallRecords
      BY <1>1, CallType
    <2>2. [call EXCEPT !.at = stage].packet = call.packet
      BY <2>1 DEF CallRecords
    <2>3. [call EXCEPT !.at = stage] \in CallRecords
      BY <2>1 DEF CallRecords
    <2>4. QED
      BY <1>1, <2>2, <2>3, NoneApart DEF PendingOf
  <1>2. results' = results /\ PendingOf(call') = PendingOf(call)
    BY <1>1 DEF Next, Ends, vars, Revoke, Build, Answer, Write, Exit, ExitSilent, Die, ChildStep,
                CallerStep, Spawns, Joined, Deadline, Look, GoesTo, At, Stages, Sign, Accept
  <1>3. QED
    BY <1>2 DEF Bounded!vars, PendingOf

(* run_independent_judge keeps what BoundedCall promises its caller: each  *)
(* call ends once, with a complete verdict on all items, an escalation or  *)
(* an exception, whatever the child, the pipe and the clock do.            *)
THEOREM BoundedCallImplemented == Spec => ImplementsBoundedCall
  <1>1. Init => Bounded!Init
    BY DEF Init, Bounded!Init
  <1>2. Inv /\ [Next]_vars => [Bounded!Next]_Bounded!vars
    BY ReturningStep, StartStep, SilentStep
  <1>3. QED
    BY InitInv, NextKeeps, <1>1, <1>2, PTL DEF Spec, ImplementsBoundedCall, Bounded!Spec

-----------------------------------------------------------------------------
(* Two complete verdicts on a packet agree iff they label every item alike *)
(* (judge.py, compare_verdicts).                                           *)
THEOREM AgreementAlwaysEquality == Spec => []AgreementIsEquality
  <1>1. ASSUME Inv, NEW v \in Verdicts, NEW w \in Verdicts, v.packet = w.packet
        PROVE  Agree(v, w) <=> \A i \in DOMAIN v.decisions :
                                 v.decisions[i].label = w.decisions[i].label
    <2> DEFINE items == v.packet.items
               D == DOMAIN v.decisions
    <2>1. /\ ItemsOf(v.decisions) = items /\ ItemsOf(w.decisions) = items /\ Once(items)
          /\ WellFormed(v.decisions) /\ WellFormed(w.decisions)
      BY <1>1 DEF Inv, ResultsSound, ResultSound, Verdicts, Covers
    <2>2. /\ D = DOMAIN items /\ DOMAIN w.decisions = D
          /\ \A i \in D : v.decisions[i].item = items[i] /\ w.decisions[i].item = items[i]
      BY <2>1 DEF ItemsOf
    <2>3. \A i \in D : v.decisions[i].label \in Labels /\ w.decisions[i].label \in Labels
      BY <2>1, <2>2 DEF WellFormed
    <2>4. \A i, j \in D : items[i] = items[j] => i = j
      BY <2>1, <2>2 DEF Once
    <2> HIDE DEF items, D
    <2>5. Judged(v) = Judged(w)
      BY <2>2 DEF Judged, D
    <2>6. /\ \A x, l : <<x, l>> \in LabelsIn(v) =>
               \E i \in D : x = items[i] /\ l = v.decisions[i].label
          /\ \A x, l : <<x, l>> \in LabelsIn(w) =>
               \E i \in D : x = items[i] /\ l = w.decisions[i].label
          /\ \A i \in D : /\ <<items[i], v.decisions[i].label>> \in LabelsIn(v)
                          /\ <<items[i], w.decisions[i].label>> \in LabelsIn(w)
                          /\ items[i] \in Judged(v)
      <3>1. /\ LabelsIn(v) = {<<items[i], v.decisions[i].label>> : i \in D}
            /\ LabelsIn(w) = {<<items[i], w.decisions[i].label>> : i \in D}
        BY <2>2 DEF LabelsIn, D
      <3>2. \A i \in D : items[i] \in Judged(v)
        BY <2>2 DEF Judged, D
      <3>3. QED
        BY <3>1, <3>2
    <2>7. ASSUME \A i \in D : v.decisions[i].label = w.decisions[i].label
          PROVE  Divergent(v, w) = {}
      <3> SUFFICES ASSUME NEW x \in Divergent(v, w) PROVE FALSE
        OBVIOUS
      <3>1. PICK l \in Labels, k \in Labels :
              l # k /\ <<x, l>> \in LabelsIn(v) /\ <<x, k>> \in LabelsIn(w)
        BY DEF Divergent
      <3>2. PICK i \in D : x = items[i] /\ l = v.decisions[i].label
        BY <2>6, <3>1
      <3>3. PICK j \in D : x = items[j] /\ k = w.decisions[j].label
        BY <2>6, <3>1
      <3>4. i = j
        BY <2>4, <3>2, <3>3
      <3>5. QED
        BY <2>7, <3>1, <3>2, <3>3, <3>4
    <2>8. ASSUME Divergent(v, w) = {}, NEW i \in D
          PROVE  v.decisions[i].label = w.decisions[i].label
      BY <2>3, <2>6, <2>8 DEF Divergent
    <2>9. QED
      BY <1>1, <2>5, <2>7, <2>8 DEF Agree, D
  <1>2. Inv => AgreementIsEquality
    BY <1>1 DEF AgreementIsEquality
  <1>3. QED
    BY InitInv, NextKeeps, <1>2, PTL DEF Spec
=============================================================================
