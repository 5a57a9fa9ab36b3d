------------------------------- MODULE Judge --------------------------------
(***************************************************************************)
(* The independent judge (judge.py): a packet is handed to a provider that *)
(* runs in a spawned process, the caller joins that process with a timeout *)
(* and only then looks into the queue between them.                        *)
(*                                                                         *)
(* The queue is an operating-system pipe filled by a feeder thread of the  *)
(* child: PipeSize units fit into it while nobody reads.  The child does   *)
(* not exit before its reply is written, and may die at any time.  The     *)
(* caller keeps the pipe's writing end open, so that a reply cut short by  *)
(* the child's death is waited for without end: no action is then enabled  *)
(* for the caller.  The provider policy is a file that may change between  *)
(* any two steps.                                                          *)
(*                                                                         *)
(* A call need not return: an exception leaves run_independent_judge when  *)
(* the process cannot be started, when its reply cannot be unpickled, when *)
(* the text of its error cannot be encoded and when a label cannot be      *)
(* hashed.                                                                 *)
(*                                                                         *)
(* Assumed: who holds JudgeKey signs only verdicts that calls returned;    *)
(* sign_verdict itself takes any dictionary.  Every other key signs what   *)
(* anyone wrote.                                                           *)
(***************************************************************************)
EXTENDS JudgeVerdict, FiniteSets, Integers

CONSTANTS
  Requests,   \* packets a caller asks for
  Bindings,   \* judge bindings the policy may list
  Replies,    \* what a provider may hand back: [kind, decisions, size]
  PipeSize,   \* units of a reply that fit into the pipe
  Unhashable, \* a label that is a list or an object
  Drafts,     \* verdicts written by hand, of the right shape
  Keys,       \* signing keys
  JudgeKey,   \* the one evidence must be signed with
  MaxCalls,   \* bound on the calls made
  None

(* What the child puts into the queue: the provider's answer, the text of  *)
(* its exception, such a text with lone surrogates, or an object that the  *)
(* caller cannot unpickle.                                                 *)
ReplyKinds == {"answer", "error", "odd error", "unreadable"}

ASSUME ConstantsAssumption ==
  /\ PipeSize \in Nat \ {0}
  /\ MaxCalls \in Nat
  /\ Unhashable \notin Labels
  /\ JudgeKey \in Keys
  /\ \A r \in Replies : r.size \in Nat \ {0} /\ r.kind \in ReplyKinds
  /\ None \notin Replies

Stages == {"starting", "joining", "checking", "reading"}

ChildStates == {"thinking", "writing", "exited"}

Reasons == {"none", "timeout", "no verdict", "provider failed", "malformed",
            "unknown item"}

VARIABLES
  allowed,     \* judge bindings the policy lists and has not revoked
  packets,     \* packets built so far
  calls,       \* number of calls made
  call,        \* the call under way, or None
  child,       \* the process of that call
  results,     \* how calls ended
  signed,      \* signed verdicts
  accepted     \* signed verdicts accepted as evidence on a packet

vars == <<allowed, packets, calls, call, child, results, signed, accepted>>

policyVars == <<allowed, packets>>
evidenceVars == <<signed, accepted>>

NoChild == [state |-> "exited", reply |-> None, written |-> 0, left |-> 0, code |-> 0]

Init == /\ allowed = Bindings
        /\ packets = {}
        /\ calls = 0
        /\ call = None
        /\ child = NoChild
        /\ results = {}
        /\ signed = {}
        /\ accepted = {}

-----------------------------------------------------------------------------
(* The policy file.                                                        *)

Revoke(b) == /\ allowed' = allowed \ {b}
             /\ UNCHANGED <<packets, calls, call, child, results, evidenceVars>>

Build(p) == /\ PacketBuilds(p, allowed)
            /\ packets' = packets \cup {p}
            /\ UNCHANGED <<allowed, calls, call, child, results, evidenceVars>>

-----------------------------------------------------------------------------
(* The child: _judge_worker and the feeder thread of its queue.            *)

ChildStep == UNCHANGED <<policyVars, calls, call, results, evidenceVars>>

(* The provider returns or raises; put() starts the feeder.                *)
Answer(r) ==
  /\ child.state = "thinking"
  /\ child' = [child EXCEPT !.state = "writing", !.reply = r, !.left = r.size]
  /\ ChildStep

Write ==
  /\ child.state = "writing"
  /\ child.left > 0
  /\ child.written < PipeSize
  /\ child' = [child EXCEPT !.written = @ + 1, !.left = @ - 1]
  /\ ChildStep

Exit == /\ child.state = "writing"
        /\ child.left = 0
        /\ child' = [child EXCEPT !.state = "exited"]
        /\ ChildStep

(* The answer cannot be pickled: the feeder drops it and the child exits.  *)
ExitSilent == /\ child.state = "thinking"
              /\ child' = [child EXCEPT !.state = "exited"]
              /\ ChildStep

(* os._exit, a signal, a fault: with whatever code.                        *)
Die(code) ==
  /\ child.state \in {"thinking", "writing"}
  /\ child' = [child EXCEPT !.state = "exited", !.code = code]
  /\ ChildStep

-----------------------------------------------------------------------------
(* The caller: run_independent_judge.                                      *)

Alive == child.state \in {"thinking", "writing"}

(* The reply has filled the pipe, which nobody empties before the child    *)
(* exits.                                                                  *)
PipeFull == child.state = "writing" /\ child.left > 0 /\ child.written = PipeSize

(* Part of a reply is in the pipe and no more will come.                   *)
Torn == ~Alive /\ child.written > 0 /\ child.left > 0

Start(p) ==
  /\ call = None
  /\ calls < MaxCalls
  /\ p \in packets
  /\ PacketValid(p, allowed)
  /\ calls' = calls + 1
  /\ call' = [packet |-> p, at |-> "starting"]
  /\ UNCHANGED <<policyVars, child, results, evidenceVars>>

At(stage) == call # None /\ call.at = stage

Spawns == /\ At("starting")
          /\ call' = [call EXCEPT !.at = "joining"]
          /\ child' = [NoChild EXCEPT !.state = "thinking"]
          /\ UNCHANGED <<policyVars, calls, results, evidenceVars>>

GoesTo(stage) == /\ call' = [call EXCEPT !.at = stage]
                 /\ UNCHANGED <<policyVars, calls, child, results, evidenceVars>>

(* join() returns because the child ended, or because time is up.          *)
Joined   == At("joining") /\ ~Alive /\ GoesTo("checking")

(* Mutant: once the provider has answered there is no timeout.             *)
DeadlineOfSilent == At("joining") /\ child.state = "thinking" /\ GoesTo("checking")

Deadline == At("joining") /\ Alive /\ GoesTo("checking")

(* Mutant: an undecided item is not escalated.                             *)
ResultOfFailure(status, reason, verdict) ==
  [id |-> calls, packet |-> call.packet, status |-> status, reason |-> reason,
   verdict |-> verdict, escalated |-> status = "blocked",
   from |-> IF verdict = None THEN None ELSE child, blockedByCaller |-> PipeFull]

(* Every outcome but a complete verdict carries an escalation; a call that *)
(* raised has none.                                                        *)
Result(status, reason, verdict) ==
  [id |-> calls, packet |-> call.packet, status |-> status, reason |-> reason,
   verdict |-> verdict, escalated |-> status \in {"unknown", "blocked"},
   from |-> IF verdict = None THEN None ELSE child, blockedByCaller |-> PipeFull]

(* The call ends, by a return or an exception, and closes the queue: a     *)
(* child that is left over, because it ignores being terminated, can no    *)
(* longer reach anyone.                                                    *)
Returns(status, reason, verdict) ==
  /\ results' = results \cup {Result(status, reason, verdict)}
  /\ call' = None
  /\ child' = NoChild
  /\ UNCHANGED <<policyVars, calls, evidenceVars>>

(* is_alive(): a child that ended meanwhile is read from; one that still   *)
(* runs is terminated.                                                     *)
Look == At("checking") /\ ~Alive /\ GoesTo("reading")

TimesOut == /\ At("checking")
            /\ Alive
            /\ Returns("blocked", "timeout", None)

(* get_nowait() finds nothing, waits for the rest of a torn reply, takes   *)
(* the reply, or raises what unpickling it raises.                         *)
FindsNothing == /\ At("reading")
                /\ child.written = 0
                /\ Returns("blocked", "no verdict", None)

Received == At("reading") /\ child.written > 0 /\ child.left = 0

Readable == Received /\ child.reply.kind # "unreadable"

(* Mutant: the exit code is not looked at.                                 *)
ProviderRaised == child.reply.kind \in {"error", "odd error"}

ProviderFailed == child.code # 0 \/ child.reply.kind \in {"error", "odd error"}

(* The provider's error is the reason of the escalation, whose id is a     *)
(* digest of its encoded text.                                             *)
Fails == /\ Readable
         /\ ProviderFailed
         /\ child.reply.kind # "odd error"
         /\ Returns("blocked", "provider failed", None)

(* _build_verdict takes the decisions in turn; the first it cannot take    *)
(* names an item of the packet and a label that no set can be asked for.   *)
Breaks(p, decisions) ==
  \E i \in DOMAIN decisions :
    /\ decisions[i].label = Unhashable
    /\ \A k \in 1..i : \E n \in DOMAIN p.items : decisions[k].item = p.items[n]
    /\ \A k \in 1..(i - 1) : decisions[k].label \in Labels

Acceptable == Covers(call.packet, child.reply.decisions)

Rejects == /\ Readable
           /\ ~ProviderFailed
           /\ ~Acceptable
           /\ ~Breaks(call.packet, child.reply.decisions)
           /\ Returns("blocked", "malformed", None)

Concludes ==
  /\ Readable
  /\ ~ProviderFailed
  /\ Acceptable
  /\ LET v == VerdictOn(call.packet, child.reply.decisions)
     IN  Returns(v.status, IF v.status = "complete" THEN "none" ELSE "unknown item", v)

(* No except clause of the call takes these: the caller gets neither a     *)
(* verdict nor an escalation.                                              *)
Unusable == /\ Received
            /\ \/ child.reply.kind = "unreadable"
               \/ child.reply.kind = "odd error"
               \/ ~ProviderFailed /\ Breaks(call.packet, child.reply.decisions)

StartFails == At("starting") /\ Returns("raised", "none", None)

Raises == Unusable /\ Returns("raised", "none", None)

-----------------------------------------------------------------------------
(* What becomes of the outcomes.                                           *)

Verdicts == {r.verdict : r \in {x \in results : x.verdict # None}}

(* sign_verdict; when the signing service fails nothing is signed.         *)
Sign(v, k) ==
  /\ v \in Verdicts \cup Drafts
  /\ k = JudgeKey => v \in Verdicts
  /\ Signable(v)
  /\ signed' = signed \cup {[verdict |-> v, key |-> k]}
  /\ UNCHANGED <<policyVars, calls, call, child, results, accepted>>

(* verify_signed_verdict and validate_verdict_binding, as evaluation.py    *)
(* calls them on a packet and a signed verdict it is given.                *)
Accept(p, s) ==
  /\ p \in packets
  /\ s \in signed
  /\ SignatureValid(s, JudgeKey)
  /\ Bound(p, s.verdict, allowed)
  /\ accepted' = accepted \cup {[packet |-> p, verdict |-> s.verdict]}
  /\ UNCHANGED <<policyVars, calls, call, child, results, signed>>

CallerStep == Spawns \/ StartFails \/ Joined \/ Deadline \/ Look \/ TimesOut
              \/ FindsNothing \/ Fails \/ Rejects \/ Concludes \/ Raises

Next == \/ \E b \in Bindings : Revoke(b)
        \/ \E p \in Requests : Build(p) \/ Start(p)
        \/ \E r \in Replies : Answer(r)
        \/ Write \/ Exit \/ ExitSilent
        \/ \E code \in {0, 1} : Die(code)
        \/ CallerStep
        \/ \E v \in Verdicts \cup Drafts, k \in Keys : Sign(v, k)
        \/ \E p \in packets, s \in signed : Accept(p, s)

Spec == Init /\ [][Next]_vars

(* The operating system lets the caller run and its clock advance; nothing *)
(* is assumed of the provider.                                             *)
FairSpec == Spec /\ WF_vars(CallerStep)

-----------------------------------------------------------------------------
(* Properties.                                                             *)

DecisionSeqs == {r.decisions : r \in Replies}

VerdictRecords == [packet: Requests, status: {"complete", "unknown"},
                   decisions: {d \in DecisionSeqs : WellFormed(d)}]

ChildRecords ==
  [state: ChildStates, reply: Replies \cup {None}, written: 0..PipeSize, left: Nat,
   code: {0, 1}]

ResultRecords ==
  [id: 1..MaxCalls, packet: Requests,
   status: {"complete", "unknown", "blocked", "raised"}, reason: Reasons,
   verdict: VerdictRecords \cup {None}, escalated: BOOLEAN, from: ChildRecords \cup {None},
   blockedByCaller: BOOLEAN]

CallRecords == [packet: Requests, at: Stages]

ASSUME DraftsAssumption == Drafts \subseteq VerdictRecords

ASSUME NoneAssumption ==
  None \notin Requests \cup VerdictRecords \cup ChildRecords \cup CallRecords

(* Every variable has its type, and only built packets are judged.         *)
TypeOK ==
  /\ allowed \subseteq Bindings
  /\ packets \subseteq Requests
  /\ calls \in 0..MaxCalls
  /\ call = None \/ call \in [packet: packets, at: Stages]
  /\ child \in ChildRecords
  /\ results \subseteq ResultRecords
  /\ signed \subseteq [verdict: VerdictRecords, key: Keys]
  /\ accepted \subseteq [packet: packets, verdict: VerdictRecords]

(* A verdict is accepted on a packet only if a call on that very packet    *)
(* returned it complete: the provider answered it, decided every item once *)
(* in the packet's order, and its process ended by itself with exit code 0 *)
(* (run_independent_judge, sign_verdict, validate_verdict_binding).  A     *)
(* draft signed with another key never counts.                             *)
AcceptedIsJudged ==
  \A a \in accepted : \E r \in results :
    /\ r.packet = a.packet
    /\ r.verdict = a.verdict
    /\ r.status = "complete"
    /\ r.from # None
    /\ r.from.state = "exited"
    /\ r.from.code = 0
    /\ r.from.left = 0
    /\ r.from.reply.kind = "answer"
    /\ r.from.reply.decisions = a.verdict.decisions
    /\ ItemsOf(a.verdict.decisions) = a.packet.items

(* A judge the policy has revoked gets no further verdict accepted,        *)
(* however long ago it gave it (validate_verdict_binding reads the policy  *)
(* again).                                                                 *)
RevokedNotAccepted ==
  [][\A a \in accepted' : a.packet.judge \in allowed' \/ a \in accepted]_vars

(* Two complete verdicts on one packet agree iff they label every item     *)
(* alike: coverage never diverges (compare_verdicts).                      *)
AgreementIsEquality ==
  \A v, w \in Verdicts :
    /\ v.packet = w.packet
    /\ v.status = "complete"
    /\ w.status = "complete"
    => (Agree(v, w) <=> \A i \in DOMAIN v.decisions :
                          v.decisions[i].label = w.decisions[i].label)

(* Each call is one bounded call of the abstract specification and ends    *)
(* once: in a complete verdict on the items asked for, in an escalation    *)
(* and no complete verdict, or in an exception and neither                 *)
(* (run_independent_judge).                                                *)
Complete(p) == {d \in DecisionSeqs : Covers(p, d) /\ Status(d) = "complete"}

Bounded == INSTANCE BoundedCall WITH
  Packets <- Requests,
  Answers <- [p \in Requests |-> Complete(p)],
  pending <- IF call = None THEN None ELSE call.packet,
  complete <- {[packet |-> r.packet, decisions |-> r.verdict.decisions] :
               r \in {x \in results : x.status = "complete"}},
  open <- {r.packet : r \in {x \in results : x.escalated}},
  raised <- {r.packet : r \in {x \in results : x.status = "raised"}}

ImplementsBoundedCall == Bounded!Spec

(* A call ends, whatever the provider does, unless the provider's process  *)
(* died in the middle of its reply (timeout of run_independent_judge).     *)
CallEnds == (call # None) ~> (call = None \/ Torn)

(* A provider's failure always becomes a typed outage and never an         *)
(* exception of the call (the comment in _judge_worker).                   *)
FailureIsOutage == [][~Raises]_vars

(* A call is reported as timed out only if the provider was late, and not  *)
(* because its reply waited for the caller to read the queue.              *)
TimeoutMeansLate ==
  \A r \in results : r.reason = "timeout" => ~r.blockedByCaller
=============================================================================
