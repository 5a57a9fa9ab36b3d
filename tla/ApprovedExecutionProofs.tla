---------------------- MODULE ApprovedExecutionProofs -----------------------
(***************************************************************************)
(* Proofs about ApprovedExecution for any number of threads, processes,    *)
(* tokens, calls and restarts, and any behaviour of the wall clock.        *)
(***************************************************************************)
EXTENDS ApprovedExecution, TLAPS

-----------------------------------------------------------------------------
(* Types.  A call beyond the evaluation has a token, and it was verified:  *)
(* the ledgers would not hold tokens only without this.                    *)

PastEvaluation == {"consume", "add", "probe", "execute", "running"}

Cleared ==
  \A r \in Runners :
    call[r] # None /\ call[r].at \in PastEvaluation =>
      Verified(call[r].token, call[r].request, call[r].evaluated)

TypeInv == TypeOK /\ Cleared

LEMMA VerifiedToken ==
  ASSUME NEW t, NEW q, NEW now, Verified(t, q, now)
  PROVE  t \in Tokens
  BY ConstantsAssumption DEF Verified

(* A runner in a call has a call record.                                   *)
LEMMA CallType ==
  ASSUME TypeOK, NEW r \in Runners, call[r] # None
  PROVE  call[r] \in CallRecords
  BY DEF TypeOK

LEMMA LedgerType == ASSUME NEW r \in Runners PROVE Ledger(r) \in Ledgers
  BY DEF Ledger, Ledgers, Processes

(* The change a step makes to the record of a call, without the rest.      *)
LEMMA DecidesType ==
  ASSUME TypeInv, NEW r \in Runners, call[r] # None,
         call[r].at \in PastEvaluation, Decides(r)
  PROVE  /\ call' \in [Runners -> CallRecords \cup {None}]
         /\ Cleared'
  <1>1. call[r] \in CallRecords /\ call[r].token \in Tokens
    BY CallType, VerifiedToken DEF TypeInv, Cleared
  <1>2. CASE /\ call[r].request \in Permitted
             /\ call' = [call EXCEPT ![r].at = "probe", ![r].decision = "allow",
                                     ![r].named = call[r].token]
    BY <1>1, <1>2 DEF TypeInv, TypeOK, Cleared, PastEvaluation, CallRecords, Stages, Decisions,
                      Verified
  <1>3. CASE Blocks(r, "deny", call[r].token)
    BY <1>1, <1>3 DEF Blocks, TypeInv, TypeOK, Cleared, PastEvaluation, CallRecords, Stages,
                      Decisions, Verified
  <1>4. QED
    BY <1>2, <1>3 DEF Decides

LEMMA BlocksType ==
  ASSUME TypeInv, NEW r \in Runners, call[r] # None,
         NEW decision \in Decisions, NEW named \in Tokens \cup {None},
         Blocks(r, decision, named)
  PROVE  /\ call' \in [Runners -> CallRecords \cup {None}]
         /\ Cleared'
  <1> DEFINE ended == [call[r] EXCEPT !.at = "record", !.decision = decision, !.named = named]
  <1>1. ended \in CallRecords /\ ended.at = "record"
    BY CallType DEF TypeInv, CallRecords, Stages
  <1>2. call' = [call EXCEPT ![r] = ended]
    BY DEF Blocks
  <1> HIDE DEF ended
  <1>3. QED
    BY <1>1, <1>2 DEF TypeInv, TypeOK, Cleared, PastEvaluation, Verified

LEMMA GoesToType ==
  ASSUME TypeInv, NEW r \in Runners, call[r] # None, NEW stage \in Stages,
         stage \in PastEvaluation => call[r].at \in PastEvaluation,
         GoesTo(r, stage)
  PROVE  /\ call' \in [Runners -> CallRecords \cup {None}]
         /\ Cleared'
  BY CallType DEF GoesTo, TypeInv, TypeOK, Cleared, PastEvaluation, CallRecords, Stages, Verified

LEMMA RaisesType ==
  ASSUME TypeInv, NEW r \in Runners, call[r] # None, Raises(r)
  PROVE  /\ call' \in [Runners -> CallRecords \cup {None}]
         /\ report' \in [Runners -> Reports \cup {None}]
         /\ Cleared'
  BY CallType DEF Raises, TypeInv, TypeOK, Cleared, CallRecords, Reports, Verified

LEMMA SpendsType ==
  ASSUME TypeOK, NEW r \in Runners, call[r].token \in Tokens, Spends(r)
  PROVE  spent' \in [Ledgers -> SUBSET Tokens]
  BY LedgerType DEF Spends, TypeOK

(* Each step keeps the types, and a call stays verified once it is.        *)
LEMMA TypeStep == TypeInv /\ [Next]_vars => TypeInv'
  <1> SUFFICES ASSUME TypeInv, [Next]_vars PROVE TypeInv'
    OBVIOUS
  <1>1. ASSUME NEW r \in Runners, NEW q \in Requests, NEW t \in Tokens \cup {None},
               Run(r, q, t)
        PROVE  TypeInv'
    <2> DEFINE begun == [id |-> lastCall + 1, request |-> q, token |-> t,
                         started |-> clock, evaluated |-> 0, at |-> "check",
                         decision |-> "none", named |-> None, status |-> "blocked"]
    <2>1. begun \in CallRecords /\ begun.at = "check"
      BY <1>1, ConstantsAssumption DEF Run, TypeInv, TypeOK, CallRecords, Calls, Stages,
                                       Decisions, Statuses
    <2>2. call' = [call EXCEPT ![r] = begun]
      BY <1>1 DEF Run
    <2> HIDE DEF begun
    <2>3. lastCall' \in 0..MaxCalls
      BY <1>1, ConstantsAssumption DEF Run, TypeInv, TypeOK
    <2>4. QED
      BY <1>1, <2>1, <2>2, <2>3 DEF Run, TypeInv, TypeOK, Cleared, PastEvaluation, Verified
  <1>2. ASSUME NEW r \in Runners, Check(r) PROVE TypeInv'
    <2>1. CASE GoesTo(r, "evaluate")
      BY <1>2, <2>1, GoesToType DEF Check, At, TypeInv, TypeOK, Stages, PastEvaluation
    <2>2. CASE Blocks(r, "none", None)
      BY <1>2, <2>2, BlocksType DEF Check, At, TypeInv, TypeOK, Decisions
    <2>3. QED
      BY <1>2, <2>1, <2>2 DEF Check
  <1>3. ASSUME NEW r \in Runners, Evaluate(r) PROVE TypeInv'
    <2>1. CASE /\ Verified(call[r].token, call[r].request, clock)
               /\ call' = [call EXCEPT ![r].at = "consume", ![r].evaluated = clock]
      <3> DEFINE passed == [call[r] EXCEPT !.at = "consume", !.evaluated = clock]
      <3>1. passed \in CallRecords /\ passed.token = call[r].token
            /\ passed.request = call[r].request /\ passed.evaluated = clock
        BY <1>3, CallType DEF Evaluate, At, TypeInv, TypeOK, CallRecords, Stages
      <3>2. call' = [call EXCEPT ![r] = passed]
        BY <2>1
      <3> HIDE DEF passed
      <3>3. QED
        BY <1>3, <2>1, <3>1, <3>2 DEF Evaluate, TypeInv, TypeOK, Cleared, Verified
    <2>2. CASE Blocks(r, "deny", None)
      BY <1>3, <2>2, BlocksType DEF Evaluate, At, TypeInv, TypeOK, Decisions
    <2>3. QED
      BY <1>3, <2>1, <2>2 DEF Evaluate
  <1>4. ASSUME NEW r \in Runners, ConsumeMarker(r) PROVE TypeInv'
    <2>1. call[r] # None /\ call[r].at \in PastEvaluation /\ call[r].token \in Tokens
      BY <1>4, VerifiedToken DEF ConsumeMarker, At, TypeInv, Cleared, PastEvaluation
    <2>2. spent' \in [Ledgers -> SUBSET Tokens]
      BY <1>4, <2>1, SpendsType DEF ConsumeMarker, TypeInv, TypeOK
    <2>3. call' \in [Runners -> CallRecords \cup {None}] /\ Cleared'
      BY <1>4, <2>1, BlocksType, DecidesType DEF ConsumeMarker, Decisions
    <2>4. QED
      BY <1>4, <2>2, <2>3 DEF ConsumeMarker, TypeInv, TypeOK
  <1>5. ASSUME NEW r \in Runners, ConsumeLookup(r) PROVE TypeInv'
    <2>1. call[r] # None /\ call[r].at \in PastEvaluation /\ call[r].token \in Tokens
      BY <1>5, VerifiedToken DEF ConsumeLookup, At, TypeInv, Cleared, PastEvaluation
    <2>2. call' \in [Runners -> CallRecords \cup {None}] /\ Cleared'
      BY <1>5, <2>1, BlocksType, GoesToType DEF ConsumeLookup, Decisions, Stages
    <2>3. QED
      BY <1>5, <2>2 DEF ConsumeLookup, TypeInv, TypeOK
  <1>6. ASSUME NEW r \in Runners, ConsumeAdd(r) PROVE TypeInv'
    <2>1. call[r] # None /\ call[r].at \in PastEvaluation /\ call[r].token \in Tokens
      BY <1>6, VerifiedToken DEF ConsumeAdd, At, TypeInv, Cleared, PastEvaluation
    <2>2. spent' \in [Ledgers -> SUBSET Tokens]
      BY <1>6, <2>1, SpendsType DEF ConsumeAdd, TypeInv
    <2>3. call' \in [Runners -> CallRecords \cup {None}] /\ Cleared'
      BY <1>6, <2>1, DecidesType DEF ConsumeAdd
    <2>4. QED
      BY <1>6, <2>2, <2>3 DEF ConsumeAdd, TypeInv, TypeOK
  <1>7. ASSUME NEW r \in Runners, Probe(r) PROVE TypeInv'
    <2>1. call[r] # None /\ call[r].at \in PastEvaluation
      BY <1>7 DEF Probe, At, PastEvaluation
    <2>2. /\ call' \in [Runners -> CallRecords \cup {None}] /\ Cleared'
          /\ report' \in [Runners -> Reports \cup {None}]
      BY <1>7, <2>1, GoesToType, RaisesType DEF Probe, Stages, TypeInv, TypeOK
    <2>3. QED
      BY <1>7, <2>2 DEF Probe, TypeInv, TypeOK
  <1>8. ASSUME NEW r \in Runners, Launch(r) PROVE TypeInv'
    <2>1. call[r] # None /\ call[r].at \in PastEvaluation /\ call[r].token \in Tokens
      BY <1>8, VerifiedToken DEF Launch, At, TypeInv, Cleared, PastEvaluation
    <2>2. call' \in [Runners -> CallRecords \cup {None}] /\ Cleared'
      BY <1>8, <2>1, GoesToType DEF Launch, Stages
    <2>3. launched' \subseteq Launches
      BY <1>8, <2>1, CallType DEF Launch, TypeInv, TypeOK, CallRecords, Launches
    <2>4. QED
      BY <1>8, <2>2, <2>3 DEF Launch, TypeInv, TypeOK
  <1>9. ASSUME NEW r \in Runners, Exits(r) PROVE TypeInv'
    <2>1. PICK status \in {"completed", "failed"} :
            call' = [call EXCEPT ![r].at = "record", ![r].status = status]
      BY <1>9 DEF Exits
    <2> DEFINE ended == [call[r] EXCEPT !.at = "record", !.status = status]
    <2>2. ended \in CallRecords /\ ended.at = "record"
      BY <1>9, CallType DEF Exits, At, TypeInv, CallRecords, Stages, Statuses
    <2>3. call' = [call EXCEPT ![r] = ended]
      BY <2>1
    <2> HIDE DEF ended
    <2>4. QED
      BY <1>9, <2>2, <2>3 DEF Exits, TypeInv, TypeOK, Cleared, PastEvaluation, Verified
  <1>10. ASSUME NEW r \in Runners, Stops(r) PROVE TypeInv'
    <2>1. /\ call' \in [Runners -> CallRecords \cup {None}] /\ Cleared'
          /\ report' \in [Runners -> Reports \cup {None}]
      BY <1>10, GoesToType, RaisesType DEF Stops, At, Stages, PastEvaluation, TypeInv, TypeOK
    <2>2. QED
      BY <1>10, <2>1 DEF Stops, TypeInv, TypeOK
  <1>11. ASSUME NEW r \in Runners, Record(r) PROVE TypeInv'
    <2>1. call[r] # None /\ call[r] \in CallRecords
      BY <1>11, CallType DEF Record, At, TypeInv
    <2>2. CASE Raises(r)
      BY <1>11, <2>1, <2>2, RaisesType DEF Record, TypeInv, TypeOK
    <2>3. CASE ~Raises(r)
      BY <1>11, <2>1, <2>3 DEF Record, TypeInv, TypeOK, Cleared, CallRecords, Reports, Verified
    <2>4. QED
      BY <2>2, <2>3
  <1>12. ASSUME NEW now \in 0..MaxTime, SetClock(now) PROVE TypeInv'
    BY <1>12, ConstantsAssumption DEF SetClock, TypeInv, TypeOK, Cleared, Verified
  <1>13. ASSUME NEW p \in Processes, Restart(p) PROVE TypeInv'
    BY <1>13 DEF Restart, TypeInv, TypeOK, Cleared, Verified
  <1>14. CASE UNCHANGED vars
    BY <1>14 DEF vars, TypeInv, TypeOK, Cleared, Verified
  <1>15. QED
    BY <1>1, <1>2, <1>3, <1>4, <1>5, <1>6, <1>7, <1>8, <1>9, <1>10, <1>11, <1>12, <1>13, <1>14
       DEF Next, Step

LEMMA TypeInvariant == Spec => []TypeInv
  <1>1. Init => TypeInv
    BY ConstantsAssumption DEF Init, TypeInv, TypeOK, Cleared
  <1>2. QED
    BY <1>1, TypeStep, PTL DEF Spec

(* Every variable keeps its shape, in particular the ledgers hold tokens   *)
(* and nothing else.                                                       *)
THEOREM TypeCorrect == Spec => []TypeOK
  BY TypeInvariant, PTL DEF TypeInv

-----------------------------------------------------------------------------
(* A step of runner r changes no other runner's call.                      *)
OnlyCallOf(r) == call' = [call EXCEPT ![r] = call'[r]]

LEMMA StepsAlone ==
  ASSUME TypeOK, NEW r \in Runners
  PROVE  /\ Step(r) => OnlyCallOf(r)
         /\ Exits(r) => OnlyCallOf(r)
         /\ \A q \in Requests, t \in Tokens \cup {None} : Run(r, q, t) => OnlyCallOf(r)
  <1> USE DEF OnlyCallOf, TypeOK
  <1>1. \A q \in Requests, t \in Tokens \cup {None} : Run(r, q, t) => OnlyCallOf(r)
    BY DEF Run
  <1>2. Exits(r) => OnlyCallOf(r)
    BY DEF Exits
  <1>3. \A stage : GoesTo(r, stage) => OnlyCallOf(r)
    BY DEF GoesTo
  <1>4. \A decision, named : Blocks(r, decision, named) => OnlyCallOf(r)
    BY DEF Blocks
  <1>5. Raises(r) => OnlyCallOf(r)
    BY DEF Raises
  <1>6. Decides(r) => OnlyCallOf(r)
    BY <1>4 DEF Decides
  <1>7. Evaluate(r) => OnlyCallOf(r)
    BY <1>4 DEF Evaluate
  <1>8. Record(r) => OnlyCallOf(r)
    BY <1>5 DEF Record
  <1>9. QED
    BY <1>1, <1>2, <1>3, <1>4, <1>5, <1>6, <1>7, <1>8
       DEF Step, Check, ConsumeMarker, ConsumeLookup, ConsumeAdd, Probe, Launch, Stops

-----------------------------------------------------------------------------
(* Approval.  What is about to be launched, or was, is a request the       *)
(* execute controls accept, on a token verified for it.                    *)

Holds(r) == call[r] # None /\ call[r].at \in {"probe", "execute"}

ApprovedInv ==
  /\ \A r \in Runners : Holds(r) => call[r].request \in Permitted
  /\ LaunchedAsApproved

LEMMA ApprovedQuiet ==
  ASSUME TypeOK, ApprovedInv, NEW r \in Runners, OnlyCallOf(r),
         Holds(r)' => call'[r].request \in Permitted, UNCHANGED launched
  PROVE  ApprovedInv'
  BY DEF TypeOK, ApprovedInv, OnlyCallOf, Holds, LaunchedAsApproved, Verified

LEMMA ApprovedStep == TypeInv /\ ApprovedInv /\ [Next]_vars => ApprovedInv'
  <1> SUFFICES ASSUME TypeInv, ApprovedInv, [Next]_vars PROVE ApprovedInv'
    OBVIOUS
  <1>0. TypeOK
    BY DEF TypeInv
  <1>1. ASSUME NEW r \in Runners, NEW q \in Requests, NEW t \in Tokens \cup {None},
               Run(r, q, t)
        PROVE  ApprovedInv'
    <2>1. ~Holds(r)' /\ UNCHANGED launched
      BY <1>0, <1>1 DEF Run, Holds, TypeOK
    <2>2. QED
      BY <1>0, <1>1, <2>1, StepsAlone, ApprovedQuiet
  <1>2. ASSUME NEW r \in Runners, Exits(r) PROVE ApprovedInv'
    <2>1. ~Holds(r)' /\ UNCHANGED launched
      BY <1>0, <1>2, CallType DEF Exits, At, Holds, TypeOK, CallRecords
    <2>2. QED
      BY <1>0, <1>2, <2>1, StepsAlone, ApprovedQuiet
  <1>3. ASSUME NEW r \in Runners, Step(r) PROVE ApprovedInv'
    <2>1. CASE Launch(r) /\ GoesTo(r, "running")
      <3>1. call[r] # None /\ call[r] \in CallRecords /\ call[r].at = "execute"
        BY <1>0, <2>1, CallType DEF Launch, At
      <3>2. /\ Verified(call[r].token, call[r].request, call[r].evaluated)
            /\ call[r].request \in Permitted
        BY <3>1 DEF TypeInv, Cleared, PastEvaluation, ApprovedInv, Holds
      <3>3. LaunchedAsApproved'
        BY <2>1, <3>2 DEF Launch, ApprovedInv, LaunchedAsApproved, Verified
      <3>4. \A s \in Runners : Holds(s)' => Holds(s) /\ call'[s].request = call[s].request
        BY <1>0, <2>1, <3>1 DEF GoesTo, Holds, TypeOK, CallRecords
      <3>5. QED
        BY <3>3, <3>4 DEF ApprovedInv
    <2>2. CASE ~(Launch(r) /\ GoesTo(r, "running"))
      <3>1. call[r] # None /\ call[r] \in CallRecords
        BY <1>0, <1>3, CallType DEF Step, Check, Evaluate, ConsumeMarker, ConsumeLookup,
                                    ConsumeAdd, Probe, Launch, Stops, Record, At
      <3>2. UNCHANGED launched
        BY <1>3, <2>2 DEF Step, Check, Evaluate, ConsumeMarker, ConsumeLookup, ConsumeAdd,
                          Probe, Launch, Stops, Record
      <3>3. ASSUME NEW stage, GoesTo(r, stage), stage \in {"probe", "execute"} => Holds(r)
            PROVE  Holds(r)' => call'[r].request \in Permitted
        BY <1>0, <3>1, <3>3 DEF GoesTo, Holds, TypeOK, CallRecords, ApprovedInv
      <3>4. ASSUME NEW decision, NEW named, Blocks(r, decision, named) PROVE ~Holds(r)'
        BY <1>0, <3>1, <3>4 DEF Blocks, Holds, TypeOK, CallRecords
      <3>5. Raises(r) => ~Holds(r)'
        BY <1>0 DEF Raises, Holds, TypeOK
      <3>6. Decides(r) => (Holds(r)' => call'[r].request \in Permitted)
        BY <1>0, <3>1, <3>4 DEF Decides, Holds, TypeOK, CallRecords
      <3>7. Evaluate(r) => ~Holds(r)'
        BY <1>0, <3>1, <3>4 DEF Evaluate, Holds, TypeOK, CallRecords
      <3>8. Record(r) => ~Holds(r)'
        BY <1>0, <3>5 DEF Record, Holds, TypeOK
      <3>9. Holds(r)' => call'[r].request \in Permitted
        BY <1>3, <2>2, <3>3, <3>4, <3>5, <3>6, <3>7, <3>8
           DEF Step, Check, ConsumeMarker, ConsumeLookup, ConsumeAdd, Probe, Launch, Stops,
               At, Holds
      <3>10. QED
        BY <1>0, <1>3, <3>2, <3>9, StepsAlone, ApprovedQuiet
    <2>3. QED
      BY <2>1, <2>2
  <1>4. CASE UNCHANGED <<call, launched>>
    BY <1>4 DEF ApprovedInv, Holds, LaunchedAsApproved, Verified
  <1>5. ASSUME NEW p \in Processes, Restart(p) PROVE ApprovedInv'
    BY <1>5 DEF Restart, ApprovedInv, Holds, LaunchedAsApproved, Verified
  <1>6. QED
    BY <1>1, <1>2, <1>3, <1>4, <1>5 DEF Next, SetClock, vars

(* Whatever was launched was approved for exactly that request, in its     *)
(* window, with either ledger.                                             *)
THEOREM AlwaysLaunchedAsApproved == Spec => []LaunchedAsApproved
  <1>1. Init => ApprovedInv
    BY DEF Init, ApprovedInv, Holds, LaunchedAsApproved
  <1>2. QED
    BY <1>1, ApprovedStep, TypeInvariant, PTL DEF Spec, ApprovedInv

-----------------------------------------------------------------------------
(* Single use.  A call that holds its token may still launch a command on  *)
(* it: nobody launched one yet, nobody else holds it, and the ledger keeps *)
(* it so.                                                                  *)

HeldAlone ==
  \A r \in Runners : Holds(r) =>
    /\ call[r].token \in spent[Disk]
    /\ \A x \in launched : x.token # call[r].token
    /\ \A s \in Runners : Holds(s) /\ call[s].token = call[r].token => r = s

HoldInv ==
  /\ \A r \in Runners : ~At(r, "add")
  /\ HeldAlone
  /\ \A x \in launched : x.token \in spent[Disk]
  /\ SingleLaunch

(* A step of r that launches nothing, frees no token and gives r none.     *)
LEMMA HoldQuiet ==
  ASSUME TypeOK, HoldInv, NEW r \in Runners, OnlyCallOf(r),
         Holds(r)' => Holds(r) /\ call'[r].token = call[r].token,
         ~At(r, "add")', spent[Disk] \subseteq spent'[Disk], UNCHANGED launched
  PROVE  HoldInv'
  <1>1. \A s \in Runners : Holds(s)' => Holds(s) /\ call'[s].token = call[s].token
    BY DEF TypeOK, OnlyCallOf, Holds
  <1>2. HeldAlone'
    BY <1>1 DEF HoldInv, HeldAlone
  <1>3. \A s \in Runners : ~At(s, "add")'
    BY DEF TypeOK, HoldInv, OnlyCallOf, At
  <1>4. QED
    BY <1>2, <1>3 DEF HoldInv, SingleLaunch

LEMMA HoldStep ==
  ASSUME Durable
  PROVE  TypeInv /\ HoldInv /\ [Next]_vars => HoldInv'
  <1> SUFFICES ASSUME TypeInv, HoldInv, [Next]_vars PROVE HoldInv'
    OBVIOUS
  <1>0. TypeOK
    BY DEF TypeInv
  <1>1. ASSUME NEW r \in Runners, NEW q \in Requests, NEW t \in Tokens \cup {None},
               Run(r, q, t)
        PROVE  HoldInv'
    <2>1. ~Holds(r)' /\ ~At(r, "add")' /\ UNCHANGED <<spent, launched>>
      BY <1>0, <1>1 DEF Run, Holds, At, TypeOK
    <2>2. QED
      BY <1>0, <1>1, <2>1, StepsAlone, HoldQuiet
  <1>2. ASSUME NEW r \in Runners, Exits(r) PROVE HoldInv'
    <2>1. ~Holds(r)' /\ ~At(r, "add")' /\ UNCHANGED <<spent, launched>>
      BY <1>0, <1>2, CallType DEF Exits, At, Holds, TypeOK, CallRecords
    <2>2. QED
      BY <1>0, <1>2, <2>1, StepsAlone, HoldQuiet
  <1>3. ASSUME NEW r \in Runners, Step(r) PROVE HoldInv'
    <2>0. call[r] # None /\ call[r] \in CallRecords
      BY <1>0, <1>3, CallType DEF Step, Check, Evaluate, ConsumeMarker, ConsumeLookup,
                                  ConsumeAdd, Probe, Launch, Stops, Record, At
    <2>1. CASE Launch(r) /\ GoesTo(r, "running")
      <3>1. Holds(r)
        BY <2>1 DEF Launch, At, Holds
      <3>2. launched' \subseteq launched \cup
              {[call |-> call[r].id, token |-> call[r].token,
                request |-> call[r].request, evaluated |-> call[r].evaluated]}
        BY <2>1 DEF Launch
      <3>3. ~Holds(r)' /\ ~At(r, "add")' /\ UNCHANGED spent
        BY <1>0, <2>0, <2>1 DEF Launch, GoesTo, Holds, At, TypeOK, CallRecords
      <3>4. \A s \in Runners : Holds(s)' => s # r /\ Holds(s) /\ call'[s] = call[s]
        BY <1>0, <1>3, <3>3, StepsAlone DEF OnlyCallOf, Holds, TypeOK
      <3>5. HeldAlone'
        BY <3>1, <3>2, <3>3, <3>4 DEF HoldInv, HeldAlone
      <3>6. \A s \in Runners : ~At(s, "add")'
        BY <1>0, <1>3, <3>3, StepsAlone DEF OnlyCallOf, HoldInv, At, TypeOK
      <3>7. SingleLaunch' /\ \A x \in launched' : x.token \in spent'[Disk]
        BY <3>1, <3>2, <3>3 DEF HoldInv, HeldAlone, SingleLaunch
      <3>8. QED
        BY <3>5, <3>6, <3>7 DEF HoldInv
    <2>2. CASE /\ ConsumeMarker(r)
               /\ call[r].token \notin spent[Disk]
               /\ Spends(r) /\ Decides(r)
      <3>1. call[r].at = "consume" /\ UNCHANGED launched
        BY <2>2 DEF ConsumeMarker, At
      <3>2. spent'[Disk] = spent[Disk] \cup {call[r].token}
        BY <1>0, <2>2 DEF Spends, Ledger, Ledgers, TypeOK
      <3>3. call'[r].token = call[r].token /\ ~At(r, "add")'
        BY <1>0, <2>0, <2>2 DEF Decides, Blocks, At, TypeOK, CallRecords
      <3>4. \A s \in Runners \ {r} : call'[s] = call[s]
        BY <1>0, <1>3, StepsAlone DEF OnlyCallOf, TypeOK
      <3>5. \A s \in Runners : Holds(s)' => (s # r => Holds(s) /\ call[s].token # call[r].token)
        BY <2>2, <3>4 DEF Holds, HoldInv, HeldAlone
      <3>6. \A x \in launched : x.token # call[r].token
        BY <2>2 DEF HoldInv
      <3>7. HeldAlone'
        BY <3>1, <3>2, <3>3, <3>4, <3>5, <3>6 DEF HoldInv, HeldAlone
      <3>8. \A s \in Runners : ~At(s, "add")'
        BY <3>3, <3>4 DEF HoldInv, At
      <3>9. SingleLaunch' /\ \A x \in launched' : x.token \in spent'[Disk]
        BY <3>1, <3>2 DEF HoldInv, SingleLaunch
      <3>10. QED
        BY <3>7, <3>8, <3>9 DEF HoldInv
    <2>3. CASE /\ ~(Launch(r) /\ GoesTo(r, "running"))
               /\ ~(/\ ConsumeMarker(r)
                    /\ call[r].token \notin spent[Disk]
                    /\ Spends(r) /\ Decides(r))
      <3>1. /\ UNCHANGED launched
            /\ spent[Disk] \subseteq spent'[Disk]
        BY <1>0, <1>3, <2>3 DEF Step, Check, Evaluate, ConsumeMarker, ConsumeLookup,
             ConsumeAdd, Probe, Launch, Stops, Record, Spends, Ledger, Ledgers, TypeOK
      <3>2. ASSUME NEW stage \in Stages \ {"add"}, GoesTo(r, stage),
                   stage \in {"probe", "execute"} => Holds(r)
            PROVE  /\ Holds(r)' => Holds(r) /\ call'[r].token = call[r].token
                   /\ ~At(r, "add")'
        BY <1>0, <2>0, <3>2 DEF GoesTo, Holds, At, TypeOK, CallRecords
      <3>3. ASSUME NEW decision, NEW named, Blocks(r, decision, named)
            PROVE  ~Holds(r)' /\ ~At(r, "add")'
        BY <1>0, <2>0, <3>3 DEF Blocks, Holds, At, TypeOK, CallRecords
      <3>4. Raises(r) => ~Holds(r)' /\ ~At(r, "add")'
        BY <1>0 DEF Raises, Holds, At, TypeOK
      <3>5. Evaluate(r) => ~Holds(r)' /\ ~At(r, "add")'
        BY <1>0, <2>0, <3>3 DEF Evaluate, Holds, At, TypeOK, CallRecords
      <3>6. Record(r) => ~Holds(r)' /\ ~At(r, "add")'
        BY <1>0, <3>4 DEF Record, Holds, At, TypeOK
      <3>7. /\ Holds(r)' => Holds(r) /\ call'[r].token = call[r].token
            /\ ~At(r, "add")'
        <4>1. ~ConsumeLookup(r) /\ ~ConsumeAdd(r)
          BY DEF ConsumeLookup, ConsumeAdd, HoldInv
        <4>2. CASE Check(r)
          BY <4>2, <3>2, <3>3 DEF Check, Stages
        <4>3. CASE ConsumeMarker(r)
          BY <4>3, <2>3, <3>3 DEF ConsumeMarker
        <4>4. CASE Probe(r)
          BY <4>4, <3>2, <3>4 DEF Probe, At, Holds, Stages
        <4>5. CASE Launch(r)
          BY <4>5, <2>3, <3>2 DEF Launch, Stages
        <4>6. CASE Stops(r)
          BY <4>6, <3>2, <3>4 DEF Stops, Stages
        <4>7. QED
          BY <1>3, <3>5, <3>6, <4>1, <4>2, <4>3, <4>4, <4>5, <4>6 DEF Step
      <3>8. QED
        BY <1>0, <1>3, <3>1, <3>7, StepsAlone, HoldQuiet
    <2>4. QED
      BY <2>1, <2>2, <2>3
  <1>4. CASE UNCHANGED <<call, spent, launched>>
    BY <1>4 DEF HoldInv, HeldAlone, Holds, At, SingleLaunch
  <1>5. ASSUME NEW p \in Processes, Restart(p) PROVE HoldInv'
    <2>1. spent'[Disk] = spent[Disk]
      BY <1>0, <1>5, ConstantsAssumption DEF Restart, Ledgers, TypeOK
    <2>2. \A s \in Runners : call'[s] # None => call'[s] = call[s]
      BY <1>5 DEF Restart
    <2>3. QED
      BY <1>5, <2>1, <2>2 DEF Restart, HoldInv, HeldAlone, Holds, At, SingleLaunch
  <1>6. QED
    BY <1>1, <1>2, <1>3, <1>4, <1>5 DEF Next, SetClock, vars

LEMMA HoldInvariant == ASSUME Durable PROVE Spec => []HoldInv
  <1>1. Init => HoldInv
    BY DEF Init, HoldInv, HeldAlone, Holds, At, SingleLaunch
  <1>2. TypeInv /\ HoldInv /\ [Next]_vars => HoldInv'
    BY HoldStep
  <1>3. QED
    BY <1>1, <1>2, TypeInvariant, PTL DEF Spec

(* With the directory ledger a token launches at most one command, however *)
(* many threads and processes present it and however often they restart.   *)
THEOREM TokensLaunchOnce == ASSUME Durable PROVE Spec => []SingleLaunch
  BY HoldInvariant, PTL DEF HoldInv

-----------------------------------------------------------------------------
(* Records.  The runners' calls and reports are of different calls, and    *)
(* each call knows whether it launched its command.                        *)

Own(id) == {x \in launched : x.call = id}

OwnAfter(id) == {x \in launched' : x.call = id}

CallsApart ==
  /\ \A r \in Runners : call[r] # None => call[r].id <= lastCall
  /\ \A r \in Runners : report[r] # None => report[r].call <= lastCall
  /\ \A x \in launched : x.call <= lastCall
  /\ \A r, s \in Runners :
       call[r] # None /\ call[s] # None /\ call[r].id = call[s].id => r = s
  /\ \A r, s \in Runners :
       call[r] # None /\ report[s] # None => call[r].id # report[s].call

(* What a call with the launches own has done so far.                      *)
Knows(c, own) ==
  /\ c.at \in {"check", "evaluate", "consume", "add"} => c.decision = "none" /\ own = {}
  /\ c.at \in {"probe", "execute"} => c.decision = "allow" /\ own = {}
  /\ c.at = "running" => c.decision = "allow" /\ own # {}
  /\ c.at # "record" => c.status = "blocked"
  /\ c.decision # "allow" => own = {}
  /\ c.status # "blocked" => c.decision = "allow" /\ own # {}

CallKnows == \A r \in Runners : call[r] # None => Knows(call[r], Own(call[r].id))

RecordInv == CallsApart /\ CallKnows /\ RecordsTruthful

(* What the steps of a call have in common.                                *)
LEMMA StepFrame ==
  ASSUME TypeOK, NEW r \in Runners, Step(r) \/ Exits(r)
  PROVE  /\ call[r] # None /\ call[r] \in CallRecords
         /\ OnlyCallOf(r)
         /\ UNCHANGED lastCall
         /\ launched \subseteq launched'
         /\ \A x \in launched' : x \in launched \/ x.call = call[r].id
         /\ \/ call'[r].id = call[r].id /\ UNCHANGED report
            \/ /\ call'[r] = None
               /\ report' = [report EXCEPT ![r] = report'[r]]
               /\ report'[r].call = call[r].id
               /\ report'[r].decision = call[r].decision
               /\ report'[r].status \in {"raised", call[r].status}
               /\ UNCHANGED launched
  <1>1. call[r] # None /\ call[r] \in CallRecords
    BY CallType DEF Exits, Step, Check, Evaluate, ConsumeMarker, ConsumeLookup,
                    ConsumeAdd, Probe, Launch, Stops, Record, At
  <1>2. OnlyCallOf(r)
    BY StepsAlone
  <1>3. UNCHANGED lastCall
    BY DEF Exits, Step, Check, Evaluate, ConsumeMarker, ConsumeLookup,
           ConsumeAdd, Probe, Launch, Stops, Record
  <1>4. launched \subseteq launched' /\ \A x \in launched' : x \in launched \/ x.call = call[r].id
    BY DEF Exits, Step, Check, Evaluate, ConsumeMarker, ConsumeLookup,
           ConsumeAdd, Probe, Launch, Stops, Record
  <1> DEFINE Stays == call'[r].id = call[r].id
             Leaves == /\ call'[r] = None
                       /\ report' = [report EXCEPT ![r] = report'[r]]
                       /\ report'[r].call = call[r].id
                       /\ report'[r].decision = call[r].decision
                       /\ report'[r].status \in {"raised", call[r].status}
  <1>5. \A stage : GoesTo(r, stage) => Stays
    BY <1>1 DEF GoesTo, TypeOK, CallRecords
  <1>6. \A decision, named : Blocks(r, decision, named) => Stays
    BY <1>1 DEF Blocks, TypeOK, CallRecords
  <1>7. Raises(r) => Leaves
    BY DEF Raises, TypeOK
  <1>8. Decides(r) => Stays
    BY <1>1, <1>6 DEF Decides, TypeOK, CallRecords
  <1>9. Evaluate(r) => Stays
    BY <1>1, <1>6 DEF Evaluate, TypeOK, CallRecords
  <1>10. Exits(r) => Stays
    BY <1>1 DEF Exits, TypeOK, CallRecords
  <1>11. Record(r) => Leaves
    BY <1>7 DEF Record, TypeOK
  <1> HIDE DEF Stays, Leaves
  <1>12. (Stays /\ UNCHANGED report) \/ (Leaves /\ UNCHANGED launched)
    BY <1>5, <1>6, <1>7, <1>8, <1>9, <1>10, <1>11
       DEF Exits, Step, Check, Evaluate, ConsumeMarker, ConsumeLookup,
           ConsumeAdd, Probe, Launch, Stops, Record
  <1>13. QED
    BY <1>1, <1>2, <1>3, <1>4, <1>12 DEF Stays, Leaves

(* A step keeps its own call's account of itself.                          *)
LEMMA StepKnows ==
  ASSUME TypeOK, NEW r \in Runners, Step(r) \/ Exits(r),
         Knows(call[r], Own(call[r].id)), call'[r] # None
  PROVE  Knows(call'[r], OwnAfter(call[r].id))
  <1>1. call[r] # None /\ call[r] \in CallRecords
    BY StepFrame
  <1> DEFINE Good == Knows(call'[r], OwnAfter(call[r].id))
  <1>2. ASSUME NEW stage \in Stages, GoesTo(r, stage), UNCHANGED launched,
               \/ call[r].at = "check" /\ stage = "evaluate"
               \/ call[r].at = "consume" /\ stage = "add"
               \/ call[r].at = "probe" /\ stage = "execute"
               \/ stage = "record"
        PROVE  Good
    BY <1>1, <1>2 DEF GoesTo, TypeOK, CallRecords, Knows, Own, OwnAfter, Stages
  <1>3. ASSUME NEW decision \in {"none", "deny"}, NEW named, Blocks(r, decision, named),
               UNCHANGED launched, call[r].at \in {"check", "evaluate", "consume", "add"}
        PROVE  Good
    BY <1>1, <1>3 DEF Blocks, TypeOK, CallRecords, Knows, Own, OwnAfter
  <1>4. ASSUME Decides(r), UNCHANGED launched, call[r].at \in {"consume", "add"} PROVE Good
    BY <1>1, <1>3, <1>4 DEF Decides, TypeOK, CallRecords, Knows, Own, OwnAfter
  <1>5. Raises(r) => call'[r] = None
    BY DEF Raises, TypeOK
  <1>6. Evaluate(r) => Good
    BY <1>1, <1>3 DEF Evaluate, At, TypeOK, CallRecords, Knows, Own, OwnAfter
  <1>7. Exits(r) => Good
    BY <1>1 DEF Exits, At, TypeOK, CallRecords, Knows, Own, OwnAfter
  <1>8. Launch(r) => Good
    <2>1. ASSUME Launch(r), GoesTo(r, "running"),
                 launched' = launched \cup
                   {[call |-> call[r].id, token |-> call[r].token,
                     request |-> call[r].request, evaluated |-> call[r].evaluated]}
          PROVE  Good
      <3> DEFINE x == [call |-> call[r].id, token |-> call[r].token,
                       request |-> call[r].request, evaluated |-> call[r].evaluated]
      <3>0. x \in launched' /\ x.call = call[r].id
        BY <2>1
      <3> HIDE DEF x
      <3>1. OwnAfter(call[r].id) # {}
        BY <3>0 DEF OwnAfter
      <3>2. call'[r].at = "running" /\ call'[r].decision = call[r].decision
            /\ call'[r].status = call[r].status
        BY <1>1, <2>1 DEF GoesTo, TypeOK, CallRecords
      <3>3. QED
        BY <2>1, <3>1, <3>2 DEF Launch, At, Knows
    <2>2. QED
      BY <1>2, <2>1 DEF Launch, Stages
  <1>9. Record(r) => call'[r] = None
    BY <1>5 DEF Record, TypeOK
  <1> HIDE DEF Good
  <1>10. Good
    <2>1. CASE Check(r)
      BY <2>1, <1>2, <1>3 DEF Check, At, Stages
    <2>2. CASE ConsumeMarker(r)
      BY <2>2, <1>3, <1>4 DEF ConsumeMarker, At
    <2>3. CASE ConsumeLookup(r) \/ ConsumeAdd(r)
      BY <2>3, <1>2, <1>3, <1>4 DEF ConsumeLookup, ConsumeAdd, At, Stages
    <2>4. CASE Probe(r) \/ Stops(r)
      BY <2>4, <1>2, <1>5 DEF Probe, Stops, At, Stages
    <2>5. QED
      BY <2>1, <2>2, <2>3, <2>4, <1>6, <1>7, <1>8, <1>9 DEF Step
  <1>11. QED
    BY <1>10 DEF Good

LEMMA RecordStep == TypeInv /\ RecordInv /\ [Next]_vars => RecordInv'
  <1> SUFFICES ASSUME TypeInv, RecordInv, [Next]_vars PROVE RecordInv'
    OBVIOUS
  <1>0. TypeOK
    BY DEF TypeInv
  <1>1. ASSUME NEW r \in Runners, NEW q \in Requests, NEW t \in Tokens \cup {None},
               Run(r, q, t)
        PROVE  RecordInv'
    <2>1. /\ lastCall' = lastCall + 1 /\ lastCall \in Nat
          /\ call'[r].id = lastCall + 1 /\ call'[r].at = "check"
          /\ call'[r].decision = "none" /\ call'[r].status = "blocked"
          /\ \A s \in Runners \ {r} : call'[s] = call[s] /\ report'[s] = report[s]
          /\ report'[r] = None
          /\ UNCHANGED launched
      BY <1>0, <1>1, ConstantsAssumption DEF Run, TypeOK
    <2>2. \A s \in Runners : call[s] # None => call[s].id \in Nat
      BY <1>0, CallType DEF CallRecords, Calls
    <2>3. \A s \in Runners : report[s] # None => report[s].call \in Nat
      BY <1>0 DEF TypeOK, Reports, Calls
    <2>4. \A x \in launched : x.call \in Nat
      BY <1>0 DEF TypeOK, Launches, Calls
    <2>5. CallsApart'
      BY <2>1, <2>2, <2>3, <2>4 DEF RecordInv, CallsApart
    <2>6. Own(lastCall + 1) = {}
      BY <2>1, <2>4 DEF Own, RecordInv, CallsApart
    <2>7. CallKnows'
      BY <2>1, <2>6 DEF RecordInv, CallKnows, Knows, Own, OwnAfter
    <2>8. RecordsTruthful'
      BY <2>1 DEF RecordInv, RecordsTruthful
    <2>9. QED
      BY <2>5, <2>7, <2>8 DEF RecordInv
  <1>2. ASSUME NEW r \in Runners, Step(r) \/ Exits(r) PROVE RecordInv'
    <2>1. /\ call[r] # None /\ call[r] \in CallRecords
          /\ \A s \in Runners \ {r} : call'[s] = call[s] /\ report'[s] = report[s]
          /\ UNCHANGED lastCall
          /\ launched \subseteq launched'
          /\ \A x \in launched' : x \in launched \/ x.call = call[r].id
          /\ \/ call'[r].id = call[r].id /\ UNCHANGED report
             \/ /\ call'[r] = None
                /\ report'[r].call = call[r].id
                /\ report'[r].decision = call[r].decision
                /\ report'[r].status \in {"raised", call[r].status}
                /\ UNCHANGED launched
      BY <1>0, <1>2, StepFrame DEF OnlyCallOf, TypeOK
    <2>2. CallsApart'
      BY <2>1 DEF RecordInv, CallsApart
    <2>3. \A s \in Runners \ {r} : call[s] # None => OwnAfter(call[s].id) = Own(call[s].id)
      BY <2>1 DEF RecordInv, CallsApart, Own, OwnAfter
    <2>4. Knows(call[r], Own(call[r].id))
      BY <2>1 DEF RecordInv, CallKnows
    <2>5. call'[r] # None => Knows(call'[r], OwnAfter(call[r].id))
      BY <1>0, <1>2, <2>4, StepKnows
    <2>6. CallKnows'
      BY <2>1, <2>3, <2>5 DEF RecordInv, CallKnows, Own, OwnAfter
    <2>7. \A s \in Runners : report[s] # None =>
            OwnAfter(report[s].call) = Own(report[s].call)
      BY <2>1 DEF RecordInv, CallsApart, Own, OwnAfter
    <2>8. RecordsTruthful'
      <3> DEFINE Truthful(rep, mine) ==
                   /\ rep.status \in {"completed", "failed"} =>
                        mine # {} /\ rep.decision = "allow"
                   /\ rep.decision # "allow" => mine = {}
      <3>1. \A s \in Runners : report[s] # None => Truthful(report[s], Own(report[s].call))
        BY DEF RecordInv, RecordsTruthful, Own, OwnAfter
      <3>2. \A s \in Runners : report'[s] # None => Truthful(report'[s], OwnAfter(report'[s].call))
        <4>1. ASSUME NEW s \in Runners, report'[s] # None, report'[s] = report[s]
              PROVE  Truthful(report'[s], OwnAfter(report'[s].call))
          <5>1. OwnAfter(report'[s].call) = Own(report[s].call)
            BY <2>7, <4>1 DEF Own, OwnAfter
          <5>2. QED
            BY <3>1, <4>1, <5>1
        <4>2. ASSUME report'[r] # report[r]
              PROVE  Truthful(report'[r], OwnAfter(report'[r].call))
          <5>1. OwnAfter(report'[r].call) = Own(call[r].id)
            BY <2>1, <4>2 DEF Own, OwnAfter
          <5>2. QED
            BY <2>1, <2>4, <4>2, <5>1 DEF Knows
        <4>3. QED
          BY <2>1, <4>1, <4>2
      <3>3. QED
        BY <3>2 DEF RecordsTruthful, Own, OwnAfter
    <2>9. QED
      BY <2>2, <2>6, <2>8 DEF RecordInv
  <1>3. CASE UNCHANGED <<lastCall, call, launched, report>>
    BY <1>3 DEF RecordInv, CallsApart, CallKnows, Knows, Own, OwnAfter, RecordsTruthful
  <1>4. ASSUME NEW p \in Processes, Restart(p) PROVE RecordInv'
    <2>1. /\ \A s \in Runners : call'[s] # None => call'[s] = call[s]
          /\ \A s \in Runners : report'[s] # None => report'[s] = report[s]
          /\ UNCHANGED <<lastCall, launched>>
      BY <1>4 DEF Restart
    <2>2. CallsApart'
      BY <2>1 DEF RecordInv, CallsApart
    <2>3. CallKnows'
      BY <2>1 DEF RecordInv, CallKnows, Knows, Own, OwnAfter
    <2>4. RecordsTruthful'
      BY <2>1 DEF RecordInv, RecordsTruthful
    <2>5. QED
      BY <2>2, <2>3, <2>4 DEF RecordInv
  <1>5. QED
    BY <1>1, <1>2, <1>3, <1>4 DEF Next, SetClock, vars

(* A record never claims a run that did not happen, nor hides behind a     *)
(* denial one that did.                                                    *)
THEOREM RecordsAlwaysTruthful == Spec => []RecordsTruthful
  <1>1. Init => RecordInv
    BY DEF Init, RecordInv, CallsApart, CallKnows, RecordsTruthful
  <1>2. QED
    BY <1>1, RecordStep, TypeInvariant, PTL DEF Spec, RecordInv

-----------------------------------------------------------------------------
(* Named tokens.                                                           *)

LEMMA NamedStep == TypeInv /\ NamedIsSpent /\ [Next]_vars => NamedIsSpent'
  <1> SUFFICES ASSUME TypeInv, NamedIsSpent, [Next]_vars PROVE NamedIsSpent'
    OBVIOUS
  <1>0. TypeOK
    BY DEF TypeInv
  <1>1. ASSUME NEW r \in Runners, NEW q \in Requests, NEW t \in Tokens \cup {None},
               Run(r, q, t)
        PROVE  NamedIsSpent'
    <2>1. /\ call'[r].named = None /\ report'[r] = None
          /\ \A s \in Runners \ {r} : call'[s] = call[s] /\ report'[s] = report[s]
          /\ UNCHANGED spent
      BY <1>0, <1>1 DEF Run, TypeOK
    <2>2. QED
      BY <2>1 DEF NamedIsSpent, Ledger
  <1>2. ASSUME NEW r \in Runners, Step(r) \/ Exits(r) PROVE NamedIsSpent'
    <2>1. /\ call[r] # None /\ call[r] \in CallRecords
          /\ OnlyCallOf(r)
      BY <1>0, <1>2, StepFrame
    <2> DEFINE Named == call'[r] = None \/ call'[r].named = call[r].named
    <2>2. /\ \A l \in Ledgers : spent[l] \subseteq spent'[l]
          /\ Spends(r) => call[r].token \in spent'[Ledger(r)]
      <3>1. Spends(r) => /\ \A l \in Ledgers : spent[l] \subseteq spent'[l]
                         /\ call[r].token \in spent'[Ledger(r)]
        BY <1>0, LedgerType DEF Spends, TypeOK
      <3>2. Spends(r) \/ UNCHANGED spent
        BY <1>2 DEF Exits, Step, Check, Evaluate, ConsumeMarker, ConsumeLookup,
                    ConsumeAdd, Probe, Launch, Stops, Record
      <3>3. QED
        BY <3>1, <3>2
    <2>3. \A stage : GoesTo(r, stage) => Named
      BY <1>0, <2>1 DEF GoesTo, TypeOK, CallRecords
    <2>4. \A decision, named : Blocks(r, decision, named) => call'[r].named = named
      BY <1>0, <2>1 DEF Blocks, TypeOK, CallRecords
    <2>5. Raises(r) => /\ Named
                       /\ report' = [report EXCEPT ![r] = report'[r]]
                       /\ report'[r].named = call[r].named
      BY <1>0 DEF Raises, TypeOK
    <2>6. Record(r) => /\ Named
                       /\ report' = [report EXCEPT ![r] = report'[r]]
                       /\ report'[r].named = call[r].named
      BY <1>0, <2>5 DEF Record, TypeOK
    <2>7. Decides(r) => call'[r].named = call[r].token
      BY <1>0, <2>1, <2>4 DEF Decides, TypeOK, CallRecords
    <2>8. Evaluate(r) => Named \/ call'[r].named = None
      BY <1>0, <2>1, <2>4 DEF Evaluate, TypeOK, CallRecords
    <2>9. Exits(r) => Named
      BY <1>0, <2>1 DEF Exits, TypeOK, CallRecords
    <2> HIDE DEF Named
    <2>10. \/ Named
           \/ call'[r].named = None
           \/ call'[r].named = call[r].token /\ call[r].token \in spent'[Ledger(r)]
      <3>1. CASE ConsumeMarker(r)
        BY <3>1, <2>2, <2>4, <2>7 DEF ConsumeMarker, Ledger
      <3>2. CASE ConsumeLookup(r) \/ ConsumeAdd(r)
        BY <3>2, <2>2, <2>3, <2>4, <2>7 DEF ConsumeLookup, ConsumeAdd
      <3>3. CASE Check(r) \/ Probe(r) \/ Launch(r) \/ Stops(r)
        BY <3>3, <2>3, <2>4, <2>5 DEF Check, Probe, Launch, Stops
      <3>4. QED
        BY <1>2, <2>6, <2>8, <2>9, <3>1, <3>2, <3>3 DEF Step
    <2>11. \/ UNCHANGED report
           \/ /\ report' = [report EXCEPT ![r] = report'[r]]
              /\ report'[r].named = call[r].named
      BY <1>2, <2>5, <2>6 DEF Exits, Step, Check, Evaluate, ConsumeMarker, ConsumeLookup,
                              ConsumeAdd, Probe, Launch, Stops
    <2>12. \A s \in Runners : Ledger(s) \in Ledgers
      BY LedgerType
    <2>13. \A s \in Runners \ {r} : call'[s] = call[s] /\ report'[s] = report[s]
      BY <1>0, <2>1, <2>11 DEF OnlyCallOf, TypeOK
    <2>14. call'[r] # None /\ call'[r].named # None => call'[r].named \in spent'[Ledger(r)]
      BY <2>1, <2>2, <2>10, <2>12 DEF NamedIsSpent, Named
    <2>15. report'[r] # None /\ report'[r].named # None => report'[r].named \in spent'[Ledger(r)]
      BY <2>1, <2>2, <2>11, <2>12 DEF NamedIsSpent
    <2>16. QED
      BY <2>2, <2>12, <2>13, <2>14, <2>15 DEF NamedIsSpent, Ledger
  <1>3. CASE UNCHANGED <<call, report, spent>>
    BY <1>3 DEF NamedIsSpent, Ledger
  <1>4. ASSUME NEW p \in Processes, Restart(p) PROVE NamedIsSpent'
    <2>1. \A s \in Runners : Host[s] # p =>
            /\ call'[s] = call[s] /\ report'[s] = report[s]
            /\ spent'[Ledger(s)] = spent[Ledger(s)]
      BY <1>0, <1>4, LedgerType, ConstantsAssumption DEF Restart, Ledger, Ledgers, TypeOK
    <2>2. \A s \in Runners : Host[s] = p => call'[s] = None /\ report'[s] = None
      BY <1>4 DEF Restart
    <2>3. QED
      BY <2>1, <2>2 DEF NamedIsSpent, Ledger
  <1>5. QED
    BY <1>1, <1>2, <1>3, <1>4 DEF Next, SetClock, vars

(* A decision that names a token leaves it used, even a denial, with       *)
(* either ledger.                                                          *)
THEOREM NamedAlwaysSpent == Spec => []NamedIsSpent
  <1>1. Init => NamedIsSpent
    BY DEF Init, NamedIsSpent
  <1>2. QED
    BY <1>1, NamedStep, TypeInvariant, PTL DEF Spec

-----------------------------------------------------------------------------
(* The promise of a token.  With the directory ledger every step burns a   *)
(* token, launches a command on a burnt one nobody launched on before, or  *)
(* leaves both alone.                                                      *)

LEMMA PromiseStep ==
  ASSUME Durable, TypeInv, HoldInv, [Next]_vars
  PROVE  [Promise!Next]_(Promise!vars)
  <1>0. TypeOK
    BY DEF TypeInv
  <1>1. ASSUME UNCHANGED <<spent[Disk], launched>> PROVE UNCHANGED Promise!vars
    BY <1>1 DEF Promise!vars
  <1>2. ASSUME NEW r \in Runners, ConsumeMarker(r), Spends(r),
               call[r].token \notin spent[Disk]
        PROVE  Promise!Next
    <2>1. call[r].token \in Tokens
      BY <1>2, VerifiedToken DEF ConsumeMarker, At, TypeInv, Cleared, PastEvaluation
    <2>2. spent'[Disk] = spent[Disk] \cup {call[r].token} /\ UNCHANGED launched
      BY <1>0, <1>2 DEF ConsumeMarker, Spends, Ledger, Ledgers, TypeOK
    <2>3. Promise!Burn(call[r].token)
      BY <1>2, <2>2 DEF Promise!Burn
    <2>4. QED
      BY <2>1, <2>3 DEF Promise!Next
  <1>3. ASSUME NEW r \in Runners, Launch(r), ~UNCHANGED launched PROVE Promise!Next
    <2>1. /\ call[r] \in CallRecords /\ Holds(r)
          /\ call[r].token \in Tokens /\ call[r].id \in Calls
      BY <1>0, <1>3, CallType, VerifiedToken
         DEF Launch, At, Holds, TypeInv, Cleared, PastEvaluation, CallRecords
    <2> DEFINE new == [call |-> call[r].id, token |-> call[r].token,
                       request |-> call[r].request, evaluated |-> call[r].evaluated]
               Seen(S) == {[call |-> x.call, token |-> x.token] : x \in S}
    <2>2. launched' = launched \cup {new} /\ spent'[Disk] = spent[Disk]
      BY <1>3 DEF Launch
    <2>3. Seen(launched') = Seen(launched) \cup {[call |-> call[r].id, token |-> call[r].token]}
      <3>1. new.call = call[r].id /\ new.token = call[r].token
        OBVIOUS
      <3> HIDE DEF new
      <3>2. QED
        BY <2>2, <3>1
    <2>4. /\ call[r].token \in spent[Disk]
          /\ \A x \in Seen(launched) : x.token # call[r].token
      BY <2>1 DEF HoldInv, HeldAlone
    <2> HIDE DEF new, Seen
    <2>5. QED
      BY <2>1, <2>2, <2>3, <2>4 DEF Promise!Next, Promise!Launch, Seen
  <1>4. ASSUME NEW r \in Runners, Step(r) PROVE Promise!Next \/ UNCHANGED Promise!vars
    <2>1. ~ConsumeAdd(r)
      BY DEF ConsumeAdd, HoldInv
    <2>2. CASE ConsumeMarker(r)
      BY <1>1, <1>2, <2>2 DEF ConsumeMarker
    <2>3. CASE Launch(r)
      BY <1>1, <1>3, <2>3 DEF Launch
    <2>4. QED
      BY <1>1, <1>4, <2>1, <2>2, <2>3
         DEF Step, Check, Evaluate, ConsumeLookup, Probe, Stops, Record
  <1>5. ASSUME NEW p \in Processes, Restart(p) PROVE UNCHANGED Promise!vars
    BY <1>0, <1>1, <1>5, ConstantsAssumption DEF Restart, Ledgers, TypeOK
  <1>6. QED
    BY <1>1, <1>4, <1>5 DEF Next, Run, Exits, SetClock, vars

(* With the directory ledger the executor keeps the promise of a token.    *)
THEOREM PromiseKept == ASSUME Durable PROVE Spec => TokenPromise
  <1>1. Init => Promise!Init
    BY DEF Init, Promise!Init, Ledgers
  <1>2. TypeInv /\ HoldInv /\ [Next]_vars => [Promise!Next]_(Promise!vars)
    BY PromiseStep
  <1>3. QED
    BY <1>1, <1>2, TypeInvariant, HoldInvariant, PTL DEF Spec, TokenPromise, Promise!Spec
=============================================================================
