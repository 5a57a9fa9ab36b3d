-------------------------- MODULE ApprovedExecution --------------------------
(***************************************************************************)
(* SandboxExecutor.run (sandbox.py) with the ToolBroker it consults        *)
(* (tool_broker.py) and the ledger of used approval tokens: threads of     *)
(* several processes hand execute requests to the executor, which launches *)
(* a command only on an allow decision.                                    *)
(*                                                                         *)
(* A call reads the wall clock three times (start, evaluation, end); it is *)
(* an ordinary clock and may be set back.  The directory ledger is shared  *)
(* by all processes and survives them; the in-memory ledger is one per     *)
(* process and its membership test and its insertion are separate steps.   *)
(* A request stands for its digest and a token for its signed claims, so   *)
(* that equality of digests and of token ids is equality.                  *)
(***************************************************************************)
EXTENDS Integers

CONSTANTS
  Runners,    \* threads that call the executor
  Host,       \* Host[r]: the process runner r lives in
  Requests,   \* execute requests
  Permitted,  \* those the execute controls of the broker accept
  Tokens,     \* approval tokens
  BoundTo,    \* BoundTo[t]: the request whose digest t carries
  Issued, Expires,  \* Issued[t], Expires[t]: the window of t
  Genuine,    \* tokens signed with a key of the keyring over these claims
  Durable,    \* TRUE: DirectoryTokenLedger, FALSE: InMemoryTokenLedger
  MaxTime,    \* bound on the wall clock
  MaxCalls,   \* bound on the calls made
  None

Processes == {Host[r] : r \in Runners}

Disk == "disk"

Ledgers == Processes \cup {Disk}

Calls == 1..MaxCalls

ASSUME ConstantsAssumption ==
  /\ Permitted \subseteq Requests
  /\ Genuine \subseteq Tokens
  /\ BoundTo \in [Tokens -> Requests]
  /\ Issued \in [Tokens -> Nat]
  /\ Expires \in [Tokens -> Nat]
  /\ Durable \in BOOLEAN
  /\ MaxTime \in Nat
  /\ MaxCalls \in Nat
  /\ None \notin Tokens
  /\ Disk \notin Processes

-----------------------------------------------------------------------------
Stages == {"check", "evaluate", "consume", "add", "probe", "execute",
           "running", "record"}

Decisions == {"none", "deny", "allow"}

Statuses == {"completed", "failed", "blocked"}

CallRecords == [id: Calls, request: Requests, token: Tokens \cup {None},
                started: Nat, evaluated: Nat, at: Stages,
                decision: Decisions, named: Tokens \cup {None}, status: Statuses]

(* None is no call.                                                        *)
ASSUME NoneAssumption == None \notin CallRecords

VARIABLES
  clock,     \* the wall clock
  lastCall,  \* number of calls made
  call,      \* call[r]: the call r is in, or None
  spent,     \* spent[l]: the tokens ledger l holds
  launched,  \* commands launched so far, with the call and its evidence
  report     \* report[r]: how the latest call of r ended, or None

vars == <<clock, lastCall, call, spent, launched, report>>

Init == /\ clock = 0
        /\ lastCall = 0
        /\ call = [r \in Runners |-> None]
        /\ spent = [l \in Ledgers |-> {}]
        /\ launched = {}
        /\ report = [r \in Runners |-> None]

Ledger(r) == IF Durable THEN Disk ELSE Host[r]

At(r, stage) == call[r] # None /\ call[r].at = stage

-----------------------------------------------------------------------------
(* Steps of a call.                                                        *)

(* SandboxExecutor.run notes when it started.                              *)
Run(r, q, t) ==
  /\ call[r] = None
  /\ lastCall < MaxCalls
  /\ lastCall' = lastCall + 1
  /\ call' = [call EXCEPT ![r] =
       [id |-> lastCall + 1, request |-> q, token |-> t,
        started |-> clock, evaluated |-> 0, at |-> "check",
        decision |-> "none", named |-> None, status |-> "blocked"]]
  /\ report' = [report EXCEPT ![r] = None]
  /\ UNCHANGED <<clock, spent, launched>>

(* The call goes on to another stage and leaves everything else alone.     *)
GoesTo(r, stage) == call' = [call EXCEPT ![r].at = stage]

(* The call is to be recorded as blocked, with this decision.              *)
Blocks(r, decision, named) ==
  call' = [call EXCEPT ![r].at = "record", ![r].decision = decision,
                       ![r].named = named]

(* run() raises: the caller gets no record.                                *)
Raises(r) ==
  /\ call' = [call EXCEPT ![r] = None]
  /\ report' = [report EXCEPT ![r] =
       [call |-> call[r].id, status |-> "raised",
        decision |-> call[r].decision, named |-> call[r].named]]

(* Command line, workspace, requested digest and backend are examined.     *)
Check(r) ==
  /\ At(r, "check")
  /\ GoesTo(r, "evaluate") \/ Blocks(r, "none", None)
  /\ UNCHANGED <<clock, lastCall, spent, launched, report>>

(* Mutant: the request's digest is not compared.                           *)
VerifiedUnbound(t, q, now) ==
  t \in Genuine /\ Issued[t] <= now /\ now < Expires[t]

(* _verify_approval.                                                       *)
Verified(t, q, now) ==
  /\ t \in Genuine
  /\ BoundTo[t] = q
  /\ Issued[t] <= now
  /\ now < Expires[t]

(* ToolBroker.evaluate up to the ledger: the clock is read once.           *)
Evaluate(r) ==
  /\ At(r, "evaluate")
  /\ \/ /\ Verified(call[r].token, call[r].request, clock)
        /\ call' = [call EXCEPT ![r].at = "consume", ![r].evaluated = clock]
     \/ /\ ~Verified(call[r].token, call[r].request, clock)
        /\ Blocks(r, "deny", None)
  /\ UNCHANGED <<clock, lastCall, spent, launched, report>>

(* The rest of evaluate, and the executor's own look at the decision: the  *)
(* execute controls accept the request, or it is denied although its token *)
(* is now used.                                                            *)
Decides(r) ==
  \/ /\ call[r].request \in Permitted
     /\ call' = [call EXCEPT ![r].at = "probe", ![r].decision = "allow",
                             ![r].named = call[r].token]
  \/ /\ call[r].request \notin Permitted
     /\ Blocks(r, "deny", call[r].token)

Spends(r) == spent' = [spent EXCEPT ![Ledger(r)] = @ \cup {call[r].token}]

(* Mutant: the marker is opened without O_EXCL.                            *)
ConsumeMarkerShared(r) ==
  /\ Durable
  /\ At(r, "consume")
  /\ Spends(r) /\ Decides(r)
  /\ UNCHANGED <<clock, lastCall, launched, report>>

(* DirectoryTokenLedger.consume creates the marker of the token with       *)
(* O_EXCL.  Creating it may fail, and so may writing to it once it is      *)
(* there; the executor turns either failure into a blocked run.            *)
ConsumeMarker(r) ==
  /\ Durable
  /\ At(r, "consume")
  /\ \/ /\ call[r].token \in spent[Disk]
        /\ Blocks(r, "deny", call[r].token)
        /\ UNCHANGED spent
     \/ call[r].token \notin spent[Disk] /\ Spends(r) /\ Decides(r)
     \/ call[r].token \notin spent[Disk] /\ Spends(r) /\ Blocks(r, "none", None)
     \/ Blocks(r, "none", None) /\ UNCHANGED spent
  /\ UNCHANGED <<clock, lastCall, launched, report>>

(* InMemoryTokenLedger.consume looks the token up ...                      *)
ConsumeLookup(r) ==
  /\ ~Durable
  /\ At(r, "consume")
  /\ \/ call[r].token \in spent[Ledger(r)] /\ Blocks(r, "deny", call[r].token)
     \/ call[r].token \notin spent[Ledger(r)] /\ GoesTo(r, "add")
  /\ UNCHANGED <<clock, lastCall, spent, launched, report>>

(* Mutant: the token is looked up but never entered.                       *)
ConsumeAddForgotten(r) ==
  /\ At(r, "add")
  /\ Decides(r)
  /\ UNCHANGED <<clock, lastCall, spent, launched, report>>

(* ... and then adds it.                                                   *)
ConsumeAdd(r) ==
  /\ At(r, "add")
  /\ Spends(r)
  /\ Decides(r)
  /\ UNCHANGED <<clock, lastCall, launched, report>>

(* The preflight of the backend passes, fails, or cannot be reaped in time. *)
Probe(r) ==
  /\ At(r, "probe")
  /\ \/ GoesTo(r, "execute") /\ UNCHANGED report
     \/ GoesTo(r, "record") /\ UNCHANGED report
     \/ Raises(r)
  /\ UNCHANGED <<clock, lastCall, spent, launched>>

(* The command is started, or the operating system refuses to.             *)
Launch(r) ==
  /\ At(r, "execute")
  /\ \/ /\ GoesTo(r, "running")
        /\ launched' = launched \cup
             {[call |-> call[r].id, token |-> call[r].token,
               request |-> call[r].request, evaluated |-> call[r].evaluated]}
     \/ GoesTo(r, "record") /\ UNCHANGED launched
  /\ UNCHANGED <<clock, lastCall, spent, report>>

(* The command ends by itself.                                             *)
Exits(r) ==
  /\ At(r, "running")
  /\ \E status \in {"completed", "failed"} :
       call' = [call EXCEPT ![r].at = "record", ![r].status = status]
  /\ UNCHANGED <<clock, lastCall, spent, launched, report>>

(* Mutant: the deadline is never computed.                                 *)
StopsNever(r) == FALSE /\ UNCHANGED vars

(* It is killed at its deadline, or when its output grows too long, and    *)
(* reaped, unless even that takes too long.                                *)
Stops(r) ==
  /\ At(r, "running")
  /\ \/ GoesTo(r, "record") /\ UNCHANGED report
     \/ Raises(r)
  /\ UNCHANGED <<clock, lastCall, spent, launched>>

(* Mutant: every call that was not blocked is taken to have completed.     *)
RecordOptimistic(r) ==
  /\ At(r, "record")
  /\ report' = [report EXCEPT ![r] =
       [call |-> call[r].id, decision |-> call[r].decision, named |-> call[r].named,
        status |-> IF call[r].decision = "allow" THEN "completed" ELSE call[r].status]]
  /\ call' = [call EXCEPT ![r] = None]
  /\ UNCHANGED <<clock, lastCall, spent, launched>>

(* build_sandbox_run refuses a run that ended before it started, which a   *)
(* clock set back makes of any run.                                        *)
Record(r) ==
  /\ At(r, "record")
  /\ \/ /\ clock < call[r].started
        /\ Raises(r)
     \/ /\ clock >= call[r].started
        /\ call' = [call EXCEPT ![r] = None]
        /\ report' = [report EXCEPT ![r] =
             [call |-> call[r].id, status |-> call[r].status,
              decision |-> call[r].decision, named |-> call[r].named]]
  /\ UNCHANGED <<clock, lastCall, spent, launched>>

-----------------------------------------------------------------------------
(* The world around the calls.                                             *)

SetClock(now) ==
  /\ clock # now
  /\ clock' = now
  /\ UNCHANGED <<lastCall, call, spent, launched, report>>

(* Mutant: used approvals are swept when a process starts.                 *)
RestartSweeping(p) ==
  /\ call' = [r \in Runners |-> IF Host[r] = p THEN None ELSE call[r]]
  /\ report' = [r \in Runners |-> IF Host[r] = p THEN None ELSE report[r]]
  /\ spent' = [spent EXCEPT ![p] = {}, ![Disk] = {}]
  /\ UNCHANGED <<clock, lastCall, launched>>

(* A process dies with its commands and starts again with an empty memory. *)
Restart(p) ==
  /\ call' = [r \in Runners |-> IF Host[r] = p THEN None ELSE call[r]]
  /\ report' = [r \in Runners |-> IF Host[r] = p THEN None ELSE report[r]]
  /\ spent' = [spent EXCEPT ![p] = {}]
  /\ UNCHANGED <<clock, lastCall, launched>>

(* What a runner does by itself, once it is in a call.                     *)
Step(r) ==
  \/ Check(r)
  \/ Evaluate(r)
  \/ ConsumeMarker(r)
  \/ ConsumeLookup(r)
  \/ ConsumeAdd(r)
  \/ Probe(r)
  \/ Launch(r)
  \/ Stops(r)
  \/ Record(r)

Next ==
  \/ \E r \in Runners :
       \/ \E q \in Requests, t \in Tokens \cup {None} : Run(r, q, t)
       \/ Step(r)
       \/ Exits(r)
  \/ \E now \in 0..MaxTime : SetClock(now)
  \/ \E p \in Processes : Restart(p)

Spec == Init /\ [][Next]_vars

(* A runner in a call keeps going; the command it waits for need not end,  *)
(* but its deadline comes.                                                 *)
FairSpec == Spec /\ \A r \in Runners : WF_vars(Step(r))

-----------------------------------------------------------------------------
(* Properties.                                                             *)

Launches == [call: Calls, token: Tokens, request: Requests, evaluated: Nat]

Reports == [call: Calls, status: Statuses \cup {"raised"},
            decision: Decisions, named: Tokens \cup {None}]

(* Every variable has the shape its comment states.                        *)
TypeOK ==
  /\ clock \in Nat
  /\ lastCall \in 0..MaxCalls
  /\ call \in [Runners -> CallRecords \cup {None}]
  /\ spent \in [Ledgers -> SUBSET Tokens]
  /\ launched \subseteq Launches
  /\ report \in [Runners -> Reports \cup {None}]

(* A token launches at most one command: two threads or processes that     *)
(* present it at the same time, or after a restart, do not both get to run. *)
SingleLaunch == \A x, y \in launched : x.token = y.token => x = y

(* Every command launched had an approval for exactly that request, within *)
(* its window when evaluated, and the request was one the controls accept. *)
LaunchedAsApproved ==
  \A x \in launched : /\ x.token \in Genuine
                      /\ BoundTo[x.token] = x.request
                      /\ Issued[x.token] <= x.evaluated
                      /\ x.evaluated < Expires[x.token]
                      /\ x.request \in Permitted

(* A record that says the command ran is backed by a launch of that call   *)
(* under an allow decision, and a call without one launched nothing.       *)
RecordsTruthful ==
  \A r \in Runners : report[r] # None =>
    LET mine == {x \in launched : x.call = report[r].call} IN
    /\ report[r].status \in {"completed", "failed"} =>
         mine # {} /\ report[r].decision = "allow"
    /\ report[r].decision # "allow" => mine = {}

(* A decision that names a token, even a denial, leaves the token used:    *)
(* docs/tool-broker.md, "consumed on its first verified evaluation".       *)
NamedIsSpent ==
  \A r \in Runners :
    /\ call[r] # None /\ call[r].named # None => call[r].named \in spent[Ledger(r)]
    /\ report[r] # None /\ report[r].named # None => report[r].named \in spent[Ledger(r)]

(* Every call ends, whatever the command it launched does.                 *)
CallsEnd == \A r \in Runners : call[r] # None ~> call[r] = None

(* The ledger and the executor together keep the promise of a token.       *)
Promise == INSTANCE SingleUse WITH
  burnt    <- spent[Disk],
  launches <- {[call |-> x.call, token |-> x.token] : x \in launched}

TokenPromise == Promise!Spec

=============================================================================
