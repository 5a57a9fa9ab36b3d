----------------------------- MODULE MCRelease ------------------------------
(***************************************************************************)
(* Instances of Release: one honest package of evidence about bundle b1,   *)
(* and packages that differ from it in one respect each; registries that   *)
(* name the right keys, one key for two roles, or revoke one.              *)
(***************************************************************************)
EXTENDS Release, TLC

CONSTANTS b1, b2, lock1, lock2, p1, j1, q1, q2, s1, s2, t1, t2, c1, c2, maker, caller1, caller2

MCRoles == {"qualification", "judge", "host", "supply_chain", "vulnerability", "provenance"}

MCLock == [b \in Bundles |-> IF b = b1 THEN lock1 ELSE lock2]

MCSession == [q \in Requests |-> IF q = q1 THEN s1 ELSE s2]

MCAnalyzer == [q \in Requests |-> p1]

MCBoundTo == [t \in Tokens |-> IF t = t1 THEN q1 ELSE q2]

Trials == {"critical_recall_lower_ci", "critical_miss_count",
           "critical_unsafe_action_count", "critical_family_asr_upper_ci"}

MCBasis == [m \in DeclaredMetrics |-> IF m \in Trials THEN "private_case_trials" ELSE "observation"]

MCMethod == [m \in DeclaredMetrics |-> "canonical"]

MCMinSamples == [m \in DeclaredMetrics |-> IF m \in Trials THEN 2 ELSE 1]

-----------------------------------------------------------------------------
KeyOf(role) == [key |-> role, id |-> role]

MCAuthority == [key |-> "authority", id |-> "authority"]

Entry(role) == [role |-> role, key |-> role, id |-> role, from |-> 0, until |-> 4,
                revoked |-> Active]

RegistryOf(id, entries) ==
  [id |-> id, authority |-> MCAuthority, signature |-> MCAuthority, scope |-> b1,
   from |-> 0, until |-> 4, entries |-> entries]

Five == <<Entry("qualification"), Entry("judge"), Entry("supply_chain"),
          Entry("vulnerability"), Entry("provenance")>>

Right == RegistryOf("right", Append(Five, Entry("host")))

Shared == RegistryOf("shared",
            Append([Five EXCEPT ![4].key = "supply_chain"], Entry("host")))

Revoking == RegistryOf("revoking",
              Append(Five, [Entry("host") EXCEPT !.revoked = 1]))

MCDirectKeys == {[role \in MCRoles |-> KeyOf(role)]}

-----------------------------------------------------------------------------
Passing(rule) == IF rule.op = "lt" THEN rule.bound - 1 ELSE rule.bound

RuleOf(m) == ReleaseRules[CHOOSE g \in Gates : m \in DOMAIN ReleaseRules[g]][m]

Measured == [m \in DeclaredMetrics |->
  [value |-> Passing(RuleOf(m)), basis |-> MCBasis[m], method |-> "canonical",
   samples |-> MCMinSamples[m], refs |-> {"receipt"}]]

PacketOn(cases) ==
  [source |-> "work", context |-> "judging", origin |-> maker, originModel |-> "m1",
   judge |-> j1, model |-> "m2", items |-> cases, scope |-> b1]

Decisions(cases, label) == [i \in DOMAIN cases |-> [item |-> cases[i], label |-> label]]

JudgedCases(id, cases, label) ==
  [id |-> id, scope |-> b1, signature |-> KeyOf("judge"),
   verdict |-> VerdictOn(PacketOn(cases), Decisions(cases, label))]

Honest == [
  manifest |-> [id |-> "manifest", scope |-> b1, corpus |-> {c1, c2},
                signature |-> KeyOf("qualification")],
  receipt |-> [id |-> "receipt", manifest |-> <<"manifest", "qualification">>,
               corpus |-> {c1, c2}, count |-> 2, refs |-> {c1, c2}],
  qualification |-> [id |-> "qualification", scope |-> b1,
                     manifest |-> <<"manifest", "qualification">>, receipt |-> "receipt",
                     evaluator |-> maker, judge |-> j1, verdicts |-> {"verdict"},
                     measurements |-> Measured, signature |-> KeyOf("qualification")],
  verdicts |-> <<JudgedCases("verdict", <<c1, c2>>, "support")>>,
  packets |-> <<PacketOn(<<c1, c2>>)>>,
  hostRun |-> [id |-> "hostRun", scope |-> b1, host |-> "h", complete |-> TRUE, value |-> 1500],
  hostAttestation |-> [id |-> "hostAttestation", scope |-> b1, host |-> "h", run |-> "hostRun",
                       signature |-> KeyOf("host")],
  attestation |-> [id |-> "attestation", scope |-> b1, lock |-> lock1,
                   scan |-> <<"scan", "vulnerability">>, signature |-> KeyOf("supply_chain")],
  scan |-> [id |-> "scan", scope |-> b1, lock |-> lock1, findings |-> <<>>, critical |-> 0,
            at |-> 1, signature |-> KeyOf("vulnerability")],
  provenance |-> [id |-> "provenance", scope |-> b1, verified |-> TRUE,
                  signature |-> KeyOf("provenance")]]

(* Evidence that rests on another verdict.                                 *)
Resting(id, judged, over) ==
  [Honest EXCEPT !.qualification.id = id, !.qualification.verdicts = {judged.id},
                 !.verdicts = <<judged>>, !.packets = <<over>>]

(* Not all cases were judged; one was left undecided; the host was not     *)
(* attested; one key signed for release and scan; a document is illegible, *)
(* or the list of verdicts is; a scan found a critical vulnerability.      *)
HalfJudged == Resting("onHalf", JudgedCases("half", <<c1>>, "support"), PacketOn(<<c1>>))

Undecided ==
  Resting("onUndecided", JudgedCases("undecided", <<c1, c2>>, "unknown"), PacketOn(<<c1, c2>>))

NoHost == [Honest EXCEPT !.hostRun = Absent, !.hostAttestation = Absent]

OneSigner == [Honest EXCEPT !.scan.signature = [key |-> "supply_chain", id |-> "vulnerability"]]

Illegible == [Honest EXCEPT !.scan = Malformed]

OddVerdicts == [Honest EXCEPT !.verdicts = Malformed]

Vulnerable == [Honest EXCEPT !.attestation.id = "attestsBadScan",
                             !.attestation.scan = <<"badScan", "vulnerability">>,
                             !.scan.id = "badScan", !.scan.critical = 1,
                             !.scan.findings = <<[critical |-> TRUE, exploitable |-> TRUE]>>]

MCPackages == {Honest, HalfJudged, Undecided, NoHost, OneSigner, Illegible, OddVerdicts,
               Vulnerable}

MCRegistries == {Right, Shared, Revoking}

OnePackage == {Honest}

OneRegistry == {Right}

(* Documents written by hand: a report that claims all gates for the       *)
(* vulnerable package, one that names no evidence, a canary on that one    *)
(* which nobody prepared, and a run that nobody made.                      *)
AllPassed(bindings) == [digest |-> <<>>, bindings |-> bindings,
                        gates |-> [g \in Gates |-> "pass"], at |-> 1]

ClaimsVulnerable == {AllPassed(Bindings(Vulnerable, Right))}

Unfounded == AllPassed({})

MCOtherReports == {Unfounded}

MCOtherPilots == {[session |-> s1, profile |-> "canary", report |-> Unfounded,
                   evidence |-> None, status |-> "ready", runs |-> {}]}

MCOtherRuns == {[id |-> None, request |-> q2, status |-> "completed",
                 receipt |-> [decision |-> "allow", token |-> t1]]}

(* The callers of a provider differ in nothing.                            *)
CallersAlike == Permutations(Callers)
=============================================================================
