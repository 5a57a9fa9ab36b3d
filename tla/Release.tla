------------------------------ MODULE Release -------------------------------
(***************************************************************************)
(* From release evidence to a pilot (evaluation.py, pilot.py), composed    *)
(* with the provider runs a pilot is completed on: a report is evaluated   *)
(* from evidence as of a time its caller names, a shadow or canary pilot   *)
(* is prepared from a report, completed on provider runs or rolled back.   *)
(* Meanwhile the bundle on disk and the allowlist are edited.              *)
(*                                                                         *)
(* Reports, pilot revisions and runs are documents their callers keep:     *)
(* they are addressed by their content and not signed, none is ever        *)
(* withdrawn, and any of them may be handed in again.  So may others of    *)
(* the same shape that no function here made.  An evaluation reads the     *)
(* files it needs in one step; a completion reads the allowlist twice for  *)
(* every run, and it may be edited in between.                             *)
(***************************************************************************)
EXTENDS ProviderCalls, ReleaseEvaluation

CONSTANTS
  Bundles,     \* bundle roots
  Packages,    \* packages of evidence
  Registries,  \* registries of keys
  DirectKeys,  \* keys by role a caller may hand over instead
  Authority,   \* key and key id of the authority
  Times,       \* times of evaluation
  OtherReports, OtherPilots, OtherRuns,  \* documents somebody else wrote
  MaxReports,  \* bound on the reports
  MaxPilots    \* bound on the pilot revisions

ASSUME ReleaseAssumption ==
  /\ Absent \notin Registries
  /\ Times \subseteq Nat
  /\ MaxReports \in Nat
  /\ MaxPilots \in Nat
  /\ MaxScanAge \in Nat
  /\ \A e \in Packages : Readable(e, "scan") => e.scan.at \in Nat

VARIABLES
  disk,       \* the bundle on disk
  reports,    \* release reports evaluated so far
  pilots,     \* pilot revisions made so far
  completing  \* the call of complete_pilot under way, or None

releaseVars == <<disk, reports, pilots, completing>>

vars == <<providerVars, releaseVars>>

Init == /\ ProviderInit
        /\ disk \in Bundles
        /\ reports = {}
        /\ pilots = {}
        /\ completing = None

Sessions == {Session[q] : q \in Requests}

Profiles == {"shadow", "canary"}

PilotStatus == {"ready", "blocked", "complete", "rollback"}

(* The identity of a document is a digest anyone can compute.  A run with  *)
(* the identity of one that this adapter made is that run.                 *)
ASSUME OthersAssumption ==
  /\ None \notin Calls
  /\ \A report \in OtherReports : report.at \in Times /\ DOMAIN report.gates = Gates
  /\ OtherRuns \subseteq [id: {None}, request: Requests,
                         status: {"completed", "blocked", "unknown"},
                         receipt: Receipts \cup {None}]
  /\ OtherPilots \subseteq [session: Sessions, profile: Profiles, report: OtherReports,
                           evidence: {None}, status: PilotStatus, runs: SUBSET OtherRuns]
  /\ \A pilot \in OtherPilots : pilot.status = "ready" => pilot.runs = {}

(* What callers can hand in.                                               *)
KnownReports == reports \cup OtherReports

KnownPilots == pilots \cup OtherPilots

KnownRuns == runs \cup OtherRuns

-----------------------------------------------------------------------------
EditBundle(b) ==
  /\ edits < MaxEdits
  /\ b # disk
  /\ edits' = edits + 1
  /\ disk' = b
  /\ UNCHANGED <<allowlist, lastCall, call, spent, sent, runs, reports, pilots, completing>>

(* What evaluate_release_gates reads besides its arguments: the allowlist  *)
(* (for the judges of the verdicts) and the bundle on disk.                *)
ReportNow(e, registry, direct, scope, at) ==
  ReportOn(e, registry, Authority, direct, scope, at,
           {p \in Providers : Allowed(p)}, disk)

Evaluate(e, registry, direct, scope, at) ==
  /\ Cardinality(reports) < MaxReports
  /\ reports' = reports \cup {ReportNow(e, registry, direct, scope, at)}
  /\ UNCHANGED <<providerVars, disk, pilots, completing>>

(* A new revision.                                                         *)
Adds(pilot) == /\ Cardinality(pilots) < MaxPilots
               /\ pilots' = pilots \cup {pilot}

(* drills: whether all five drills passed.  evidence is history: what a    *)
(* canary was prepared on, which its document only names.                  *)
Prepared(s, profile, report, drills, evidence) ==
  [session |-> s, profile |-> profile, report |-> report, evidence |-> evidence,
   status |-> IF drills THEN "ready" ELSE "blocked", runs |-> {}]

PrepareShadow(s, report, drills) ==
  /\ Adds(Prepared(s, "shadow", report, drills, None))
  /\ UNCHANGED <<providerVars, disk, reports, completing>>

(* prepare_pilot of a canary evaluates the evidence again, as of the time  *)
(* the report was made for.                                                *)
PrepareCanary(s, report, drills, e, registry, scope) ==
  /\ Adds(Prepared(s, "canary", report, drills, <<e, registry>>))
  /\ GaEligible(report)
  /\ report.bindings # {}
  /\ registry # Absent
  /\ ReportNow(e, registry, NoKeys, scope, report.at) = report
  /\ UNCHANGED <<providerVars, disk, reports, completing>>

Rollback(pilot) ==
  /\ pilot.status \in {"ready", "complete"}
  /\ Adds([pilot EXCEPT !.status = "rollback"])
  /\ UNCHANGED <<providerVars, disk, reports, completing>>

-----------------------------------------------------------------------------
(* complete_pilot looks at one run after the other.                        *)

BeginCompletion(pilot, rs) ==
  /\ completing = None
  /\ Cardinality(pilots) < MaxPilots
  /\ pilot.status = "ready"
  /\ rs # {}
  /\ completing' = [pilot |-> pilot, runs |-> rs, left |-> rs, verified |-> None,
                    seen |-> {allowlist}]
  /\ UNCHANGED <<providerVars, disk, reports, pilots>>

(* seen is history: the allowlists in force since the call began.          *)
Watching == completing' = IF completing = None THEN None
                          ELSE [completing EXCEPT !.seen = @ \cup {allowlist'}]

(* verify_provider_run.                                                    *)
RunVerifies(r) ==
  /\ Allowed(Analyzer[r.request])
  /\ r.status = "completed" =>
       r.receipt # None /\ r.receipt.decision = "allow" /\ r.receipt.token # None

VerifyRun(r) ==
  /\ completing # None
  /\ completing.verified = None
  /\ r \in completing.left
  /\ RunVerifies(r)
  /\ completing' = [completing EXCEPT !.verified = r]
  /\ UNCHANGED <<providerVars, disk, reports, pilots>>

(* Mutant: the status is not looked at.                                    *)
RunServesUnfinished(pilot, r) ==
  /\ Session[r.request] = pilot.session
  /\ Allowed(Analyzer[r.request])
  /\ pilot.profile = "canary" => allowlist[Analyzer[r.request]] = "qualified"
  /\ r.receipt # None

(* The allowlist is read again.                                            *)
RunServes(pilot, r) ==
  /\ Session[r.request] = pilot.session
  /\ Allowed(Analyzer[r.request])
  /\ pilot.profile = "canary" => allowlist[Analyzer[r.request]] = "qualified"
  /\ r.status = "completed"
  /\ r.receipt.decision = "allow"

CountRun ==
  /\ completing # None
  /\ completing.verified # None
  /\ RunServes(completing.pilot, completing.verified)
  /\ completing' = [completing EXCEPT !.left = @ \ {completing.verified}, !.verified = None]
  /\ UNCHANGED <<providerVars, disk, reports, pilots>>

(* Every observation passed and refers to these runs.                      *)
Complete ==
  /\ completing # None
  /\ completing.left = {}
  /\ Adds([completing.pilot EXCEPT !.status = "complete", !.runs = completing.runs])
  /\ completing' = None
  /\ UNCHANGED <<providerVars, disk, reports>>

(* A run or an observation is refused, or the caller dies.                 *)
Abandon == /\ completing # None
           /\ completing' = None
           /\ UNCHANGED <<providerVars, disk, reports, pilots>>

PilotNext ==
  \/ \E report \in KnownReports, s \in Sessions, drills \in BOOLEAN :
       \/ PrepareShadow(s, report, drills)
       \/ \E e \in Packages, registry \in Registries \cup {Absent}, scope \in Bundles :
            PrepareCanary(s, report, drills, e, registry, scope)
  \/ \E pilot \in KnownPilots : \/ Rollback(pilot)
                                \/ \E rs \in SUBSET KnownRuns : BeginCompletion(pilot, rs)
  \/ \E r \in KnownRuns : VerifyRun(r)
  \/ CountRun \/ Complete \/ Abandon

Next == \/ ProviderNext /\ Watching /\ UNCHANGED <<disk, reports, pilots>>
        \/ \E b \in Bundles : EditBundle(b)
        \/ \E e \in Packages, registry \in Registries \cup {Absent},
              direct \in DirectKeys \cup {NoKeys}, scope \in Bundles, at \in Times :
             Evaluate(e, registry, direct, scope, at)
        \/ PilotNext

Spec == Init /\ [][Next]_vars

-----------------------------------------------------------------------------
(* The types of the variables.                                             *)
PilotTyped(pilot) ==
  /\ pilot.session \in Sessions
  /\ pilot.profile \in Profiles
  /\ pilot.report \in KnownReports
  /\ pilot.evidence = None \/ pilot.evidence \in Packages \X Registries
  /\ pilot.status \in PilotStatus
  /\ pilot.runs \subseteq KnownRuns

TypeOK ==
  /\ ProviderTypeOK
  /\ disk \in Bundles
  /\ \A report \in reports : report.at \in Times /\ DOMAIN report.gates = Gates
  /\ \A pilot \in pilots : PilotTyped(pilot)
  /\ completing # None =>
       /\ completing.pilot \in KnownPilots
       /\ completing.runs \subseteq KnownRuns
       /\ completing.left \subseteq completing.runs
       /\ completing.verified \in completing.left \cup {None}
       /\ allowlist \in completing.seen

NewCanary(pilot) == /\ pilot \in pilots' \ pilots
                    /\ pilot.profile = "canary"
                    /\ pilot.status = "ready"

(* The value evidence gives metric x, wherever it comes from.              *)
Shows(e, x) ==
  IF x = "hard_stop_p99_seconds" THEN e.hostRun.value
  ELSE IF x = "critical_exploitable_cve_count"
       THEN Cardinality(CriticalExploitable(e.scan.findings))
  ELSE IF x \in SupplyChainMetrics THEN 1
  ELSE e.qualification.measurements[x].value

MeetsThresholds(e) ==
  /\ \A kind \in EvidenceKinds : Readable(e, kind)
  /\ DeclaredMetrics \ {"hard_stop_p99_seconds"} \subseteq DOMAIN e.qualification.measurements
  /\ \A g \in Gates : \A m \in DOMAIN ReleaseRules[g] :
       Satisfies(Shows(e, m), ReleaseRules[g][m])

(* A canary gets ready only on evidence that is complete and meets every   *)
(* frozen threshold of all sixteen gates, none of them by default; a       *)
(* critical vulnerability that can be exploited is never among what it was *)
(* scanned for (pilot.py: canary requires a fully evidenced report).  What *)
(* the report itself says, whoever wrote it, does not count.               *)
CanaryMeetsThresholds ==
  [][\A pilot \in pilots' : NewCanary(pilot) => MeetsThresholds(pilot.evidence[1])]_vars

(* d was signed with a key that registry lists for the role, in force at   *)
(* the time.                                                               *)
SignedInRole(d, role, registry, at) ==
  \E i \in DOMAIN registry.entries :
    LET x == registry.entries[i]
    IN /\ x.role = role
       /\ x.revoked = Active
       /\ Within(x, at)
       /\ d.signature = [key |-> x.key, id |-> x.id]

SignerOf(d) == d.signature.key

KeysTrusted(e, r, at) ==
  /\ r.signature = Authority
  /\ SignedInRole(e.manifest, "qualification", r, at)
  /\ SignedInRole(e.qualification, "qualification", r, at)
  /\ \A i \in DOMAIN e.verdicts : e.verdicts[i].id \in e.qualification.verdicts =>
       /\ SignedInRole(e.verdicts[i], "judge", r, at)
       /\ SignerOf(e.verdicts[i]) # SignerOf(e.qualification)
  /\ SignedInRole(e.hostAttestation, "host", r, at)
  /\ SignedInRole(e.attestation, "supply_chain", r, at)
  /\ SignedInRole(e.scan, "vulnerability", r, at)
  /\ SignedInRole(e.provenance, "provenance", r, at)
  /\ Cardinality({SignerOf(e.attestation), SignerOf(e.scan), SignerOf(e.provenance)}) = 3

(* Every document behind a ready canary was signed in its role with a key  *)
(* in force, according to one registry the authority signed; who qualifies *)
(* does not judge, and release, scan and provenance have three signers     *)
(* (ADR.md: separation of duties).  No key a caller supplied counts.       *)
CanaryKeysTrusted ==
  [][\A pilot \in pilots' : NewCanary(pilot) =>
       KeysTrusted(pilot.evidence[1], pilot.evidence[2], pilot.report.at)]_vars

(* The parts of the next property: what the evidence is about, the age of  *)
(* the scan, one verdict, and the population of the measurements.          *)
AboutDisk(e) ==
  /\ \A kind \in EvidenceKinds \ {"receipt"} : e[kind].scope = disk
  /\ e.scan.lock = Lock[disk]

ScannedInTime(e, at) == at - e.scan.at \in 0..MaxScanAge

JudgedIndependently(e, i) ==
  LET v == e.verdicts[i].verdict
  IN /\ e.verdicts[i].scope = disk
     /\ v.packet.judge # v.packet.origin
     /\ Allowed(v.packet.judge)
     /\ \A j \in DOMAIN v.decisions : v.decisions[j].label # "unknown"

TrialsJudged(e) ==
  LET q == e.qualification
      judged == UNION {Judged(e.verdicts[i].verdict) :
                         i \in {k \in DOMAIN e.verdicts : e.verdicts[k].id \in q.verdicts}}
  IN \A m \in DOMAIN q.measurements : Basis[m] = "private_case_trials" =>
       q.measurements[m].samples <= Cardinality(e.receipt.refs \cap judged)

(* A ready canary is of the bundle on disk at that moment, whatever root   *)
(* its caller expected: the evidence of every kind is about it, the scan   *)
(* was fresh, and for every trial claimed there is a case of the private   *)
(* corpus that an independent judge, whom the allowlist still names, has   *)
(* decided.                                                                *)
CanaryIsCurrent ==
  [][\A pilot \in pilots' : NewCanary(pilot) =>
       LET e == pilot.evidence[1]
       IN /\ AboutDisk(e)
          /\ ScannedInTime(e, pilot.report.at)
          /\ \A i \in DOMAIN e.verdicts :
               e.verdicts[i].id \in e.qualification.verdicts => JudgedIndependently(e, i)
          /\ TrialsJudged(e)]_vars

WasSent(r) == \E x \in sent : x.call = r.id /\ BoundTo[x.token] = r.request

(* A pilot is completed only from a revision that was ready, on one run or *)
(* more of its own session; each of them that this adapter made did reach  *)
(* the provider on a token approved for that very request (pilot.py:       *)
(* completion cannot use blocked or unknown runs; ADR.md: a run of another *)
(* session must not be replayed).  Of a document somebody else wrote       *)
(* nothing follows.                                                        *)
CompletedPilotsRest ==
  \A pilot \in pilots : pilot.status = "complete" =>
    /\ [pilot EXCEPT !.status = "ready", !.runs = {}] \in KnownPilots
    /\ pilot.runs # {}
    /\ \A r \in pilot.runs : /\ Session[r.request] = pilot.session
                             /\ r \in runs => WasSent(r)

(* Behind a completed pilot there is a preparation and, for every run, a   *)
(* transmission.                                                           *)
CompletedPilotsHappened ==
  \A pilot \in pilots : pilot.status = "complete" =>
    /\ [pilot EXCEPT !.status = "ready", !.runs = {}] \in pilots
    /\ \A r \in pilot.runs : WasSent(r)

(* The provider behind each run of a pilot that completes was listed, for  *)
(* a canary as qualified, at some moment of the very call that completed   *)
(* it, however long ago the run was made.                                  *)
CompletionIsCurrent ==
  [][\A pilot \in pilots' \ pilots : pilot.status = "complete" =>
       \A r \in pilot.runs : \E a \in completing.seen :
         /\ a[Analyzer[r.request]] # "refused"
         /\ pilot.profile = "canary" => a[Analyzer[r.request]] = "qualified"]_vars
=============================================================================
