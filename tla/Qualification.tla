--------------------------- MODULE Qualification ----------------------------
(***************************************************************************)
(* Qualification evidence (qualification.py, qualification_private.py,     *)
(* qualification_methods.py), the verdicts of independent judges it rests  *)
(* on (judge.py) and the attestation of a host run (host_attestation.py).  *)
(*                                                                         *)
(* manifest: [id, scope, corpus, signature], corpus the set of its cases;  *)
(* receipt: [id, manifest, corpus, count, refs], not signed itself;        *)
(* qualification: [id, scope, manifest, receipt, evaluator, judge,         *)
(*   verdicts, measurements, signature], verdicts a set of verdict ids;    *)
(* measurement: [value, basis, method, samples, refs] by metric;           *)
(* listed verdict: [id, scope, verdict, signature];                        *)
(* hostRun: [id, scope, host, complete, value];                            *)
(* hostAttestation: [id, scope, host, run, signature].                     *)
(***************************************************************************)
EXTENDS TrustRegistry, FiniteSets, JudgeVerdict

CONSTANTS
  Basis,      \* Basis[m]: the population metric m is measured on
  Method,     \* Method[m]: digest of the canonical method of m
  MinSamples  \* MinSamples[m]: the least population of m

(* The digest of a manifest covers everything but the signature value.     *)
ManifestDigest(m) == <<m.id, m.signature.id>>

(* verify_manifest.                                                        *)
ManifestVerifies(m, k, scope) == m.scope = scope /\ Signed(m, k)

(* verify_qualification_evidence.                                          *)
EvidenceVerifies(q, m, k, scope) ==
  /\ q.scope = scope
  /\ q.manifest = ManifestDigest(m)
  /\ q.evaluator # q.judge
  /\ q.verdicts # {}
  /\ q.measurements # <<>>
  /\ \A x \in DOMAIN q.measurements :
       x \in DOMAIN Method /\ q.measurements[x].method = Method[x]
  /\ Signed(q, k)

(* verify_private_corpus_receipt.                                          *)
ReceiptVerifies(r, m) == /\ r.manifest = ManifestDigest(m)
                         /\ r.corpus = m.corpus
                         /\ r.count = Cardinality(m.corpus)

IdsIn(s) == [i \in DOMAIN s |-> s[i].id]

Listed(e, ref) == {i \in DOMAIN e.verdicts : e.verdicts[i].id = ref}

(* One referenced verdict, with the packet it holds.                       *)
VerdictVerifies(s, packets, k, scope, allowed) ==
  /\ \E i \in DOMAIN packets : /\ packets[i] = s.verdict.packet
                               /\ Bound(packets[i], s.verdict, allowed)
  /\ s.scope = scope
  /\ Signable(s.verdict)
  /\ Signed(s, k)

(* Every verdict referred to is there, once, and verifies.                 *)
VerdictsVerify(e, k, scope, allowed) ==
  /\ Once(IdsIn(e.verdicts))
  /\ Once(e.packets)
  /\ \A ref \in e.qualification.verdicts :
       /\ Listed(e, ref) # {}
       /\ \A i \in Listed(e, ref) :
            VerdictVerifies(e.verdicts[i], e.packets, k, scope, allowed)

JudgedIn(e) == UNION {Judged(e.verdicts[i].verdict) :
                        i \in UNION {Listed(e, ref) : ref \in e.qualification.verdicts}}

(* Mutant: the judged cases are not counted.                               *)
PopulationClaimed(e, x) ==
  LET m == e.qualification.measurements[x]
  IN /\ m.basis = Basis[x]
     /\ e.receipt.id \in m.refs
     /\ m.basis = "private_case_trials" => m.samples <= e.receipt.count

(* A measurement on private cases may claim no more trials than there are  *)
(* cases in the receipt, and than there are judged ones among them.        *)
PopulationBound(e, x) ==
  LET m == e.qualification.measurements[x]
  IN /\ m.basis = Basis[x]
     /\ e.receipt.id \in m.refs
     /\ m.basis = "private_case_trials" =>
          /\ m.samples <= e.receipt.count
          /\ m.samples <= Cardinality(JudgedIn(e) \cap e.receipt.refs)

(* _verified_qualification_metrics: all or nothing.                        *)
QualificationVerifies(e, keys, scope, allowed, declared) ==
  LET q == e.qualification
  IN /\ keys["qualification"] # NoKey
     /\ keys["judge"] # NoKey
     /\ keys["qualification"].key # keys["judge"].key
     /\ ManifestVerifies(e.manifest, keys["qualification"], scope)
     /\ EvidenceVerifies(q, e.manifest, keys["qualification"], scope)
     /\ q.receipt = e.receipt.id
     /\ ReceiptVerifies(e.receipt, e.manifest)
     /\ DOMAIN q.measurements \subseteq declared
     /\ VerdictsVerify(e, keys["judge"], scope, allowed)
     /\ \A x \in DOMAIN q.measurements :
          PopulationBound(e, x) /\ q.measurements[x].samples >= MinSamples[x]

(* verify_host_attestation.                                                *)
HostVerifies(e, keys, scope) ==
  /\ keys["host"] # NoKey
  /\ e.hostRun.complete
  /\ e.hostAttestation.run = e.hostRun.id
  /\ e.hostAttestation.scope = scope
  /\ e.hostAttestation.scope = e.hostRun.scope
  /\ e.hostAttestation.host = e.hostRun.host
  /\ Signed(e.hostAttestation, keys["host"])
=============================================================================
