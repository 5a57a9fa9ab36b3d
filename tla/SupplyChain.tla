---------------------------- MODULE SupplyChain -----------------------------
(***************************************************************************)
(* Supply-chain evidence (supply_chain.py, supply_chain_policy.py): the    *)
(* attestation of a bundle, the vulnerability scan it names and a          *)
(* provenance statement, signed by three different keys.  A document is    *)
(* addressed by its content: two with one id differ in signatures only.    *)
(*                                                                         *)
(* attestation: [id, scope, lock, scan, signature];                        *)
(* scan: [id, scope, lock, findings, critical, at, signature];             *)
(* provenance: [id, scope, verified, signature].                           *)
(* The bill of materials is that of the bundle the root names.             *)
(***************************************************************************)
EXTENDS TrustRegistry, FiniteSets

CONSTANTS
  Lock,       \* Lock[b]: digest of the lock file of bundle b, or NoLock
  NoLock,
  MaxScanAge  \* max_age_seconds of the policy

SigningRoles == {"supply_chain", "vulnerability", "provenance"}

(* distinct_signing_key_roles.                                             *)
KeysDistinct(keys) == \A r, s \in SigningRoles : r # s => keys[r].key # keys[s].key

(* Findings are [critical, exploitable] by vulnerability id.               *)
CriticalExploitable(findings) ==
  {v \in DOMAIN findings : findings[v].critical /\ findings[v].exploitable}

(* The digest of a scan covers everything but the signature value.         *)
ScanDigest(s) == <<s.id, s.signature.id>>

(* verify_vulnerability_scan.                                              *)
ScanVerifies(s, a, k) ==
  /\ s.scope = a.scope
  /\ s.lock = a.lock
  /\ s.critical = Cardinality(CriticalExploitable(s.findings))
  /\ Signed(s, k)

(* verify_vulnerability_scan_freshness.                                    *)
ScanFresh(s, at) == s.at <= at /\ at - s.at <= MaxScanAge

(* verify_supply_chain_attestation: root, bill of materials, dependencies  *)
(* and lock file equal those of the bundle on disk.                        *)
AttestationVerifies(a, k, disk) ==
  /\ a.scope = disk
  /\ a.lock = Lock[disk]
  /\ Signed(a, k)

(* verify_provenance_statement.                                            *)
ProvenanceVerifies(p, a, k) == p.scope = a.scope /\ p.verified /\ Signed(p, k)

(* The order of the checks does not matter: one failure and another give   *)
(* the same metrics.                                                       *)
SupplyChainVerifies(e, keys, scope, at, disk) ==
  /\ KeysDistinct(keys)
  /\ e.attestation.scope = scope
  /\ ScanVerifies(e.scan, e.attestation, keys["vulnerability"])
  /\ ScanFresh(e.scan, at)
  /\ AttestationVerifies(e.attestation, keys["supply_chain"], disk)
  /\ e.attestation.scan = ScanDigest(e.scan)
  /\ ProvenanceVerifies(e.provenance, e.attestation, keys["provenance"])
=============================================================================
