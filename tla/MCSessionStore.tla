--------------------------- MODULE MCSessionStore ---------------------------
(* Small instances of SessionStore.                                        *)
EXTENDS SessionStore, TLC

CONSTANTS c1, c2, k1, k2, b1, b2, p0, p1

MCClients == {c1, c2}
(* Staying, two legal moves and one that is never legal here.              *)
MCTargets == {None, "context_validated", "planned", "attested"}
MCFewTargets == {None, "context_validated", "attested"}
MCBodies == {b1, b2}

(* p0 is the first plan; every other plan is a revision of it.             *)
MCRevision == [p \in Plans |-> IF p = p0 THEN 0 ELSE 1]

MCSymmetry == Permutations(MCClients) \cup Permutations(MCBodies)
=============================================================================
