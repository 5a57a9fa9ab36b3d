---------------------- MODULE MCProvenanceRegistry -------------------------
(* Small instances of ProvenanceRegistry for TLC.                          *)
EXTENDS ProvenanceRegistry, TLC

CONSTANTS c1, c2,
          source,    \* a source
          captured,  \* the same source captured at another time: the same id
          receipt,   \* a validation receipt of the source
          claim,     \* a claim about the source
          validated, \* a claim about the source, validated by the receipt
          derived    \* a claim with the first claim in its lineage

(* A source in two versions, and claims that derive from one another.      *)
DerivedRecords == {source, captured, claim, derived}

(* With the receipt that validates the claim.                              *)
ReceiptRecords == {source, captured, receipt, validated, derived}

IdOf(r) == CASE r \in {source, captured} -> "SRC"
             [] r = receipt              -> "VRF"
             [] r = derived              -> "CLM-1"
             [] r \in {claim, validated} -> "CLM-2"

RefsOf(r) == CASE r \in {source, captured} -> {}
               [] r \in {receipt, claim}   -> {"SRC"}
               [] r = validated            -> {"SRC", "VRF"}
               [] r = derived              -> {"CLM-2"}

ReceiptId   == [r \in ReceiptRecords |-> IdOf(r)]
ReceiptRefs == [r \in ReceiptRecords |-> RefsOf(r)]
ReceiptKind == ("SRC" :> 1) @@ ("VRF" :> 2) @@ ("CLM-1" :> 3) @@ ("CLM-2" :> 3)
ReceiptRank == ("SRC" :> 1) @@ ("VRF" :> 1) @@ ("CLM-1" :> 2) @@ ("CLM-2" :> 1)

DerivedId   == [r \in DerivedRecords |-> IdOf(r)]
DerivedRefs == [r \in DerivedRecords |-> RefsOf(r)]
DerivedKind == ("SRC" :> 1) @@ ("CLM-1" :> 3) @@ ("CLM-2" :> 3)

(* Ids are digests: a claim's may be before those it derives from or after. *)
LineageAfter == ("SRC" :> 1) @@ ("CLM-1" :> 1) @@ ("CLM-2" :> 2)

NoneSuperseded == [r \in Records |-> None]

MCSymmetry == Permutations({c1, c2})
=============================================================================
