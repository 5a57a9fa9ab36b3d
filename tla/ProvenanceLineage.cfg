SPECIFICATION Spec
CONSTANTS
  c1 = c1 c2 = c2
  source = source captured = captured receipt = receipt
  claim = claim validated = validated derived = derived
  Callers = {c1, c2}
  Records <- DerivedRecords
  Id <- DerivedId
  Kind <- DerivedKind
  Rank <- LineageAfter
  Refs <- DerivedRefs
  Supersedes <- NoneSuperseded
  Stamps = {"ok"}
  None = None
SYMMETRY MCSymmetry
INVARIANTS FileLoadable
