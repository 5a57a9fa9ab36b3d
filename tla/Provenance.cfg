SPECIFICATION Spec
CONSTANTS
  c1 = c1 c2 = c2
  source = source captured = captured receipt = receipt
  claim = claim validated = validated derived = derived
  Callers = {c1, c2}
  Records <- ReceiptRecords
  Id <- ReceiptId
  Kind <- ReceiptKind
  Rank <- ReceiptRank
  Refs <- ReceiptRefs
  Supersedes <- NoneSuperseded
  Stamps = {"ok", "blank"}
  None = None
SYMMETRY MCSymmetry
INVARIANTS ReferencesResolve NothingLost
PROPERTIES FileGrows
