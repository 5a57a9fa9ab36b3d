SPECIFICATION Spec
CONSTANTS
  c1 = c1
  c2 = c2
  k1 = k1
  k2 = k2
  b1 = b1
  b2 = b2
  p0 = p0
  p1 = p1
  None = None
  Clients <- MCClients
  AppendKeys = {k1, p0}
  Bodies = {b1}
  Targets <- MCFewTargets
  Plans = {p0, p1}
  BoundPlans = {p0, p1}
  Revision <- MCRevision
  MaxEvents = 4
  MaxOrphans = 1
INVARIANTS
  JournalReplays
  RowWithinJournal
  SnapshotStored
  AnswersJournalled
  ResumeConsistent
PROPERTIES
  PlanMovesForward
  PartedByReattaching
  JournalPromise
SYMMETRY MCSymmetry
