CONSTANTS
  b1 = b1
  b2 = b2
  lock1 = lock1
  lock2 = lock2
  p1 = p1
  j1 = p1
  q1 = q1
  q2 = q2
  s1 = s1
  s2 = s2
  t1 = t1
  t2 = t2
  c1 = c1
  c2 = c2
  maker = maker
  caller1 = caller1
  caller2 = caller2
  Callers = {caller1, caller2}
  Requests = {q1, q2}
  Session <- MCSession
  Analyzer <- MCAnalyzer
  Egress = {q1, q2}
  Tokens = {t1, t2}
  BoundTo <- MCBoundTo
  Genuine = {t1, t2}
  Providers = {p1}
  MaxCalls = 2
  MaxEdits = 1
  None = None
  Roles <- MCRoles
  NoKey = NoKey
  Active = Active
  Labels = {"support", "reject", "unknown"}
  Lock <- MCLock
  NoLock = NoLock
  MaxScanAge = 1
  Basis <- MCBasis
  Method <- MCMethod
  MinSamples <- MCMinSamples
  Absent = Absent
  Malformed = Malformed
  NoValue = NoValue
  Bundles = {b1}
  Packages <- OnePackage
  Registries <- OneRegistry
  DirectKeys = {}
  Authority <- MCAuthority
  Times = {1}
  OtherReports <- MCOtherReports
  OtherPilots <- MCOtherPilots
  OtherRuns <- MCOtherRuns
  MaxReports = 0
  MaxPilots = 2
SPECIFICATION Spec
INVARIANTS
  RunsTellWhatLeft
  SentOnItsOwnToken
  CompletedPilotsRest
PROPERTIES
  ImplementsSingleUse
SYMMETRY CallersAlike
CHECK_DEADLOCK FALSE
