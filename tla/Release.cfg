CONSTANTS
  b1 = b1
  b2 = b2
  lock1 = lock1
  lock2 = lock2
  p1 = p1
  j1 = j1
  q1 = q1
  q2 = q2
  s1 = s1
  s2 = s2
  t1 = t1
  t2 = t2
  c1 = c1
  c2 = c2
  maker = maker
  caller1 = caller1
  caller2 = caller2
  Callers = {caller1}
  Requests = {q1}
  Session <- MCSession
  Analyzer <- MCAnalyzer
  Egress = {}
  Tokens = {t1}
  BoundTo <- MCBoundTo
  Genuine = {t1}
  Providers = {p1, j1}
  MaxCalls = 0
  MaxEdits = 2
  None = None
  Roles <- MCRoles
  NoKey = NoKey
  Active = Active
  Labels = {"support", "reject", "unknown"}
  Lock <- MCLock
  NoLock = NoLock
  MaxScanAge = 1
  Basis <- MCBasis
  Method <- MCMethod
  MinSamples <- MCMinSamples
  Absent = Absent
  Malformed = Malformed
  NoValue = NoValue
  Bundles = {b1, b2}
  Packages <- MCPackages
  Registries <- MCRegistries
  DirectKeys <- MCDirectKeys
  Authority <- MCAuthority
  Times = {1, 3}
  OtherReports <- ClaimsVulnerable
  OtherPilots = {}
  OtherRuns = {}
  MaxReports = 1
  MaxPilots = 1
SPECIFICATION Spec
PROPERTIES
  CanaryMeetsThresholds
  CanaryKeysTrusted
  CanaryIsCurrent
CHECK_DEADLOCK FALSE
