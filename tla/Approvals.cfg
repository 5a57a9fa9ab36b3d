SPECIFICATION Spec
CONSTANTS
  r1 = r1 r2 = r2 p1 = p1 p2 = p2 q1 = q1 q2 = q2 t1 = t1 t2 = t2
  Runners = {r1, r2}
  Host <- TwoProcesses
  Requests = {q1, q2}
  Permitted = {q1}
  Tokens = {t1, t2}
  BoundTo <- MCBoundTo
  Issued <- MCIssued
  Expires <- MCExpires
  Genuine = {t1, t2}
  Durable = TRUE
  MaxTime = 2
  MaxCalls = 2
  None = None
INVARIANTS SingleLaunch LaunchedAsApproved RecordsTruthful
PROPERTIES TokenPromise
