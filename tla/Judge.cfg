CONSTANTS
  s1 = s1  c1 = c1  home = home  homeModel = homeModel
  j1 = j1  j2 = j2  m1 = m1  a = a  b = b  list = list
  Unhashable = list
  Drafts <- MCDrafts
  None = None
  Labels <- MCLabels
  Requests <- MCRequests
  Bindings = {j1, j2}
  Replies <- MCReplies
  Keys = {jk, ok}
  JudgeKey = jk
  PipeSize = 2
  MaxCalls = 2
SPECIFICATION FairSpec
INVARIANTS
  AcceptedIsJudged
PROPERTIES
  RevokedNotAccepted
  ImplementsBoundedCall
  CallEnds
CHECK_DEADLOCK FALSE
