SPECIFICATION Spec
CONSTANTS
  Gates <- MCGates
  Activation <- MCActivation
  Values <- MCValues
  Defaults <- MCDefaults
  Supplied <- MCSupplied
  Amendments <- MCAmendments
  MaxPlans = 3
  Unknown = Unknown
  None = None
  HG_P = HG_P
  HG_AS = HG_AS
  HG_FL = HG_FL
  HG_ORG = HG_ORG
  HG_HV = HG_HV
  HG_AD = HG_AD
  HG_CPT = HG_CPT
  HG_IJ = HG_IJ
  yes = yes
  no = no
INVARIANTS
  PlansMatch
  VerdictsExact
  ObligationsKept
  DecidedStays
CHECK_DEADLOCK FALSE
