SPECIFICATION Spec
CONSTANTS
  Modules <- MCModules
  Gates <- MCGates
  Phases = {"E", "T"}
  PhaseOf <- MCPhaseOf
  PhaseOrder <- MCPhaseOrder
  IdOrder <- MCIdOrder
  ContextFields = {"mode"}
  Bundles <- MCBundles
  Contents <- MCContents
  Activations <- MCActivations
  None = None
  K = K
  L = L
  M = M
  N = N
  gK = gK
  gL = gL
  gM = gM
  gN = gN
INVARIANTS
  CycleExact
  RefusedIfInvalid
  OrderExact
PROPERTIES
  Ends
CHECK_DEADLOCK FALSE
