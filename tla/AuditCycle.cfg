SPECIFICATION Spec
CONSTANTS
  Modules <- MCModules
  Gates <- MCGates
  Phases <- MCPhases
  PhaseOf <- MCPhaseOf
  ContextFields = {"mode"}
  Bundles <- MCBundles
  Contents <- MCContents
  Installed <- MCInstalled
  Edited <- MCEdited
  Activations <- MCActivations
  Receipts = {good, failed}
  Validated = {good}
  Claims <- MCClaims
  ClaimReceipts = {good, failed}
  ClaimOf <- MCClaimOf
  ClaimReceiptOf <- MCClaimReceiptOf
  Disclosable = {"E"}
  Outcomes <- MCOutcomes
  Instants = {1}
  Findings <- MCFindings
  MaxEdits = 1
  MaxRuns = 2
  None = None
  E = E
  A = A
  M = M
  HG_E = HG_E
  HG_A = HG_A
  HG_M = HG_M
  HG_EF = HG_EF
  good = good
  failed = failed
  sound = sound
  bare = bare
INVARIANTS
  CompleteIsEarned
  RunsSurviveDerivation
  HonestReportsStand
  SelectionJustified
CHECK_DEADLOCK FALSE
