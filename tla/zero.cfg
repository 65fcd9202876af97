SPECIFICATION Spec
CONSTANTS
  Configs <- MCConfigs
  MaxMicroSteps = 4
CHECK_DEADLOCK FALSE
INVARIANTS StepUsesTheBatch EveryElementHasItsOwner
PROPERTIES OnlyOverflowsAreSkipped ScaleIsEarned
