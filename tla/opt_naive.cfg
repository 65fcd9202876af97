SPECIFICATION Spec
CONSTANTS
  Machines = 2
  GpusPerMachine = 2
  Mode = "naive"
  TotalBlocks = 2
  HooksPerIter = 1
  Strategy <- NoStrategy
  ProfileSteps = 1
  MaxIter = 3
  Drifting = {0}
  AllowInterrupt = FALSE
  AllowCrash = TRUE
CHECK_DEADLOCK FALSE
INVARIANT LossIsCovered
PROPERTY ImplementsStore
