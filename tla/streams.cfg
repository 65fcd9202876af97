SPECIFICATION Spec
CONSTANTS
  Machines = 2
  GpusPerMachine = 1
  Mode = "naive"
  TotalBlocks = 3
  HooksPerIter = 1
  Strategy <- NoStrategy
  ProfileSteps = 1
  MaxIter = 3
  Drifting = {0}
  AllowInterrupt = FALSE
  AllowCrash = FALSE
CHECK_DEADLOCK FALSE
INVARIANT RemoteCheckpointIsOfThePeer
