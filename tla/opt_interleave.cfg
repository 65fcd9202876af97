SPECIFICATION FairSpec
CONSTANTS
  Machines = 2
  GpusPerMachine = 1
  Mode = "interleave"
  TotalBlocks = 3
  HooksPerIter = 4
  Strategy <- CoveringStrategy
  ProfileSteps = 1
  MaxIter = 4
  Drifting = {0}
  AllowInterrupt = TRUE
  AllowCrash = TRUE
CHECK_DEADLOCK FALSE
INVARIANTS LatestIsComplete LossIsCovered
PROPERTIES LatestIsStable ImplementsStore EveryRankSaves
