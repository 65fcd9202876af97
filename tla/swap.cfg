CONSTANTS
  NumGroups = 3
  NumStates = 2
  NumPieces = 2
  NumThreads = 2
  Configs <- MCConfigs
SPECIFICATION Spec
CHECK_DEADLOCK FALSE
INVARIANTS NewestStatesAreUsed BuffersAreKept
PROPERTY EveryStepEnds
