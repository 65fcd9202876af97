SPECIFICATION FairSpec
CONSTANTS
  NumRanks = 3
  SaveAt = {1, 2}
  MaxSteps = 3
  MaxDeaths = 2
CHECK_DEADLOCK FALSE
INVARIANTS ReturnedSavesAreOnDisk OneSaveIsLoaded
PROPERTY SavesReturn
