SPECIFICATION FairSpec
CONSTANTS
    NumStages = 3
    Programs <- MCPrograms
    Difficulties <- MCDifficulties
    Tied <- MCTied
CHECK_DEADLOCK FALSE
INVARIANTS NeighboursMeet BatchesAreWhole InputsAreNotOverwritten SizesAgree
PROPERTY EveryBatchEnds
