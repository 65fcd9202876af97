SPECIFICATION FairSpec
CONSTANTS
    Machines = 4
    GpusPerMachine = 2
    MaxFailures = 1
CHECK_DEADLOCK FALSE
INVARIANTS NobodyLoadsAnothers ReplacedMachinesAreRestored
PROPERTIES SurvivorsKeepTheirRanks TrainingIsStartedAgain
