SPECIFICATION Spec
CONSTANTS
    Modules <- MCModules
    Params <- MCParams
    Models <- MCModels
    Configs <- MCConfigs
    MaxPasses = 4
CHECK_DEADLOCK FALSE
INVARIANTS ActiveModulesHaveTheirParams NothingIsRaised
