SPECIFICATION Spec
CONSTANTS
  Machines = 2
  Timer = 5
  PollPeriod = 5
  HeartbeatPeriod = 3
  Grace = 20
  StartDelay = 1
  CheckDelay = 0
  Faults = {"agent"}
  MaxFaults = 1
  MaxRoots = 2
  MaxTime = 85
CHECK_DEADLOCK FALSE
INVARIANTS OneAgentPerMachine OneLaunchPerFault FailureIsNoticed RecoveryEnds
PROPERTY VoteMeansRootDown
