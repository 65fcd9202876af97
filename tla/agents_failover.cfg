SPECIFICATION Spec
CONSTANTS
  Machines = 2
  Timer = 5
  PollPeriod = 5
  HeartbeatPeriod = 3
  Grace = 20
  StartDelay = 1
  CheckDelay = 0
  Faults = {"root", "machine"}
  MaxFaults = 1
  MaxRoots = 2
  MaxTime = 60
CHECK_DEADLOCK FALSE
INVARIANT RootLossIsRepaired
