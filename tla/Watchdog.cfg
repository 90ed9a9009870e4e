\* three player processes, two faults, two REBOOT commands
SPECIFICATION FairSpec
CONSTANTS
  MaxForks = 3
  MaxFaults = 2
  MaxReboots = 2
INVARIANTS TypeOK OnePlayerUnlessRaced
PROPERTIES SilentReplaced StopReturns
CHECK_DEADLOCK FALSE
