SPECIFICATION Spec
CONSTANTS
  MaxFaults = 0
  MaxHalts = 0
CHECK_DEADLOCK FALSE
INVARIANT ReadyMeansShared
