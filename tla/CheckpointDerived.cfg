SPECIFICATION Spec
CONSTANTS
  Keep = 2
  ParentStep = 0
  MaxStep = 3
  MaxCrashes = 1
  MaxFaults = 0
INVARIANTS
  OnlySupersededPruned
CHECK_DEADLOCK FALSE
