SPECIFICATION Spec
CONSTANTS
  Keep = 2
  ParentStep <- ResumeRun
  MaxStep = 5
  MaxCrashes = 3
  MaxFaults = 1
INVARIANTS
  TypeOK
  PromiseKept
  OneFaultOneGeneration
  JustSavedIsKept
PROPERTY RecoverySpec
CHECK_DEADLOCK FALSE
