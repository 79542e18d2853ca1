SPECIFICATION Spec
CONSTANTS
  None = None
  Torn = Torn
  Seeds = {s1, s2}
  MaxCompiles = 2
  MaxRuns = 3
  MaxKills = 1
  Steps = 3
  Every = 1
  History = 1
  EdgeBatches <- SomeEdges
INVARIANTS
  TypeOK
  ResumeIsExact
  PreflightSound
  MarkerIsLast
PROPERTIES
  NothingLost
  HeldoutFrozen
CHECK_DEADLOCK FALSE
