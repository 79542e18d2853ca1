SPECIFICATION Spec
CONSTANTS
  None = None
  Schedule <- Curriculum
  Budget = 12
  Durations = {1, 2}
  Interval = 2
  Needed = 2
  Rewards <- RewardSet
  CriticalActions = {"checkpoint", "checkpoint_stop", "pause"}
  MaxCrashes = 1
INVARIANTS
  TypeOK
  CompletedIsFinished
  ScheduleCovered
  NoWorkWhileCritical
PROPERTIES
  ProgressKept
  StopHonoured
CHECK_DEADLOCK FALSE
