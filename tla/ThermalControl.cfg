SPECIFICATION ThermalSpec
CONSTANTS
  FsyncInterval = 2
  None = None
  Zones = {"cpu", "gpu"}
  Degrees = {51, 82, 90}
  Lines <- SomeLines
  WholeDegrees <- OneZoneInDegrees
  Warning = 80
  Critical = 85
  SampleInterval = 2
  NoReading = NoReading
  Actions = {"checkpoint", "checkpoint_stop", "pause"}
  MaxStops = 1
INVARIANTS
  TypeOK
  LossBounded
PROPERTY HeatNoticed
CHECK_DEADLOCK FALSE
