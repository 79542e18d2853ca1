SPECIFICATION Spec
CONSTANTS
  None = None
  Nodes = {0, 1, 2, 3}
  Relations = {1, 2}
  Graph <- MCGraph
  MinHops = 1
  MaxHops = 3
  Budget = 20
  Families = {"path", "distractor", "robustness", "intersection"}
  Budgets = {5, 20}
  RelationLimit = 2
  EntityLimit = 4
  MaxFaults = 2
  MaxCalls = 2
  RowSets <- MCRowSets
  DeviceRows <- MCDeviceRows
  Frontiers <- MCFrontiers
  Capacities <- MCCapacities
  ScoreSets <- MCScoreSets
INVARIANTS
  TypeOK
  CompiledExactly
  ExpandExact
  NoDeviceLeak
  TopKExact
  PlansComplete
CHECK_DEADLOCK FALSE
