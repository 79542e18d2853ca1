SPECIFICATION Spec
CONSTANTS
  Nodes <- Nodes4
  Relations = {1, 2}
  Graph <- DiamondLoop
  MinHops = 1
  MaxHops = 2
  Budget = 16
  Families = {"distractor", "robustness", "intersection"}
  Sessions = {TRUE, FALSE}
  MaxCudaEdges = 3
  SemanticReply <- Reply
  AnnCost = 1
  TopKeep = 1
  Slack = 6
  NoAnswer = NoAnswer
INVARIANTS
  TypeOK
  ValidProofIsExecuted
  DemonstrationAccepted
  NothingRevived
PROPERTY EpisodeCloses
CHECK_DEADLOCK FALSE
