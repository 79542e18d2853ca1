SPECIFICATION Spec
CONSTANTS
  Nodes <- Nodes4
  Relations = {1, 2}
  Graph <- Diamond
  MinHops = 1
  MaxHops = 2
  Budget = 16
  Families = {"path"}
  Sessions = {TRUE, FALSE}
  MaxCudaEdges = 3
  SemanticReply <- Reply
  AnnCost = 1
  TopKeep = 1
  Slack = 6
  NoAnswer = NoAnswer
INVARIANT AnswerCreditNeedsProof
CHECK_DEADLOCK FALSE
