SPECIFICATION Spec
CONSTANTS
  NodeIds <- Ids
  NodeCount = 4
  Relations = {1, 2}
  Graph <- Diamond
  MaxScore = 2
  SeedScore = 1
  AnnReplies <- Replies
  Limits = {1}
  StoreRegisters = {1}
  InitialBudget = 7
  NoAnswer = NoAnswer
  MaxAttempts = 4
INVARIANTS
  TypeOK
  AccountsBalance
  EvidencePaidFor
  BranchesSupported
PROPERTY TrailSpec
CHECK_DEADLOCK FALSE
