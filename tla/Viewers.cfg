SPECIFICATION ViewersSpec
CONSTANTS
  Q1 = Q1
  Q2 = Q2
  Q3 = Q3
  P1 = P1
  P2 = P2
  P3 = P3
  Items = {Q1, Q2, Q3}
  Properties = {P1, P2, P3}
  Edges <- SmallGraph
  Word = Word
  MaxFound = 2
  Nothing = Nothing
  Tasks = 2
  ConsoleSteps = 2
  ConsoleLimit = 2
  WebLimit = 2
  PolicySteps = 2
  MaxRequests = 5
  MaxDepth = 3
  Limits = {1, 2}
  MaxLines = 3
INVARIANTS
  TypeOK
  ConsoleCoherent
  PageFollowsUser
  McpAccounts
CHECK_DEADLOCK FALSE
