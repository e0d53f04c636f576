SPECIFICATION FailoverSpec
CONSTANTS
  None = None
  Anonymous = Anonymous
  NoToken = NoToken
  u1 = u1
  u2 = u2
  AccountIDs = {"a1"}
  Users <- MCUsers
  Tokens <- MCTokens
  ClaimedUser <- MCClaimedUser
  TokensOf <- MCTokensOf
  DefaultStrategy = "round_robin"
  IndexPeriod = 2
  InitialFiles <- MCInitialFiles
  ObservedQuotas <- MCQuotas
  CooldownLengths = {1}
  ChosenStrategies = {}
  MaxAccounts = 2
  MaxTime = 1
  MaxSaveFailures = 0
  Supporting = {1, 2}
  Shapes <- MCShapes
  MaxSends = 4
  Touched = {2}
INVARIANTS
  FewSends
PROPERTIES
  GivesUpLast
  IsOneAnswer
  RequestEnds
VIEW Memory
CHECK_DEADLOCK FALSE
