SPECIFICATION ManagerSpec
CONSTANTS
  None = None
  Anonymous = Anonymous
  NoToken = NoToken
  NoGrant = NoGrant
  u1 = u1
  MaxToken = 2
  c1 = c1
  c2 = c2
  Does1 = {"refresh", "logout"}
  Does2 = {"acquire", "usage"}
  Does <- MCDoes
  Callers = {c1, c2}
  AccountIDs = {"a1"}
  Users <- MCUsers
  Tokens <- MCTokens
  ClaimedUser <- MCClaimedUser
  TokensOf <- MCTokensOf
  DefaultStrategy = "round_robin"
  IndexPeriod = 1
  InitialFiles <- MCInitialFiles
  ObservedQuotas <- MCQuotas
  CooldownLengths = {1}
  ChosenStrategies = {}
  MaxAccounts = 1
  MaxTime = 1
  MaxSaveFailures = 0
PROPERTIES
  CallsEnd
VIEW Memory
CHECK_DEADLOCK FALSE
