SPECIFICATION HistorySpec
CONSTANTS
  None = None
  Anonymous = Anonymous
  NoToken = NoToken
  u1 = u1
  t1 = t1
  AccountIDs = {"a1"}
  Users <- MCUsers
  Tokens <- MCTokens
  ClaimedUser <- MCClaimedUser
  TokensOf <- MCTokensOf
  DefaultStrategy = "least_used"
  IndexPeriod = 6
  InitialFiles <- MCInitialFiles
  ObservedQuotas = {}
  CooldownLengths = {}
  ChosenStrategies = {"round_robin", "sticky"}
  Preferences <- MCPreferences
  Filters = {{1, 2, 3}, {1, 2}}
  MaxAccounts = 3
  MaxTime = 1
  MaxSaveFailures = 0
INVARIANTS
  TurnsAreShared
PROPERTIES
  LeastUsedIsBest
VIEW Memory
CHECK_DEADLOCK FALSE
