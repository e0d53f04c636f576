SPECIFICATION ManagerSpec
CONSTANTS
  None = None
  Anonymous = Anonymous
  NoToken = NoToken
  NoGrant = NoGrant
  u1 = u1
  MaxToken = 3
  c1 = c1
  c2 = c2
  Does1 = {"ensure", "refresh"}
  Does2 = {"acquire"}
  Does <- MCDoes
  Callers = {c1, c2}
  AccountIDs = {"a1"}
  Users <- MCUsers
  Tokens <- MCTokens
  ClaimedUser <- MCClaimedUser
  TokensOf <- MCTokensOf
  DefaultStrategy = "round_robin"
  IndexPeriod = 1
  InitialFiles <- MCInitialFiles
  ObservedQuotas = {}
  CooldownLengths = {1}
  ChosenStrategies = {}
  MaxAccounts = 1
  MaxTime = 0
  MaxSaveFailures = 1
INVARIANTS
  NoSpentGrant
  CredentialsSurvive
PROPERTIES
  AnswerIsFresh
VIEW Memory
CHECK_DEADLOCK FALSE
