SPECIFICATION Spec
CONSTANTS
  None = None
  Anonymous = Anonymous
  NoToken = NoToken
  u1 = u1
  u2 = u2
  t1 = t1
  t2 = t2
  AccountIDs = {"a1"}
  Users <- MCUsers
  Tokens <- MCTokens
  ClaimedUser <- MCClaimedUser
  TokensOf <- MCTokensOf
  DefaultStrategy = "least_used"
  IndexPeriod = 2
  InitialFiles <- MCInitialFiles
  ObservedQuotas <- MCQuotas
  CooldownLengths = {1}
  ChosenStrategies = {"sticky"}
  MaxAccounts = 2
  MaxTime = 1
  MaxSaveFailures = 1
INVARIANTS
  TypeOK
  NoResurrection
  StickyIsKnown
  OneRecordPerIdentity
PROPERTIES
  AckedIsDurable
  AcquireIsExact
VIEW Memory
CHECK_DEADLOCK FALSE
