SPECIFICATION Spec
CONSTANTS
  a1 = a1
  Accts = {a1}
  h1 = h1
  Monitors = {h1}
  AccountOf <- MCAccountOf
  Loop = Loop
  w1 = w1
  w2 = w2
  Handlers = {w1, w2}
  Nothing = Nothing
  InitialFiles <- MCInitialFiles
  MaxRequests = 3
  MaxSaveFailures = 1
  MaxCrashes = 1
INVARIANTS
  OneAtATime
  HealthIsTold
  DeletedStays
PROPERTIES
  DueIsExecuted
CHECK_DEADLOCK FALSE
