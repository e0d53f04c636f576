SPECIFICATION Spec
CONSTANTS
    None = None
    NoKey = 0
    Ttl = 1
    ReplayTtl = 1
    MaxNow = 2
    MaxRestarts = 1
    Clients = {"openai"}
    Accounts = {a1, a2}
    Settings = {s1}
    MaxRequests = 3
    ClaudeAccounts = {a1}
    MaxSessions = 3
    MaxMessages = 3
    Shapes <- MCShapes
    BlockSize <- MCBlockSize
    KeySize = 1
    MaxEntries = 2
    MaxBytes = 18
    EvictBatchSize = 128
INVARIANT ContextIsComplete
CHECK_DEADLOCK FALSE
