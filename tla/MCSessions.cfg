SPECIFICATION Spec
CONSTANTS
    None = None
    NoKey = 0
    Ttl = 0
    ReplayTtl = 1
    MaxNow = 1
    MaxRestarts = 1
    Clients = {"openai", "claude"}
    Accounts = {a1, a2}
    Settings = {s1}
    MaxRequests = 3
    ClaudeAccounts = {a3}
    MaxSessions = 3
    MaxMessages = 3
    Shapes <- MCShapes
    BlockSize <- MCBlockSize
    KeySize = 1
    MaxEntries = 2
    MaxBytes = 18
    EvictBatchSize = 128
SYMMETRY Symmetry
INVARIANTS
    OwnContext
    NamedToItsOwner
    AnswersLast
    SocketContinues
    BytesAreExact
    StateIsRestored
PROPERTIES
    GoodRecordsStay
CHECK_DEADLOCK FALSE
