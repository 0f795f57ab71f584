SPECIFICATION Spec
CHECK_DEADLOCK FALSE
CONSTANTS
    g1 = g1
    g2 = g2
    x1 = x1
    Requests = {g1, g2, x1}
    Clicks = {g1, g2, x1}
    Drains = {1, 2}
    NoDrain = 0
    Sentinel = Sentinel
    QueueSize = 2
    BatchSize = 2
    Codes = {k1}
    NoOne = NoOne
    Before = Before
    Loads <- MCLoads
    MintAttempts = 2
    Columns <- MCColumns
    Window <- MCWindow
    AtOf <- MCAtOf
    ValueOf <- MCValueOf
    OtherBucket = other
    Limit = 1
    MaxIntervals = 3
INVARIANT PartsAgree
PROPERTY JoinedIsDrained
