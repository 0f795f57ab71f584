SPECIFICATION Spec
CHECK_DEADLOCK FALSE
CONSTANTS
    a = a
    b = b
    c = c
    m = m
    n = n
    p = p
    NoNode = NoNode
    Ids = {a, b, c, m, n, p}
    Bases <- MCBases
    Insertions <- MCInsertions
    Overriding <- MCOverriding
    MaxLevels = 2
    Restores = {p}
    MaxSplices = 2
    MaxOverrides = 1
INVARIANTS
    ChainBetween
    NothingWaitsForPlaced
    CycleNeedsAnAuthor
