SPECIFICATION Spec
CHECK_DEADLOCK FALSE
CONSTANTS
    api = api
    store = store
    m1 = m1
    m2 = m2
    rooted = rooted
    indirect = indirect
    NoPath = NoPath
    Sessions = {api, store}
    Paths = {m1, m2}
    Names <- MCNames
    Denotes <- MCDenotes
    Absolute = {rooted}
    Allowed <- MCAllowed
    Frozen <- MCFrozen
    Outputs <- MCOutputs
    Present = {m2}
    Shadowing = {api, store}
    Workers = 2
    MaxAttempts = 2
    MaxAsks = 2
INVARIANTS
    ManifestCoversChanges
    OwnWorkStands
    AloneIsGuarded
PROPERTY
    WaveEnds
