SPECIFICATION Spec
CHECK_DEADLOCK FALSE
CONSTANTS
    a = a
    b = b
    t1 = t1
    t2 = t2
    Keys = {a, b}
    Threads = {t1, t2}
    NoKey = NoKey
    Window = 6
    Cost = 3
    Second = 2
    SweepAbove = 1
    MaxClock = 6
SYMMETRY Symmetric
INVARIANT ForgottenIsFull
