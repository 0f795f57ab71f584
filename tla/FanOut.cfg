SPECIFICATION Spec
CONSTANTS
    NoNode = "none"
    Work <- FanoutWork
    Plan <- FanoutPlan
    Node <- FanoutNode
    MaxOps = 2
    Baseline = "none"
INVARIANTS FanoutComplete FanoutMatchesSource
PROPERTY SessionEnds
