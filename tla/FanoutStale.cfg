SPECIFICATION Spec
CONSTANTS
    NoNode = "none"
    Work <- FanoutWork
    Plan <- FanoutPlan
    Node <- FanoutNode
    MaxOps = 1
    Baseline = "none"
INVARIANT GreenIsCurrent
