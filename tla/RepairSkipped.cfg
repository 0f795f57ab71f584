SPECIFICATION Spec
CONSTANTS
    NoNode = "none"
    Work <- RepairWork
    Plan <- RepairPlan
    Node <- ThriceNode
    MaxOps = 0
    Baseline = "none"
INVARIANT RepairPrecedesReentry
