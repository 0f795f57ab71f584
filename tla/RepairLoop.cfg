SPECIFICATION Spec
CONSTANTS
    NoNode = "none"
    Work <- RepairWork
    Plan <- RepairPlan
    Node <- RepairNode
    MaxOps = 2
    Baseline = "none"
INVARIANTS Inductive FailureIsHandedOff RepairPrecedesReentry EvidenceIsCurrent GreenIsCurrent
PROPERTY WaiverHolds
