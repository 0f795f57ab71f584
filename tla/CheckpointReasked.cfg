SPECIFICATION Spec
CONSTANTS
    NoNode = "none"
    Work <- CheckpointPlan
    Plan <- CheckpointPlan
    Node <- RetriedNode
    MaxOps = 3
    Baseline = "none"
INVARIANT BuiltOnApproval
PROPERTIES
    WaitingIsNotFailed
    ApprovalAnswersTheQuestion
