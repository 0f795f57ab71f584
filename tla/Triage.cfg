SPECIFICATION Spec
CONSTANTS
    NoNode = "none"
    Work <- TriagePlan
    Plan <- TriagePlan
    Node <- TriageNode
    MaxOps = 3
    Baseline = "normalize"
INVARIANT QuestionHoldsWork
