SPECIFICATION ReportSpec
CONSTANTS
    NoNode = "none"
    Work <- TriagePlan
    Plan <- TriagePlan
    Node <- TriageNode
    MaxOps = 0
    Baseline = "normalize"
INVARIANT LooksNoHealthier
