SPECIFICATION ReportSpec
CONSTANTS
    NoNode = "none"
    Work <- CheckpointPlan
    Plan <- CheckpointPlan
    Node <- QualifiedNode
    MaxOps = 3
    Baseline = "none"
INVARIANTS IncidentsAreReported RetriesAgree
