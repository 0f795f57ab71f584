SPECIFICATION DialogueSpec
CONSTANTS
    NoNode = "none"
    Work <- ClarifyPlan
    Plan <- ClarifyPlan
    Node <- Asking
    MaxOps = 3
    Baseline = "none"
    Intake = "intake"
    Triage = "triage"
    Clarify = "clarify"
    Normalize = "normalize"
    Questions = {A1}
    Severities = {1}
    Threshold = 1
    Proposed = {"open"}
INVARIANT ResolvedByApproval
