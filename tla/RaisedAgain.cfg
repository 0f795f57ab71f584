SPECIFICATION DialogueSpec
CONSTANTS
    NoNode = "none"
    Work <- ClarifyPlan
    Plan <- ClarifyPlan
    Node <- Raising
    MaxOps = 3
    Baseline = "none"
    Intake = "intake"
    Triage = "triage"
    Clarify = "clarify"
    Normalize = "normalize"
    Questions = {A1}
    Severities = {0, 2}
    Threshold = 2
    Proposed = {"open", "assumption", "resolved"}
INVARIANTS QuestionsReachAPerson KnobIsThePolicys
