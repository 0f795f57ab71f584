SPECIFICATION DialogueSpec
CONSTANTS
    NoNode = "none"
    Work <- ChangePlan
    Plan <- ChangePlan
    Node <- Changing
    MaxOps = 1
    Baseline = "none"
    Intake = "intake"
    Triage = "triage"
    Clarify = "clarify"
    Normalize = "normalize"
    Questions = {A1}
    Severities = {0, 2}
    Threshold = 2
    Proposed = {"open", "assumption"}
INVARIANT QuestionsReachAPerson
