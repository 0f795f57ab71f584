SPECIFICATION DialogueSpec
CONSTANTS
    NoNode = "none"
    Work <- ClarifyPlan
    Plan <- ClarifyPlan
    Node <- Asking
    MaxOps = 3
    Baseline = "none"
    Intake = "intake"
    Triage = "triage"
    Clarify = "clarify"
    Normalize = "normalize"
    Questions = {A1, A2}
    Severities = {1}
    Threshold = 1
    Proposed = {"open", "assumption", "resolved"}
SYMMETRY ClarifySymmetry
INVARIANTS QuestionsReachAPerson AnswersAreQuoted
PROPERTIES AnswersStand
