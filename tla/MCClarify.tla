------------------------------- MODULE MCClarify ------------------------------
(* The head of the shipped plans, up to the first work built on the register. *)
(* In ambiguous.yaml the checkpoint is mandatory, in greenfield.yaml triage   *)
(* raises it, and in brownfield.yaml the design neither waits for the answer  *)
(* nor reads the register, which the acceptance tests do.  Here what cannot   *)
(* be performed stops the run, and what the design produced is not judged.    *)
EXTENDS MCPlans, Clarification, TLC

(* Questions are alike until intake rates them.                               *)
ClarifySymmetry == Permutations(Questions)

ClarifyPlan == {"intake", "triage", "clarify", "normalize", "design"}
Halting == [Step EXCEPT !.policy.onError = "safe_stop"]
Asking == [w \in ClarifyPlan |->
    CASE w = "intake"    -> [Halting EXCEPT !.outputs = TRUE]
      [] w = "triage"    -> [Halting EXCEPT !.needs = {"intake"}, !.onEscalate = "clarify"]
      [] w = "clarify"   -> [Human EXCEPT !.needs = {"triage"}]
      [] w = "normalize" -> [Step EXCEPT !.needs = {"clarify"}, !.reads = {"intake"}]
      [] w = "design"    -> [Halting EXCEPT !.needs = {"triage", "normalize"},
                                            !.reads = {"intake"}, !.gated = FALSE]]

Raising == [Asking EXCEPT !["clarify"].needs = {}, !["clarify"].optional = TRUE,
                          !["normalize"].optional = TRUE]

(* The design and its sign-off are one checkpoint here.                       *)
ChangePlan == {"intake", "triage", "clarify", "normalize", "signoff", "tests"}
Changing == [w \in ChangePlan |->
    CASE w = "signoff" -> [Human EXCEPT !.needs = {"triage"}]
      [] w = "tests"   -> [Step EXCEPT !.needs = {"signoff"}, !.reads = {"intake"}]
      [] OTHER         -> Raising[w]]
===============================================================================
