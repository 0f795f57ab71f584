------------------------------- MODULE MCPlans -------------------------------
(* The instances of the run model: four plans cut from the shipped ones.      *)
EXTENDS RunProperties

(* The least sets of PlanGraph are the descendants a graph search finds.      *)
Graph == INSTANCE Graphs
ASSUME DownstreamAssumption ==
    \A w \in Plan : Downstream[w] =
        Graph!Descendants([node |-> Plan,
                           edge |-> {e \in Plan \X Plan : e[1] \in Node[e[2]].needs}], w)

Escalating == [retries |-> 0, onError |-> "escalate", repairs |-> FALSE,
               maxAttempts |-> 1, exhausted |-> "escalate", budget |-> 0]
Repairing  == [Escalating EXCEPT !.repairs = TRUE, !.maxAttempts = 2]

Step  == [kind |-> "work", needs |-> {}, reads |-> {}, binds |-> {}, optional |-> FALSE,
          gated |-> TRUE, outputs |-> FALSE, qualified |-> FALSE, from |-> "none",
          shapes |-> {}, fix |-> "none", onEscalate |-> "none", policy |-> Escalating]
Human  == [Step EXCEPT !.kind = "human", !.gated = FALSE]
Bundle == [Step EXCEPT !.kind = "bundle", !.outputs = TRUE]
Fanout == [Step EXCEPT !.kind = "fanout", !.gated = FALSE]
Fix    == [Step EXCEPT !.gated = FALSE]

-------------------------------------------------------------------------------
(* design -> design-approval -> scaffold: a checkpoint bound to what the      *)
(* design recorded, and work behind it, with the names of the shipped plans   *)
(* (outputs are not the recorded names) and with qualified ones.              *)

CheckpointPlan == {"design", "approval", "scaffold"}
CheckpointNode == [w \in CheckpointPlan |->
    CASE w = "design"   -> [Step EXCEPT !.outputs = TRUE, !.policy.budget = 1]
      [] w = "approval" -> [Human EXCEPT !.needs = {"design"}, !.binds = {"design"}]
      [] w = "scaffold" -> [Step EXCEPT !.needs = {"approval"}, !.reads = {"design"}]]
QualifiedNode == [CheckpointNode EXCEPT !["design"].qualified = TRUE]

(* The shipped names again, and work behind the checkpoint that is retried.   *)
RetriedNode == [CheckpointNode EXCEPT !["scaffold"].policy.budget = 1,
                                      !["scaffold"].policy.retries = 1]

-------------------------------------------------------------------------------
(* The ambiguity path of the greenfield plan: triage may raise the optional   *)
(* checkpoint clarify, normalize folds its answer in, design waits for both.  *)
(* What cannot be performed is retried once and then stops the run, or asks   *)
(* for its rollback.                                                          *)

TriagePlan == {"triage", "clarify", "normalize", "design"}
TriageNode == [w \in TriagePlan |->
    CASE w = "triage"    -> [Step EXCEPT !.onEscalate = "clarify", !.policy.retries = 1,
                                         !.policy.onError = "safe_stop"]
      [] w = "clarify"   -> [Human EXCEPT !.optional = TRUE]
      [] w = "normalize" -> [Step EXCEPT !.needs = {"clarify"}, !.optional = TRUE,
                                         !.outputs = TRUE]
      [] w = "design"    -> [Step EXCEPT !.needs = {"triage", "normalize"}, !.gated = FALSE,
                                         !.policy.onError = "rollback"]]

-------------------------------------------------------------------------------
(* design -> impl, a fan-out over design's modules, with the two shapes a     *)
(* design may describe; a module that raises stops the run.                   *)

FanoutPlan == {"design", "impl"}
FanoutWork == FanoutPlan \cup {"api", "store"}
FanoutNode == [w \in FanoutWork |->
    CASE w = "design"  -> [Step EXCEPT !.outputs = TRUE]
      [] w = "impl"    -> [Fanout EXCEPT !.needs = {"design"}, !.from = "design",
                                         !.shapes = {{"api"}, {"api", "store"}}]
      [] OTHER         -> [Step EXCEPT !.reads = {"design"}, !.policy.onError = "safe_stop"]]

-------------------------------------------------------------------------------
(* impl -> tests (repaired by fix:tests) and docs -> release, the tail of the *)
(* greenfield plan without its fan-out; docs stops the run when it raises, in *)
(* the wave in which tests may ask a person.                                  *)

RepairPlan == {"impl", "tests", "docs", "release"}
RepairWork == RepairPlan \cup {"fix"}
RepairNode == [w \in RepairWork |->
    CASE w = "impl"    -> [Step EXCEPT !.outputs = TRUE, !.gated = FALSE]
      [] w = "tests"   -> [Step EXCEPT !.needs = {"impl"}, !.fix = "fix", !.policy = Repairing]
      [] w = "docs"    -> [Step EXCEPT !.needs = {"impl"},
                                       !.policy.onError = "safe_stop"]
      [] w = "release" -> [Bundle EXCEPT !.needs = {"tests", "docs"}]
      [] w = "fix"     -> Fix]

(* A repair budget of three attempts, with room for a second repair.          *)
ThriceNode == [RepairNode EXCEPT !["tests"].policy.maxAttempts = 3]
===============================================================================
