---------------------------- MODULE FailurePolicy ----------------------------
(* What to do about a gate verdict (policy/failure.py).  The gate reaches a   *)
(* verdict; the policy of the node decides the consequence of the attempt     *)
(* that just finished, numbered from 1 over the whole life of the node.       *)
EXTENDS Naturals

Verdicts == {"pass", "fail", "error"}

(* What `then` may name once a budget is spent (engine/plan.py).              *)
TerminalActions == {"escalate", "safe_stop", "rollback"}

(* The policy a node carries: on_error (retries, then), on_fail (max_attempts, *)
(* then, when declared) and retry_budget after plan defaults are applied.     *)
Policies == [retries     : Nat,
             onError     : TerminalActions,
             repairs     : BOOLEAN,
             maxAttempts : Nat \ {0},
             exhausted   : TerminalActions,
             budget      : Nat]

RespondToError(p, attempt) ==
    IF attempt <= p.retries THEN "retry" ELSE p.onError

RespondToFailure(p, attempt) ==
    IF p.repairs
    THEN IF attempt < p.maxAttempts THEN "insert_fix" ELSE p.exhausted
    ELSE IF attempt <= p.budget THEN "retry" ELSE "escalate"

RespondTo(verdict, p, attempt) ==
    IF verdict = "pass" THEN "proceed"
    ELSE IF verdict = "error" THEN RespondToError(p, attempt)
    ELSE RespondToFailure(p, attempt)
===============================================================================
