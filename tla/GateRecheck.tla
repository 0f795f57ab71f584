----------------------------- MODULE GateRecheck ------------------------------
(* The exit gate of one node, and its re-check (gates/evaluator.py,           *)
(* Scheduler._evaluate and Scheduler.revalidate).                             *)
(*                                                                            *)
(* A check is a predicate over what the run recorded, or an expression over   *)
(* a fact: one that a declared probe observes (Probed), or one that only the  *)
(* worker reports.                                                            *)
(*                                                                            *)
(*   status    the node, between its attempts PENDING                         *)
(*   record    the verdicts of its latest gate record                         *)
(*   recorded  whether artifacts of the node exist                            *)
(* and three history variables:                                               *)
(*   raised    the worker or a probe raised in the latest attempt at the work *)
(*   refused   the checks that said no to the latest work                     *)
(*   argued    somebody argued for a re-check of a FAIL since the latest work *)
EXTENDS Naturals

CONSTANTS AllChecks, AnyChecks, Predicates, Probed

Checks == AllChecks \cup AnyChecks

ASSUME GateAssumption ==
    /\ Checks # {}
    /\ AllChecks \cap AnyChecks = {}
    /\ Predicates \subseteq Checks
    /\ Probed \subseteq Checks \ Predicates

VARIABLES status, record, recorded, raised, refused, argued

vars == <<status, record, recorded, raised, refused, argued>>

Verdicts == {"pass", "fail", "error"}
Records  == [Checks -> Verdicts]

StatusFor(verdict) ==
    IF verdict = "pass" THEN "PASSED" ELSE IF verdict = "fail" THEN "FAILED" ELSE "ERRORED"

WorstLenient(V) == IF "fail" \in V THEN "fail" ELSE "pass"  \* mutant: ERROR passes

(* _worst: ERROR outranks FAIL, and nothing at all is a pass.                 *)
Worst(V) == IF "error" \in V THEN "error" ELSE IF "fail" \in V THEN "fail" ELSE "pass"

Said(rec, C) == {rec[c] : c \in C}

(* _combine: `all` checks must each pass, `any` checks need one that does.    *)
AnyVerdict(rec) == IF "pass" \in Said(rec, AnyChecks) THEN "pass" ELSE Worst(Said(rec, AnyChecks))
Combine(rec) == Worst({Worst(Said(rec, AllChecks)), AnyVerdict(rec)})

(* _evaluate_check: what a check may say, given the facts there are.  An      *)
(* expression without its fact could not be performed, with it it may hold,   *)
(* not hold, or be inadmissible; a predicate may raise, and does not hold of  *)
(* artifacts that were never recorded.                                        *)
Answers(c, facts, exist) ==
    IF c \in Predicates THEN IF exist THEN Verdicts ELSE {"fail", "error"}
    ELSE IF c \in facts THEN Verdicts ELSE {"error"}

Init ==
    /\ status = "PENDING"
    /\ record = [c \in Checks |-> "error"]
    /\ recorded = FALSE
    /\ raised = FALSE
    /\ refused = {}
    /\ argued = FALSE

(* _execute_one and _record: a worker that raises leaves no facts and no      *)
(* artifacts, a probe that raises leaves no facts; the gate decides all the   *)
(* same.                                                                      *)
Outcomes == {"done", "workRaised"} \cup (IF Probed = {} THEN {} ELSE {"probeRaised"})

Attempt(outcome) ==
    /\ status = "PENDING"
    /\ raised' = (outcome # "done")
    /\ recorded' \in (IF outcome = "workRaised" THEN {recorded} ELSE {recorded, TRUE})
    /\ \E facts \in (IF outcome = "done" THEN SUBSET (Checks \ Predicates) ELSE {{}}) :
       \E rec \in Records :
          /\ \A c \in Checks : rec[c] \in Answers(c, facts, recorded')
          /\ record' = rec
          /\ refused' = {c \in Checks : rec[c] = "fail"}
          /\ status' = StatusFor(Combine(rec))
    /\ argued' = FALSE

(* A retry, an approved error or a withdrawn result: the work is done again.  *)
Reenter ==
    /\ status # "PENDING"
    /\ status' = "PENDING"
    /\ UNCHANGED <<record, recorded, raised, refused, argued>>

(* _merge: fresh verdicts for what was asked again, recorded ones otherwise.  *)
Merge(asked, fresh) == [c \in Checks |-> IF c \in asked THEN fresh[c] ELSE record[c]]

RedecidedByAny(merged) ==  \* mutant: one passing check is enough
    IF "pass" \in Said(merged, Checks) THEN "pass" ELSE Worst(Said(merged, Checks))

(* The re-decided verdict is taken over all merged checks alike.              *)
Redecided(merged) == Worst(Said(merged, Checks))

Redecide(asked, facts) ==
    \E fresh \in [asked -> Verdicts] :
       /\ \A c \in asked : fresh[c] \in Answers(c, facts, recorded)
       /\ record' = Merge(asked, fresh)
       /\ refused' = refused \cup {c \in asked : fresh[c] = "fail"}
       /\ status' = StatusFor(Redecided(Merge(asked, fresh)))

UnperformedOrFailed == {c \in Checks : record[c] # "pass"}  \* mutant: a no is asked again

(* After an ERROR only the checks that could not be performed are asked.      *)
Unperformed == {c \in Checks : record[c] = "error"}

RecheckError ==
    /\ status = "ERRORED" /\ Unperformed # {}
    /\ \E facts \in SUBSET Probed : Redecide(Unperformed, facts)
    /\ UNCHANGED <<recorded, raised, argued>>

RecheckFailAll ==  \* mutant: what only the worker can answer is asked as well
    /\ status = "FAILED"
    /\ \E facts \in SUBSET Probed : Redecide(Checks, facts)
    /\ argued' = TRUE
    /\ UNCHANGED <<recorded, raised>>

(* After a FAIL, and with an argument on the record, every check the probes   *)
(* and the recorded state can speak to (_answerable).                         *)
RecheckFail ==
    /\ status = "FAILED"
    /\ \E facts \in SUBSET Probed :
          Predicates \cup facts # {} /\ Redecide(Predicates \cup facts, facts)
    /\ argued' = TRUE
    /\ UNCHANGED <<recorded, raised>>

Next ==
    \/ \E outcome \in Outcomes : Attempt(outcome)
    \/ Reenter
    \/ RecheckError
    \/ RecheckFail

Spec == Init /\ [][Next]_vars

-------------------------------------------------------------------------------
TypeOK ==
    /\ status \in {"PENDING", "PASSED", "FAILED", "ERRORED"}
    /\ record \in Records
    /\ recorded \in BOOLEAN /\ raised \in BOOLEAN /\ argued \in BOOLEAN
    /\ refused \subseteq Checks

(* A green node is green by the rules of its gate, whichever sequence of      *)
(* attempts and re-checks made it green (_combine over the latest record).    *)
GreenByTheGate == status = "PASSED" => Combine(record) = "pass"

(* "This cannot turn a no into a yes": a node is green over a required check  *)
(* that refused its latest work only after somebody argued for asking again,  *)
(* however errors and re-checks followed each other in between.               *)
GreenOverNoIsArgued == status = "PASSED" /\ refused \cap AllChecks # {} => argued

(* A re-check never destroys a verdict it cannot reach again: what only the   *)
(* worker's facts could answer keeps its answer until the work is redone.     *)
AnsweredIsKept ==
    [][status # "PENDING" => \A c \in Checks \ (Predicates \cup Probed) :
          record[c] # "error" => record'[c] = record[c]]_vars

(* "The work could not be performed. No facts, so the gate will ERROR": an    *)
(* attempt whose worker raised does not end green.                            *)
RaisedIsNeverGreen == [][status = "PENDING" /\ raised' => status' # "PASSED"]_vars
===============================================================================
