------------------------------ MODULE GateProofs ------------------------------
(* What re-checks can never do to a gate, whatever its checks are, and which  *)
(* gates an attempt that raised cannot pass.                                  *)
EXTENDS GateRecheck, TLAPS

(* What makes it inductive: until somebody argues, a check that refused the   *)
(* latest work still says no in the latest record.                            *)
NoIsKept == ~argued => \A c \in refused : record[c] = "fail"

GateInv == TypeOK /\ GreenByTheGate /\ GreenOverNoIsArgued /\ NoIsKept

LEMMA StatusFacts ==
    \A v : (StatusFor(v) = "PASSED" <=> v = "pass")
           /\ StatusFor(v) \in {"PENDING", "PASSED", "FAILED", "ERRORED"}
BY DEF StatusFor

LEMMA WorstFacts == \A V : Worst(V) = "pass" <=> "error" \notin V /\ "fail" \notin V
BY DEF Worst

(* A gate that passes had every required check pass.                          *)
LEMMA CombineFacts ==
    ASSUME NEW rec \in Records, Combine(rec) = "pass", NEW c \in AllChecks
    PROVE  rec[c] = "pass"
<1>1. Worst(Said(rec, AllChecks)) # "fail" /\ Worst(Said(rec, AllChecks)) # "error"
  BY WorstFacts DEF Combine
<1>2. Worst(Said(rec, AllChecks)) = "pass"
  BY <1>1 DEF Worst
<1>3. rec[c] # "error" /\ rec[c] # "fail"
  BY <1>2, WorstFacts DEF Said
<1> QED
  BY <1>3 DEF Records, Verdicts, Checks

(* A re-decided pass is a pass of every check, so a pass of the gate.         *)
LEMMA RedecidedFacts ==
    ASSUME NEW rec \in Records, Redecided(rec) = "pass"
    PROVE  Combine(rec) = "pass" /\ \A c \in Checks : rec[c] = "pass"
<1>1. \A c \in Checks : rec[c] # "error" /\ rec[c] # "fail"
  BY WorstFacts DEF Redecided, Said
<1>2. \A c \in Checks : rec[c] = "pass"
  BY <1>1 DEF Records, Verdicts
<1>3. Worst(Said(rec, AllChecks)) = "pass" /\ Worst(Said(rec, AnyChecks)) = "pass"
  BY <1>2, WorstFacts DEF Said, Checks
<1>4. AnyVerdict(rec) = "pass"
  BY <1>3 DEF AnyVerdict
<1> QED
  BY <1>2, <1>3, <1>4, WorstFacts DEF Combine

LEMMA AttemptKeeps == ASSUME GateInv, NEW outcome, Attempt(outcome) PROVE GateInv'
<1>1. TypeOK
  BY DEF GateInv
<1>2. PICK rec \in Records :
         /\ record' = rec
         /\ refused' = {c \in Checks : rec[c] = "fail"}
         /\ status' = StatusFor(Combine(rec))
  BY DEF Attempt
<1>3. recorded' \in BOOLEAN /\ raised' \in BOOLEAN /\ argued' = FALSE
  <2>1. raised' = (outcome # "done") /\ argued' = FALSE
    BY Zenon DEF Attempt
  <2>2. recorded' \in (IF outcome = "workRaised" THEN {recorded} ELSE {recorded, TRUE})
    BY Zenon DEF Attempt
  <2>3. recorded' \in BOOLEAN
    BY <1>1, <2>2, Zenon DEF TypeOK
  <2> QED
    BY <2>1, <2>3, Zenon
<1>4. TypeOK' /\ NoIsKept'
  BY <1>2, <1>3, StatusFacts DEF TypeOK, NoIsKept
<1>5. GreenByTheGate'
  <2>1. Combine(record)' = Combine(record')
    BY DEF Combine, AnyVerdict, Said, Worst
  <2> QED
    BY <1>2, <2>1, StatusFacts DEF GreenByTheGate
<1>6. GreenOverNoIsArgued'
  <2>1. ASSUME status' = "PASSED", NEW c \in refused' \cap AllChecks
        PROVE  FALSE
    BY <1>2, <2>1, StatusFacts, CombineFacts
  <2> QED
    BY <2>1 DEF GreenOverNoIsArgued
<1> QED
  BY <1>4, <1>5, <1>6 DEF GateInv

(* What both re-checks do to the record.                                      *)
LEMMA RedecideFacts ==
    ASSUME TypeOK, NEW asked \in SUBSET Checks, NEW facts, Redecide(asked, facts)
    PROVE  /\ record' \in Records /\ status' = StatusFor(Redecided(record'))
           /\ refused' \subseteq Checks
           /\ \A c \in Checks \ asked : record'[c] = record[c]
           /\ \A c \in refused' \ refused : record'[c] = "fail"
<1>1. PICK fresh \in [asked -> Verdicts] :
         /\ record' = Merge(asked, fresh)
         /\ refused' = refused \cup {c \in asked : fresh[c] = "fail"}
         /\ status' = StatusFor(Redecided(Merge(asked, fresh)))
  BY DEF Redecide
<1> QED
  BY <1>1 DEF Merge, Records, TypeOK

LEMMA RecheckErrorKeeps == GateInv /\ RecheckError => GateInv'
<1> SUFFICES ASSUME GateInv, RecheckError PROVE GateInv'
  OBVIOUS
<1>1. TypeOK /\ NoIsKept
  BY DEF GateInv
<1>2. PICK facts \in SUBSET Probed : Redecide(Unperformed, facts)
  BY DEF RecheckError
<1>3. UNCHANGED <<recorded, raised, argued>> /\ Unperformed \subseteq Checks
  BY DEF RecheckError, Unperformed
<1>4. /\ record' \in Records /\ status' = StatusFor(Redecided(record'))
      /\ refused' \subseteq Checks
      /\ \A c \in Checks \ Unperformed : record'[c] = record[c]
      /\ \A c \in refused' \ refused : record'[c] = "fail"
  BY <1>1, <1>2, <1>3, RedecideFacts
<1>5. TypeOK'
  BY <1>1, <1>3, <1>4, StatusFacts DEF TypeOK
<1>6. NoIsKept'
  BY <1>1, <1>3, <1>4 DEF NoIsKept, Unperformed, TypeOK
<1>7. status' = "PASSED" => Combine(record') = "pass" /\ \A c \in Checks : record'[c] = "pass"
  BY <1>4, StatusFacts, RedecidedFacts
<1>8. GreenByTheGate' /\ GreenOverNoIsArgued'
  <2>1. GreenByTheGate'
    BY <1>7 DEF GreenByTheGate, Combine, AnyVerdict, Said
  <2>2. GreenOverNoIsArgued'
    BY <1>4, <1>6, <1>7 DEF GreenOverNoIsArgued, NoIsKept
  <2> QED
    BY <2>1, <2>2
<1> QED
  BY <1>5, <1>6, <1>8 DEF GateInv

LEMMA RecheckFailKeeps == GateInv /\ RecheckFail => GateInv'
<1> SUFFICES ASSUME GateInv, RecheckFail PROVE GateInv'
  OBVIOUS
<1>1. TypeOK
  BY DEF GateInv
<1>2. PICK facts \in SUBSET Probed : Redecide(Predicates \cup facts, facts)
  BY DEF RecheckFail
<1>3. argued' = TRUE /\ UNCHANGED <<recorded, raised>> /\ Predicates \cup facts \subseteq Checks
  BY GateAssumption DEF RecheckFail
<1>4. /\ record' \in Records /\ status' = StatusFor(Redecided(record'))
      /\ refused' \subseteq Checks
  BY <1>1, <1>2, <1>3, RedecideFacts
<1>5. TypeOK'
  BY <1>1, <1>3, <1>4, StatusFacts DEF TypeOK
<1>6. status' = "PASSED" => Combine(record') = "pass"
  BY <1>4, StatusFacts, RedecidedFacts
<1>7. GreenByTheGate' /\ GreenOverNoIsArgued' /\ NoIsKept'
  BY <1>3, <1>6 DEF GreenByTheGate, GreenOverNoIsArgued, NoIsKept, Combine, AnyVerdict, Said
<1> QED
  BY <1>5, <1>7 DEF GateInv

LEMMA GateStep == GateInv /\ [Next]_vars => GateInv'
<1> SUFFICES ASSUME GateInv, [Next]_vars PROVE GateInv'
  OBVIOUS
<1>1. CASE \E outcome \in Outcomes : Attempt(outcome)
  BY <1>1, AttemptKeeps
<1>2. CASE Reenter
  BY <1>2 DEF Reenter, GateInv, TypeOK, GreenByTheGate, GreenOverNoIsArgued, NoIsKept
<1>3. CASE RecheckError
  BY <1>3, RecheckErrorKeeps
<1>4. CASE RecheckFail
  BY <1>4, RecheckFailKeeps
<1>5. CASE UNCHANGED vars
  BY <1>5 DEF vars, GateInv, TypeOK, GreenByTheGate, GreenOverNoIsArgued, NoIsKept,
     Combine, AnyVerdict, Said
<1> QED
  BY <1>1, <1>2, <1>3, <1>4, <1>5 DEF Next

LEMMA GateInit == Init => GateInv
BY DEF Init, GateInv, TypeOK, GreenByTheGate, GreenOverNoIsArgued, NoIsKept, Records, Verdicts

THEOREM GateInvHolds == Spec => []GateInv
BY GateInit, GateStep, PTL DEF Spec

(* A re-check never makes a node green that its own gate would not accept.    *)
THEOREM GreenByTheGateHolds == Spec => []GreenByTheGate
<1>1. GateInv => GreenByTheGate
  BY DEF GateInv
<1> QED
  BY <1>1, GateInvHolds, PTL

(* Errors and re-checks alone never turn a no into a yes.                     *)
THEOREM GreenOverNoIsArguedHolds == Spec => []GreenOverNoIsArgued
<1>1. GateInv => GreenOverNoIsArgued
  BY DEF GateInv
<1> QED
  BY <1>1, GateInvHolds, PTL

(* What a step of the gate does to the answers of the worker: only the work   *)
(* itself replaces them.                                                      *)
LEMMA AnsweredStep ==
    ASSUME TypeOK, [Next]_vars, status # "PENDING",
           NEW c \in Checks \ (Predicates \cup Probed), record[c] # "error"
    PROVE  record'[c] = record[c]
<1>1. CASE \E outcome \in Outcomes : Attempt(outcome)
  BY <1>1 DEF Attempt
<1>2. CASE Reenter \/ UNCHANGED vars
  BY <1>2 DEF Reenter, vars
<1>3. CASE RecheckError
  <2>1. PICK facts \in SUBSET Probed : Redecide(Unperformed, facts)
    BY <1>3 DEF RecheckError
  <2>2. Unperformed \subseteq Checks /\ c \notin Unperformed
    BY DEF Unperformed
  <2> QED
    BY <2>1, <2>2, RedecideFacts
<1>4. CASE RecheckFail
  <2>1. PICK facts \in SUBSET Probed : Redecide(Predicates \cup facts, facts)
    BY <1>4 DEF RecheckFail
  <2>2. Predicates \cup facts \subseteq Checks /\ c \notin Predicates \cup facts
    BY GateAssumption
  <2> QED
    BY <2>1, <2>2, RedecideFacts
<1> QED
  BY <1>1, <1>2, <1>3, <1>4 DEF Next

(* Re-checks keep every answer that only the worker's facts could give, for   *)
(* every gate.                                                                *)
THEOREM AnsweredIsKeptHolds == Spec => AnsweredIsKept
<1>1. GateInv => TypeOK
  BY DEF GateInv
<1>2. ASSUME TypeOK, [Next]_vars
      PROVE  [status # "PENDING" => \A c \in Checks \ (Predicates \cup Probed) :
                 record[c] # "error" => record'[c] = record[c]]_vars
  BY <1>2, AnsweredStep
<1> QED
  BY <1>1, <1>2, GateInvHolds, PTL DEF Spec, AnsweredIsKept

(* A gate that needs a fact of the work: a required check that is no          *)
(* predicate, or alternatives none of which is one.  A gate of another kind   *)
(* can be green over what earlier attempts recorded, whatever the worker did. *)
NeedsAFact ==
    \/ AllChecks \ Predicates # {}
    \/ AnyChecks # {} /\ AnyChecks \cap Predicates = {}

(* A check that could not be performed keeps such a gate from passing.        *)
LEMMA NoFactNoPass ==
    ASSUME NeedsAFact, NEW rec \in Records, \A c \in Checks \ Predicates : rec[c] = "error"
    PROVE  Combine(rec) # "pass"
<1>1. CASE AllChecks \ Predicates # {}
  <2>1. PICK c \in AllChecks : c \notin Predicates
    BY <1>1
  <2>2. rec[c] = "error"
    BY <2>1 DEF Checks
  <2> QED
    BY <2>1, <2>2, CombineFacts
<1>2. CASE AnyChecks # {} /\ AnyChecks \cap Predicates = {}
  <2>1. Said(rec, AnyChecks) = {"error"}
    BY <1>2 DEF Said, Checks
  <2>2. AnyVerdict(rec) = "error"
    BY <2>1 DEF AnyVerdict, Worst
  <2> QED
    BY <2>2, WorstFacts DEF Combine
<1> QED
  BY <1>1, <1>2 DEF NeedsAFact

(* An attempt that raised never ends green at a gate that needs a fact of it. *)
THEOREM RaisedIsNeverGreenHolds == ASSUME NeedsAFact PROVE Spec => RaisedIsNeverGreen
<1>1. ASSUME TypeOK, [Next]_vars, status = "PENDING", raised', ~ UNCHANGED vars
      PROVE  status' # "PASSED"
  <2>1. PICK outcome \in Outcomes : Attempt(outcome)
    BY <1>1 DEF Next, Reenter, RecheckError, RecheckFail
  <2>2. outcome # "done"
    BY <1>1, <2>1 DEF Attempt
  <2>3. PICK rec \in Records :
           /\ \A c \in Checks : rec[c] \in Answers(c, {}, recorded')
           /\ status' = StatusFor(Combine(rec))
    BY <2>1, <2>2 DEF Attempt
  <2>4. \A c \in Checks \ Predicates : rec[c] = "error"
    BY <2>3 DEF Answers
  <2> QED
    BY <2>3, <2>4, NoFactNoPass, StatusFacts
<1>2. ASSUME TypeOK, [Next]_vars
      PROVE  [status = "PENDING" /\ raised' => status' # "PASSED"]_vars
  BY <1>1, <1>2
<1>3. GateInv => TypeOK
  BY DEF GateInv
<1> QED
  BY <1>2, <1>3, GateInvHolds, PTL DEF Spec, RaisedIsNeverGreen
===============================================================================
