----------------------------- MODULE Clarification ----------------------------
(* The dialogue of a run with the person it asks: intake records a register   *)
(* of what the requirement does not settle, triage disposes of the minor      *)
(* questions, a person answers the others at a checkpoint, and normalize      *)
(* folds the answers back (policy/triage.py, policy/clarify.py, the register  *)
(* predicates of gates/predicates.py, and the dialogue of cli/main.py), on    *)
(* top of the driver and the console of RunConsole.                           *)
(*                                                                            *)
(*   register  the latest intake.register, whoever recorded it                *)
(*   said      the questions the text of each decision answers: said[i] is    *)
(*             what approvals[i] says, everything when it is unstructured     *)
(*   folded    the latest run of normalize resolved something                 *)
(* and two history variables:                                                 *)
(*   early     the checkpoint was answered while it was not waiting           *)
(*   claimed   the questions the latest intake recorded as resolved itself    *)
EXTENDS RunProperties, FiniteSetsExt

CONSTANTS Intake, Triage, Clarify, Normalize,  \* nodes of the plan
          Questions, Severities,
          Threshold,  \* params.threshold of triage
          Proposed    \* the dispositions an analyst writes; the schema admits each

Disposition == {"open", "assumption", "resolved"}
High == 2

ASSUME ClarificationAssumption ==
    /\ {Intake, Triage, Clarify, Normalize} \subseteq Plan
    /\ Severities \subseteq 0 .. High /\ Threshold \in 0 .. High
    /\ Proposed \subseteq Disposition

(* An Ambiguity; `by` is the decision its answer comes from, 0 for none.      *)
Ambiguity  == [severity : Severities, disposition : Disposition, by : Nat]
Registers  == [Questions -> [severity : Severities, disposition : Proposed, by : {0}]]
NoRegister == <<>>

VARIABLES register, said, folded, early, claimed

dialogueVars == <<vars, register, said, folded, early, claimed>>

OpenQuestions(reg) == {q \in Questions : reg[q].disposition = "open"}

-------------------------------------------------------------------------------
TriagedReopening(a) ==  \* mutant: a decision is asked about again
    IF a.severity >= Threshold THEN [a EXCEPT !.disposition = "open"]
    ELSE IF a.disposition = "open" THEN [a EXCEPT !.disposition = "assumption"] ELSE a

(* triage_ambiguities, one ambiguity.  A resolved one is taken for a person's *)
(* decision, whoever wrote it; from the threshold up an assumption is only a  *)
(* proposal, and the question open; below it the assumption is recorded.      *)
Triaged(a) ==
    IF a.disposition = "resolved" THEN a
    ELSE IF a.severity >= Threshold THEN [a EXCEPT !.disposition = "open"]
    ELSE IF a.disposition = "open" THEN [a EXCEPT !.disposition = "assumption"] ELSE a

(* every_ambiguity_is_disposed_or_escalated, the gate of triage.              *)
DisposedOrEscalated(reg) == \A q \in OpenQuestions(reg) : reg[q].severity >= Threshold

(* has_high_severity_ambiguity, its escalate_when: the threshold of the plan  *)
(* plays no part.                                                             *)
HasHighSeverity(reg) == \E q \in OpenQuestions(reg) : reg[q].severity = High

-------------------------------------------------------------------------------
(* _decision_text: the last decided of the checkpoint's approvals, in the     *)
(* order they were requested, whatever the decision was.                      *)
Decided == {i \in DOMAIN approvals :
              approvals[i].node = Self(Clarify) /\ approvals[i].decision # "PENDING"}
DecisionText == Max(Decided)

(* normalize_clarification: what is still open and answered is resolved.      *)
Answered(reg) == OpenQuestions(reg) \cap said[DecisionText]

NormalizedLoosely(reg) ==  \* mutant: any text answers every question
    [q \in Questions |-> IF q \in OpenQuestions(reg)
                         THEN [reg[q] EXCEPT !.disposition = "resolved", !.by = DecisionText]
                         ELSE reg[q]]
Normalized(reg) ==
    [q \in Questions |-> IF q \in Answered(reg)
                         THEN [reg[q] EXCEPT !.disposition = "resolved", !.by = DecisionText]
                         ELSE reg[q]]

NormalizeGateOnAnyAnswer(resolved, reg) == resolved  \* mutant: open questions pass

(* Its gate: clarification.resolved > 0, no_ambiguity_without_disposition.    *)
NormalizeGate(resolved, reg) == resolved /\ OpenQuestions(reg) = {}

-------------------------------------------------------------------------------
(* What the decisions say once a step is taken.  A person approving or        *)
(* rejecting types anything; the notes that withdrawals, retries and moot     *)
(* requests leave on the trail have no line `id: answer`, and read as an      *)
(* answer to everything.                                                      *)
TypedAt(i) == /\ i \in DOMAIN approvals /\ approvals[i].decision = "PENDING"
              /\ approvals'[i] # approvals[i] /\ approvals[i].node = Self(Clarify)
              /\ node'[Self(Clarify)] \in {"PASSED", "FAILED"}
Typed == IF \E i \in DOMAIN approvals : TypedAt(i) THEN SUBSET Questions ELSE {{}}

NoteOf(i, note) ==
    IF approvals'[i].node # Self(Clarify) \/ approvals'[i].decision = "PENDING" THEN {}
    ELSE IF i \in DOMAIN approvals /\ approvals'[i] = approvals[i] THEN said[i]
    ELSE IF TypedAt(i) THEN note ELSE Questions

Hear == \E note \in Typed :
            said' = [i \in DOMAIN approvals' |-> NoteOf(i, note)]

Passing(w) == node[Self(w)] # "PASSED" /\ node'[Self(w)] = "PASSED"

(* A register is recorded whether or not the gate of intake then passes.      *)
RecordIntake ==
    /\ RecordWork(Intake)
    /\ IF version'[Intake] > version[Intake]
       THEN /\ register' \in Registers
            /\ claimed' = {q \in Questions : register'[q].disposition = "resolved"}
       ELSE UNCHANGED <<register, claimed>>
    /\ UNCHANGED folded

(* escalate_when decides whether the optional path behind triage wakes.       *)
EscalatesWhenHigh(reg) ==
    LET path == {id \in Rows : ~IsHandoff(id) /\ Node[id[1]].optional}
    IN  \A id \in path : node[id] = "SKIPPED" =>
            (node'[id] # "SKIPPED" <=> Passing(Triage) /\ HasHighSeverity(reg))

(* Without a register the task raises, and the gate cannot be evaluated.      *)
RecordTriage ==
    /\ RecordWork(Triage)
    /\ register' = IF register = NoRegister THEN register
                   ELSE [q \in Questions |-> Triaged(register[q])]
    /\ Passing(Triage) <=> register # NoRegister /\ DisposedOrEscalated(register')
    /\ register # NoRegister => EscalatesWhenHigh(register')
    /\ UNCHANGED <<folded, claimed>>

(* Without a register or a decision the task raises.                          *)
RecordNormalize ==
    /\ RecordWork(Normalize)
    /\ IF register = NoRegister \/ Decided = {}
       THEN /\ UNCHANGED register
            /\ folded' = FALSE
            /\ ~Passing(Normalize)
       ELSE /\ register' = Normalized(register)
            /\ folded' = (Answered(register) # {})
            /\ Passing(Normalize) <=> NormalizeGate(folded', register')
    /\ UNCHANGED claimed

(* A re-check asks the predicates again and leaves the count as recorded.     *)
Rechecks ==
    /\ Passing(Triage) /\ attempts'[Triage] > attempts[Triage] =>
          register # NoRegister /\ DisposedOrEscalated(register) /\ EscalatesWhenHigh(register)
    /\ Passing(Normalize) /\ attempts'[Normalize] > attempts[Normalize] =>
          register # NoRegister /\ NormalizeGate(folded, register)

DialogueInit ==
    /\ ConsoleInit /\ register = NoRegister /\ said = <<>> /\ folded = FALSE
    /\ early = FALSE /\ claimed = {}

DialogueNext ==
    /\ \/ RecordIntake /\ UNCHANGED ops
       \/ RecordTriage /\ UNCHANGED ops
       \/ RecordNormalize /\ UNCHANGED ops
       \/ /\ \/ Dispatch
             \/ \E id \in wave : BlockForHuman(id)
             \/ \E w \in Work \ {Intake, Triage, Normalize} : RecordWork(w)
             \/ Settle
             \/ Resume
          /\ UNCHANGED <<ops, register, folded, claimed>>
       \/ Operator /\ Rechecks /\ UNCHANGED <<register, folded, claimed>>
    /\ Hear
    /\ early' = (early \/ \E i \in DOMAIN approvals :
                    /\ node[Self(Clarify)] # "BLOCKED"
                    /\ approvals[i].node = Self(Clarify) /\ approvals[i].decision = "PENDING"
                    /\ approvals'[i].decision = "APPROVED")

DialogueSpec == DialogueInit /\ [][DialogueNext]_dialogueVars

-------------------------------------------------------------------------------
(* The work that is built on the register.                                    *)
Builds(w) == Intake \in Node[w].reads /\ w \notin {Triage, Normalize}
Building  == phase = "wave" /\ register # NoRegister /\ \E w \in Work : Builds(w) /\ Self(w) \in wave
Skipped(w) == node[Self(w)] = "SKIPPED"
Accepted == early \/ Skipped(Intake) \/ Skipped(Triage)
            \/ (Skipped(Normalize) /\ ~Skipped(Clarify))

(* A question at or above the threshold of the plan is put to a person before *)
(* anything is built on the register: no assumption of the analyst, no        *)
(* withdrawal, no re-run and no partial answer gets work past it, unless a    *)
(* person waived a failed step of the dialogue itself.  The one way past it   *)
(* is the analyst's own `resolved`, which KnobIsThePolicys below denies.      *)
QuestionsReachAPerson ==
    Building /\ ~Accepted =>
        \A q \in Questions : register[q].severity >= Threshold =>
            register[q].disposition = "resolved" /\ (register[q].by > 0 \/ q \in claimed)

(* "A human answer is a decision and is never revisited": until intake writes *)
(* a new register, no re-run of triage or normalize, no second answer and no  *)
(* withdrawal changes a question that was resolved.                           *)
AnswersStand ==
    [][\A q \in DOMAIN register :
          /\ register[q].disposition = "resolved"
          /\ version'[Intake] = version[Intake]
          => register'[q] = register[q]]_dialogueVars

(* Every answer in the register is one a person gave to that question: the    *)
(* decision it is attributed to said something about it.                      *)
AnswersAreQuoted ==
    \A q \in DOMAIN register : register[q].by > 0 => q \in said[register[q].by]

-------------------------------------------------------------------------------
(* Claims of the repository's text that the code does not keep.               *)

(* "The knob that calibrates autonomy cannot be set by the agent it governs": *)
(* whatever intake writes, a question at or above the threshold is answered   *)
(* by a person before anything is built on the register.                      *)
KnobIsThePolicys ==
    Building /\ ~Accepted =>
        \A q \in Questions : register[q].severity >= Threshold => register[q].by > 0

(* "RESOLVED: a human answered it": the decision behind every resolved answer *)
(* approved the checkpoint.                                                   *)
ResolvedByApproval ==
    \A q \in DOMAIN register : register[q].disposition = "resolved" =>
        register[q].by > 0 /\ approvals[register[q].by].decision = "APPROVED"
===============================================================================
