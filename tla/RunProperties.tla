---------------------------- MODULE RunProperties ----------------------------
(* What a run promises the people who read it.                                *)
EXTENDS RunConsole

Passed(w)  == Self(w) \in Rows /\ node[Self(w)] = "PASSED"
Broken(w)  == Self(w) \in Rows /\ node[Self(w)] \in {"FAILED", "ERRORED"}
Judged(w)  == Node[w].kind \in {"work", "bundle"}
Waived(w) == /\ Self(w) \in Rows /\ node[Self(w)] = "SKIPPED"
             /\ \E id \in Handoffs({w}) : id[3] = "fail" /\ node[id] = "PASSED"

(* Every variable has its type; a wave holds rows that are still to be done.  *)
TypeOK ==
    /\ runStatus \in RunStatuses
    /\ Rows \subseteq Ids
    /\ node \in [Rows -> NodeStatuses]
    /\ {Self(w) : w \in Plan} \subseteq Rows
    /\ attempts \in [Work -> Nat]
    /\ extraNeeds \in [Work -> SUBSET Work]
    /\ version \in [Work -> Nat]
    /\ items \in [Work -> SUBSET (SUBSET Work)]
    /\ cleared \subseteq Work
    /\ approvals \in Seq(Approval)
    /\ \A i \in DOMAIN approvals : approvals[i].node \in Rows
    /\ clock \in Nat
    /\ phase \in {"parked", "loop", "wave", "record"}
    /\ wave \subseteq Rows
    /\ phase \in {"wave", "record"} <=> wave # {}
    /\ used \in [Work -> [Plan -> Nat]]
    /\ owed \subseteq Work
    /\ ops \in 0 .. MaxOps

(* A fan-out is green only while every child of the shape it expanded is      *)
(* green: not only at the instant _expand marks it, but through crashes,      *)
(* withdrawals, waivers and retries.                                          *)
FanoutComplete ==
    \A f \in Work : Node[f].kind = "fanout" /\ Passed(f) =>
        \A c \in extraNeeds[f] : Passed(c)

(* And that shape is the one its source describes: a decomposition that was   *)
(* replaced is never what a green fan-out implemented.                        *)
FanoutMatchesSource ==
    \A f \in Work : Node[f].kind = "fanout" /\ Passed(f) => extraNeeds[f] \in items[f]

EscalatesOnly(w) == Node[w].policy.onError = "escalate" /\ Node[w].policy.exhausted = "escalate"

(* No failure is dropped: while a node whose policy escalates stays broken,   *)
(* the handoff of its latest attempt is still to be asked, is being asked, or *)
(* was refused.  Approving, withdrawing or re-checking one always moves the   *)
(* node as well.                                                              *)
FailureIsHandedOff ==
    \A w \in Work : Judged(w) /\ EscalatesOnly(w) /\ Broken(w) =>
        \E v \in {"fail", "error"} :
            LET id == <<w, attempts[w], v>>
            IN  id \in Rows /\ node[id] \in {"PENDING", "BLOCKED", "FAILED"}

(* A checkpoint that waits can be answered, and a run that rests BLOCKED has  *)
(* a question open: every command that closes a question also moves the row.  *)
AskedIsAnswerable ==
    /\ \A id \in Rows : node[id] = "BLOCKED" => Open(approvals, {id}) # {}
    /\ runStatus = "BLOCKED" => Open(approvals, Rows) # {}

(* A failed node is not dispatched again before the repair inserted for it    *)
(* has run ("the failed node re-enters only after the fix has run").          *)
RepairPrecedesReentry == \A w \in owed : node[Self(w)] # "RUNNING"

(* Green evidence stays true: while the bundle is green, nothing upstream of  *)
(* it in the runtime graph is unfinished, failed or stale.                    *)
EvidenceIsCurrent ==
    \A b \in Work : Node[b].kind = "bundle" /\ Passed(b) =>
        \A v \in RuntimeUpstream(b) : IsSatisfied(Self(v))

(* Every green result of a completed run was computed from the versions that  *)
(* exist: "a result computed from something withdrawn is not evidence".       *)
GreenIsCurrent ==
    runStatus = "COMPLETED" =>
        \A w \in Work : Judged(w) /\ Passed(w) =>
            \A d \in Reads(w) : used[w][d] = version[d]

(* Work behind a checkpoint is dispatched only under an approval that names   *)
(* the versions that exist (D10).                                             *)
BuiltOnApproval ==
    phase = "wave" =>
        \A w \in Work, h \in Plan :
            /\ Self(w) \in wave /\ Node[w].kind = "work"
            /\ h \in Node[w].needs /\ Node[h].kind = "human" /\ Passed(h)
            => \E i \in Standing(approvals) :
                  /\ approvals[i].node = Self(h)
                  /\ \A b \in approvals[i].bound : version[b[1]] = b[2]

(* Once a node raised its optional checkpoint, the work behind both is        *)
(* dispatched only after the question was answered and the answer processed   *)
(* (or its processing waived), unless a person refused or withdrew a part.    *)
Refused(w) == \E i \in DOMAIN approvals :
                 approvals[i].node = Self(w) /\ approvals[i].decision = "REJECTED"
QuestionHoldsWork ==
    phase = "wave" =>
        \A w \in {v \in Plan : Node[v].onEscalate # NoNode} :
            LET h    == Node[w].onEscalate
                path == {h} \cup {q \in Downstream[h] : Node[q].optional}
            IN  node[Self(h)] # "SKIPPED" /\ (\A q \in path : ~Refused(q)) =>
                    \A d \in Downstream[w] \ path :
                        Self(d) \in wave => \A q \in path : Passed(q) \/ Waived(q)

(* What a person waived stays waived until a person withdraws it: the driver  *)
(* itself never re-enters a node whose failure was accepted.                  *)
WaiverHolds ==
    [][phase # "parked" => \A w \in Work : Waived(w) => node'[Self(w)] = "SKIPPED"]_vars

(* Where the contract sees an authored node.                                  *)
Stage(w) == IF Self(w) \in wave THEN "running"
            ELSE CASE node[Self(w)] = "PASSED"  -> "done"
                   [] node[Self(w)] = "SKIPPED" -> "skipped"
                   [] node[Self(w)] = "BLOCKED" -> "asked"
                   [] OTHER                     -> "open"

(* The optional work an escalation of w brings in.                            *)
Raised(w) == IF Node[w].onEscalate = NoNode THEN {}
             ELSE {d \in {Node[w].onEscalate} \cup Downstream[Node[w].onEscalate] :
                       Node[d].optional}

Contract == INSTANCE RunContract WITH
    Checkpoints <- {w \in Plan : Node[w].kind = "human"},
    Optional    <- {w \in Plan : Node[w].optional},
    Needs       <- [w \in Plan |-> Node[w].needs],
    After       <- Downstream,
    Raises      <- [w \in Work |-> Raised(w)],
    Rederives   <- {w \in Work : Node[w].qualified},
    driven      <- phase # "parked",
    stage       <- [w \in Plan |-> Stage(w)],
    questions   <- {w \in Plan : Open(approvals, {Self(w)}) # {}}

(* The run keeps its contract: through every order of records, crashes,       *)
(* retries, waivers and withdrawals, nothing starts before what it needs is   *)
(* settled, only a person passes a checkpoint or waives work, nothing built   *)
(* on withdrawn work stays done or asked, and what is done is undone in no    *)
(* other way than a withdrawal, a refusal or a new version.                   *)
KeepsContract == Contract!Spec

(* A process that drives a run comes back: the run blocks, finishes or stops. *)
SessionEnds == phase # "parked" ~> phase = "parked"

-------------------------------------------------------------------------------
(* What keeps FanoutComplete, AskedIsAnswerable and FailureIsHandedOff true.  *)

(* Nothing in flight has a result yet.                                        *)
WaveIsUndone == \A id \in wave : node[id] \in {"PENDING", "RUNNING", "STALE"}

(* A node only waits at runtime for work it inserted itself.                  *)
GrownByOwner ==
    \A w \in Work : extraNeeds[w] \subseteq Owned(w) /\ items[w] \subseteq Node[w].shapes

(* Only people are asked, and only their approvals name versions.             *)
PeopleAreAsked ==
    \A i \in DOMAIN approvals :
        approvals[i].decision = "PENDING" \/ approvals[i].bound # {}
        => KindOf(approvals[i].node) = "human"

(* A handoff is about an attempt that was made and did not pass.              *)
HandoffsNumbered ==
    \A id \in Rows : IF IsHandoff(id)
                     THEN id[2] <= attempts[id[1]] /\ id[3] # "none"
                     ELSE id = Self(id[1])

(* What the engine keeps about rows, questions, handoffs and fan-outs.        *)
Bookkeeping ==
    /\ TypeOK
    /\ WaveIsUndone
    /\ GrownByOwner
    /\ PeopleAreAsked
    /\ HandoffsNumbered
    /\ FanoutComplete
    /\ AskedIsAnswerable
    /\ FailureIsHandedOff

(* While a process drives, only its own wave runs: whatever a process that    *)
(* died left RUNNING can be collected again, by whoever takes the run over.   *)
OnlyTheWaveRuns == phase # "parked" => \A id \in Rows : node[id] = "RUNNING" => id \in wave

(* The inductive invariant: no command, crash or wave order breaks the        *)
(* bookkeeping that the promises above rest on, or strands a row.             *)
Inductive == Bookkeeping /\ OnlyTheWaveRuns

-------------------------------------------------------------------------------
(* Claims of the repository's text the code does not keep; each is the        *)
(* property of one run that finds it violated.                                *)

(* "A run waiting on a person has not failed": _settle does not end a run as  *)
(* FAILED while a checkpoint waits on an open question.                       *)
WaitingIsNotFailed ==
    [][phase = "loop" /\ phase' = "parked" /\ runStatus = "RUNNING" /\ runStatus' = "FAILED"
        => ~ \E id \in Rows : node[id] = "BLOCKED" /\ Open(approvals, {id}) # {}]_vars

(* An approval answers the question that was put, and is recorded against the *)
(* versions it showed: never an older request of the same checkpoint that     *)
(* names other versions, while the newer one stays open.                      *)
ApprovalAnswersTheQuestion ==
    [][\A i, j \in DOMAIN approvals :
          /\ approvals[i].decision = "PENDING" /\ approvals'[i].decision = "APPROVED"
          /\ approvals[i].bound # {} /\ i < j /\ j \in Open(approvals, {approvals[i].node})
          => approvals[i].bound = approvals[j].bound]_vars
===============================================================================
