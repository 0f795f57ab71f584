------------------------------ MODULE RunProofs -------------------------------
(* What holds of every plan, every number of commands and every interleaving  *)
(* of driver, crashes and operator.                                           *)
EXTENDS RunProperties, SequenceTheorems, TLAPS

-------------------------------------------------------------------------------
(* Rows, approvals and the policy.                                            *)

LEMMA SelfFacts ==
    ASSUME NEW w \in Work
    PROVE  /\ Self(w) \in Ids
           /\ ~IsHandoff(Self(w))
           /\ Self(w)[1] = w
           /\ KindOf(Self(w)) = Node[w].kind
           /\ \A v \in Work : Self(v) = Self(w) => v = w
BY DEF Self, Ids, IsHandoff, KindOf

LEMMA HandoffFacts ==
    ASSUME NEW w \in Work, NEW k \in Nat, NEW v \in {"fail", "error"}
    PROVE  /\ <<w, k + 1, v>> \in Ids
           /\ IsHandoff(<<w, k + 1, v>>)
           /\ KindOf(<<w, k + 1, v>>) = "human"
BY DEF Ids, IsHandoff, KindOf

(* A change of the elements of a sequence is a sequence.                      *)
LEMMA SeqMap ==
    ASSUME NEW S, NEW s \in Seq(S), NEW t, t = [i \in DOMAIN s |-> t[i]],
           \A i \in DOMAIN s : t[i] \in S
    PROVE  t \in Seq(S) /\ DOMAIN t = DOMAIN s
BY SeqDef

LEMMA AppendFacts ==
    ASSUME NEW S, NEW s \in Seq(S), NEW e \in S, NEW t, t = Append(s, e)
    PROVE  /\ t \in Seq(S)
           /\ DOMAIN s \subseteq DOMAIN t
           /\ \A i \in DOMAIN s : t[i] = s[i]
           /\ Len(s) + 1 \in DOMAIN t
           /\ \A i \in DOMAIN t \ DOMAIN s : t[i] = e
OBVIOUS

(* The approvals of a run, each on a row that exists.                         *)
ApprovalsOn(ap, rows) == ap \in Seq(Approval) /\ \A i \in DOMAIN ap : ap[i].node \in rows

(* request_approval, and the decision retry and invalidate leave behind.      *)
LEMMA AskFacts ==
    ASSUME NEW ap \in Seq(Approval), NEW id \in Ids, NEW bound \in SUBSET (Plan \X Nat),
           NEW t, t = Ask(ap, id, bound)
    PROVE  /\ t \in Seq(Approval)
           /\ DOMAIN ap \subseteq DOMAIN t
           /\ \A i \in DOMAIN ap : t[i] = ap[i]
           /\ Len(ap) + 1 \in DOMAIN t
           /\ \A i \in DOMAIN t \ DOMAIN ap :
                 t[i].node = id /\ t[i].decision = "PENDING" /\ t[i].bound = bound
<1>1. PICK q : q = [node |-> id, bound |-> bound, decision |-> "PENDING", at |-> 0]
  OBVIOUS
<1>2. q \in Approval /\ q.node = id /\ q.decision = "PENDING" /\ q.bound = bound
  BY <1>1 DEF Approval, Decisions
<1>3. t = Append(ap, q)
  BY <1>1 DEF Ask
<1>4. /\ t \in Seq(Approval) /\ DOMAIN ap \subseteq DOMAIN t
      /\ \A i \in DOMAIN ap : t[i] = ap[i]
      /\ Len(ap) + 1 \in DOMAIN t
      /\ \A i \in DOMAIN t \ DOMAIN ap : t[i] = q
  BY <1>2, <1>3, AppendFacts
<1> QED
  BY <1>2, <1>4

LEMMA NotedFacts ==
    ASSUME NEW ap \in Seq(Approval), NEW id \in Ids, NEW decision \in Decisions,
           clock \in Nat, NEW t, t = Noted(ap, id, decision)
    PROVE  /\ t \in Seq(Approval)
           /\ DOMAIN ap \subseteq DOMAIN t
           /\ \A i \in DOMAIN ap : t[i] = ap[i]
           /\ \A i \in DOMAIN t \ DOMAIN ap :
                 t[i].node = id /\ t[i].decision = decision /\ t[i].bound = {}
<1>1. PICK q : q = [node |-> id, bound |-> {}, decision |-> decision, at |-> clock + 1]
  OBVIOUS
<1>2. q \in Approval /\ q.node = id /\ q.decision = decision /\ q.bound = {}
  BY <1>1 DEF Approval
<1>3. t = Append(ap, q)
  BY <1>1 DEF Noted
<1>4. /\ t \in Seq(Approval) /\ DOMAIN ap \subseteq DOMAIN t
      /\ \A i \in DOMAIN ap : t[i] = ap[i]
      /\ \A i \in DOMAIN t \ DOMAIN ap : t[i] = q
  BY <1>2, <1>3, AppendFacts
<1> QED
  BY <1>2, <1>4

LEMMA StampedFacts ==
    ASSUME NEW a \in Approval, NEW decision \in Decisions, NEW at \in Nat
    PROVE  LET b == Stamped(a, decision, at)
           IN  b \in Approval /\ b.node = a.node /\ b.bound = a.bound /\ b.decision = decision
BY DEF Stamped, Approval

(* recorder.decide and revert_to_pending, on a set of approvals.              *)
LEMMA DecideFacts ==
    ASSUME NEW ap \in Seq(Approval), NEW I, NEW decision \in Decisions,
           clock \in Nat, NEW t, t = Decide(ap, I, decision)
    PROVE  /\ t \in Seq(Approval) /\ DOMAIN t = DOMAIN ap
           /\ \A i \in DOMAIN ap :
                 /\ t[i].node = ap[i].node /\ t[i].bound = ap[i].bound
                 /\ t[i].decision = IF i \in I THEN decision ELSE ap[i].decision
<1>1. \A i \in DOMAIN ap : ap[i] \in Approval
  OBVIOUS
<1>2. clock + 1 \in Nat
  OBVIOUS
<1>3. \A i \in DOMAIN ap :
         t[i] = IF i \in I THEN Stamped(ap[i], decision, clock + 1) ELSE ap[i]
  BY DEF Decide
<1>4. \A i \in DOMAIN ap :
         /\ t[i] \in Approval
         /\ t[i].node = ap[i].node /\ t[i].bound = ap[i].bound
         /\ t[i].decision = IF i \in I THEN decision ELSE ap[i].decision
  BY <1>1, <1>2, <1>3, StampedFacts
<1>5. t = [i \in DOMAIN ap |-> t[i]]
  BY DEF Decide
<1> QED
  BY <1>4, <1>5, SeqMap

LEMMA RevertFacts ==
    ASSUME NEW ap \in Seq(Approval), NEW I, NEW t, t = Reverted(ap, I)
    PROVE  /\ t \in Seq(Approval) /\ DOMAIN t = DOMAIN ap
           /\ \A i \in DOMAIN ap :
                 /\ t[i].node = ap[i].node /\ t[i].bound = ap[i].bound
                 /\ t[i].decision = IF i \in I THEN "PENDING" ELSE ap[i].decision
<1>1. \A i \in DOMAIN ap : ap[i] \in Approval
  OBVIOUS
<1>2. 0 \in Nat /\ "PENDING" \in Decisions
  BY DEF Decisions
<1>3. \A i \in DOMAIN ap :
         t[i] = IF i \in I THEN Stamped(ap[i], "PENDING", 0) ELSE ap[i]
  BY DEF Reverted
<1>4. \A i \in DOMAIN ap :
         /\ t[i] \in Approval
         /\ t[i].node = ap[i].node /\ t[i].bound = ap[i].bound
         /\ t[i].decision = IF i \in I THEN "PENDING" ELSE ap[i].decision
  BY <1>1, <1>2, <1>3, StampedFacts
<1>5. t = [i \in DOMAIN ap |-> t[i]]
  BY DEF Reverted
<1> QED
  BY <1>4, <1>5, SeqMap

LEMMA RespondFacts ==
    ASSUME NEW w \in Work, NEW verdict \in Verdicts, NEW k \in Nat
    PROVE  LET a == RespondTo(verdict, Node[w].policy, k)
           IN  /\ verdict = "pass" <=> a = "proceed"
               /\ a \in {"proceed", "retry", "insert_fix", "escalate", "safe_stop", "rollback"}
               /\ a = "insert_fix" => Node[w].fix \in Work /\ Node[w].fix \in Owned(w)
               /\ EscalatesOnly(w) => a \notin {"safe_stop", "rollback"}
<1>1. Node[w].policy \in Policies
  BY PlanAssumption DEF NodeFields
<1>2. Node[w].policy.repairs => Node[w].fix \in Work /\ Node[w].fix \in Owned(w)
  BY PlanAssumption DEF Owned
<1>3. /\ Node[w].policy.onError \in TerminalActions
      /\ Node[w].policy.exhausted \in TerminalActions
  BY <1>1 DEF Policies
<1>4. Node[w].policy.repairs \in BOOLEAN
  BY <1>1 DEF Policies
<1> QED
  BY <1>2, <1>3, <1>4 DEF Verdicts, RespondTo, RespondToError, RespondToFailure,
     TerminalActions, EscalatesOnly

-------------------------------------------------------------------------------
(* _apply_policy, as everything below sees it: which rows and approvals it    *)
(* may change, and into what.                                                 *)
PolicyShape(w, verdict, nd, ap) ==
    LET id == <<w, attempts[w] + 1, verdict>>
    IN  \* Types.
        /\ runStatus' \in RunStatuses
        /\ node' \in [DOMAIN node' -> NodeStatuses]
        /\ Rows \subseteq DOMAIN node' /\ DOMAIN node' \subseteq Ids
        /\ ApprovalsOn(approvals', DOMAIN node')
        /\ extraNeeds' \in [Work -> SUBSET Work]
        /\ owed' \subseteq Work
        \* Rows: w itself, optional work that was SKIPPED, and new ones.
        /\ \A x \in Rows \ {Self(w)} :
              node'[x] = nd[x] \/ (nd[x] = "SKIPPED" /\ ~IsHandoff(x) /\ node'[x] = "PENDING")
        /\ node'[Self(w)] \in {nd[Self(w)], "PENDING"}
        /\ \A x \in DOMAIN node' \ Rows :
              node'[x] = "PENDING" /\ x \in {id, Self(Node[w].fix)}
        \* Edges: only w's own.
        /\ \A v \in Work \ {w} : extraNeeds'[v] = extraNeeds[v]
        /\ extraNeeds'[w] \subseteq extraNeeds[w] \cup Owned(w)
        /\ Node[w].kind = "fanout" => extraNeeds'[w] = extraNeeds[w]
        \* Questions: at most one more, open, on the new handoff.
        /\ DOMAIN ap \subseteq DOMAIN approvals'
        /\ \A i \in DOMAIN ap : approvals'[i] = ap[i]
        /\ \A i \in DOMAIN approvals' \ DOMAIN ap :
              approvals'[i].decision = "PENDING" /\ approvals'[i].node = id
        /\ runStatus' = "BLOCKED" =>
              \/ runStatus = "BLOCKED"
              \/ \E i \in DOMAIN approvals' : approvals'[i].decision = "PENDING"
        \* A failure left standing is handed off.
        /\ verdict # "pass" /\ EscalatesOnly(w) /\ node'[Self(w)] # "PENDING" =>
              id \in DOMAIN node' /\ (id \in Rows \/ node'[id] = "PENDING")

LEMMA PolicyEffect ==
    ASSUME TypeOK, NEW w \in Work, Self(w) \in Rows,
           NEW verdict \in Verdicts, NEW signal \in BOOLEAN,
           NEW nd \in [Rows -> NodeStatuses], nd[Self(w)] = StatusFor(verdict),
           NEW ap, ApprovalsOn(ap, Rows),
           ApplyPolicy(w, verdict, signal, nd, ap)
    PROVE  PolicyShape(w, verdict, nd, ap)
<1> DEFINE id == <<w, attempts[w] + 1, verdict>>
           action == RespondTo(verdict, Node[w].policy, attempts[w] + 1)
<1>1. /\ Rows \subseteq Ids /\ runStatus \in RunStatuses /\ owed \subseteq Work
      /\ extraNeeds \in [Work -> SUBSET Work] /\ attempts[w] \in Nat
  BY DEF TypeOK
<1>2. /\ verdict = "pass" <=> action = "proceed"
      /\ action = "insert_fix" => Node[w].fix \in Work /\ Node[w].fix \in Owned(w)
      /\ EscalatesOnly(w) => action \notin {"safe_stop", "rollback"}
  BY <1>1, RespondFacts
<1>3. verdict # "pass" => id \in Ids /\ IsHandoff(id)
  BY <1>1, HandoffFacts DEF Verdicts
<1>4. action = "insert_fix" => Node[w].kind # "fanout"
  BY <1>2, PlanAssumption
<1>5. \A v \in Work : Self(v) \in Ids /\ ~IsHandoff(Self(v))
  BY SelfFacts
<1> USE DEF PolicyShape
<1>6. CASE action = "proceed" /\ Proceed(w, nd, ap, signal)
  BY <1>1, <1>2, <1>6 DEF Proceed, Activated, ApprovalsOn, StatusFor, NodeStatuses
<1>7. CASE action = "retry" /\ RetryNode(w, nd, ap)
  BY <1>1, <1>7 DEF RetryNode, ApprovalsOn, NodeStatuses
<1>8. CASE action = "insert_fix" /\ InsertFix(w, nd, ap)
  BY <1>1, <1>2, <1>4, <1>5, <1>8 DEF InsertFix, WithRow, ApprovalsOn, NodeStatuses
<1>9. CASE action = "escalate" /\ Escalate(w, nd, ap, id)
  <2>1. verdict # "pass" /\ id \in Ids /\ IsHandoff(id)
    BY <1>2, <1>3, <1>9
  <2>2. approvals' = Ask(ap, id, {}) /\ ap \in Seq(Approval)
    BY <1>9 DEF Escalate, ApprovalsOn
  <2>3. /\ DOMAIN node' = Rows \cup {id}
        /\ \A x \in DOMAIN node' : node'[x] = IF x \in Rows THEN nd[x] ELSE "PENDING"
        /\ node' \in [DOMAIN node' -> NodeStatuses]
    BY <1>9 DEF Escalate, WithRow, NodeStatuses
  <2>4. /\ ApprovalsOn(approvals', DOMAIN node')
        /\ DOMAIN ap \subseteq DOMAIN approvals'
        /\ \A i \in DOMAIN ap : approvals'[i] = ap[i]
        /\ \A i \in DOMAIN approvals' \ DOMAIN ap :
              approvals'[i].decision = "PENDING" /\ approvals'[i].node = id
        /\ \E i \in DOMAIN approvals' : approvals'[i].decision = "PENDING"
    <3> HIDE DEF id, action
    <3>1. Len(ap) + 1 \notin DOMAIN ap
      BY <2>2
    <3>2. /\ approvals' \in Seq(Approval) /\ DOMAIN ap \subseteq DOMAIN approvals'
          /\ \A i \in DOMAIN ap : approvals'[i] = ap[i]
          /\ Len(ap) + 1 \in DOMAIN approvals'
          /\ \A i \in DOMAIN approvals' \ DOMAIN ap :
                 approvals'[i].node = id /\ approvals'[i].decision = "PENDING"
      <4>1. id \in Ids /\ ap \in Seq(Approval) /\ {} \in SUBSET (Plan \X Nat)
        BY <2>1, <2>2
      <4> QED
        BY <2>2, <4>1, AskFacts
    <3> QED
      BY <2>3, <3>1, <3>2 DEF ApprovalsOn
  <2>5. /\ runStatus' = "BLOCKED" /\ UNCHANGED <<extraNeeds, owed>>
    BY <1>9 DEF Escalate
  <2> QED
    BY <1>1, <2>1, <2>3, <2>4, <2>5 DEF RunStatuses
<1>10. CASE action = "safe_stop" /\ Halt(nd, ap, "STOPPED")
  BY <1>1, <1>2, <1>10 DEF Halt, ApprovalsOn, RunStatuses
<1>11. CASE action = "rollback" /\ Halt(nd, ap, "ROLLED_BACK")
  BY <1>1, <1>2, <1>11 DEF Halt, ApprovalsOn, RunStatuses
<1> QED
  BY <1>6, <1>7, <1>8, <1>9, <1>10, <1>11 DEF ApplyPolicy

-------------------------------------------------------------------------------
(* Three steps every action is an instance of.                                *)

(* A green fan-out stays complete when it was green with the same children    *)
(* before, and the step takes no result from one of them.                     *)
LEMMA FanoutStep ==
    ASSUME FanoutComplete,
           \A f \in Work : Node[f].kind = "fanout" /\ Passed(f)' =>
               Passed(f) /\ extraNeeds'[f] = extraNeeds[f],
           \A f \in Work : Node[f].kind = "fanout" /\ Passed(f)' =>
               \A c \in extraNeeds[f] : Passed(c) => Passed(c)'
    PROVE  FanoutComplete'
BY DEF FanoutComplete

(* Questions are kept, re-opened on checkpoints that name versions, answered  *)
(* where the row moves on, or new: then open on people, or a bare decision.   *)
QuestionsMove ==
    /\ DOMAIN approvals \subseteq DOMAIN approvals'
    /\ \A i \in DOMAIN approvals :
          /\ approvals'[i].node = approvals[i].node
          /\ approvals'[i].bound = approvals[i].bound
          /\ \/ approvals'[i].decision = approvals[i].decision
             \/ approvals'[i].decision = "PENDING" /\ approvals[i].bound # {}
             \/ approvals'[i].decision # "PENDING" /\ node'[approvals[i].node] # "BLOCKED"
    /\ \A i \in DOMAIN approvals' \ DOMAIN approvals :
          \/ approvals'[i].decision = "PENDING" /\ KindOf(approvals'[i].node) = "human"
          \/ approvals'[i].decision # "PENDING" /\ approvals'[i].bound = {}

LEMMA QuestionStep ==
    ASSUME TypeOK, TypeOK', PeopleAreAsked, AskedIsAnswerable, QuestionsMove,
           \A x \in Rows' : node'[x] = "BLOCKED" =>
               \/ x \in Rows /\ node[x] = "BLOCKED"
               \/ \E i \in DOMAIN approvals' :
                     approvals'[i].node = x /\ approvals'[i].decision = "PENDING",
           runStatus' = "BLOCKED" =>
               \/ runStatus = "BLOCKED" /\ \A i \in DOMAIN approvals :
                     approvals[i].decision = "PENDING" => approvals'[i].decision = "PENDING"
               \/ \E i \in DOMAIN approvals' : approvals'[i].decision = "PENDING"
    PROVE  PeopleAreAsked' /\ AskedIsAnswerable'
<1>1. /\ \A i \in DOMAIN approvals : approvals[i].node \in Rows
      /\ \A i \in DOMAIN approvals' : approvals'[i].node \in Rows'
  BY DEF TypeOK
<1>2. PeopleAreAsked'
  BY DEF PeopleAreAsked, QuestionsMove, KindOf, IsHandoff
<1>3. \A x \in Rows' : node'[x] = "BLOCKED" =>
         \E i \in DOMAIN approvals' :
             approvals'[i].node = x /\ approvals'[i].decision = "PENDING"
  BY DEF AskedIsAnswerable, Open, QuestionsMove
<1>4. runStatus' = "BLOCKED" =>
         \E i \in DOMAIN approvals' : approvals'[i].decision = "PENDING"
  BY DEF AskedIsAnswerable, Open, QuestionsMove
<1>5. AskedIsAnswerable'
  BY <1>1, <1>3, <1>4 DEF AskedIsAnswerable, Open
<1> QED
  BY <1>2, <1>5

(* A node that was broken and handed off before stays handed off while its    *)
(* attempt count and the open or refused state of its handoff stay.           *)
StillHandedOff(w) ==
    /\ Broken(w) /\ attempts'[w] = attempts[w]
    /\ \A v \in {"fail", "error"} :
          LET id == <<w, attempts[w], v>>
          IN  id \in Rows /\ node[id] \in {"PENDING", "BLOCKED", "FAILED"} =>
                  id \in Rows' /\ node'[id] \in {"PENDING", "BLOCKED", "FAILED"}

NewlyHandedOff(w) ==
    \E v \in {"fail", "error"} :
        LET id == <<w, attempts'[w], v>>
        IN  id \in Rows' /\ node'[id] \in {"PENDING", "BLOCKED", "FAILED"}

LEMMA FailureStep ==
    ASSUME FailureIsHandedOff,
           \A w \in Work : Judged(w) /\ EscalatesOnly(w) /\ Broken(w)' =>
               StillHandedOff(w) \/ NewlyHandedOff(w)
    PROVE  FailureIsHandedOff'
BY DEF FailureIsHandedOff, StillHandedOff, NewlyHandedOff, Judged, EscalatesOnly

-------------------------------------------------------------------------------
(* What a node acquired at runtime is agent work outside the plan.            *)
LEMMA GrownFacts ==
    ASSUME TypeOK, GrownByOwner, NEW w \in Work, NEW c \in extraNeeds[w]
    PROVE  c \in Work \ Plan /\ KindOf(Self(c)) = "work" /\ c \in Owned(w)
<1>1. c \in Work /\ c \in Owned(w)
  BY DEF TypeOK, GrownByOwner
<1>2. c \notin Plan /\ Node[c].kind = "work"
  BY <1>1, PlanAssumption
<1> QED
  BY <1>1, <1>2, SelfFacts

LEMMA InitHolds == ConsoleInit => Bookkeeping
<1> SUFFICES ASSUME ConsoleInit PROVE Bookkeeping
  OBVIOUS
<1> USE DEF ConsoleInit, Init
<1>1. \A w \in Plan : Self(w) \in Ids /\ ~IsHandoff(Self(w)) /\ Self(w)[1] = w
  BY SelfFacts, PlanAssumption
<1>2. Rows = {Self(w) : w \in Plan}
  BY DEF Rows
<1>3. \A x \in Rows : x \in Ids /\ ~IsHandoff(x) /\ x = Self(x[1])
  BY <1>1, <1>2
<1>4. \A x \in Rows : node[x] \in {"SKIPPED", "PENDING"}
  BY DEF Rows
<1>5. node \in [Rows -> NodeStatuses]
  BY <1>4 DEF NodeStatuses, Rows
<1>6. approvals \in Seq(Approval) /\ DOMAIN approvals = {}
  OBVIOUS
<1>7. used \in [Work -> [Plan -> Nat]]
  OBVIOUS
<1>8. /\ attempts \in [Work -> Nat] /\ version \in [Work -> Nat]
       /\ extraNeeds \in [Work -> SUBSET Work] /\ items \in [Work -> SUBSET (SUBSET Work)]
  OBVIOUS
<1>9. ops \in 0 .. MaxOps
  BY ConsoleAssumption
<1>10. TypeOK
  BY <1>2, <1>3, <1>5, <1>6, <1>7, <1>8, <1>9 DEF TypeOK, RunStatuses
<1>11. WaveIsUndone /\ GrownByOwner /\ PeopleAreAsked
  BY <1>6 DEF WaveIsUndone, GrownByOwner, PeopleAreAsked
<1>12. HandoffsNumbered
  BY <1>3 DEF HandoffsNumbered
<1>13. FanoutComplete
  BY DEF FanoutComplete
<1>14. AskedIsAnswerable
  BY <1>4 DEF AskedIsAnswerable
<1>15. FailureIsHandedOff
  BY <1>4 DEF FailureIsHandedOff, Broken
<1> QED
  BY <1>11, <1>12, <1>13, <1>14, <1>15, <1>10 DEF Bookkeeping

(* Steps that only move rows back to work, or start them: whatever they move  *)
(* is no result of a fan-out's child, and no handoff loses its question.      *)
Gentle(x) ==
    \/ node'[x] = node[x]
    \/ node[x] = "RUNNING" /\ node'[x] = "PENDING"
    \/ node[x] \in {"PENDING", "STALE"} /\ ~IsHandoff(x) /\ node'[x] = "RUNNING"
    \/ node[x] \in {"FAILED", "ERRORED"} /\ node'[x] = "PENDING"
    \/ node[x] = "PASSED" /\ KindOf(x) = "human" /\ node'[x] = "STALE"

LEMMA GentleStep ==
    ASSUME Bookkeeping, TypeOK', WaveIsUndone', QuestionsMove,
           \A i \in DOMAIN approvals :
              approvals[i].decision = "PENDING" => approvals'[i].decision = "PENDING",
           Rows' = Rows, \A x \in Rows : Gentle(x),
           UNCHANGED <<attempts, extraNeeds, items>>,
           runStatus' = "BLOCKED" =>
               \/ runStatus = "BLOCKED"
               \/ \E i \in DOMAIN approvals' : approvals'[i].decision = "PENDING"
    PROVE  Bookkeeping'
<1> USE DEF Bookkeeping, Gentle
<1>1. GrownByOwner' /\ HandoffsNumbered'
  BY DEF GrownByOwner, HandoffsNumbered
<1>2. FanoutComplete'
  <2>1. \A f \in Work : \A c \in extraNeeds[f] :
            c \in Work /\ KindOf(Self(c)) # "human"
    BY GrownFacts
  <2> QED
    BY <2>1, FanoutStep DEF Passed
<1>3. PeopleAreAsked' /\ AskedIsAnswerable'
  BY QuestionStep
<1>4. FailureIsHandedOff'
  <2>1. ASSUME NEW w \in Work, Broken(w)'
        PROVE  StillHandedOff(w)
    <3>1. attempts[w] \in Nat
      BY DEF TypeOK
    <3>2. Broken(w)
      BY <2>1 DEF Broken
    <3> QED
      BY <3>1, <3>2 DEF StillHandedOff, HandoffsNumbered, Self
  <2> QED
    BY <2>1, FailureStep
<1> QED
  BY <1>1, <1>2, <1>3, <1>4

-------------------------------------------------------------------------------
(* The driver's steps around a wave.                                          *)

USE DEF engineVars, graphVars, decideVars

LEMMA DispatchKeeps == Bookkeeping /\ Dispatch /\ UNCHANGED ops => Bookkeeping'
<1> SUFFICES ASSUME Bookkeeping, Dispatch, UNCHANGED ops PROVE Bookkeeping'
  OBVIOUS
<1> USE DEF Dispatch
<1>1. TypeOK
  BY DEF Bookkeeping
<1>2. /\ Ready \subseteq Rows /\ Ready # {}
      /\ \A x \in Ready : node[x] \in {"PENDING", "STALE"}
  BY DEF Ready, IsReady
<1>3. /\ Rows' = Rows /\ node' \in [Rows' -> NodeStatuses]
      /\ \A x \in Rows : Gentle(x)
      /\ \A x \in Ready : node'[x] \in {"PENDING", "RUNNING", "STALE"}
  BY <1>1, <1>2 DEF TypeOK, NodeStatuses, Gentle, KindOf, Rows
<1>4. used' \in [Work -> [Plan -> Nat]]
  <2>1. \A w \in Work : Material(w) \in [Plan -> Nat]
    BY <1>1, PlanAssumption DEF Material, TypeOK
  <2> QED
    BY <1>1, <2>1 DEF TypeOK
<1>5. TypeOK'
  BY <1>1, <1>2, <1>3, <1>4 DEF TypeOK
<1>6. WaveIsUndone'
  BY <1>2, <1>3 DEF WaveIsUndone
<1>7. QuestionsMove
  BY DEF QuestionsMove
<1> QED
  BY <1>3, <1>5, <1>6, <1>7, GentleStep

(* Crash, the raise of a doomed wave, _settle and rollback move no row.       *)
LEMMA StillKeeps ==
    ASSUME Bookkeeping, UNCHANGED <<node, graphVars, decideVars, used>>,
           wave' \in {{}, wave}, phase' = "parked" \/ (wave' = wave /\ phase' = phase),
           phase' = "parked" => wave' = {}, ops' \in 0 .. MaxOps,
           runStatus' \in RunStatuses,
           runStatus' = "BLOCKED" => runStatus = "BLOCKED" \/ Waiting # {}
    PROVE  Bookkeeping'
<1>1. TypeOK
  BY DEF Bookkeeping
<1>2. TypeOK'
  BY <1>1 DEF TypeOK, Rows
<1>3. WaveIsUndone' /\ Rows' = Rows
  BY DEF Bookkeeping, WaveIsUndone, Rows
<1>4. QuestionsMove
  BY DEF QuestionsMove
<1>5. Waiting # {} => \E i \in DOMAIN approvals : approvals[i].decision = "PENDING"
  BY DEF Waiting, Open
<1> QED
  BY <1>2, <1>3, <1>4, <1>5, GentleStep DEF Gentle

LEMMA CrashKeeps == Bookkeeping /\ Crash /\ UNCHANGED ops => Bookkeeping'
BY StillKeeps DEF Crash, Bookkeeping, TypeOK

LEMMA ExpandRaisesKeeps == Bookkeeping /\ ExpandRaises /\ UNCHANGED ops => Bookkeeping'
BY StillKeeps DEF ExpandRaises, Bookkeeping, TypeOK

LEMMA SettleKeeps == Bookkeeping /\ Settle /\ UNCHANGED ops => Bookkeeping'
<1>1. Resting \in RunStatuses /\ (Resting = "BLOCKED" => Waiting # {})
  BY DEF Resting, RunStatuses
<1> QED
  BY <1>1, StillKeeps DEF Settle, Bookkeeping, TypeOK

LEMMA CommandFacts ==
    ASSUME TypeOK, Command
    PROVE  /\ ops' \in 0 .. MaxOps /\ phase = "parked" /\ wave = {}
           /\ UNCHANGED <<phase, wave, used>>
BY ConsoleAssumption DEF Command, TypeOK

LEMMA RollbackKeeps == Bookkeeping /\ Rollback => Bookkeeping'
<1> SUFFICES ASSUME Bookkeeping, Rollback PROVE Bookkeeping'
  OBVIOUS
<1>1. /\ ops' \in 0 .. MaxOps /\ phase = "parked" /\ wave = {}
      /\ UNCHANGED <<phase, wave, used>>
  BY CommandFacts DEF Rollback, Bookkeeping
<1> QED
  BY <1>1, StillKeeps DEF Rollback, RunStatuses

LEMMA RedoFacts ==
    ASSUME TypeOK
    PROVE  /\ Redo(node) \in [Rows -> NodeStatuses]
           /\ \A x \in Rows : Redo(node)[x] = IF node[x] = "RUNNING" THEN "PENDING" ELSE node[x]
BY DEF Redo, TypeOK, NodeStatuses, Rows

LEMMA StopKeeps == Bookkeeping /\ Stop => Bookkeeping'
<1> SUFFICES ASSUME Bookkeeping, Stop PROVE Bookkeeping'
  OBVIOUS
<1> USE DEF Stop
<1>1. TypeOK
  BY DEF Bookkeeping
<1>2. /\ ops' \in 0 .. MaxOps /\ phase = "parked" /\ wave = {}
      /\ UNCHANGED <<phase, wave, used>>
  BY <1>1, CommandFacts
<1>3. /\ node' \in [Rows -> NodeStatuses] /\ Rows' = Rows
      /\ \A x \in Rows : Gentle(x)
  BY <1>1, RedoFacts DEF Gentle, Rows
<1>4. TypeOK'
  BY <1>1, <1>2, <1>3 DEF TypeOK, RunStatuses
<1>5. WaveIsUndone' /\ QuestionsMove
  BY <1>2 DEF WaveIsUndone, QuestionsMove
<1> QED
  BY <1>3, <1>4, <1>5, GentleStep

(* Approvals that are re-opened named versions, so they are on people.        *)
LEMMA StaleFacts ==
    ASSUME TypeOK, PeopleAreAsked, NEW ver, NEW stale, stale = StaleApprovals(approvals, ver)
    PROVE  /\ stale \subseteq DOMAIN approvals
           /\ \A i \in stale : /\ approvals[i].bound # {}
                               /\ KindOf(approvals[i].node) = "human"
BY DEF StaleApprovals, Standing, PeopleAreAsked

LEMMA ReopenedFacts ==
    ASSUME TypeOK, PeopleAreAsked, NEW nd \in [Rows -> NodeStatuses],
           NEW ver, NEW stale, stale = StaleApprovals(approvals, ver)
    PROVE  /\ Reopened(nd, approvals, stale) \in [Rows -> NodeStatuses]
           /\ \A x \in Rows :
                 \/ Reopened(nd, approvals, stale)[x] = nd[x]
                 \/ /\ nd[x] = "PASSED" /\ KindOf(x) = "human"
                    /\ Reopened(nd, approvals, stale)[x] = "STALE"
<1>1. stale \subseteq DOMAIN approvals
      /\ \A i \in stale : KindOf(approvals[i].node) = "human"
  BY StaleFacts
<1> QED
  BY <1>1 DEF Reopened, NodeStatuses

LEMMA ResumeKeeps == Bookkeeping /\ Resume /\ UNCHANGED ops => Bookkeeping'
<1> SUFFICES ASSUME Bookkeeping, Resume, UNCHANGED ops PROVE Bookkeeping'
  OBVIOUS
<1> USE DEF Resume
<1>1. TypeOK /\ PeopleAreAsked
  BY DEF Bookkeeping
<1>2. PICK stale : stale = StaleApprovals(approvals, version)
  OBVIOUS
<1>3. /\ stale \subseteq DOMAIN approvals
      /\ \A i \in stale : approvals[i].bound # {}
  BY <1>1, <1>2, StaleFacts
<1>4. approvals' = Reverted(approvals, stale) /\ node' = Reopened(Redo(node), approvals, stale)
  BY <1>2
<1>5. /\ approvals' \in Seq(Approval) /\ DOMAIN approvals' = DOMAIN approvals
      /\ \A i \in DOMAIN approvals :
            /\ approvals'[i].node = approvals[i].node
            /\ approvals'[i].bound = approvals[i].bound
            /\ approvals'[i].decision = IF i \in stale THEN "PENDING" ELSE approvals[i].decision
  BY <1>1, <1>4, RevertFacts DEF TypeOK
<1>6. /\ node' \in [Rows -> NodeStatuses]
      /\ \A x \in Rows :
            \/ node'[x] = Redo(node)[x]
            \/ Redo(node)[x] = "PASSED" /\ KindOf(x) = "human" /\ node'[x] = "STALE"
  BY <1>1, <1>2, <1>4, RedoFacts, ReopenedFacts
<1>7. Rows' = Rows /\ \A x \in Rows : Gentle(x)
  BY <1>1, <1>6, RedoFacts DEF Gentle, Rows
<1>8. wave = {}
  BY <1>1 DEF TypeOK
<1>9. TypeOK'
  BY <1>1, <1>5, <1>6, <1>7, <1>8 DEF TypeOK, RunStatuses
<1>10. WaveIsUndone' /\ QuestionsMove
  BY <1>3, <1>5, <1>8 DEF WaveIsUndone, QuestionsMove
<1> QED
  BY <1>5, <1>7, <1>9, <1>10, GentleStep

(* A row with a verdict in it is a handoff.                                   *)
LEMMA HandoffRow ==
    ASSUME HandoffsNumbered, NEW w, NEW k, NEW v \in {"fail", "error"}, <<w, k, v>> \in Rows
    PROVE  IsHandoff(<<w, k, v>>) /\ \A x : <<w, k, v>> # Self(x)
BY DEF HandoffsNumbered, Self

-------------------------------------------------------------------------------
(* The commands.                                                              *)

LEMMA RetryKeeps == Bookkeeping /\ (\E id \in Rows : Retry(id)) => Bookkeeping'
<1> SUFFICES ASSUME Bookkeeping, NEW id \in Rows, Retry(id) PROVE Bookkeeping'
  OBVIOUS
<1> USE DEF Retry
<1>1. TypeOK /\ id \in Ids /\ clock \in Nat
  BY DEF Bookkeeping, TypeOK
<1>2. /\ ops' \in 0 .. MaxOps /\ phase = "parked" /\ wave = {}
      /\ UNCHANGED <<phase, wave, used>>
  BY <1>1, CommandFacts
<1>3. /\ approvals' \in Seq(Approval) /\ DOMAIN approvals \subseteq DOMAIN approvals'
      /\ \A i \in DOMAIN approvals : approvals'[i] = approvals[i]
      /\ \A i \in DOMAIN approvals' \ DOMAIN approvals :
            /\ approvals'[i].node = id /\ approvals'[i].decision = "APPROVED"
            /\ approvals'[i].bound = {}
  <2>1. /\ approvals' = Noted(approvals, id, "APPROVED")
        /\ approvals \in Seq(Approval) /\ "APPROVED" \in Decisions
    BY <1>1 DEF TypeOK, Decisions
  <2> HIDE DEF Retry
  <2> QED
    BY <1>1, <2>1, NotedFacts
<1>4. /\ node' \in [Rows -> NodeStatuses] /\ Rows' = Rows
      /\ \A x \in Rows : Gentle(x)
  <2>1. Rows = DOMAIN node /\ node \in [Rows -> NodeStatuses]
    BY <1>1 DEF Rows, TypeOK
  <2> QED
    BY <2>1 DEF NodeStatuses, Gentle, Rows
<1>5. \A i \in DOMAIN approvals' : approvals'[i].node \in Rows'
  BY <1>1, <1>3, <1>4 DEF TypeOK
<1>6. TypeOK'
  BY <1>1, <1>2, <1>3, <1>4, <1>5 DEF TypeOK, RunStatuses
<1>7. WaveIsUndone' /\ QuestionsMove
  BY <1>2, <1>3 DEF WaveIsUndone, QuestionsMove
<1> QED
  BY <1>3, <1>4, <1>6, <1>7, GentleStep

(* Approve and reject decide requests that are open on the row, so on people. *)
LEMMA FirstOpenFacts ==
    ASSUME TypeOK, PeopleAreAsked, NEW id \in Rows, Open(approvals, {id}) # {}
    PROVE  /\ KindOf(id) = "human"
           /\ \A i \in FirstOpen(id) : i \in DOMAIN approvals /\ approvals[i].node = id
BY DEF FirstOpen, Open, PeopleAreAsked

LEMMA ApproveKeeps == Bookkeeping /\ (\E id \in Rows : Approve(id)) => Bookkeeping'
<1> SUFFICES ASSUME Bookkeeping, NEW id \in Rows, Approve(id) PROVE Bookkeeping'
  OBVIOUS
<1> USE DEF Approve
<1>1. TypeOK /\ PeopleAreAsked /\ id \in Ids /\ clock \in Nat
  BY DEF Bookkeeping, TypeOK
<1>2. /\ ops' \in 0 .. MaxOps /\ phase = "parked" /\ wave = {}
      /\ UNCHANGED <<phase, wave, used>>
  BY <1>1, CommandFacts
<1>3. KindOf(id) = "human"
      /\ \A i \in FirstOpen(id) : i \in DOMAIN approvals /\ approvals[i].node = id
  BY <1>1, FirstOpenFacts
<1>4. /\ approvals' \in Seq(Approval) /\ DOMAIN approvals' = DOMAIN approvals
      /\ \A i \in DOMAIN approvals :
            /\ approvals'[i].node = approvals[i].node
            /\ approvals'[i].bound = approvals[i].bound
            /\ approvals'[i].decision = IF i \in FirstOpen(id) THEN "APPROVED"
                                        ELSE approvals[i].decision
  BY <1>1, DecideFacts DEF TypeOK, Decisions
<1>5. /\ node' \in [Rows -> NodeStatuses] /\ Rows' = Rows
      /\ \A x \in Rows : \/ node'[x] = node[x] /\ x # id
                         \/ x = id /\ node'[x] = "PASSED"
                         \/ /\ IsHandoff(id) /\ x = Self(id[1])
                            /\ node'[x] \in {"PENDING", "SKIPPED"}
                            /\ node[x] \in {"FAILED", "ERRORED"}
      /\ IsHandoff(id) /\ Self(id[1]) \in Rows => node'[Self(id[1])] \notin {"FAILED", "ERRORED"}
  <2>1. Rows = DOMAIN node /\ node \in [Rows -> NodeStatuses]
    BY <1>1 DEF Rows, TypeOK
  <2>2. IsHandoff(id) => id # Self(id[1])
    BY DEF IsHandoff, Self
  <2> QED
    BY <2>1, <2>2 DEF Released, NodeStatuses, Rows
<1>6. \A i \in DOMAIN approvals' : approvals'[i].node \in Rows'
  BY <1>1, <1>4, <1>5 DEF TypeOK
<1>7. TypeOK'
  <2> HIDE DEF Approve
  <2>1. UNCHANGED graphVars /\ runStatus' = "RUNNING" /\ clock' = clock + 1
    BY DEF Approve
  <2> QED
    BY <1>1, <1>2, <1>4, <1>5, <1>6, <2>1 DEF TypeOK, RunStatuses
<1>8. WaveIsUndone' /\ GrownByOwner' /\ HandoffsNumbered'
  BY <1>2, <1>5 DEF Bookkeeping, WaveIsUndone, GrownByOwner, HandoffsNumbered
<1>9. QuestionsMove
  BY <1>3, <1>4, <1>5 DEF QuestionsMove
<1>10. PeopleAreAsked' /\ AskedIsAnswerable'
  BY <1>1, <1>5, <1>7, <1>9, QuestionStep DEF Bookkeeping
<1>11. FanoutComplete'
  <2>1. \A f \in Work : Node[f].kind = "fanout" => Self(f) # id
    BY <1>3, SelfFacts
  <2>2. ASSUME NEW f \in Work, Node[f].kind = "fanout", Passed(f)'
        PROVE  Passed(f)
    BY <1>5, <2>1, <2>2 DEF Passed
  <2>3. \A v \in Work : Passed(v) => Passed(v)'
    BY <1>5 DEF Passed
  <2> QED
    BY <1>1, <2>2, <2>3, FanoutStep DEF Bookkeeping, TypeOK
<1>12. FailureIsHandedOff'
  <2>1. ASSUME NEW w \in Work, Judged(w), Broken(w)'
        PROVE  StillHandedOff(w)
    <3>1. Self(w) \in Rows /\ node'[Self(w)] = node[Self(w)] /\ Broken(w)
      BY <1>5, <2>1 DEF Broken
    <3>2. IsHandoff(id) => id[1] # w
      BY <1>5, <2>1 DEF Broken
    <3>3. ASSUME NEW k \in Nat, NEW v \in {"fail", "error"}, <<w, k, v>> \in Rows
          PROVE  node'[<<w, k, v>>] = node[<<w, k, v>>]
      <4>1. IsHandoff(<<w, k, v>>)
        BY <3>3, HandoffRow DEF Bookkeeping
      <4>2. <<w, k, v>> # id /\ <<w, k, v>> # Self(id[1])
        BY <3>2, <4>1 DEF IsHandoff, Self
      <4> QED
        BY <1>5, <3>3, <4>2
    <3>4. attempts'[w] = attempts[w] /\ attempts[w] \in Nat /\ Rows' = Rows
      BY <1>1, <1>5 DEF TypeOK
    <3> QED
      BY <3>1, <3>3, <3>4 DEF StillHandedOff
  <2> QED
    BY <2>1, FailureStep DEF Bookkeeping
<1> QED
  BY <1>7, <1>8, <1>10, <1>11, <1>12 DEF Bookkeeping

LEMMA RejectKeeps == Bookkeeping /\ (\E id \in Rows : Reject(id)) => Bookkeeping'
<1> SUFFICES ASSUME Bookkeeping, NEW id \in Rows, Reject(id) PROVE Bookkeeping'
  OBVIOUS
<1> USE DEF Reject
<1>1. TypeOK /\ PeopleAreAsked /\ id \in Ids /\ clock \in Nat
  BY DEF Bookkeeping, TypeOK
<1>2. /\ ops' \in 0 .. MaxOps /\ phase = "parked" /\ wave = {}
      /\ UNCHANGED <<phase, wave, used>>
  BY <1>1, CommandFacts
<1>3. KindOf(id) = "human"
      /\ \A i \in FirstOpen(id) : i \in DOMAIN approvals /\ approvals[i].node = id
  BY <1>1, FirstOpenFacts
<1>4. /\ approvals' \in Seq(Approval) /\ DOMAIN approvals' = DOMAIN approvals
      /\ \A i \in DOMAIN approvals :
            /\ approvals'[i].node = approvals[i].node
            /\ approvals'[i].bound = approvals[i].bound
            /\ approvals'[i].decision = IF i \in FirstOpen(id) THEN "REJECTED"
                                        ELSE approvals[i].decision
  BY <1>1, DecideFacts DEF TypeOK, Decisions
<1>5. /\ node' \in [Rows -> NodeStatuses] /\ Rows' = Rows
      /\ \A x \in Rows : node'[x] = IF x = id THEN "FAILED" ELSE node[x]
  <2>1. Rows = DOMAIN node /\ node \in [Rows -> NodeStatuses]
    BY <1>1 DEF Rows, TypeOK
  <2> QED
    BY <2>1 DEF NodeStatuses, Rows
<1>6. \A i \in DOMAIN approvals' : approvals'[i].node \in Rows'
  BY <1>1, <1>4, <1>5 DEF TypeOK
<1>7. TypeOK'
  <2> HIDE DEF Reject
  <2>1. UNCHANGED graphVars /\ runStatus' = "FAILED" /\ clock' = clock + 1
    BY DEF Reject
  <2> QED
    BY <1>1, <1>2, <1>4, <1>5, <1>6, <2>1 DEF TypeOK, RunStatuses
<1>8. WaveIsUndone' /\ GrownByOwner' /\ HandoffsNumbered'
  BY <1>2, <1>5 DEF Bookkeeping, WaveIsUndone, GrownByOwner, HandoffsNumbered
<1>9. QuestionsMove
  BY <1>3, <1>4, <1>5 DEF QuestionsMove
<1>10. PeopleAreAsked' /\ AskedIsAnswerable'
  BY <1>1, <1>5, <1>7, <1>9, QuestionStep DEF Bookkeeping
<1>11. FanoutComplete'
  <2>1. \A f \in Work : \A c \in extraNeeds[f] : Self(c) # id
    BY <1>1, <1>3, GrownFacts DEF Bookkeeping
  <2>2. \A f \in Work : Passed(f)' => Passed(f)
    BY <1>5 DEF Passed
  <2>3. \A f \in Work : \A c \in extraNeeds[f] : Passed(c) => Passed(c)'
    BY <1>5, <2>1 DEF Passed
  <2> QED
    BY <1>1, <2>2, <2>3, FanoutStep DEF Bookkeeping, TypeOK
<1>12. FailureIsHandedOff'
  <2>1. ASSUME NEW w \in Work, Judged(w), Broken(w)'
        PROVE  StillHandedOff(w)
    <3>1. Self(w) # id
      BY <1>3, <2>1, SelfFacts DEF Judged
    <3>2. Broken(w) /\ attempts'[w] = attempts[w] /\ attempts[w] \in Nat
      BY <1>1, <1>5, <2>1, <3>1 DEF Broken, TypeOK
    <3> QED
      BY <1>5, <3>2 DEF StillHandedOff
  <2> QED
    BY <2>1, FailureStep DEF Bookkeeping
<1> QED
  BY <1>7, <1>8, <1>10, <1>11, <1>12 DEF Bookkeeping

-------------------------------------------------------------------------------
(* The records of a wave.                                                     *)

LEMMA RecordedFacts ==
    ASSUME TypeOK, NEW id \in wave, Recorded(id)
    PROVE  /\ id \in Rows /\ wave' = wave \ {id}
           /\ phase' \in {"parked", "loop", "wave", "record"}
           /\ phase' \in {"wave", "record"} <=> wave' # {}
           /\ used' \in [Work -> [Plan -> Nat]]
BY DEF Recorded, TypeOK

LEMMA BlockForHumanKeeps ==
    Bookkeeping /\ (\E id \in wave : BlockForHuman(id)) /\ UNCHANGED ops => Bookkeeping'
<1> SUFFICES ASSUME Bookkeeping, NEW id \in wave, BlockForHuman(id), UNCHANGED ops
             PROVE  Bookkeeping'
  OBVIOUS
<1> USE DEF BlockForHuman
<1>1. TypeOK /\ id \in Rows /\ id \in Ids
  BY DEF Bookkeeping, TypeOK
<1>2. /\ wave' = wave \ {id}
      /\ phase' \in {"parked", "loop", "wave", "record"}
      /\ phase' \in {"wave", "record"} <=> wave' # {}
      /\ used' \in [Work -> [Plan -> Nat]]
  BY <1>1, RecordedFacts
<1>3. Bound(id) \in SUBSET (Plan \X Nat)
  <2>1. \A w \in Work : Node[w].binds \subseteq Plan
    BY PlanAssumption DEF NodeFields
  <2>2. id[1] \in Work
    BY <1>1 DEF Ids
  <2> QED
    BY <1>1, <2>1, <2>2, PlanAssumption DEF Bound, TypeOK
<1>4. /\ approvals' \in Seq(Approval)
      /\ DOMAIN approvals \subseteq DOMAIN approvals'
      /\ \A i \in DOMAIN approvals : approvals'[i] = approvals[i]
      /\ Len(approvals) + 1 \in DOMAIN approvals'
      /\ \A i \in DOMAIN approvals' \ DOMAIN approvals :
            approvals'[i].node = id /\ approvals'[i].decision = "PENDING"
  <2>1. approvals \in Seq(Approval) /\ approvals' = Ask(approvals, id, Bound(id))
    BY <1>1 DEF TypeOK
  <2> HIDE DEF BlockForHuman
  <2> QED
    BY <1>1, <1>3, <2>1, AskFacts
<1>5. \E i \in DOMAIN approvals' : approvals'[i].node = id /\ approvals'[i].decision = "PENDING"
  <2>1. Len(approvals) + 1 \notin DOMAIN approvals
    BY <1>1 DEF TypeOK
  <2> QED
    BY <1>4, <2>1
<1>6. /\ node' \in [Rows -> NodeStatuses] /\ Rows' = Rows
      /\ \A x \in Rows : node'[x] = IF x = id THEN "BLOCKED" ELSE node[x]
  <2>1. Rows = DOMAIN node /\ node \in [Rows -> NodeStatuses]
    BY <1>1 DEF Rows, TypeOK
  <2> QED
    BY <2>1 DEF NodeStatuses, Rows
<1>7. \A i \in DOMAIN approvals' : approvals'[i].node \in Rows'
  BY SMTT(30), <1>1, <1>4, <1>6 DEF TypeOK
<1>8. TypeOK'
  <2> HIDE DEF BlockForHuman
  <2>1. UNCHANGED graphVars /\ runStatus' = "BLOCKED" /\ clock' = clock
    BY DEF BlockForHuman
  <2> QED
    BY <1>1, <1>2, <1>4, <1>6, <1>7, <2>1 DEF TypeOK, RunStatuses
<1>9. WaveIsUndone' /\ GrownByOwner' /\ HandoffsNumbered'
  BY <1>2, <1>6 DEF Bookkeeping, WaveIsUndone, GrownByOwner, HandoffsNumbered
<1>10. QuestionsMove
  BY <1>4 DEF QuestionsMove
<1>11. PeopleAreAsked' /\ AskedIsAnswerable'
  BY <1>1, <1>5, <1>6, <1>8, <1>10, QuestionStep DEF Bookkeeping
<1>12. FanoutComplete'
  <2>1. \A f \in Work : \A c \in extraNeeds[f] : Self(c) # id
    BY <1>1, GrownFacts DEF Bookkeeping
  <2>2. \A f \in Work : Passed(f)' => Passed(f)
    BY <1>6 DEF Passed
  <2>3. \A f \in Work : \A c \in extraNeeds[f] : Passed(c) => Passed(c)'
    BY <1>6, <2>1 DEF Passed
  <2> QED
    BY <1>1, <2>2, <2>3, FanoutStep DEF Bookkeeping, TypeOK
<1>13. FailureIsHandedOff'
  <2>1. ASSUME NEW w \in Work, Judged(w), Broken(w)'
        PROVE  StillHandedOff(w)
    <3>1. Broken(w) /\ attempts'[w] = attempts[w] /\ attempts[w] \in Nat
      BY <1>1, <1>6, <2>1 DEF Broken, TypeOK
    <3> QED
      BY <1>6, <3>1 DEF StillHandedOff
  <2> QED
    BY <2>1, FailureStep DEF Bookkeeping
<1> QED
  BY <1>8, <1>9, <1>11, <1>12, <1>13 DEF Bookkeeping

(* What _expand leaves of the rows: the children done stay, the others are to *)
(* be done, and the fan-out is green when no child is outstanding.            *)
LEMMA ExpandedFacts ==
    ASSUME TypeOK, NEW f \in Work, Self(f) \in Rows, Node[f].kind = "fanout",
           NEW shape \in SUBSET (Work \ Plan), node' = Expanded(f, shape)
    PROVE  /\ Rows \subseteq Rows' /\ Rows' \subseteq Ids
           /\ node' \in [Rows' -> NodeStatuses]
           /\ \A x \in Rows' \ Rows : \E c \in shape : x = Self(c)
           /\ \A x \in Rows : \/ node'[x] = node[x]
                              \/ x = Self(f)
                              \/ node[x] # "PASSED" /\ \E c \in shape : x = Self(c)
           /\ \A x \in Rows' : node'[x] = node[x] \/ node'[x] \in {"PASSED", "PENDING"}
           /\ \A x \in Rows' \ {Self(f)} : node'[x] = node[x] \/ node'[x] = "PENDING"
           /\ node'[Self(f)] = "PASSED" =>
                 \A c \in shape : Self(c) \in Rows' /\ node'[Self(c)] = "PASSED"
<1>1. Rows = DOMAIN node /\ node \in [Rows -> NodeStatuses] /\ Rows \subseteq Ids
  BY DEF Rows, TypeOK
<1>2. \A c \in shape : c \in Work /\ Self(c) \in Ids /\ Self(c) # Self(f)
  BY PlanAssumption, SelfFacts
<1>3. \A c \in Outstanding(shape) :
          c \in shape /\ (Self(c) \in Rows => node[Self(c)] # "PASSED")
  BY DEF Outstanding
<1>4. \A c \in shape : c \notin Outstanding(shape) =>
          Self(c) \in Rows /\ node[Self(c)] = "PASSED"
  BY DEF Outstanding
<1>5. Rows' = Rows \cup {Self(c) : c \in shape}
  BY DEF Expanded, Rows
<1>6. \A x \in Rows' : node'[x] =
          IF x = Self(f) THEN IF Outstanding(shape) = {} THEN "PASSED" ELSE "PENDING"
          ELSE IF x \in {Self(c) : c \in Outstanding(shape)} THEN "PENDING"
          ELSE node[x]
  BY <1>5 DEF Expanded
<1>7. \A x \in Rows' \ Rows : \E c \in shape : x = Self(c)
  BY <1>5
<1>8. \A x \in Rows' \ Rows : node'[x] = "PENDING"
  BY <1>3, <1>4, <1>6, <1>7
<1>9. \A x \in Rows' : node'[x] \in NodeStatuses
  BY <1>1, <1>6, <1>8 DEF NodeStatuses
<1>10. node' \in [Rows' -> NodeStatuses]
  BY <1>9 DEF Expanded, Rows
<1>11. node'[Self(f)] = "PASSED" =>
          \A c \in shape : Self(c) \in Rows' /\ node'[Self(c)] = "PASSED"
  <2>1. node'[Self(f)] = "PASSED" => Outstanding(shape) = {}
    BY <1>5, <1>6
  <2> QED
    BY <1>2, <1>4, <1>5, <1>6, <2>1
<1> QED
  BY <1>1, <1>2, <1>3, <1>5, <1>6, <1>7, <1>8, <1>10, <1>11

LEMMA ExpandKeeps ==
    Bookkeeping /\ (\E f \in Work : Expand(f)) /\ UNCHANGED ops => Bookkeeping'
<1> SUFFICES ASSUME Bookkeeping, NEW f \in Work, Expand(f), UNCHANGED ops PROVE Bookkeeping'
  OBVIOUS
<1> USE DEF Bookkeeping
<1>1. /\ Self(f) \in Rows /\ wave' = wave \ {Self(f)} /\ Node[f].kind = "fanout"
      /\ phase' \in {"parked", "loop", "wave", "record"}
      /\ phase' \in {"wave", "record"} <=> wave' # {}
      /\ used' \in [Work -> [Plan -> Nat]]
  <2>1. Recorded(Self(f)) /\ Self(f) \in wave /\ Node[f].kind = "fanout"
    BY DEF Expand, Recorded
  <2> QED
    BY <2>1, RecordedFacts
<1>2. PICK shape \in items[f] :
         node' = Expanded(f, shape) /\ extraNeeds' = [extraNeeds EXCEPT ![f] = shape]
  BY DEF Expand
<1>3. UNCHANGED <<runStatus, attempts, version, items, cleared, owed, decideVars>>
  BY DEF Expand
<1>4. shape \in Node[f].shapes /\ shape \subseteq Owned(f) /\ shape \subseteq Work \ Plan
  <2>1. shape \in Node[f].shapes /\ shape \in SUBSET Work
    BY DEF GrownByOwner, TypeOK
  <2>2. shape \subseteq Owned(f)
    BY <2>1 DEF Owned
  <2> QED
    BY <2>1, <2>2, PlanAssumption
<1>5. /\ Rows \subseteq Rows' /\ Rows' \subseteq Ids
      /\ node' \in [Rows' -> NodeStatuses]
      /\ \A x \in Rows' \ Rows : \E c \in shape : x = Self(c)
      /\ \A x \in Rows : \/ node'[x] = node[x]
                         \/ x = Self(f)
                         \/ node[x] # "PASSED" /\ \E c \in shape : x = Self(c)
      /\ \A x \in Rows' : node'[x] = node[x] \/ node'[x] \in {"PASSED", "PENDING"}
      /\ \A x \in Rows' \ {Self(f)} : node'[x] = node[x] \/ node'[x] = "PENDING"
      /\ node'[Self(f)] = "PASSED" =>
            \A c \in shape : Self(c) \in Rows' /\ node'[Self(c)] = "PASSED"
  BY <1>1, <1>2, <1>4, ExpandedFacts
<1>6. extraNeeds' \in [Work -> SUBSET Work]
      /\ \A w \in Work : extraNeeds'[w] = IF w = f THEN shape ELSE extraNeeds[w]
  BY <1>2, <1>4 DEF TypeOK
<1>7. TypeOK'
  BY <1>1, <1>3, <1>5, <1>6 DEF TypeOK
<1>8. WaveIsUndone' /\ GrownByOwner'
  BY <1>1, <1>3, <1>4, <1>5, <1>6 DEF WaveIsUndone, GrownByOwner, TypeOK
<1>9. HandoffsNumbered'
  <2>1. \A x \in Rows' \ Rows : ~IsHandoff(x) /\ x = Self(x[1])
    BY <1>4, <1>5, SelfFacts
  <2> QED
    BY <1>3, <1>5, <2>1 DEF HandoffsNumbered
<1>10. QuestionsMove
  BY <1>3 DEF QuestionsMove
<1>11. PeopleAreAsked' /\ AskedIsAnswerable'
  <2>1. \A x \in Rows' : node'[x] = "BLOCKED" => x \in Rows /\ node[x] = "BLOCKED"
    <3>1. ASSUME NEW x \in Rows' \ Rows PROVE node'[x] # "BLOCKED"
      <4>1. x # Self(f)
        BY <1>1, <3>1
      <4>2. PICK c \in shape : x = Self(c)
        BY <1>5, <3>1
      <4>3. c \in Outstanding(shape)
        BY <3>1, <4>2 DEF Outstanding
      <4> QED
        BY <1>2, <3>1, <4>1, <4>2, <4>3 DEF Expanded, Rows
    <3> QED
      BY <1>5, <3>1
  <2> QED
    BY <1>3, <1>7, <1>10, <2>1, QuestionStep
<1>12. FanoutComplete'
  <2>1. ASSUME NEW g \in Work, g # f, Node[g].kind = "fanout", Passed(g)'
        PROVE  Passed(g)
    <3>1. g \in Plan /\ Self(g) # Self(f)
      BY <2>1, PlanAssumption, SelfFacts
    <3>2. \A c \in shape : Self(g) # Self(c)
      BY <1>4, <2>1, <3>1, SelfFacts
    <3> QED
      BY <1>5, <2>1, <3>1, <3>2 DEF Passed
  <2>2. ASSUME NEW g \in Work, g # f, NEW c \in extraNeeds[g], Passed(c)
        PROVE  Passed(c)'
    <3>1. c \in Work \ Plan /\ KindOf(Self(c)) = "work"
      BY GrownFacts
    <3>2. Self(c) # Self(f)
      BY <1>1, <3>1, SelfFacts
    <3> QED
      BY <1>5, <2>2, <3>2 DEF Passed
  <2> QED
    BY <1>5, <1>6, <2>1, <2>2 DEF FanoutComplete, Passed
<1>13. FailureIsHandedOff'
  <2>1. ASSUME NEW w \in Work, Broken(w)'
        PROVE  StillHandedOff(w)
    <3>1. Self(w) \in Rows
      BY <1>2, <2>1 DEF Broken, Expanded, Rows, Outstanding
    <3>2. Broken(w) /\ attempts'[w] = attempts[w] /\ attempts[w] \in Nat
      BY <1>3, <1>5, <2>1, <3>1 DEF Broken, TypeOK
    <3> QED
      BY <1>5, <3>2, HandoffRow DEF StillHandedOff
  <2> QED
    BY <2>1, FailureStep
<1> QED
  BY <1>7, <1>8, <1>9, <1>11, <1>12, <1>13

-------------------------------------------------------------------------------
(* A verdict on w and its consequence: before the policy is applied, nd and   *)
(* ap differ from the rows and approvals only in w's own status, in results   *)
(* of the plan and of people that went stale, and in re-opened approvals.     *)
Judging(w, nd, ap) ==
    /\ nd \in [Rows -> NodeStatuses]
    /\ \A x \in Rows \ {Self(w)} :
          \/ nd[x] = node[x]
          \/ /\ node[x] = "PASSED" /\ nd[x] = "STALE"
             /\ KindOf(x) = "human" \/ \E d \in Plan : x = Self(d)
    /\ ap \in Seq(Approval) /\ DOMAIN ap = DOMAIN approvals
    /\ \A i \in DOMAIN ap :
          /\ ap[i].node = approvals[i].node /\ ap[i].bound = approvals[i].bound
          /\ \/ ap[i].decision = approvals[i].decision
             \/ ap[i].decision = "PENDING" /\ approvals[i].bound # {}

LEMMA JudgementKeeps ==
    ASSUME Bookkeeping, NEW w \in Work, Judged(w), Self(w) \in Rows, node[Self(w)] # "PASSED",
           NEW verdict \in Verdicts, NEW signal \in BOOLEAN, NEW nd, NEW ap,
           Judging(w, nd, ap), nd[Self(w)] = StatusFor(verdict),
           ApplyPolicy(w, verdict, signal, nd, ap),
           attempts' = [attempts EXCEPT ![w] = @ + 1],
           version' \in [Work -> Nat], items' \in [Work -> SUBSET (SUBSET Work)],
           \A v \in Work : items'[v] \subseteq Node[v].shapes,
           cleared' \subseteq Work, clock' \in Nat,
           wave' \subseteq wave \ {Self(w)},
           phase' \in {"parked", "loop", "wave", "record"},
           phase' \in {"wave", "record"} <=> wave' # {},
           used' \in [Work -> [Plan -> Nat]], ops' \in 0 .. MaxOps
    PROVE  Bookkeeping'
<1> DEFINE id == <<w, attempts[w] + 1, verdict>>
<1>1. /\ TypeOK /\ WaveIsUndone /\ GrownByOwner /\ PeopleAreAsked /\ HandoffsNumbered
      /\ FanoutComplete /\ AskedIsAnswerable /\ FailureIsHandedOff
  BY DEF Bookkeeping
<1>2. /\ nd \in [Rows -> NodeStatuses]
      /\ \A x \in Rows \ {Self(w)} :
          \/ nd[x] = node[x]
          \/ /\ node[x] = "PASSED" /\ nd[x] = "STALE"
             /\ KindOf(x) = "human" \/ \E d \in Plan : x = Self(d)
  BY DEF Judging
<1>3. /\ ap \in Seq(Approval) /\ DOMAIN ap = DOMAIN approvals
      /\ \A i \in DOMAIN ap :
          /\ ap[i].node = approvals[i].node /\ ap[i].bound = approvals[i].bound
          /\ \/ ap[i].decision = approvals[i].decision
             \/ ap[i].decision = "PENDING" /\ approvals[i].bound # {}
  BY DEF Judging
<1>4. ApprovalsOn(ap, Rows)
  BY <1>1, <1>3 DEF ApprovalsOn, TypeOK
<1>5. PolicyShape(w, verdict, nd, ap)
  BY <1>1, <1>2, <1>4, PolicyEffect
<1>6. attempts[w] \in Nat /\ attempts' \in [Work -> Nat]
      /\ \A v \in Work : attempts'[v] = IF v = w THEN attempts[w] + 1 ELSE attempts[v]
  BY <1>1 DEF TypeOK
<1>7. IsHandoff(id) /\ KindOf(id) = "human" /\ id \notin Rows
  BY <1>1, <1>6 DEF IsHandoff, KindOf, HandoffsNumbered
<1>8. /\ Rows \subseteq Rows' /\ Rows' \subseteq Ids
      /\ node' \in [Rows' -> NodeStatuses]
      /\ \A x \in Rows \ {Self(w)} :
            node'[x] = nd[x] \/ (nd[x] = "SKIPPED" /\ ~IsHandoff(x) /\ node'[x] = "PENDING")
      /\ node'[Self(w)] \in {nd[Self(w)], "PENDING"}
      /\ \A x \in Rows' \ Rows : node'[x] = "PENDING" /\ x \in {id, Self(Node[w].fix)}
  BY <1>5 DEF PolicyShape, Rows
<1>9. /\ DOMAIN ap \subseteq DOMAIN approvals'
      /\ \A i \in DOMAIN ap : approvals'[i] = ap[i]
      /\ \A i \in DOMAIN approvals' \ DOMAIN ap :
            approvals'[i].decision = "PENDING" /\ approvals'[i].node = id
  BY <1>5 DEF PolicyShape
<1>10. TypeOK'
  <2>1. /\ runStatus' \in RunStatuses /\ extraNeeds' \in [Work -> SUBSET Work]
        /\ owed' \subseteq Work /\ ApprovalsOn(approvals', Rows')
    BY <1>5 DEF PolicyShape, Rows
  <2> QED
    BY <1>1, <1>6, <1>8, <2>1 DEF TypeOK, ApprovalsOn
<1>11. WaveIsUndone'
  BY <1>1, <1>2, <1>8 DEF WaveIsUndone, TypeOK
<1>12. GrownByOwner'
  <2>1. \A v \in Work : extraNeeds'[v] \subseteq extraNeeds[v] \cup Owned(v)
    BY <1>5 DEF PolicyShape
  <2> QED
    BY <1>1, <2>1 DEF GrownByOwner
<1>13. HandoffsNumbered'
  <2>1. ASSUME NEW x \in Rows
        PROVE  IF IsHandoff(x) THEN x[2] <= attempts'[x[1]] /\ x[3] # "none"
               ELSE x = Self(x[1])
    <3>1. /\ x[1] \in Work /\ x[2] \in Nat
          /\ IF IsHandoff(x) THEN x[2] <= attempts[x[1]] /\ x[3] # "none"
             ELSE x = Self(x[1])
      BY <1>1 DEF HandoffsNumbered, TypeOK, Ids
    <3>2. attempts[x[1]] \in Nat /\ attempts[x[1]] <= attempts'[x[1]]
                                 /\ attempts'[x[1]] \in Nat
      BY SMTT(30), <1>1, <1>6, <3>1 DEF TypeOK
    <3> QED
      BY <3>1, <3>2
  <2>2. id[2] <= attempts'[id[1]] /\ id[3] # "none"
    BY <1>6 DEF Verdicts
  <2>3. ~IsHandoff(Self(Node[w].fix)) /\ Self(Node[w].fix) = Self(Self(Node[w].fix)[1])
    BY DEF IsHandoff, Self
  <2> HIDE DEF id
  <2> QED
    BY <1>7, <1>8, <2>1, <2>2, <2>3 DEF HandoffsNumbered
<1>14. QuestionsMove
  BY ZenonT(30), <1>3, <1>7, <1>9 DEF QuestionsMove
<1>15. PeopleAreAsked' /\ AskedIsAnswerable'
  <2>1. ASSUME NEW x \in Rows', node'[x] = "BLOCKED"
        PROVE  x \in Rows /\ node[x] = "BLOCKED"
    BY <1>2, <1>8, <2>1 DEF StatusFor
  <2>2. runStatus' = "BLOCKED" =>
           \/ runStatus = "BLOCKED"
           \/ \E i \in DOMAIN approvals' : approvals'[i].decision = "PENDING"
    BY <1>5 DEF PolicyShape
  <2>3. \A i \in DOMAIN approvals :
           approvals[i].decision = "PENDING" => approvals'[i].decision = "PENDING"
    BY <1>3, <1>9
  <2> QED
    BY <1>1, <1>10, <1>14, <2>1, <2>2, <2>3, QuestionStep
<1>16. FanoutComplete'
  <2>1. ASSUME NEW f \in Work, Node[f].kind = "fanout", Passed(f)'
        PROVE  Passed(f) /\ extraNeeds'[f] = extraNeeds[f]
    <3>1. f # w /\ Self(f) # Self(w)
      BY <2>1, SelfFacts DEF Judged
    <3>2. extraNeeds'[f] = extraNeeds[f]
      BY <1>5, <3>1 DEF PolicyShape
    <3> QED
      BY <1>2, <1>8, <2>1, <3>1, <3>2 DEF Passed
  <2>2. ASSUME NEW f \in Work, NEW c \in extraNeeds[f], Passed(c)
        PROVE  Passed(c)'
    <3>1. c \in Work \ Plan /\ KindOf(Self(c)) = "work"
      BY <1>1, GrownFacts
    <3>2. \A d \in Plan : Self(c) # Self(d)
      BY <3>1, PlanAssumption, SelfFacts
    <3>3. Self(c) \in Rows /\ node[Self(c)] = "PASSED" /\ Self(c) # Self(w)
      BY <2>2 DEF Passed
    <3>4. nd[Self(c)] = "PASSED"
      BY <1>2, <3>1, <3>2, <3>3
    <3> QED
      BY <1>8, <3>3, <3>4 DEF Passed
  <2> QED
    BY <1>1, <2>1, <2>2, FanoutStep
<1>17. FailureIsHandedOff'
  <2>1. ASSUME EscalatesOnly(w), Broken(w)'
        PROVE  NewlyHandedOff(w)
    <3>1. node'[Self(w)] # "PENDING" /\ verdict # "pass"
      BY <1>8, <2>1 DEF Broken, StatusFor
    <3>2. id \in Rows' /\ node'[id] = "PENDING"
      BY <1>5, <1>7, <2>1, <3>1 DEF PolicyShape, Rows
    <3>3. id = <<w, attempts'[w], verdict>> /\ verdict \in {"fail", "error"}
      BY <1>6, <3>1 DEF Verdicts
    <3> QED
      BY <3>2, <3>3 DEF NewlyHandedOff
  <2>2. ASSUME NEW v \in Work, v # w, Broken(v)'
        PROVE  StillHandedOff(v)
    <3>1. Self(v) # Self(w)
      BY <2>2, SelfFacts
    <3>2. Broken(v)
      BY <1>2, <1>8, <2>2, <3>1 DEF Broken
    <3>3. ASSUME NEW k \in Nat, NEW u \in {"fail", "error"}, <<v, k, u>> \in Rows,
                 node[<<v, k, u>>] \in {"PENDING", "BLOCKED", "FAILED"}
          PROVE  <<v, k, u>> \in Rows' /\ node'[<<v, k, u>>] = node[<<v, k, u>>]
      <4>1. IsHandoff(<<v, k, u>>) /\ <<v, k, u>> # Self(w)
        BY <1>1, <3>3, HandoffRow
      <4>2. nd[<<v, k, u>>] = node[<<v, k, u>>]
        BY <1>2, <3>3, <4>1
      <4> QED
        BY <1>8, <3>3, <4>1, <4>2
    <3>4. attempts'[v] = attempts[v] /\ attempts[v] \in Nat
      BY <1>1, <1>6, <2>2 DEF TypeOK
    <3> QED
      BY <3>2, <3>3, <3>4 DEF StillHandedOff
  <2> QED
    BY <1>1, <2>1, <2>2, FailureStep
<1> QED
  BY <1>10, <1>11, <1>12, <1>13, <1>15, <1>16, <1>17 DEF Bookkeeping

(* The descendants _invalidate_downstream and invalidate reach are authored.  *)
LEMMA DownstreamFacts == \A w \in Work : Downstream[w] \subseteq Plan
BY DEF Downstream

LEMMA StatusFacts ==
    ASSUME TypeOK, NEW w \in Work, Self(w) \in Rows, NEW verdict \in Verdicts,
           NEW nd, nd = [node EXCEPT ![Self(w)] = StatusFor(verdict)]
    PROVE  /\ nd \in [Rows -> NodeStatuses] /\ nd[Self(w)] = StatusFor(verdict)
           /\ \A x \in Rows \ {Self(w)} : nd[x] = node[x]
<1>1. Rows = DOMAIN node /\ node \in [Rows -> NodeStatuses]
  BY DEF Rows, TypeOK
<1>2. StatusFor(verdict) \in NodeStatuses
  BY DEF StatusFor, NodeStatuses
<1> QED
  BY <1>1, <1>2

LEMMA SourcesFacts ==
    ASSUME TypeOK, GrownByOwner, NEW w \in Work, NEW produced, Stored(w, produced)
    PROVE  /\ version' \in [Work -> Nat] /\ items' \in [Work -> SUBSET (SUBSET Work)]
           /\ \A v \in Work : items'[v] \subseteq Node[v].shapes
<1>1. CASE produced
  <2>1. PICK its \in Sources(w) :
           items' = [f \in Work |-> IF f \in Fed(w) THEN its[f] ELSE items[f]]
    BY <1>1 DEF Stored
  <2>2. \A f \in Fed(w) : its[f] \subseteq Node[f].shapes
    BY <2>1 DEF Sources
  <2>3. \A f \in Work : items'[f] \subseteq Node[f].shapes
    BY <2>1, <2>2 DEF GrownByOwner
  <2>4. \A f \in Work : Node[f].shapes \subseteq SUBSET Work
    BY PlanAssumption DEF NodeFields
  <2>5. items' \in [Work -> SUBSET (SUBSET Work)]
    BY <2>1, <2>3, <2>4
  <2>6. version' = [version EXCEPT ![w] = @ + 1]
    BY <1>1, Zenon DEF Stored
  <2>7. version' \in [Work -> Nat]
    BY <2>6 DEF TypeOK
  <2> QED
    BY <2>3, <2>5, <2>7
<1>2. CASE ~produced
  BY <1>2 DEF Stored, TypeOK, GrownByOwner
<1> QED
  BY <1>1, <1>2

LEMMA InWaveFacts ==
    ASSUME Bookkeeping, NEW w \in Work, Recorded(Self(w)), UNCHANGED ops
    PROVE  /\ Self(w) \in Rows /\ node[Self(w)] # "PASSED"
           /\ wave' \subseteq wave \ {Self(w)}
           /\ phase' \in {"parked", "loop", "wave", "record"}
           /\ phase' \in {"wave", "record"} <=> wave' # {}
           /\ used' \in [Work -> [Plan -> Nat]]
           /\ ops' \in 0 .. MaxOps
<1>1. Self(w) \in wave /\ TypeOK /\ WaveIsUndone
  BY DEF Recorded, Bookkeeping
<1>2. node[Self(w)] # "PASSED" /\ ops' \in 0 .. MaxOps
  BY <1>1 DEF WaveIsUndone, TypeOK
<1> QED
  BY <1>1, <1>2, RecordedFacts

LEMMA RecordWorkKeeps ==
    Bookkeeping /\ (\E w \in Work : RecordWork(w)) /\ UNCHANGED ops => Bookkeeping'
<1> SUFFICES ASSUME Bookkeeping, NEW w \in Work, RecordWork(w), UNCHANGED ops PROVE Bookkeeping'
  OBVIOUS
<1>1. /\ Recorded(Self(w)) /\ Node[w].kind = "work"
      /\ attempts' = [attempts EXCEPT ![w] = @ + 1] /\ UNCHANGED <<cleared, clock>>
  BY DEF RecordWork
<1>2. TypeOK /\ PeopleAreAsked /\ GrownByOwner
  BY DEF Bookkeeping
<1>3. /\ Self(w) \in Rows /\ node[Self(w)] # "PASSED"
      /\ wave' \subseteq wave \ {Self(w)}
      /\ phase' \in {"parked", "loop", "wave", "record"}
      /\ phase' \in {"wave", "record"} <=> wave' # {}
      /\ used' \in [Work -> [Plan -> Nat]]
      /\ ops' \in 0 .. MaxOps
  BY <1>1, InWaveFacts
<1>4. PICK verdict \in WorkVerdicts(w), signal \in Signals(w),
           produced \in (IF Node[w].outputs THEN BOOLEAN ELSE {FALSE}) :
          LET judged == [node EXCEPT ![Self(w)] = StatusFor(verdict)]
              stale  == StaleApprovals(approvals, [version EXCEPT ![w] = @ + 1])
          IN  /\ Stored(w, produced)
              /\ IF ReDerived(w, produced)
                 THEN ApplyPolicy(w, verdict, signal,
                                  Reopened(Staled(judged, Downstream[w]), approvals, stale),
                                  Reverted(approvals, stale))
                 ELSE ApplyPolicy(w, verdict, signal, judged, approvals)
  BY DEF RecordWork
<1>5. PICK judged, stale :
         /\ judged = [node EXCEPT ![Self(w)] = StatusFor(verdict)]
         /\ stale = StaleApprovals(approvals, [version EXCEPT ![w] = @ + 1])
  OBVIOUS
<1>6. /\ verdict \in Verdicts /\ signal \in BOOLEAN /\ Judged(w)
      /\ clock' \in Nat /\ cleared' \subseteq Work /\ Stored(w, produced)
  BY <1>1, <1>2, <1>4 DEF WorkVerdicts, Verdicts, Signals, Judged, TypeOK
<1>7. /\ version' \in [Work -> Nat] /\ items' \in [Work -> SUBSET (SUBSET Work)]
      /\ \A v \in Work : items'[v] \subseteq Node[v].shapes
  BY <1>2, <1>6, SourcesFacts
<1>8. /\ judged \in [Rows -> NodeStatuses] /\ judged[Self(w)] = StatusFor(verdict)
      /\ \A x \in Rows \ {Self(w)} : judged[x] = node[x]
  BY ZenonT(30), <1>2, <1>3, <1>5, <1>6, StatusFacts
<1>9. CASE ReDerived(w, produced)
  <2>1. PICK nd, ap :
           /\ nd = Reopened(Staled(judged, Downstream[w]), approvals, stale)
           /\ ap = Reverted(approvals, stale)
    OBVIOUS
  <2>2. ApplyPolicy(w, verdict, signal, nd, ap)
    BY <1>4, <1>5, <1>9, <2>1
  <2>3. PICK half : half = Staled(judged, Downstream[w])
    OBVIOUS
  <2>4. /\ half \in [Rows -> NodeStatuses]
        /\ \A x \in Rows :
              \/ half[x] = judged[x]
              \/ judged[x] = "PASSED" /\ half[x] = "STALE" /\ \E d \in Plan : x = Self(d)
    BY <1>8, <2>3, DownstreamFacts DEF Staled, NodeStatuses
  <2>5. /\ nd \in [Rows -> NodeStatuses]
        /\ \A x \in Rows :
              \/ nd[x] = half[x]
              \/ half[x] = "PASSED" /\ KindOf(x) = "human" /\ nd[x] = "STALE"
    <3>1. nd = Reopened(half, approvals, stale)
      BY <2>1, <2>3
    <3> QED
      BY <1>2, <1>5, <2>4, <3>1, ReopenedFacts
  <2>6. /\ ap \in Seq(Approval) /\ DOMAIN ap = DOMAIN approvals
        /\ \A i \in DOMAIN approvals :
              /\ ap[i].node = approvals[i].node
              /\ ap[i].bound = approvals[i].bound
              /\ ap[i].decision = IF i \in stale THEN "PENDING" ELSE approvals[i].decision
    BY <1>2, <2>1, RevertFacts DEF TypeOK
  <2>7. \A i \in stale : approvals[i].bound # {}
    BY <1>2, <1>5, StaleFacts
  <2>8. Judging(w, nd, ap)
    BY <1>8, <2>4, <2>5, <2>6, <2>7 DEF Judging
  <2>9. nd[Self(w)] = StatusFor(verdict)
    <3>1. w \notin Downstream[w] /\ \A d \in Downstream[w] : Self(d) # Self(w)
      BY AcyclicAssumption, DownstreamFacts, SelfFacts, PlanAssumption DEF Downstream
    <3>2. half[Self(w)] = judged[Self(w)]
      BY <1>3, <1>8, <2>3, <3>1 DEF Staled
    <3>3. KindOf(Self(w)) # "human"
      BY <1>1, SelfFacts
    <3> QED
      BY <1>3, <1>8, <2>5, <3>2, <3>3
  <2> QED
    BY ZenonT(30), <1>1, <1>3, <1>6, <1>7, <2>2, <2>8, <2>9, JudgementKeeps
<1>10. CASE ~ReDerived(w, produced)
  <2>1. ApplyPolicy(w, verdict, signal, judged, approvals)
    BY <1>4, <1>5, <1>10
  <2>2. Judging(w, judged, approvals)
    BY <1>2, <1>8 DEF Judging, TypeOK
  <2> QED
    BY ZenonT(30), <1>1, <1>3, <1>6, <1>7, <1>8, <2>1, <2>2, JudgementKeeps
<1> QED
  BY <1>9, <1>10

LEMMA RecordBundleKeeps ==
    Bookkeeping /\ (\E w \in Work : RecordBundle(w)) /\ UNCHANGED ops => Bookkeeping'
<1> SUFFICES ASSUME Bookkeeping, NEW w \in Work, RecordBundle(w), UNCHANGED ops PROVE Bookkeeping'
  OBVIOUS
<1>1. /\ Recorded(Self(w)) /\ Node[w].kind = "bundle"
      /\ attempts' = [attempts EXCEPT ![w] = @ + 1] /\ UNCHANGED <<items, clock>>
      /\ cleared' \subseteq cleared \cup {w}
  BY DEF RecordBundle
<1>2. TypeOK /\ GrownByOwner
  BY DEF Bookkeeping
<1>3. /\ Self(w) \in Rows /\ node[Self(w)] # "PASSED"
      /\ wave' \subseteq wave \ {Self(w)}
      /\ phase' \in {"parked", "loop", "wave", "record"}
      /\ phase' \in {"wave", "record"} <=> wave' # {}
      /\ used' \in [Work -> [Plan -> Nat]]
      /\ ops' \in 0 .. MaxOps
  BY <1>1, InWaveFacts
<1>4. PICK verdict \in Verdicts, signal \in Signals(w) :
          /\ version' = [version EXCEPT ![w] = IF verdict = "pass" THEN @ + 1 ELSE @]
          /\ ApplyPolicy(w, verdict, signal, [node EXCEPT ![Self(w)] = StatusFor(verdict)],
                         approvals)
  BY DEF RecordBundle
<1>5. PICK judged : judged = [node EXCEPT ![Self(w)] = StatusFor(verdict)]
  OBVIOUS
<1>6. /\ judged \in [Rows -> NodeStatuses] /\ judged[Self(w)] = StatusFor(verdict)
      /\ \A x \in Rows \ {Self(w)} : judged[x] = node[x]
  BY ZenonT(30), <1>2, <1>3, <1>5, StatusFacts
<1>7. Judging(w, judged, approvals) /\ Judged(w)
  BY <1>1, <1>2, <1>6 DEF Judging, Judged, TypeOK
<1>8. /\ version' \in [Work -> Nat] /\ items' \in [Work -> SUBSET (SUBSET Work)]
      /\ \A v \in Work : items'[v] \subseteq Node[v].shapes /\ clock' \in Nat
      /\ cleared' \subseteq Work
  BY <1>1, <1>2, <1>4 DEF TypeOK, GrownByOwner
<1>9. ApplyPolicy(w, verdict, signal, judged, approvals)
  BY <1>4, <1>5
<1>10. signal \in BOOLEAN
  BY DEF Signals
<1> QED
  BY <1>1, <1>3, <1>6, <1>7, <1>8, <1>9, <1>10, JudgementKeeps

LEMMA RecheckFailsKeeps == Bookkeeping /\ (\E w \in Work : RecheckFails(w)) => Bookkeeping'
<1> SUFFICES ASSUME Bookkeeping, NEW w \in Work, RecheckFails(w) PROVE Bookkeeping'
  OBVIOUS
<1>1. /\ Command /\ Node[w].kind \in {"work", "bundle"} /\ Self(w) \in Rows
      /\ node[Self(w)] \in {"FAILED", "ERRORED"}
      /\ attempts' = [attempts EXCEPT ![w] = @ + 1]
      /\ UNCHANGED <<version, items, clock>> /\ cleared' \subseteq cleared
  BY DEF RecheckFails, Rechecking
<1>2. TypeOK /\ GrownByOwner
  BY DEF Bookkeeping
<1>3. /\ ops' \in 0 .. MaxOps /\ phase = "parked" /\ wave = {}
      /\ UNCHANGED <<phase, wave, used>>
  BY <1>1, <1>2, CommandFacts
<1>4. PICK verdict \in {"fail", "error"} :
          ApplyPolicy(w, verdict, FALSE, [node EXCEPT ![Self(w)] = StatusFor(verdict)],
                      approvals)
  BY DEF RecheckFails
<1>5. PICK judged : judged = [node EXCEPT ![Self(w)] = StatusFor(verdict)]
  OBVIOUS
<1>6. verdict \in Verdicts
  BY DEF Verdicts
<1>7. /\ judged \in [Rows -> NodeStatuses] /\ judged[Self(w)] = StatusFor(verdict)
      /\ \A x \in Rows \ {Self(w)} : judged[x] = node[x]
  BY ZenonT(30), <1>1, <1>2, <1>5, <1>6, StatusFacts
<1>8. Judging(w, judged, approvals) /\ Judged(w)
  BY <1>1, <1>2, <1>7 DEF Judging, Judged, TypeOK
<1>9. /\ version' \in [Work -> Nat] /\ items' \in [Work -> SUBSET (SUBSET Work)]
      /\ \A v \in Work : items'[v] \subseteq Node[v].shapes
      /\ cleared' \subseteq Work /\ clock' \in Nat
      /\ used' \in [Work -> [Plan -> Nat]]
      /\ wave' \subseteq wave \ {Self(w)}
      /\ phase' \in {"parked", "loop", "wave", "record"}
      /\ phase' \in {"wave", "record"} <=> wave' # {}
  BY <1>1, <1>2, <1>3 DEF TypeOK, GrownByOwner
<1>10. ApplyPolicy(w, verdict, FALSE, judged, approvals)
  BY <1>4, <1>5
<1> QED
  BY <1>1, <1>3, <1>6, <1>7, <1>8, <1>9, <1>10, JudgementKeeps

LEMMA RecheckPassesKeeps == Bookkeeping /\ (\E w \in Work : RecheckPasses(w)) => Bookkeeping'
<1> SUFFICES ASSUME Bookkeeping, NEW w \in Work, RecheckPasses(w) PROVE Bookkeeping'
  OBVIOUS
<1> DEFINE H == Handoffs({w})
<1>1. /\ Command /\ Node[w].kind \in {"work", "bundle"} /\ Self(w) \in Rows
      /\ node[Self(w)] \in {"FAILED", "ERRORED"}
      /\ attempts' = [attempts EXCEPT ![w] = @ + 1]
      /\ UNCHANGED <<version, items, extraNeeds, cleared, owed>>
      /\ approvals' = Decide(approvals, Open(approvals, H), "REJECTED")
      /\ clock' = clock + 1 /\ runStatus' = "RUNNING"
  BY DEF RecheckPasses, Rechecking
<1>2. /\ TypeOK /\ GrownByOwner /\ PeopleAreAsked /\ HandoffsNumbered
      /\ FanoutComplete /\ AskedIsAnswerable /\ FailureIsHandedOff
  BY DEF Bookkeeping
<1>3. /\ ops' \in 0 .. MaxOps /\ phase = "parked" /\ wave = {}
      /\ UNCHANGED <<phase, wave, used>>
  BY <1>1, <1>2, CommandFacts
<1>4. PICK signal \in Signals(w) :
          node' = IF signal THEN Activated(Retired([node EXCEPT ![Self(w)] = "PASSED"], H),
                                           Node[w].onEscalate)
                  ELSE Retired([node EXCEPT ![Self(w)] = "PASSED"], H)
  BY DEF RecheckPasses
<1>5. PICK half : half = Retired([node EXCEPT ![Self(w)] = "PASSED"], H)
  OBVIOUS
<1>6. \A x \in H : x \in Rows /\ IsHandoff(x) /\ x[1] = w /\ x # Self(w)
  BY DEF Handoffs, IsHandoff, Self
<1>7. /\ half \in [Rows -> NodeStatuses]
      /\ \A x \in Rows : half[x] = IF x \in H THEN "SKIPPED"
                                   ELSE IF x = Self(w) THEN "PASSED" ELSE node[x]
  <2>1. Rows = DOMAIN node /\ node \in [Rows -> NodeStatuses]
    BY <1>2 DEF Rows, TypeOK
  <2> HIDE DEF H
  <2> QED
    BY <1>1, <1>5, <2>1 DEF Retired, NodeStatuses
<1>8. /\ Rows' = Rows /\ node' \in [Rows -> NodeStatuses]
      /\ \A x \in Rows :
            node'[x] = half[x] \/ (half[x] = "SKIPPED" /\ ~IsHandoff(x) /\ node'[x] = "PENDING")
  <2>1. node' = half \/ node' = Activated(half, Node[w].onEscalate)
    BY <1>4, <1>5
  <2>2. half \in [Rows -> NodeStatuses]
    BY <1>7
  <2> HIDE DEF H
  <2>3. CASE node' = half
    <3>1. Rows' = Rows
      BY <2>2, <2>3 DEF Rows
    <3> QED
      BY <2>2, <2>3, <3>1
  <2>4. CASE node' = Activated(half, Node[w].onEscalate)
    <3>1. DOMAIN half = Rows
      BY <2>2
    <3>2. \A x \in Rows :
             node'[x] = half[x] \/ (half[x] = "SKIPPED" /\ ~IsHandoff(x) /\ node'[x] = "PENDING")
      BY <2>4, <3>1 DEF Activated
    <3>3. node' = [x \in Rows |-> node'[x]]
      BY <2>4, <3>1 DEF Activated
    <3>4. \A x \in Rows : node'[x] \in NodeStatuses
      BY <2>2, <3>2 DEF NodeStatuses
    <3>5. node' \in [Rows -> NodeStatuses]
      BY <3>3, <3>4
    <3>6. Rows' = Rows
      BY <3>3 DEF Rows
    <3> QED
      BY <3>2, <3>5, <3>6
  <2> QED
    BY <2>1, <2>3, <2>4
<1>9. /\ approvals' \in Seq(Approval) /\ DOMAIN approvals' = DOMAIN approvals
      /\ \A i \in DOMAIN approvals :
            /\ approvals'[i].node = approvals[i].node
            /\ approvals'[i].bound = approvals[i].bound
            /\ approvals'[i].decision = IF i \in Open(approvals, H) THEN "REJECTED"
                                        ELSE approvals[i].decision
  <2>1. approvals \in Seq(Approval) /\ clock \in Nat /\ "REJECTED" \in Decisions
    BY <1>2 DEF TypeOK, Decisions
  <2> HIDE DEF H
  <2> QED
    BY <1>1, <2>1, DecideFacts
<1> HIDE DEF H
<1>10. TypeOK'
  <2>1. \A i \in DOMAIN approvals' : approvals'[i].node \in Rows'
    BY <1>2, <1>8, <1>9 DEF TypeOK
  <2> QED
    BY <1>1, <1>2, <1>3, <1>8, <1>9, <2>1 DEF TypeOK, RunStatuses
<1>11. WaveIsUndone' /\ GrownByOwner' /\ HandoffsNumbered'
  <2>1. ASSUME NEW x \in Rows
        PROVE  IsHandoff(x) => x[2] <= attempts'[x[1]]
    <3>1. /\ x[1] \in Work /\ x[2] \in Nat
          /\ IsHandoff(x) => x[2] <= attempts[x[1]]
      BY <1>2 DEF HandoffsNumbered, TypeOK, Ids
    <3>2. attempts[x[1]] \in Nat /\ attempts'[x[1]] \in {attempts[x[1]], attempts[x[1]] + 1}
      BY <1>1, <1>2, <3>1 DEF TypeOK
    <3> QED
      BY <3>1, <3>2
  <2> QED
    BY <1>1, <1>2, <1>3, <1>8, <2>1 DEF WaveIsUndone, GrownByOwner, HandoffsNumbered
<1>12. QuestionsMove
  <2>1. \A i \in Open(approvals, H) : approvals[i].node \in H
    BY DEF Open
  <2>2. \A x \in H : node'[x] = "SKIPPED"
    BY <1>6, <1>7, <1>8
  <2> QED
    BY <1>9, <2>1, <2>2 DEF QuestionsMove
<1>13. PeopleAreAsked' /\ AskedIsAnswerable'
  BY <1>1, <1>2, <1>7, <1>8, <1>10, <1>12, QuestionStep
<1>14. FanoutComplete'
  <2>1. ASSUME NEW f \in Work, Node[f].kind = "fanout", Passed(f)'
        PROVE  Passed(f)
    <3>1. Self(f) # Self(w)
      BY <1>1, <2>1, SelfFacts
    <3> QED
      BY <1>7, <1>8, <2>1, <3>1 DEF Passed
  <2>2. ASSUME NEW c \in Work, Passed(c)
        PROVE  Passed(c)'
    <3>1. Self(c) \notin H
      BY <1>6, SelfFacts
    <3> QED
      BY <1>7, <1>8, <2>2, <3>1 DEF Passed
  <2> QED
    BY <1>1, <1>2, <2>1, <2>2, FanoutStep DEF TypeOK
<1>15. FailureIsHandedOff'
  <2>1. ASSUME NEW v \in Work, Broken(v)'
        PROVE  StillHandedOff(v)
    <3>1. Self(v) \notin H /\ v # w
      BY <1>1, <1>6, <1>7, <1>8, <2>1, SelfFacts DEF Broken
    <3>2. Broken(v) /\ Self(v) # Self(w)
      BY <1>7, <1>8, <2>1, <3>1, SelfFacts DEF Broken
    <3>3. ASSUME NEW k \in Nat, NEW u \in {"fail", "error"}, <<v, k, u>> \in Rows
          PROVE  node'[<<v, k, u>>] = node[<<v, k, u>>]
      <4>1. IsHandoff(<<v, k, u>>) /\ <<v, k, u>> # Self(w)
        BY <1>2, <3>3, HandoffRow
      <4>2. <<v, k, u>> \notin H
        BY <1>6, <3>1
      <4> QED
        BY <1>7, <1>8, <3>3, <4>1, <4>2
    <3>4. attempts'[v] = attempts[v] /\ attempts[v] \in Nat
      BY <1>1, <1>2, <3>1 DEF TypeOK
    <3> QED
      BY <1>8, <3>2, <3>3, <3>4 DEF StillHandedOff
  <2> QED
    BY <1>2, <2>1, FailureStep
<1> QED
  BY <1>10, <1>11, <1>13, <1>14, <1>15 DEF Bookkeeping

LEMMA InvalidateKeeps == Bookkeeping /\ (\E n \in Plan : Invalidate(n)) => Bookkeeping'
<1> SUFFICES ASSUME Bookkeeping, NEW n \in Plan, Invalidate(n) PROVE Bookkeeping'
  OBVIOUS
<1>1. /\ Command /\ node' = Withdrawn(n)
      /\ approvals' = Noted(Decide(approvals, Open(approvals, Moot(n) \cup BuiltOn(n)), "REJECTED"),
                            Self(n), "REJECTED")
      /\ clock' = clock + 1 /\ extraNeeds' = [extraNeeds EXCEPT ![n] = {}]
      /\ owed' = owed \ {n} /\ runStatus' = "RUNNING"
      /\ UNCHANGED <<attempts, version, items, cleared>>
  BY DEF Invalidate
<1>2. /\ TypeOK /\ GrownByOwner /\ PeopleAreAsked /\ HandoffsNumbered
      /\ FanoutComplete /\ AskedIsAnswerable /\ FailureIsHandedOff
  BY DEF Bookkeeping
<1>3. /\ ops' \in 0 .. MaxOps /\ phase = "parked" /\ wave = {}
      /\ UNCHANGED <<phase, wave, used>>
  BY <1>1, <1>2, CommandFacts
<1>4. n \in Work /\ Self(n) \in Rows /\ Self(n) \in Ids
  BY <1>2, PlanAssumption DEF TypeOK
<1>5. PICK moot, children, builtOn :
         /\ moot = Moot(n) /\ children = {Self(c) : c \in Reclaimed(n)} /\ builtOn = BuiltOn(n)
  OBVIOUS
<1>6. /\ Rows' = Rows /\ node' \in [Rows -> NodeStatuses]
      /\ \A x \in Rows : node'[x] = IF x = Self(n) THEN "PENDING"
                                    ELSE IF x \in moot \cup children THEN "SKIPPED"
                                    ELSE IF x \in builtOn THEN "STALE" ELSE node[x]
  <2>1. node \in [Rows -> NodeStatuses]
    BY <1>2 DEF TypeOK
  <2> QED
    BY <1>1, <1>5, <2>1 DEF Withdrawn, NodeStatuses, Rows
<1>7. /\ \A x \in moot : IsHandoff(x) /\ x \in Rows
      /\ \A x \in builtOn : \E d \in Plan : x = Self(d)
      /\ \A x \in children : \E c \in extraNeeds[n] : x = Self(c)
  <2>1. \A x \in moot : IsHandoff(x) /\ x \in Rows
    BY <1>5 DEF Moot, Handoffs
  <2>2. \A x \in builtOn : \E d \in Plan : x = Self(d)
    BY <1>4, <1>5, DownstreamFacts DEF BuiltOn
  <2>3. \A x \in children : \E c \in extraNeeds[n] : x = Self(c)
    BY <1>5 DEF Reclaimed
  <2> QED
    BY <2>1, <2>2, <2>3
<1>8. PICK ap : ap = Decide(approvals, Open(approvals, moot \cup builtOn), "REJECTED")
  OBVIOUS
<1>9. /\ ap \in Seq(Approval) /\ DOMAIN ap = DOMAIN approvals
      /\ \A i \in DOMAIN approvals :
            /\ ap[i].node = approvals[i].node /\ ap[i].bound = approvals[i].bound
            /\ ap[i].decision = IF i \in Open(approvals, moot \cup builtOn) THEN "REJECTED"
                                ELSE approvals[i].decision
  <2>1. approvals \in Seq(Approval) /\ clock \in Nat /\ "REJECTED" \in Decisions
    BY <1>2 DEF TypeOK, Decisions
  <2> QED
    BY <1>8, <2>1, DecideFacts
<1>10. /\ approvals' \in Seq(Approval) /\ DOMAIN ap \subseteq DOMAIN approvals'
       /\ \A i \in DOMAIN ap : approvals'[i] = ap[i]
       /\ \A i \in DOMAIN approvals' \ DOMAIN ap :
             /\ approvals'[i].node = Self(n) /\ approvals'[i].decision = "REJECTED"
             /\ approvals'[i].bound = {}
  <2>1. approvals' = Noted(ap, Self(n), "REJECTED")
    BY <1>1, <1>5, <1>8
  <2>2. clock \in Nat /\ "REJECTED" \in Decisions
    BY <1>2 DEF TypeOK, Decisions
  <2> QED
    BY <1>4, <1>9, <2>1, <2>2, NotedFacts
<1>11. extraNeeds' \in [Work -> SUBSET Work]
       /\ \A v \in Work : extraNeeds'[v] = IF v = n THEN {} ELSE extraNeeds[v]
  BY <1>1, <1>2 DEF TypeOK
<1>12. TypeOK'
  <2>1. \A i \in DOMAIN approvals' : approvals'[i].node \in Rows'
    BY ZenonT(30), <1>2, <1>4, <1>6, <1>9, <1>10 DEF TypeOK
  <2>2. /\ clock' \in Nat /\ owed' \subseteq Work /\ attempts' \in [Work -> Nat]
        /\ version' \in [Work -> Nat] /\ items' \in [Work -> SUBSET (SUBSET Work)]
        /\ runStatus' \in RunStatuses /\ cleared' \subseteq Work
    BY <1>1, <1>2 DEF TypeOK, RunStatuses
  <2>3. /\ Rows' \subseteq Ids /\ {Self(w) : w \in Plan} \subseteq Rows'
        /\ wave' \subseteq Rows' /\ phase' \in {"parked", "loop", "wave", "record"}
        /\ phase' \in {"wave", "record"} <=> wave' # {}
        /\ used' \in [Work -> [Plan -> Nat]]
    BY <1>2, <1>3, <1>6 DEF TypeOK
  <2> QED
    BY <1>3, <1>6, <1>10, <1>11, <2>1, <2>2, <2>3 DEF TypeOK
<1>13. WaveIsUndone' /\ GrownByOwner' /\ HandoffsNumbered'
  BY <1>1, <1>2, <1>3, <1>6, <1>11 DEF WaveIsUndone, GrownByOwner, HandoffsNumbered
<1>14. QuestionsMove
  <2>1. \A i \in Open(approvals, moot \cup builtOn) : approvals[i].node \in moot \cup builtOn
    BY DEF Open
  <2>2. \A x \in moot \cup builtOn : x \in Rows => node'[x] # "BLOCKED"
    BY <1>6
  <2>3. \A i \in DOMAIN approvals : approvals[i].node \in Rows
    BY <1>2 DEF TypeOK
  <2> QED
    BY <1>9, <1>10, <2>1, <2>2, <2>3 DEF QuestionsMove
<1>15. PeopleAreAsked' /\ AskedIsAnswerable'
  <2>1. \A x \in Rows' : node'[x] = "BLOCKED" => x \in Rows /\ node[x] = "BLOCKED"
    BY <1>6
  <2>2. runStatus' # "BLOCKED"
    BY <1>1
  <2> QED
    BY <1>2, <1>12, <1>14, <2>1, <2>2, QuestionStep
<1>16. FanoutComplete'
  <2>1. ASSUME NEW f \in Work, Node[f].kind = "fanout", Passed(f)'
        PROVE  f # n /\ Passed(f)
    BY <1>6, <2>1 DEF Passed
  <2>2. ASSUME NEW f \in Work, f # n, NEW c \in extraNeeds[f], Passed(c)
        PROVE  Passed(c)'
    <3>1. c \in Work \ Plan /\ KindOf(Self(c)) = "work" /\ c \in Owned(f)
      BY <1>2, GrownFacts
    <3>2. Self(c) \notin builtOn /\ Self(c) # Self(n)
      BY <1>4, <1>7, <3>1, PlanAssumption, SelfFacts
    <3>3. Self(c) \notin moot
      BY <1>7, <3>1, SelfFacts
    <3>4. Self(c) \notin children
      <4>1. SUFFICES ASSUME NEW d \in extraNeeds[n], Self(c) = Self(d) PROVE FALSE
        BY <1>7
      <4>2. d \in Work /\ d \in Owned(n)
        BY <1>2, <1>4, GrownFacts
      <4>3. d = c
        BY <3>1, <4>1, <4>2, SelfFacts
      <4> QED
        BY <1>4, <2>2, <3>1, <4>2, <4>3, PlanAssumption
    <3> QED
      BY <1>6, <2>2, <3>2, <3>3, <3>4 DEF Passed
  <2> QED
    BY <1>2, <1>11, <2>1, <2>2, FanoutStep
<1>17. FailureIsHandedOff'
  <2>1. ASSUME NEW w \in Work, Broken(w)'
        PROVE  StillHandedOff(w)
    <3>1. Self(w) \in Rows /\ Self(w) \notin moot \cup children \cup builtOn /\ w # n
          /\ Broken(w)
      BY <1>6, <2>1 DEF Broken
    <3>2. w \notin Downstream[n] /\ w \notin Reclaimed(n)
      BY <1>5, <3>1 DEF BuiltOn, Broken
    <3>3. \A k, u : <<w, k, u>> \notin moot
      BY <1>5, <3>1, <3>2 DEF Moot, Handoffs
    <3>4. ASSUME NEW k \in Nat, NEW u \in {"fail", "error"}, <<w, k, u>> \in Rows
          PROVE  node'[<<w, k, u>>] = node[<<w, k, u>>]
      <4>1. \A x : <<w, k, u>> # Self(x)
        BY <1>2, <3>4, HandoffRow
      <4> QED
        BY <1>6, <1>7, <3>3, <3>4, <4>1
    <3>5. attempts'[w] = attempts[w] /\ attempts[w] \in Nat
      BY <1>1, <1>2 DEF TypeOK
    <3> QED
      BY <1>6, <3>1, <3>4, <3>5 DEF StillHandedOff
  <2> QED
    BY <1>2, <2>1, FailureStep
<1> QED
  BY <1>12, <1>13, <1>15, <1>16, <1>17 DEF Bookkeeping

-------------------------------------------------------------------------------
LEMMA NextKeeps == Bookkeeping /\ [Next]_vars => Bookkeeping'
<1> SUFFICES ASSUME Bookkeeping, [Next]_vars PROVE Bookkeeping'
  OBVIOUS
<1>1. CASE Driver /\ UNCHANGED ops
  BY <1>1, DispatchKeeps, BlockForHumanKeeps, ExpandKeeps, RecordWorkKeeps,
     RecordBundleKeeps, ExpandRaisesKeeps, SettleKeeps DEF Driver
<1>2. CASE (Resume \/ Crash) /\ UNCHANGED ops
  BY <1>2, ResumeKeeps, CrashKeeps
<1>3. CASE Operator
  BY <1>3, ApproveKeeps, RejectKeeps, RetryKeeps, InvalidateKeeps, RecheckPassesKeeps,
     RecheckFailsKeeps, StopKeeps, RollbackKeeps DEF Operator
<1>4. CASE UNCHANGED vars
  <2>1. /\ UNCHANGED <<runStatus, node, attempts, extraNeeds, version, items, cleared, owed>>
        /\ UNCHANGED <<approvals, clock, phase, wave, used, ops>>
    BY <1>4 DEF vars
  <2> QED
    BY <2>1 DEF Bookkeeping, TypeOK, WaveIsUndone, GrownByOwner, PeopleAreAsked,
       HandoffsNumbered, FanoutComplete, AskedIsAnswerable, FailureIsHandedOff,
       Passed, Broken, Rows, Open, Judged
<1> QED
  BY <1>1, <1>2, <1>3, <1>4 DEF Next

(* Every state of every run keeps the bookkeeping of the engine.              *)
LEMMA BookkeepingHolds == Spec => []Bookkeeping
BY InitHolds, NextKeeps, PTL DEF Spec

-------------------------------------------------------------------------------
(* Only a dispatch starts a row, and it starts its own wave.                  *)

(* No consequence of a verdict starts a row: S is what still runs.            *)
LEMMA PolicyStartsNothing ==
    ASSUME NEW w, NEW verdict, NEW signal, NEW nd, NEW as, NEW S,
           ApplyPolicy(w, verdict, signal, nd, as),
           nd = [x \in DOMAIN nd |-> nd[x]],
           \A x \in DOMAIN nd : nd[x] = "RUNNING" => x \in S
    PROVE  \A x \in DOMAIN node' : node'[x] = "RUNNING" => x \in S
<1> DEFINE action == RespondTo(verdict, Node[w].policy, attempts[w] + 1)
<1>1. CASE Proceed(w, nd, as, signal)
  BY <1>1 DEF Proceed, Activated
<1>2. CASE RetryNode(w, nd, as)
  BY <1>2 DEF RetryNode
<1>3. CASE InsertFix(w, nd, as)
  BY <1>3 DEF InsertFix, WithRow
<1>4. CASE Escalate(w, nd, as, <<w, attempts[w] + 1, verdict>>)
  BY <1>4 DEF Escalate, WithRow
<1>5. CASE node' = nd
  BY <1>5
<1> QED
  BY <1>1, <1>2, <1>3, <1>4, <1>5 DEF ApplyPolicy, Halt

LEMMA OnlyDispatchStarts == Bookkeeping /\ OnlyTheWaveRuns /\ [Next]_vars => OnlyTheWaveRuns'
<1> SUFFICES ASSUME Bookkeeping, OnlyTheWaveRuns, [Next]_vars PROVE OnlyTheWaveRuns'
  OBVIOUS
<1> USE DEF OnlyTheWaveRuns
<1>1. TypeOK /\ TypeOK' /\ node = [x \in Rows |-> node[x]]
  BY NextKeeps DEF Bookkeeping, TypeOK
<1>2. CASE Dispatch
  <2>1. wave = {}
    BY <1>1, <1>2 DEF Dispatch, TypeOK
  <2> QED
    BY <1>2, <2>1 DEF Dispatch, Rows
<1>3. CASE Crash \/ ExpandRaises \/ Settle \/ Operator
  <2>1. phase' = "parked"
    BY <1>3 DEF Crash, ExpandRaises, Settle, Operator, Approve, Reject, Retry, Invalidate,
       RecheckPasses, RecheckFails, Rechecking, Stop, Rollback, Command
  <2> QED
    BY <2>1
<1>4. CASE Resume
  <2> DEFINE stale == StaleApprovals(approvals, version)
  <2>1. \A x \in Rows : Redo(node)[x] # "RUNNING"
    BY <1>1, RedoFacts
  <2>2. node' = Reopened(Redo(node), approvals, stale) /\ DOMAIN Redo(node) = Rows
    BY <1>4 DEF Resume, Redo, Rows
  <2> QED
    BY <2>1, <2>2 DEF Reopened, Rows
<1>5. ASSUME NEW id \in wave, Recorded(id),
             \A x \in Rows' : node'[x] = "RUNNING" => x \in {y \in Rows : node[y] = "RUNNING"} \ {id}
      PROVE  OnlyTheWaveRuns'
  BY <1>1, <1>5 DEF Recorded, TypeOK
<1>6. ASSUME NEW id \in wave, BlockForHuman(id)
      PROVE  OnlyTheWaveRuns'
  <2>1. \A x \in Rows' : node'[x] = "RUNNING" => x \in {y \in Rows : node[y] = "RUNNING"} \ {id}
    BY <1>1, <1>6 DEF BlockForHuman, Rows
  <2> QED
    BY <1>5, <1>6, <2>1 DEF BlockForHuman
<1>7. ASSUME NEW f \in Work, Expand(f)
      PROVE  OnlyTheWaveRuns'
  <2>1. \A x \in Rows' : node'[x] = "RUNNING" => x \in {y \in Rows : node[y] = "RUNNING"} \ {Self(f)}
    <3>1. PICK shape \in items[f] : node' = Expanded(f, shape)
      BY <1>7 DEF Expand
    <3>2. \A c \in shape : Self(c) \notin Rows => c \in Outstanding(shape)
      BY DEF Outstanding
    <3> QED
      BY <3>1, <3>2 DEF Expanded, Rows
  <2>2. Self(f) \in wave /\ Recorded(Self(f))
    BY <1>7 DEF Expand, Recorded
  <2> QED
    BY <1>5, <2>1, <2>2
<1>8. ASSUME NEW w \in Work, NEW verdict \in Verdicts, NEW signal, NEW nd, NEW as,
             Recorded(Self(w)), ApplyPolicy(w, verdict, signal, nd, as),
             nd = [x \in Rows |-> nd[x]],
             \A x \in Rows : nd[x] = "RUNNING" => node[x] = "RUNNING" /\ x # Self(w)
      PROVE  OnlyTheWaveRuns'
  <2> DEFINE S == {y \in Rows : node[y] = "RUNNING"} \ {Self(w)}
  <2>1. \A x \in DOMAIN nd : nd[x] = "RUNNING" => x \in S
    BY <1>8
  <2>2. nd = [x \in DOMAIN nd |-> nd[x]]
    BY <1>8
  <2>3. \A x \in DOMAIN node' : node'[x] = "RUNNING" => x \in S
    <3> HIDE DEF S
    <3> QED
      BY <1>8, <2>1, <2>2, PolicyStartsNothing
  <2>4. Self(w) \in wave
    BY <1>8 DEF Recorded
  <2> QED
    BY <1>5, <1>8, <2>3, <2>4 DEF Rows
<1>9. ASSUME NEW w \in Work, RecordWork(w)
      PROVE  OnlyTheWaveRuns'
  <2> DEFINE judged(verdict) == [node EXCEPT ![Self(w)] = StatusFor(verdict)]
             stale == StaleApprovals(approvals, [version EXCEPT ![w] = @ + 1])
             redone(verdict) == Reopened(Staled(judged(verdict), Downstream[w]), approvals, stale)
  <2>1. Recorded(Self(w)) /\ Self(w) \in Rows
    BY <1>1, <1>9 DEF RecordWork, Recorded, TypeOK
  <2>2. ASSUME NEW verdict
        PROVE  /\ judged(verdict) = [x \in Rows |-> judged(verdict)[x]]
               /\ redone(verdict) = [x \in Rows |-> redone(verdict)[x]]
               /\ \A x \in Rows : judged(verdict)[x] = "RUNNING" => node[x] = "RUNNING" /\ x # Self(w)
               /\ \A x \in Rows : redone(verdict)[x] = "RUNNING" => judged(verdict)[x] = "RUNNING"
    BY <1>1, <2>1 DEF StatusFor, Reopened, Staled, Rows
  <2>3. PICK verdict \in WorkVerdicts(w), signal \in Signals(w) :
            \/ ApplyPolicy(w, verdict, signal, redone(verdict), Reverted(approvals, stale))
            \/ ApplyPolicy(w, verdict, signal, judged(verdict), approvals)
    BY <1>9 DEF RecordWork
  <2>4. verdict \in Verdicts
    BY <2>3 DEF WorkVerdicts, Verdicts
  <2> HIDE DEF judged, redone
  <2>5. CASE ApplyPolicy(w, verdict, signal, redone(verdict), Reverted(approvals, stale))
    BY <1>8, <2>1, <2>2, <2>4, <2>5
  <2>6. CASE ApplyPolicy(w, verdict, signal, judged(verdict), approvals)
    BY <1>8, <2>1, <2>2, <2>4, <2>6
  <2> QED
    BY <2>3, <2>5, <2>6
<1>10. ASSUME NEW w \in Work, RecordBundle(w)
       PROVE  OnlyTheWaveRuns'
  <2> DEFINE judged(verdict) == [node EXCEPT ![Self(w)] = StatusFor(verdict)]
  <2>1. Recorded(Self(w)) /\ Self(w) \in Rows
    BY <1>1, <1>10 DEF RecordBundle, Recorded, TypeOK
  <2>2. PICK verdict \in Verdicts, signal \in Signals(w) :
            ApplyPolicy(w, verdict, signal, judged(verdict), approvals)
    BY <1>10 DEF RecordBundle
  <2>3. /\ judged(verdict) = [x \in Rows |-> judged(verdict)[x]]
        /\ \A x \in Rows : judged(verdict)[x] = "RUNNING" => node[x] = "RUNNING" /\ x # Self(w)
    BY <1>1, <2>1 DEF StatusFor, Rows
  <2> HIDE DEF judged
  <2> QED
    BY <1>8, <2>1, <2>2, <2>3
<1>11. CASE UNCHANGED vars
  BY <1>11 DEF vars, Rows
<1> QED
  BY <1>2, <1>3, <1>4, <1>6, <1>7, <1>9, <1>10, <1>11 DEF Next, Driver

(* Every state of every run keeps the bookkeeping of the engine, and no row   *)
(* is stranded by a process that died.                                        *)
THEOREM InductiveHolds == Spec => []Inductive
<1>1. ConsoleInit => OnlyTheWaveRuns
  BY DEF ConsoleInit, Init, OnlyTheWaveRuns, Rows
<1>2. Spec => []OnlyTheWaveRuns
  BY <1>1, OnlyDispatchStarts, BookkeepingHolds, PTL DEF Spec
<1> QED
  BY <1>2, BookkeepingHolds, PTL DEF Inductive

(* Type correctness, for every plan and any number of commands.               *)
THEOREM TypesHold == Spec => []TypeOK
<1>1. Bookkeeping => TypeOK
  BY DEF Bookkeeping
<1> QED
  BY <1>1, BookkeepingHolds, PTL

(* A fan-out stays green only while all it expanded into is green, whatever   *)
(* crashes, waivers, withdrawals and retries come in between.                 *)
THEOREM FanoutCompleteHolds == Spec => []FanoutComplete
<1>1. Bookkeeping => FanoutComplete
  BY DEF Bookkeeping
<1> QED
  BY <1>1, BookkeepingHolds, PTL

(* Whoever is asked can answer, and a BLOCKED run has a question open.        *)
THEOREM AskedIsAnswerableHolds == Spec => []AskedIsAnswerable
<1>1. Bookkeeping => AskedIsAnswerable
  BY DEF Bookkeeping
<1> QED
  BY <1>1, BookkeepingHolds, PTL

(* No failure is dropped where the policy escalates.                          *)
THEOREM FailureIsHandedOffHolds == Spec => []FailureIsHandedOff
<1>1. Bookkeeping => FailureIsHandedOff
  BY DEF Bookkeeping
<1> QED
  BY <1>1, BookkeepingHolds, PTL
===============================================================================
