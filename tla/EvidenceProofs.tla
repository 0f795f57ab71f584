---------------------------- MODULE EvidenceProofs ----------------------------
(* Why what a run shows as green is current: the release evidence, the shape  *)
(* a fan-out implemented, the versions a checkpoint approved, the order of    *)
(* repair and re-entry, the two reports read off a run, the dialogue with the *)
(* person it asks, and the contract of RunContract.  Each rests on what a     *)
(* step may do to rows it is not about, so those facts come first.            *)
EXTENDS RunReport, Clarification, RunProofs, WellFoundedInduction

-------------------------------------------------------------------------------
(* The authored graph.                                                        *)

(* What needs w directly is downstream of it.                                 *)
LEMMA DependentIsDownstream ==
    ASSUME NEW d \in Plan, NEW w \in Node[d].needs
    PROVE  w \in Plan /\ d \in Downstream[w] /\ w \in Upstream[d]
<1>1. w \in Plan /\ w \in Work /\ d \in Work
  BY PlanAssumption DEF NodeFields
<1>2. ASSUME NEW D \in SUBSET Plan, Dependents({w} \cup D) \subseteq D PROVE d \in D
  BY <1>1, <1>2 DEF Dependents
<1>3. d \in Downstream[w]
  BY <1>1, <1>2 DEF Downstream
<1> QED
  BY <1>1, <1>3 DEF Upstream

(* Downstream is transitive.                                                  *)
LEMMA DownstreamFollows ==
    ASSUME NEW w \in Work, NEW d \in Downstream[w]
    PROVE  d \in Plan /\ d \in Work /\ Downstream[d] \subseteq Downstream[w]
<1>1. d \in Plan /\ d \in Work
  BY PlanAssumption DEF Downstream
<1>2. ASSUME NEW e \in Downstream[d], NEW D \in SUBSET Plan, Dependents({w} \cup D) \subseteq D
      PROVE  e \in D
  <2>1. d \in D
    BY <1>2 DEF Downstream
  <2>2. Dependents({d} \cup D) \subseteq D
    BY <1>2, <2>1 DEF Dependents
  <2> QED
    BY <1>1, <1>2, <2>2 DEF Downstream
<1> QED
  BY <1>1, <1>2 DEF Downstream

(* Nothing depends on what is not in the plan.                                *)
LEMMA UpstreamFacts ==
    ASSUME NEW b \in Work
    PROVE  /\ Upstream[b] \subseteq Plan /\ b \notin Upstream[b]
           /\ \A w \in Work : b \in Downstream[w] => b \in Plan /\ w \in Upstream[b]
<1>1. Upstream[b] \subseteq Plan /\ Upstream[b] = {d \in Plan : b \in Downstream[d]}
  BY DEF Upstream
<1>2. b \notin Upstream[b]
  <2>1. \A d \in Plan : Downstream[d] \subseteq Plan
    BY DownstreamFacts, PlanAssumption
  <2> QED
    BY <1>1, <2>1, AcyclicAssumption
<1>3. ASSUME NEW w \in Work, b \in Downstream[w] PROVE b \in Plan /\ w \in Upstream[b]
  <2>1. b \in Plan
    BY <1>3, DownstreamFacts
  <2>2. w \in Plan
    <3>1. SUFFICES ASSUME w \notin Plan PROVE FALSE
      OBVIOUS
    <3>2. Dependents({w} \cup {}) \subseteq {}
      BY <3>1, PlanAssumption DEF Dependents, NodeFields
    <3> QED
      BY <1>3, <3>2 DEF Downstream
  <2> QED
    BY <1>1, <1>3, <2>1, <2>2
<1> QED
  BY <1>1, <1>2, <1>3

-------------------------------------------------------------------------------
(* The consequence of a verdict v on w (_apply_policy), seen from the rows nd *)
(* and approvals ap the verdict was recorded in.                              *)

(* A repair is inserted for w: w goes back to waiting, and waits for its fix. *)
Repaired(w) ==
    /\ Node[w].policy.repairs /\ attempts[w] + 1 < Node[w].policy.maxAttempts
    /\ extraNeeds' = [extraNeeds EXCEPT ![w] = @ \cup {Node[w].fix}]
    /\ owed' = owed \cup {w}
    /\ Self(Node[w].fix) \in Rows' /\ node'[Self(w)] = "PENDING"

(* An escalation brings in all of it, or nothing.                             *)
RaisedTogether(w, nd) ==
    \/ \A d \in Raised(w) : Self(d) \in Rows => node'[Self(d)] # "SKIPPED"
    \/ \A x \in Rows : nd[x] = "SKIPPED" => node'[x] = "SKIPPED"

Consequence(w, v, nd, ap) ==
    /\ Rows \subseteq Rows'
    /\ v = "pass" <=> node'[Self(w)] = "PASSED"
    /\ node'[Self(w)] \in {StatusFor(v), "PENDING"}
    /\ \A x \in Rows \ {Self(w)} :
          \/ node'[x] = nd[x]
          \/ /\ nd[x] = "SKIPPED" /\ node'[x] = "PENDING" /\ v = "pass"
             /\ \E d \in Raised(w) : x = Self(d)
    /\ \A x \in Rows' \ Rows :
          /\ node'[x] = "PENDING" /\ v # "pass"
          /\ x = <<w, attempts[w] + 1, v>> \/ (Repaired(w) /\ x = Self(Node[w].fix))
    /\ \/ v = "pass" /\ extraNeeds' = extraNeeds /\ owed' = {u \in owed : Node[u].fix # w}
       \/ v # "pass" /\ extraNeeds' = extraNeeds /\ owed' = owed
       \/ v = "fail" /\ Repaired(w)
    /\ RaisedTogether(w, nd)
    /\ \/ approvals' = ap
       \/ v # "pass" /\ approvals' = Ask(ap, <<w, attempts[w] + 1, v>>, {})
    /\ runStatus' \in {runStatus, "BLOCKED", "STOPPED", "ROLLED_BACK"}

LEMMA Responses ==
    ASSUME TypeOK, NEW w \in Work, NEW v \in Verdicts, NEW signal, NEW nd, NEW ap,
           ApplyPolicy(w, v, signal, nd, ap)
    PROVE  \/ v = "pass" /\ Proceed(w, nd, ap, signal)
           \/ v # "pass" /\ RetryNode(w, nd, ap)
           \/ /\ v = "fail" /\ InsertFix(w, nd, ap) /\ Node[w].policy.repairs
              /\ attempts[w] + 1 < Node[w].policy.maxAttempts
           \/ v # "pass" /\ Escalate(w, nd, ap, <<w, attempts[w] + 1, v>>)
           \/ v # "pass" /\ Halt(nd, ap, "STOPPED")
           \/ v # "pass" /\ Halt(nd, ap, "ROLLED_BACK")
<1> DEFINE k == attempts[w] + 1
           action == RespondTo(v, Node[w].policy, k)
<1>1. k \in Nat
  BY DEF TypeOK
<1>2. v = "pass" <=> action = "proceed"
  BY <1>1, RespondFacts
<1>3. action = "insert_fix" => v = "fail" /\ Node[w].policy.repairs
                                         /\ k < Node[w].policy.maxAttempts
  <2>1. Node[w].policy \in Policies
    BY PlanAssumption DEF NodeFields
  <2>2. Node[w].policy.onError \in TerminalActions /\ Node[w].policy.exhausted \in TerminalActions
    BY <2>1 DEF Policies
  <2> QED
    BY <2>2 DEF Verdicts, RespondTo, RespondToError, RespondToFailure, TerminalActions
<1> HIDE DEF action
<1> QED
  BY <1>2, <1>3 DEF ApplyPolicy, action

LEMMA Consequences ==
    ASSUME TypeOK, HandoffsNumbered, NEW w \in Work, Self(w) \in Rows, NEW v \in Verdicts,
           NEW signal \in Signals(w), NEW nd \in [Rows -> NodeStatuses],
           nd[Self(w)] = StatusFor(v), NEW ap, ApplyPolicy(w, v, signal, nd, ap)
    PROVE  Consequence(w, v, nd, ap)
<1> USE DEF Consequence, Rows
<1>1. DOMAIN nd = Rows
  OBVIOUS
<1>2. CASE v = "pass" /\ Proceed(w, nd, ap, signal)
  <2>1. signal => Node[w].onEscalate # NoNode
    BY DEF Signals
  <2>2. signal \in BOOLEAN
    BY DEF Signals
  <2>3. node' = IF signal THEN Activated(nd, Node[w].onEscalate) ELSE nd
    BY <1>2 DEF Proceed
  <2>4. ASSUME NEW x \in Rows
        PROVE  \/ node'[x] = nd[x]
               \/ /\ nd[x] = "SKIPPED" /\ node'[x] = "PENDING"
                  /\ \E d \in Raised(w) : x = Self(d)
    <3>1. CASE ~signal
      BY <2>3, <3>1
    <3>2. CASE signal
      <4>1. node' = Activated(nd, Node[w].onEscalate)
        BY <2>3, <3>2
      <4>2. \/ node'[x] = nd[x]
            \/ /\ nd[x] = "SKIPPED" /\ node'[x] = "PENDING" /\ ~IsHandoff(x)
               /\ x[1] \in Raised(w)
        BY <1>1, <2>1, <3>2, <4>1 DEF Activated, Raised
      <4>3. ~IsHandoff(x) => x = Self(x[1])
        BY DEF HandoffsNumbered
      <4> QED
        BY <4>2, <4>3
    <3> QED
      BY <2>2, <3>1, <3>2
  <2>5. Rows' = Rows
    BY <1>1, <2>3 DEF Activated
  <2>6. node'[Self(w)] = "PASSED" /\ StatusFor(v) = "PASSED"
    BY <1>2, <2>4 DEF StatusFor
  <2>7. RaisedTogether(w, nd)
    <3>1. CASE ~signal
      BY <2>3, <3>1 DEF RaisedTogether
    <3>2. ASSUME signal, NEW d \in Raised(w), Self(d) \in Rows PROVE node'[Self(d)] # "SKIPPED"
      <4>1. d \in {Node[w].onEscalate} \cup Downstream[Node[w].onEscalate] /\ Node[d].optional
        BY <3>2 DEF Raised
      <4>2. node' = Activated(nd, Node[w].onEscalate) /\ ~IsHandoff(Self(d)) /\ Self(d)[1] = d
        BY <2>3, <3>2 DEF IsHandoff, Self
      <4> QED
        BY <1>1, <3>2, <4>1, <4>2 DEF Activated
    <3> QED
      BY <2>2, <3>1, <3>2 DEF RaisedTogether
  <2> QED
    BY <1>2, <2>4, <2>5, <2>6, <2>7 DEF Proceed
<1>3. CASE v # "pass" /\ RetryNode(w, nd, ap)
  BY <1>1, <1>3 DEF RetryNode, RaisedTogether, StatusFor
<1>4. CASE /\ v = "fail" /\ InsertFix(w, nd, ap) /\ Node[w].policy.repairs
           /\ attempts[w] + 1 < Node[w].policy.maxAttempts
  BY <1>1, <1>4 DEF InsertFix, WithRow, Repaired, RaisedTogether, StatusFor
<1>5. CASE v # "pass" /\ Escalate(w, nd, ap, <<w, attempts[w] + 1, v>>)
  BY <1>1, <1>5 DEF Escalate, WithRow, StatusFor, RaisedTogether
<1>6. CASE v # "pass" /\ (Halt(nd, ap, "STOPPED") \/ Halt(nd, ap, "ROLLED_BACK"))
  BY <1>1, <1>6 DEF Halt, StatusFor, RaisedTogether
<1> QED
  BY <1>2, <1>3, <1>4, <1>5, <1>6, Responses

-------------------------------------------------------------------------------
(* Five kinds of step, told apart by what they may do to the rows.            *)

(* A checkpoint is re-opened for the versions an approval of it names.        *)
Reopens(x) == KindOf(x) = "human" /\ \E i \in DOMAIN approvals :
                                       approvals[i].node = x /\ approvals[i].bound # {}

(* Crashes, resumes, stops, retries and the driver between two records.       *)
GentleMove ==
    /\ Rows' = Rows /\ UNCHANGED graphVars
    /\ \A x \in Rows : node[x] = "PASSED" /\ node'[x] # "PASSED" => Reopens(x)
    /\ \A x \in Rows : Gentle(x) /\ (node'[x] = "RUNNING" => node[x] = "RUNNING" \/ x \in Ready)

(* A person is asked, or answers; an answered failure re-enters or is waived. *)
AnswerMove(id) ==
    /\ id \in Rows /\ KindOf(id) = "human" /\ Rows' = Rows /\ UNCHANGED graphVars
    /\ node[id] # "SKIPPED" \/ Open(approvals, {id}) # {}
    /\ \/ node'[id] = "BLOCKED" /\ id \in wave
       \/ /\ node'[id] = "FAILED" /\ Open(approvals, {id}) # {}
          /\ \E i \in DOMAIN approvals' :
                approvals'[i].node = id /\ approvals'[i].decision = "REJECTED"
       \/ /\ node'[id] = "PASSED"
          /\ approvals' = Decide(approvals, FirstOpen(id), "APPROVED")
          /\ \E i \in Open(approvals, {id}) : approvals'[i].decision = "APPROVED"
    /\ \A x \in Rows \ {id} :
          \/ node'[x] = node[x]
          \/ node[x] \in {"FAILED", "ERRORED"} /\ node'[x] = "PENDING"
          \/ /\ node[x] \in {"FAILED", "ERRORED"} /\ node'[x] = "SKIPPED"
             /\ node'[id] = "PASSED" /\ IsHandoff(id) /\ id[3] = "fail" /\ x = Self(id[1])

(* A fan-out of the wave takes a shape of its source.                         *)
ExpandMove(f) ==
    /\ f \in Work /\ Node[f].kind = "fanout" /\ Self(f) \in wave
    /\ extraNeeds'[f] \in items[f] /\ extraNeeds'[f] \subseteq Owned(f)
    /\ \A u \in Work \ {f} : extraNeeds'[u] = extraNeeds[u]
    /\ UNCHANGED <<attempts, version, items, cleared, owed>>
    /\ Rows \subseteq Rows'
    /\ \A c \in extraNeeds'[f] : Self(c) \in Rows'
    /\ \A x \in Rows \ {Self(f)} :
          \/ node'[x] = node[x]
          \/ /\ node[x] # "PASSED" /\ node'[x] = "PENDING"
             /\ \E c \in extraNeeds'[f] : x = Self(c)
    /\ node'[Self(f)] \in {"PASSED", "PENDING"}
    /\ \A x \in Rows' \ Rows :
          node'[x] = "PENDING" /\ \E c \in extraNeeds'[f] : x = Self(c)

(* A verdict v on a node w that is not done: recorded by the driver, or by a  *)
(* re-check.                                                                  *)
VerdictOn(w, v) ==
    /\ w \in Work /\ Judged(w) /\ Self(w) \in Rows /\ node[Self(w)] \notin Terminal
    /\ v \in Verdicts /\ (v = "fail" => Node[w].gated \/ Node[w].kind = "bundle")
    /\ attempts' = [attempts EXCEPT ![w] = @ + 1]
    /\ Self(w) \in wave \/ (phase' = "parked" /\ node[Self(w)] \in {"FAILED", "ERRORED"})

VerdictRows(w, v) ==
    /\ Rows \subseteq Rows'
    /\ v = "pass" <=> node'[Self(w)] = "PASSED"
    /\ node'[Self(w)] \in {StatusFor(v), "PENDING"}
    /\ \A x \in Rows \ {Self(w)} :
          \/ node'[x] = node[x]
          \/ /\ node[x] = "SKIPPED" /\ node'[x] = "PENDING" /\ v = "pass"
             /\ \E d \in Raised(w) : x = Self(d)
          \/ /\ node[x] = "PASSED" /\ node'[x] = "STALE"
             /\ \/ Reopens(x)
                \/ Node[w].qualified /\ \E d \in Downstream[w] : x = Self(d)
          \/ node'[x] = "SKIPPED" /\ v = "pass" /\ x \in Handoffs({w})
    /\ RaisedTogether(w, node)
    /\ \A x \in Rows' \ Rows :
          /\ node'[x] = "PENDING" /\ v # "pass"
          /\ x = <<w, attempts[w] + 1, v>> \/ (Repaired(w) /\ x = Self(Node[w].fix))

VerdictEdges(w, v) ==
    \/ /\ v = "pass" /\ extraNeeds' = extraNeeds
       /\ owed' = {u \in owed : Node[u].fix # w} \/ (Node[w].gated /\ owed' = owed)
    \/ v # "pass" /\ extraNeeds' = extraNeeds /\ owed' = owed
    \/ v = "fail" /\ Repaired(w)

VerdictSources(w) ==
    /\ \A u \in Work \ {w} : version'[u] = version[u]
    /\ \/ version'[w] = version[w] /\ items' = items
       \/ /\ version'[w] = version[w] + 1
          /\ \A f \in Work : items'[f] # items[f] => Node[w].kind = "work" /\ Node[f].from = w
          /\ Node[w].kind = "work" /\ Node[w].qualified /\ version[w] > 0 =>
                \A d \in Downstream[w] : Self(d) \in Rows => node'[Self(d)] # "PASSED"

VerdictEvidence(w, v) ==
    /\ \A b \in Work \ {w} : b \in cleared' <=> b \in cleared
    /\ Node[w].kind = "bundle" /\ v = "pass" => w \in cleared'
    /\ Node[w].kind = "bundle" /\ w \in cleared' =>
          \/ Releasable([node EXCEPT ![Self(w)] = "RUNNING"], w)
          \/ w \in cleared /\ node[Self(w)] = "ERRORED"

VerdictMove(w, v) ==
    /\ VerdictOn(w, v) /\ VerdictRows(w, v) /\ VerdictEdges(w, v)
    /\ VerdictSources(w) /\ VerdictEvidence(w, v)

(* The result of n is withdrawn.                                              *)
WithdrawMove(n) ==
    /\ n \in Plan /\ phase = "parked" /\ wave = {} /\ wave' = {} /\ Rows' = Rows
    /\ node'[Self(n)] = "PENDING"
    /\ extraNeeds' = [extraNeeds EXCEPT ![n] = {}] /\ owed' = owed \ {n}
    /\ UNCHANGED <<attempts, version, items, cleared>>
    /\ \E i \in DOMAIN approvals' :
          /\ i \notin DOMAIN approvals
          /\ approvals'[i].node = Self(n) /\ approvals'[i].decision = "REJECTED"
    /\ \A x \in Rows \ {Self(n)} :
          \/ node'[x] = node[x]
          \/ /\ node'[x] = "SKIPPED"
             /\ \/ IsHandoff(x) /\ x[1] \in {n} \cup extraNeeds[n] \cup Downstream[n]
                \/ \E c \in extraNeeds[n] : x = Self(c)
          \/ node'[x] = "STALE" /\ \E d \in Downstream[n] : x = Self(d)
    /\ \A d \in Downstream[n] :
          Self(d) \in Rows => node'[Self(d)] \notin {"PASSED", "BLOCKED", "FAILED", "ERRORED"}
    /\ \A c \in extraNeeds[n] : Self(c) \in Rows =>
          /\ node'[Self(c)] \in {"PENDING", "SKIPPED"}
          /\ node'[Self(c)] = "SKIPPED" => \A x \in Handoffs({c}) : node'[x] = "SKIPPED"

-------------------------------------------------------------------------------
USE DEF engineVars, graphVars, decideVars

LEMMA SettledIsGentle ==
    ASSUME Bookkeeping, Dispatch \/ Crash \/ ExpandRaises \/ Settle \/ Rollback
    PROVE  GentleMove
<1>1. CASE Dispatch
  <2>1. Ready \subseteq Rows /\ \A x \in Ready : node[x] \in {"PENDING", "STALE"}
    BY DEF Ready, IsReady
  <2>2. \A x \in Rows : ~IsHandoff(x) \/ KindOf(x) = "human"
    BY DEF KindOf
  <2> QED
    BY <1>1, <2>1, <2>2 DEF Dispatch, GentleMove, Gentle, Rows
<1>2. CASE Crash \/ ExpandRaises \/ Settle \/ Rollback
  BY <1>2 DEF Crash, ExpandRaises, Settle, Rollback, GentleMove, Gentle, Rows
<1> QED
  BY <1>1, <1>2

LEMMA ResumedIsGentle ==
    ASSUME Bookkeeping, Resume \/ Stop \/ (\E id \in Rows : Retry(id))
    PROVE  GentleMove
<1>1. TypeOK /\ PeopleAreAsked
  BY DEF Bookkeeping
<1>2. CASE Resume
  <2>1. PICK stale : stale = StaleApprovals(approvals, version)
    OBVIOUS
  <2>2. node' = Reopened(Redo(node), approvals, stale) /\ UNCHANGED graphVars
    BY <1>2, <2>1 DEF Resume
  <2>3. /\ node' \in [Rows -> NodeStatuses]
        /\ \A x \in Rows :
              \/ node'[x] = Redo(node)[x]
              \/ Redo(node)[x] = "PASSED" /\ KindOf(x) = "human" /\ node'[x] = "STALE"
    BY <1>1, <2>1, <2>2, RedoFacts, ReopenedFacts
  <2>4. ASSUME NEW x \in Rows, node[x] = "PASSED", node'[x] # "PASSED" PROVE Reopens(x)
    <3>1. Redo(node)[x] = "PASSED" /\ x \in DOMAIN Redo(node)
      BY <1>1, <2>4, RedoFacts
    <3>2. \E i \in stale : approvals[i].node = x
      BY <2>2, <2>4, <3>1 DEF Reopened
    <3> QED
      BY <1>1, <2>1, <2>3, <2>4, <3>1, <3>2, StaleFacts DEF Reopens
  <2> QED
    BY <1>1, <2>2, <2>3, <2>4, RedoFacts DEF GentleMove, Gentle, Rows
<1>3. CASE Stop
  BY <1>1, <1>3, RedoFacts DEF Stop, GentleMove, Gentle, Rows
<1>4. ASSUME NEW id \in Rows, Retry(id) PROVE GentleMove
  <2>1. Rows = DOMAIN node /\ node \in [Rows -> NodeStatuses]
    BY <1>1 DEF Rows, TypeOK
  <2> QED
    BY <1>4, <2>1 DEF Retry, GentleMove, Gentle, Rows
<1> QED
  BY <1>2, <1>3, <1>4

(* The least of some numbers.                                                 *)
LEMMA LeastNumber ==
    ASSUME NEW S \in SUBSET Nat, S # {}
    PROVE  \E m \in S : \A j \in S : m <= j
<1> DEFINE less == {p \in Nat \X Nat : p[1] < p[2]}
<1>1. IsWellFoundedOn(less, Nat)
  BY NatLessThanWellFounded DEF OpToRel
<1> HIDE DEF less
<1>2. PICK m \in S : \A j \in S : <<j, m>> \notin less
  BY <1>1, WFMin
<1>3. \A j \in S : ~(j < m)
  BY <1>2 DEF less
<1> QED
  BY <1>3

(* The request an answer takes is there when one is open.                     *)
LEMMA FirstIsOpen ==
    ASSUME approvals \in Seq(Approval), NEW id, Open(approvals, {id}) # {}
    PROVE  \E i \in FirstOpen(id) : i \in Open(approvals, {id})
<1>1. Open(approvals, {id}) \subseteq Nat
  BY DEF Open
<1>2. PICK m \in Open(approvals, {id}) : \A j \in Open(approvals, {id}) : m <= j
  BY <1>1, LeastNumber
<1> QED
  BY <1>2 DEF FirstOpen

LEMMA AnswerMoves ==
    ASSUME Bookkeeping, NEW id \in Rows,
           (id \in wave /\ BlockForHuman(id)) \/ Approve(id) \/ Reject(id)
    PROVE  AnswerMove(id)
<1>1. TypeOK /\ PeopleAreAsked
  BY DEF Bookkeeping
<1>2. Rows = DOMAIN node /\ node \in [Rows -> NodeStatuses] /\ id \in Ids
  BY <1>1 DEF Rows, TypeOK
<1>3. CASE BlockForHuman(id)
  <2>1. id \in wave /\ node[id] # "SKIPPED"
    BY <1>3 DEF BlockForHuman, Recorded, Bookkeeping, WaveIsUndone
  <2> QED
    BY <1>2, <1>3, <2>1 DEF BlockForHuman, AnswerMove, Rows
<1>4. CASE Approve(id)
  <2>1. KindOf(id) = "human" /\ UNCHANGED graphVars /\ Open(approvals, {id}) # {}
    BY <1>1, <1>4, FirstOpenFacts DEF Approve
  <2>2. node' = Released([node EXCEPT ![id] = "PASSED"], id)
    BY <1>4 DEF Approve
  <2>3. \E i \in Open(approvals, {id}) : approvals'[i].decision = "APPROVED"
    <3>1. /\ approvals \in Seq(Approval) /\ clock \in Nat /\ "APPROVED" \in Decisions
          /\ approvals' = Decide(approvals, FirstOpen(id), "APPROVED")
      BY <1>1, <1>4 DEF Approve, TypeOK, Decisions
    <3>2. PICK i : i \in FirstOpen(id) /\ i \in Open(approvals, {id})
      BY <2>1, <3>1, FirstIsOpen
    <3> QED
      BY <3>1, <3>2, DecideFacts DEF Open
  <2>4. IsHandoff(id) => id # Self(id[1]) /\ id[3] \in {"error", "fail"}
    BY <1>2 DEF IsHandoff, Self, Ids, Bookkeeping, HandoffsNumbered
  <2> QED
    BY <1>2, <1>4, <2>1, <2>2, <2>3, <2>4 DEF Approve, Released, AnswerMove, Rows
<1>5. CASE Reject(id)
  <2>1. KindOf(id) = "human" /\ Open(approvals, {id}) # {}
    BY <1>1, <1>5, FirstOpenFacts DEF Reject
  <2>2. \E i \in DOMAIN approvals' :
           approvals'[i].node = id /\ approvals'[i].decision = "REJECTED"
    <3>1. /\ approvals \in Seq(Approval) /\ clock \in Nat /\ "REJECTED" \in Decisions
          /\ approvals' = Decide(approvals, FirstOpen(id), "REJECTED")
      BY <1>1, <1>5 DEF Reject, TypeOK, Decisions
    <3>2. PICK i : i \in FirstOpen(id) /\ i \in Open(approvals, {id})
      BY <2>1, <3>1, FirstIsOpen
    <3> QED
      BY <3>1, <3>2, DecideFacts DEF Open
  <2> QED
    BY <1>2, <1>5, <2>1, <2>2 DEF Reject, AnswerMove, Rows
<1> QED
  BY <1>3, <1>4, <1>5

LEMMA ExpandMoves ==
    ASSUME Bookkeeping, NEW f \in Work, Expand(f)
    PROVE  ExpandMove(f)
<1>1. /\ Self(f) \in wave /\ Self(f) \in Rows /\ Node[f].kind = "fanout"
      /\ TypeOK /\ GrownByOwner
  BY DEF Expand, Recorded, Bookkeeping, TypeOK
<1>2. PICK shape \in items[f] :
         node' = Expanded(f, shape) /\ extraNeeds' = [extraNeeds EXCEPT ![f] = shape]
  BY DEF Expand
<1>3. shape \in Node[f].shapes /\ shape \in SUBSET Work /\ shape \subseteq Owned(f)
  BY <1>1, <1>2 DEF GrownByOwner, TypeOK, Owned
<1>4. shape \in SUBSET (Work \ Plan)
  BY <1>3, PlanAssumption
<1>5. /\ Rows \subseteq Rows'
      /\ \A x \in Rows' \ Rows : \E c \in shape : x = Self(c)
      /\ \A x \in Rows : \/ node'[x] = node[x]
                         \/ x = Self(f)
                         \/ node[x] # "PASSED" /\ \E c \in shape : x = Self(c)
      /\ \A x \in Rows' \ {Self(f)} : node'[x] = node[x] \/ node'[x] = "PENDING"
  BY <1>1, <1>2, <1>4, ExpandedFacts
<1>6. extraNeeds'[f] = shape /\ \A u \in Work \ {f} : extraNeeds'[u] = extraNeeds[u]
  BY <1>1, <1>2 DEF TypeOK
<1>7. \A c \in shape : Self(c) \in Rows'
  BY <1>2 DEF Expanded, Rows
<1>8. ASSUME NEW x \in Rows' \ Rows PROVE node'[x] = "PENDING"
  <2>1. PICK c \in shape : x = Self(c)
    BY <1>5
  <2>2. c \in Outstanding(shape) /\ x # Self(f)
    BY <1>1, <2>1 DEF Outstanding
  <2> QED
    BY <1>2, <1>7, <2>1, <2>2 DEF Expanded, Rows
<1>9. node'[Self(f)] \in {"PASSED", "PENDING"}
  BY <1>1, <1>2 DEF Expanded, Rows
<1>10. UNCHANGED <<attempts, version, items, cleared, owed>>
  BY DEF Expand
<1> QED
  BY <1>1, <1>2, <1>3, <1>5, <1>6, <1>7, <1>8, <1>9, <1>10 DEF ExpandMove

(* What the store keeps of a result feeds the fan-outs that read it.          *)
LEMMA StoredSources ==
    ASSUME TypeOK, NEW w \in Work, Node[w].kind = "work", NEW produced, Stored(w, produced),
           ReDerived(w, produced) =>
               \A d \in Downstream[w] : Self(d) \in Rows => node'[Self(d)] # "PASSED"
    PROVE  VerdictSources(w)
<1>1. CASE produced
  <2>1. PICK its \in Sources(w) :
           items' = [f \in Work |-> IF f \in Fed(w) THEN its[f] ELSE items[f]]
    BY <1>1 DEF Stored
  <2>2. \A f \in Work : items'[f] # items[f] => Node[f].from = w
    BY <2>1 DEF Fed
  <2>3. version' = [version EXCEPT ![w] = @ + 1]
    BY <1>1, Zenon DEF Stored
  <2>4. version'[w] = version[w] + 1 /\ \A u \in Work \ {w} : version'[u] = version[u]
    BY <2>3 DEF TypeOK
  <2> QED
    BY <1>1, <2>2, <2>4 DEF VerdictSources, ReDerived
<1>2. CASE ~produced
  BY <1>2 DEF Stored, VerdictSources
<1> QED
  BY <1>1, <1>2

(* The rows nd a verdict v of the driver is judged in, and the approvals I it *)
(* re-opens: a result re-derived takes the green rows downstream and the      *)
(* checkpoints that approved the version before.                              *)
Judgement(w, v, produced, nd, I) ==
    /\ nd \in [Rows -> NodeStatuses] /\ nd[Self(w)] = StatusFor(v)
    /\ \A x \in Rows \ {Self(w)} :
          \/ nd[x] = node[x]
          \/ /\ node[x] = "PASSED" /\ nd[x] = "STALE"
             /\ \/ Reopens(x)
                \/ Node[w].qualified /\ \E d \in Downstream[w] : x = Self(d)
    /\ ReDerived(w, produced) =>
          /\ I = StaleApprovals(approvals, [version EXCEPT ![w] = @ + 1])
          /\ \A d \in Downstream[w] : Self(d) \in Rows => nd[Self(d)] # "PASSED"
          /\ \A x \in Rows \ {Self(w)} : nd[x] # node[x] =>
                \/ \E i \in I : approvals[i].node = x
                \/ \E d \in Downstream[w] : x = Self(d)
    /\ ~ReDerived(w, produced) => I = {} /\ \A x \in Rows \ {Self(w)} : nd[x] = node[x]
    /\ \A i \in I : /\ i \in DOMAIN approvals /\ approvals[i].bound # {}
                    /\ nd[approvals[i].node] # "PASSED"

LEMMA RecordWorkJudges ==
    ASSUME Bookkeeping, NEW w \in Work, RecordWork(w)
    PROVE  \E v, signal, produced, nd, I :
              /\ v \in WorkVerdicts(w) /\ signal \in Signals(w) /\ produced \in BOOLEAN
              /\ Stored(w, produced) /\ Judgement(w, v, produced, nd, I)
              /\ ApplyPolicy(w, v, signal, nd, Reverted(approvals, I))
<1>1. Self(w) \in wave /\ Node[w].kind = "work"
  BY DEF RecordWork, Recorded
<1>2. /\ TypeOK /\ PeopleAreAsked /\ HandoffsNumbered
      /\ Self(w) \in Rows /\ node[Self(w)] \notin Terminal
  BY <1>1 DEF Bookkeeping, TypeOK, WaveIsUndone, Terminal
<1>3. PICK v \in WorkVerdicts(w), signal \in Signals(w),
           produced \in (IF Node[w].outputs THEN BOOLEAN ELSE {FALSE}) :
          LET judged == [node EXCEPT ![Self(w)] = StatusFor(v)]
              stale  == StaleApprovals(approvals, [version EXCEPT ![w] = @ + 1])
          IN  /\ Stored(w, produced)
              /\ IF ReDerived(w, produced)
                 THEN ApplyPolicy(w, v, signal,
                                  Reopened(Staled(judged, Downstream[w]), approvals, stale),
                                  Reverted(approvals, stale))
                 ELSE ApplyPolicy(w, v, signal, judged, approvals)
  BY DEF RecordWork
<1>4. PICK judged, half, stale :
         /\ judged = [node EXCEPT ![Self(w)] = StatusFor(v)]
         /\ half = Staled(judged, Downstream[w])
         /\ stale = StaleApprovals(approvals, [version EXCEPT ![w] = @ + 1])
  OBVIOUS
<1>5. v \in Verdicts /\ produced \in BOOLEAN /\ Stored(w, produced)
  BY <1>3 DEF WorkVerdicts, Verdicts
<1>6. /\ judged \in [Rows -> NodeStatuses] /\ judged[Self(w)] = StatusFor(v)
      /\ \A x \in Rows \ {Self(w)} : judged[x] = node[x]
  <2>1. judged = [node EXCEPT ![Self(w)] = StatusFor(v)]
    BY <1>4
  <2>2. Rows = DOMAIN node /\ node \in [Rows -> NodeStatuses] /\ Self(w) \in Rows
    BY <1>2 DEF Rows, TypeOK
  <2>3. StatusFor(v) \in NodeStatuses
    BY DEF StatusFor, NodeStatuses
  <2> QED
    BY <2>1, <2>2, <2>3
<1>7. CASE ~ReDerived(w, produced)
  <2>1. ApplyPolicy(w, v, signal, judged, approvals)
    BY <1>3, <1>4, <1>7
  <2>2. approvals = Reverted(approvals, {})
    BY <1>2 DEF Reverted, TypeOK
  <2>3. ApplyPolicy(w, v, signal, judged, Reverted(approvals, {}))
    BY <2>1, <2>2
  <2>4. Judgement(w, v, produced, judged, {})
    BY <1>6, <1>7 DEF Judgement
  <2> QED
    BY <1>3, <1>5, <2>3, <2>4
<1>8. CASE ReDerived(w, produced)
  <2>1. PICK nd : nd = Reopened(half, approvals, stale)
    OBVIOUS
  <2>2. ApplyPolicy(w, v, signal, nd, Reverted(approvals, stale))
    BY <1>3, <1>4, <1>8, <2>1
  <2>3. /\ half \in [Rows -> NodeStatuses]
        /\ \A x \in Rows :
              \/ half[x] = judged[x] /\ ~(judged[x] = "PASSED" /\ \E d \in Downstream[w] : x = Self(d))
              \/ judged[x] = "PASSED" /\ half[x] = "STALE" /\ \E d \in Downstream[w] : x = Self(d)
    BY <1>4, <1>6 DEF Staled, NodeStatuses
  <2>4. /\ stale \subseteq DOMAIN approvals /\ \A i \in stale : approvals[i].bound # {}
        /\ nd \in [Rows -> NodeStatuses]
        /\ \A x \in Rows :
              \/ nd[x] = half[x]
              \/ half[x] = "PASSED" /\ KindOf(x) = "human" /\ nd[x] = "STALE"
    <3>1. stale = StaleApprovals(approvals, [version EXCEPT ![w] = @ + 1])
      BY <1>4
    <3> QED
      BY <1>2, <2>1, <2>3, <3>1, StaleFacts, ReopenedFacts
  <2>5. \A i \in stale : nd[approvals[i].node] # "PASSED"
    BY <1>2, <2>1, <2>3, <2>4 DEF Reopened, TypeOK
  <2>6. w \notin Downstream[w] /\ \A d \in Downstream[w] : Self(d) # Self(w)
    BY AcyclicAssumption, DownstreamFacts, SelfFacts, PlanAssumption DEF Downstream
  <2>7. nd[Self(w)] = StatusFor(v)
    BY <1>1, <1>2, <1>6, <2>3, <2>4, <2>6, SelfFacts
  <2>8. Node[w].qualified
    BY <1>8 DEF ReDerived
  <2>9. \A x \in Rows \ {Self(w)} :
           \/ nd[x] = node[x]
           \/ /\ node[x] = "PASSED" /\ nd[x] = "STALE"
              /\ \/ Reopens(x)
                 \/ Node[w].qualified /\ \E d \in Downstream[w] : x = Self(d)
    <3>1. \A x \in Rows : nd[x] # half[x] => Reopens(x)
      BY <2>1, <2>3, <2>4 DEF Reopened, Reopens
    <3> QED
      BY <1>6, <2>3, <2>4, <2>8, <3>1
  <2>10. \A d \in Downstream[w] : Self(d) \in Rows => nd[Self(d)] # "PASSED"
    BY <1>6, <2>3, <2>4, <2>6
  <2>11. \A x \in Rows \ {Self(w)} : nd[x] # node[x] =>
            \/ \E i \in stale : approvals[i].node = x
            \/ \E d \in Downstream[w] : x = Self(d)
    <3>1. \A x \in Rows : nd[x] # half[x] => \E i \in stale : approvals[i].node = x
      BY <2>1, <2>3 DEF Reopened
    <3> QED
      BY <1>6, <2>3, <3>1
  <2>12. Judgement(w, v, produced, nd, stale)
    BY <1>4, <1>8, <2>4, <2>5, <2>7, <2>9, <2>10, <2>11 DEF Judgement
  <2> QED
    BY <1>3, <1>5, <2>2, <2>12
<1> QED
  BY <1>7, <1>8

LEMMA RecordWorkMoves ==
    ASSUME Bookkeeping, NEW w \in Work, RecordWork(w)
    PROVE  \E v \in Verdicts : VerdictMove(w, v)
<1>1. /\ Self(w) \in wave /\ Node[w].kind = "work"
      /\ attempts' = [attempts EXCEPT ![w] = @ + 1] /\ UNCHANGED <<cleared, clock>>
  BY DEF RecordWork, Recorded
<1>2. /\ TypeOK /\ PeopleAreAsked /\ HandoffsNumbered
      /\ Self(w) \in Rows /\ node[Self(w)] \notin Terminal
  BY <1>1 DEF Bookkeeping, TypeOK, WaveIsUndone, Terminal
<1>3. PICK v, signal, produced, nd, I :
         /\ v \in WorkVerdicts(w) /\ signal \in Signals(w) /\ produced \in BOOLEAN
         /\ Stored(w, produced) /\ Judgement(w, v, produced, nd, I)
         /\ ApplyPolicy(w, v, signal, nd, Reverted(approvals, I))
  BY RecordWorkJudges
<1>4. v \in Verdicts /\ (v = "fail" => Node[w].gated)
  BY <1>3 DEF WorkVerdicts, Verdicts
<1>5. Consequence(w, v, nd, Reverted(approvals, I))
  BY <1>2, <1>3, <1>4, Consequences DEF Judgement
<1>6. VerdictOn(w, v)
  BY <1>1, <1>2, <1>4 DEF VerdictOn, Judged
<1>7. VerdictRows(w, v) /\ VerdictEdges(w, v)
  <2>1. RaisedTogether(w, node)
    BY <1>2, <1>3, <1>5 DEF Judgement, Consequence, RaisedTogether, Terminal
  <2> QED
    BY <1>3, <1>5, <2>1 DEF Judgement, Consequence, VerdictRows, VerdictEdges
<1>8. VerdictSources(w)
  <2>1. Stored(w, produced)
    BY <1>3
  <2>2. ASSUME ReDerived(w, produced), NEW d \in Downstream[w], Self(d) \in Rows
        PROVE  node'[Self(d)] # "PASSED"
    <3>1. nd[Self(d)] # "PASSED"
      BY <1>3, <2>2 DEF Judgement
    <3>2. Self(d) # Self(w)
      BY <2>2, AcyclicAssumption, DownstreamFacts, SelfFacts, PlanAssumption DEF Downstream
    <3> QED
      BY <1>5, <2>2, <3>1, <3>2 DEF Consequence
  <2> QED
    BY <1>1, <1>2, <2>1, <2>2, StoredSources
<1>9. VerdictEvidence(w, v)
  BY <1>1 DEF VerdictEvidence
<1> QED
  BY <1>4, <1>6, <1>7, <1>8, <1>9 DEF VerdictMove

LEMMA RecordBundleMoves ==
    ASSUME Bookkeeping, NEW w \in Work, RecordBundle(w)
    PROVE  \E v \in Verdicts : VerdictMove(w, v)
<1>1. /\ Self(w) \in wave /\ Node[w].kind = "bundle"
      /\ attempts' = [attempts EXCEPT ![w] = @ + 1] /\ UNCHANGED <<items, clock>>
      /\ cleared' = IF Releasable([node EXCEPT ![Self(w)] = "RUNNING"], w)
                    THEN cleared \cup {w} ELSE cleared \ {w}
  BY DEF RecordBundle, Recorded
<1>2. /\ TypeOK /\ HandoffsNumbered /\ Self(w) \in Rows /\ node[Self(w)] \notin Terminal
  BY <1>1 DEF Bookkeeping, TypeOK, WaveIsUndone, Terminal
<1>3. PICK v \in Verdicts, signal \in Signals(w) :
          /\ v = "pass" => w \in cleared'
          /\ version' = [version EXCEPT ![w] = IF v = "pass" THEN @ + 1 ELSE @]
          /\ ApplyPolicy(w, v, signal, [node EXCEPT ![Self(w)] = StatusFor(v)], approvals)
  BY DEF RecordBundle
<1>4. PICK nd : nd = [node EXCEPT ![Self(w)] = StatusFor(v)]
  OBVIOUS
<1>5. /\ nd \in [Rows -> NodeStatuses] /\ nd[Self(w)] = StatusFor(v)
      /\ \A x \in Rows \ {Self(w)} : nd[x] = node[x]
  <2>1. TypeOK /\ Self(w) \in Rows /\ v \in Verdicts
    BY <1>2
  <2> QED
    BY <2>1, <1>4, StatusFacts
<1>6. Consequence(w, v, nd, approvals)
  BY <1>2, <1>3, <1>4, <1>5, Consequences
<1>7. VerdictOn(w, v) /\ VerdictRows(w, v) /\ VerdictEdges(w, v)
  <2>1. RaisedTogether(w, node)
    BY <1>2, <1>5, <1>6 DEF Consequence, RaisedTogether, Terminal
  <2> QED
    BY <1>1, <1>2, <1>5, <1>6, <2>1
    DEF Consequence, VerdictOn, VerdictRows, VerdictEdges, Judged
<1>8. VerdictSources(w)
  BY <1>1, <1>2, <1>3 DEF VerdictSources, TypeOK
<1>9. VerdictEvidence(w, v)
  BY <1>1, <1>3 DEF VerdictEvidence
<1> QED
  BY <1>7, <1>8, <1>9 DEF VerdictMove

LEMMA RecheckFailsMoves ==
    ASSUME Bookkeeping, NEW w \in Work, RecheckFails(w)
    PROVE  \E v \in Verdicts \ {"pass"} : VerdictMove(w, v)
<1>1. /\ Node[w].gated /\ Judged(w) /\ Self(w) \in Rows
      /\ node[Self(w)] \in {"FAILED", "ERRORED"} /\ phase = "parked" /\ phase' = phase
      /\ attempts' = [attempts EXCEPT ![w] = @ + 1] /\ UNCHANGED <<version, items>>
      /\ cleared' = IF node[Self(w)] = "FAILED" THEN cleared \ {w} ELSE cleared
  BY DEF RecheckFails, Rechecking, Command, Judged
<1>2. TypeOK /\ HandoffsNumbered
  BY DEF Bookkeeping
<1>3. PICK v \in {"fail", "error"} :
          ApplyPolicy(w, v, FALSE, [node EXCEPT ![Self(w)] = StatusFor(v)], approvals)
  BY DEF RecheckFails
<1>4. PICK nd : nd = [node EXCEPT ![Self(w)] = StatusFor(v)]
  OBVIOUS
<1>5. v \in Verdicts /\ v # "pass"
  BY DEF Verdicts
<1>6. /\ nd \in [Rows -> NodeStatuses] /\ nd[Self(w)] = StatusFor(v)
      /\ \A x \in Rows \ {Self(w)} : nd[x] = node[x]
  BY <1>1, <1>2, <1>4, <1>5, StatusFacts
<1>7. Consequence(w, v, nd, approvals)
  BY <1>1, <1>2, <1>3, <1>4, <1>5, <1>6, Consequences DEF Signals
<1>8. VerdictOn(w, v) /\ VerdictRows(w, v) /\ VerdictEdges(w, v)
  <2>1. RaisedTogether(w, node)
    BY <1>1, <1>6, <1>7 DEF Consequence, RaisedTogether
  <2> QED
    BY <1>1, <1>5, <1>6, <1>7, <2>1
    DEF Consequence, VerdictOn, VerdictRows, VerdictEdges, Terminal
<1>9. VerdictSources(w) /\ VerdictEvidence(w, v)
  BY <1>1, <1>5 DEF VerdictSources, VerdictEvidence
<1> QED
  BY <1>5, <1>8, <1>9 DEF VerdictMove

LEMMA RecheckPassesMoves ==
    ASSUME Bookkeeping, NEW w \in Work, RecheckPasses(w)
    PROVE  VerdictMove(w, "pass")
<1> DEFINE H == Handoffs({w})
<1>1. /\ Node[w].gated /\ Judged(w) /\ Self(w) \in Rows
      /\ node[Self(w)] \in {"FAILED", "ERRORED"} /\ phase = "parked" /\ phase' = phase
      /\ Node[w].kind = "bundle" => node[Self(w)] = "ERRORED" /\ w \in cleared
      /\ attempts' = [attempts EXCEPT ![w] = @ + 1]
      /\ UNCHANGED <<version, items, extraNeeds, cleared, owed>>
  BY DEF RecheckPasses, Rechecking, Command, Judged
<1>2. TypeOK /\ HandoffsNumbered
  BY DEF Bookkeeping
<1>3. PICK signal \in Signals(w) :
          node' = IF signal THEN Activated(Retired([node EXCEPT ![Self(w)] = "PASSED"], H),
                                           Node[w].onEscalate)
                  ELSE Retired([node EXCEPT ![Self(w)] = "PASSED"], H)
  BY DEF RecheckPasses
<1>4. PICK half : half = Retired([node EXCEPT ![Self(w)] = "PASSED"], H)
  OBVIOUS
<1>5. \A x \in H : x \in Rows /\ IsHandoff(x) /\ x # Self(w)
  BY DEF Handoffs, IsHandoff, Self
<1> HIDE DEF H
<1>6. /\ DOMAIN half = Rows
      /\ \A x \in Rows : half[x] = IF x \in H THEN "SKIPPED"
                                   ELSE IF x = Self(w) THEN "PASSED" ELSE node[x]
  <2>1. Rows = DOMAIN node /\ node \in [Rows -> NodeStatuses]
    BY <1>2 DEF Rows, TypeOK
  <2> QED
    BY <1>1, <1>4, <2>1 DEF Retired
<1>7. /\ Rows' = Rows
      /\ \A x \in Rows : \/ node'[x] = half[x]
                         \/ /\ half[x] = "SKIPPED" /\ node'[x] = "PENDING" /\ ~IsHandoff(x)
                            /\ \E d \in Raised(w) : x = Self(d)
  <2>1. CASE ~signal
    BY <1>3, <1>4, <1>6, <2>1 DEF Rows
  <2>2. CASE signal
    <3>1. node' = Activated(half, Node[w].onEscalate) /\ Node[w].onEscalate # NoNode
      BY <1>3, <1>4, <2>2 DEF Signals
    <3>2. Rows' = Rows
      BY <1>6, <3>1 DEF Activated, Rows
    <3>3. \A x \in Rows : \/ node'[x] = half[x]
                          \/ /\ half[x] = "SKIPPED" /\ node'[x] = "PENDING" /\ ~IsHandoff(x)
                             /\ x[1] \in Raised(w)
      BY <1>6, <3>1 DEF Activated, Raised
    <3>4. \A x \in Rows : ~IsHandoff(x) => x = Self(x[1])
      BY <1>2 DEF HandoffsNumbered
    <3> QED
      BY <3>2, <3>3, <3>4
  <2> QED
    BY <2>1, <2>2 DEF Signals
<1>8. VerdictOn(w, "pass")
  BY <1>1 DEF VerdictOn, Verdicts, Terminal
<1>9. VerdictRows(w, "pass")
  <2>1. node'[Self(w)] = "PASSED"
    BY <1>1, <1>5, <1>6, <1>7
  <2>2. ASSUME NEW x \in Rows \ {Self(w)}
        PROVE  \/ node'[x] = node[x]
               \/ /\ node[x] = "SKIPPED" /\ node'[x] = "PENDING"
                  /\ \E d \in Raised(w) : x = Self(d)
               \/ node'[x] = "SKIPPED" /\ x \in H
    BY <1>5, <1>6, <1>7
  <2>3. RaisedTogether(w, node)
    <3>1. CASE ~signal
      BY <1>1, <1>3, <1>4, <1>6, <3>1 DEF RaisedTogether
    <3>2. ASSUME signal, NEW d \in Raised(w), Self(d) \in Rows PROVE node'[Self(d)] # "SKIPPED"
      <4>1. d \in {Node[w].onEscalate} \cup Downstream[Node[w].onEscalate] /\ Node[d].optional
        BY <3>2 DEF Raised
      <4>2. /\ node' = Activated(half, Node[w].onEscalate)
            /\ ~IsHandoff(Self(d)) /\ Self(d)[1] = d
        BY <1>3, <1>4, <3>2 DEF IsHandoff, Self
      <4> QED
        BY <1>6, <3>2, <4>1, <4>2 DEF Activated
    <3> QED
      BY <3>1, <3>2 DEF RaisedTogether, Signals
  <2> QED
    BY <1>7, <2>1, <2>2, <2>3 DEF VerdictRows, H, StatusFor
<1>10. VerdictEdges(w, "pass") /\ VerdictSources(w) /\ VerdictEvidence(w, "pass")
  BY <1>1 DEF VerdictEdges, VerdictSources, VerdictEvidence
<1> QED
  BY <1>8, <1>9, <1>10 DEF VerdictMove

LEMMA InvalidateMoves ==
    ASSUME Bookkeeping, NEW n \in Plan, Invalidate(n)
    PROVE  WithdrawMove(n)
<1>1. /\ Command /\ node' = Withdrawn(n)
      /\ extraNeeds' = [extraNeeds EXCEPT ![n] = {}] /\ owed' = owed \ {n}
      /\ UNCHANGED <<attempts, version, items, cleared>>
  BY DEF Invalidate
<1>2. TypeOK /\ GrownByOwner
  BY DEF Bookkeeping
<1>3. phase = "parked" /\ wave = {} /\ wave' = {}
  BY <1>1, <1>2, CommandFacts
<1>4. n \in Work /\ Self(n) \in Rows
  BY <1>2, PlanAssumption DEF TypeOK
<1>5. PICK moot, children, builtOn :
         /\ moot = Moot(n) /\ children = {Self(c) : c \in Reclaimed(n)} /\ builtOn = BuiltOn(n)
  OBVIOUS
<1>6. /\ Rows' = Rows
      /\ \A x \in Rows : node'[x] = IF x = Self(n) THEN "PENDING"
                                    ELSE IF x \in moot \cup children THEN "SKIPPED"
                                    ELSE IF x \in builtOn THEN "STALE" ELSE node[x]
  BY <1>1, <1>5 DEF Withdrawn, Rows
<1>7. \A x \in Rows \ {Self(n)} :
          \/ node'[x] = node[x]
          \/ /\ node'[x] = "SKIPPED"
             /\ \/ IsHandoff(x) /\ x[1] \in {n} \cup extraNeeds[n] \cup Downstream[n]
                \/ \E c \in extraNeeds[n] : x = Self(c)
          \/ node'[x] = "STALE" /\ \E d \in Downstream[n] : x = Self(d)
  BY <1>5, <1>6 DEF Moot, Handoffs, Reclaimed, BuiltOn
<1>8. ASSUME NEW d \in Downstream[n], Self(d) \in Rows
      PROVE  node'[Self(d)] \notin {"PASSED", "BLOCKED", "FAILED", "ERRORED"}
  <2>1. node[Self(d)] \in {"PASSED", "BLOCKED", "FAILED", "ERRORED"} => Self(d) \in BuiltOn(n)
    BY <1>8 DEF BuiltOn
  <2> QED
    BY <1>5, <1>6, <1>8, <2>1
<1>9. ASSUME NEW c \in extraNeeds[n], Self(c) \in Rows
      PROVE  /\ node'[Self(c)] \in {"PENDING", "SKIPPED"}
             /\ node'[Self(c)] = "SKIPPED" => \A x \in Handoffs({c}) : node'[x] = "SKIPPED"
  <2>1. c \in Work \ Plan /\ Self(c) # Self(n)
    BY <1>2, <1>4, GrownFacts, SelfFacts
  <2>2. Self(c) \notin builtOn
    BY <1>4, <1>5, <2>1, DownstreamFacts, SelfFacts, PlanAssumption DEF BuiltOn
  <2>3. CASE node[Self(c)] = "PENDING"
    <3>1. Self(c) \notin moot
      BY <1>5, <2>1, SelfFacts DEF Moot, Handoffs
    <3>2. Self(c) \notin children
      BY <1>5, <2>3 DEF Reclaimed
    <3> QED
      BY <1>6, <1>9, <2>1, <2>2, <2>3, <3>1, <3>2
  <2>4. CASE node[Self(c)] # "PENDING"
    <3>1. c \in Reclaimed(n) /\ Self(c) \in children
      BY <1>5, <1>9, <2>4 DEF Reclaimed
    <3>2. ASSUME NEW x \in Handoffs({c}) PROVE node'[x] = "SKIPPED"
      <4>1. x \in Rows /\ IsHandoff(x) /\ x # Self(n) /\ x \in Handoffs({n} \cup Reclaimed(n) \cup Downstream[n])
        BY <3>1 DEF Handoffs, IsHandoff, Self
      <4>2. x \notin BuiltOn(n) /\ (node[x] # "SKIPPED" => x \in Moot(n))
        <5>1. \A d : x # Self(d)
          BY <4>1 DEF IsHandoff, Self
        <5> QED
          BY <4>1, <5>1 DEF Moot, BuiltOn
      <4> QED
        BY <1>5, <1>6, <4>1, <4>2
    <3> QED
      BY <1>6, <1>9, <2>1, <3>1, <3>2
  <2> QED
    BY <2>3, <2>4
<1>10. \E i \in DOMAIN approvals' :
          /\ i \notin DOMAIN approvals
          /\ approvals'[i].node = Self(n) /\ approvals'[i].decision = "REJECTED"
  <2>1. approvals \in Seq(Approval) /\ clock \in Nat /\ "REJECTED" \in Decisions
    BY <1>2 DEF TypeOK, Decisions
  <2>2. PICK ap : ap = Decide(approvals, Open(approvals, Moot(n) \cup BuiltOn(n)), "REJECTED")
    OBVIOUS
  <2>3. ap \in Seq(Approval) /\ DOMAIN ap = DOMAIN approvals
    BY <2>1, <2>2, DecideFacts
  <2>4. approvals' = Noted(ap, Self(n), "REJECTED")
    BY <2>2 DEF Invalidate
  <2>5. Len(ap) + 1 \in DOMAIN approvals' /\ Len(ap) + 1 \notin DOMAIN ap
    BY <2>3, <2>4 DEF Noted
  <2>6. \A i \in DOMAIN approvals' \ DOMAIN ap :
           approvals'[i].node = Self(n) /\ approvals'[i].decision = "REJECTED"
    BY <1>4, <2>1, <2>3, <2>4, SelfFacts, NotedFacts
  <2> QED
    BY <2>3, <2>5, <2>6
<1> QED
  BY <1>1, <1>3, <1>4, <1>6, <1>7, <1>8, <1>9, <1>10 DEF WithdrawMove

(* Every step of a run is one of them.                                        *)
LEMMA StepMoves ==
    ASSUME Bookkeeping, [Next]_vars
    PROVE  \/ GentleMove
           \/ \E id \in Rows : AnswerMove(id)
           \/ \E f \in Work : ExpandMove(f)
           \/ \E w \in Work : \E v \in Verdicts : VerdictMove(w, v)
           \/ \E n \in Plan : WithdrawMove(n)
<1>1. CASE Driver
  <2>1. wave \subseteq Rows
    BY DEF Bookkeeping, TypeOK
  <2> QED
    BY <1>1, <2>1, SettledIsGentle, AnswerMoves, ExpandMoves, RecordWorkMoves,
       RecordBundleMoves DEF Driver
<1>2. CASE Resume \/ Crash
  BY <1>2, SettledIsGentle, ResumedIsGentle
<1>3. CASE Operator
  <2>1. "pass" \in Verdicts
    BY DEF Verdicts
  <2> QED
    BY <1>3, <2>1, SettledIsGentle, ResumedIsGentle, AnswerMoves, RecheckPassesMoves,
       RecheckFailsMoves, InvalidateMoves DEF Operator
<1>4. CASE UNCHANGED vars
  BY <1>4 DEF vars, GentleMove, Gentle, Rows
<1> QED
  BY <1>1, <1>2, <1>3, <1>4 DEF Next

-------------------------------------------------------------------------------
(* Release evidence.                                                          *)

(* Optional work a bundle depends on is raised only by work it depends on.    *)
RaisedUpstream ==
    \A b, w \in Work : Node[b].kind = "bundle" /\ Raised(w) \cap Upstream[b] # {}
        => w \in Upstream[b]

(* A checkpoint is a person's decision, not a result: a request left over on  *)
(* it can be refused after the bundle was built.                              *)
StandsUpstream(b) ==
    \A v \in RuntimeUpstream(b) : Node[v].kind = "human" \/ IsSatisfied(Self(v))

RowsGrown == \A w \in Work : \A c \in extraNeeds[w] : Self(c) \in Rows

(* Why green evidence is current: it stays so from the record that cleared    *)
(* the bundle, also through an ERROR a re-check may lift.                     *)
EvidenceStands ==
    \A b \in Work : Node[b].kind = "bundle" =>
        /\ Passed(b) => b \in cleared
        /\ b \in cleared /\ Self(b) \in Rows /\ node[Self(b)] \in {"PASSED", "ERRORED"}
           => StandsUpstream(b)

LEMMA RowsGrownKept ==
    ASSUME Bookkeeping, RowsGrown, [Next]_vars
    PROVE  RowsGrown'
<1>1. CASE GentleMove \/ \E id \in Rows : AnswerMove(id)
  BY <1>1 DEF GentleMove, AnswerMove, RowsGrown
<1>2. ASSUME NEW f \in Work, ExpandMove(f) PROVE RowsGrown'
  BY <1>2 DEF ExpandMove, RowsGrown
<1>3. ASSUME NEW w \in Work, NEW v \in Verdicts, VerdictMove(w, v) PROVE RowsGrown'
  <2>1. Rows \subseteq Rows' /\ VerdictEdges(w, v) /\ extraNeeds \in [Work -> SUBSET Work]
    BY <1>3 DEF VerdictMove, VerdictRows, Bookkeeping, TypeOK
  <2> QED
    BY <2>1 DEF VerdictEdges, Repaired, RowsGrown
<1>4. ASSUME NEW n \in Plan, WithdrawMove(n) PROVE RowsGrown'
  BY <1>4 DEF WithdrawMove, RowsGrown, Bookkeeping, TypeOK
<1> QED
  BY <1>1, <1>2, <1>3, <1>4, StepMoves

(* A bundle is in the plan, and everything upstream of it has a row.          *)
LEMMA BundleFacts ==
    ASSUME Bookkeeping, RowsGrown, NEW b \in Work, Node[b].kind = "bundle"
    PROVE  /\ b \in Plan /\ Self(b) \in Rows
           /\ Upstream[b] \subseteq RuntimeUpstream(b)
           /\ \A v \in RuntimeUpstream(b) : v \in Work /\ Self(v) \in Rows
           /\ \A v \in RuntimeUpstream(b) \cap Plan : v \in Upstream[b]
           /\ \A v \in RuntimeUpstream(b) \ Plan :
                 \E u \in Upstream[b] \cup {b} : v \in extraNeeds[u]
<1>1. b \in Plan
  BY PlanAssumption
<1>2. TypeOK /\ GrownByOwner
  BY DEF Bookkeeping
<1>3. Upstream[b] \subseteq Plan /\ Plan \subseteq Work
  BY UpstreamFacts, PlanAssumption
<1>4. RuntimeUpstream(b) = Upstream[b] \cup UNION {extraNeeds[u] : u \in Upstream[b] \cup {b}}
  BY DEF RuntimeUpstream
<1>5. \A u \in Upstream[b] \cup {b} : u \in Work /\ \A c \in extraNeeds[u] :
          c \in Work \ Plan /\ Self(c) \in Rows
  BY <1>2, <1>3, GrownFacts DEF RowsGrown
<1> QED
  BY <1>1, <1>2, <1>3, <1>4, <1>5 DEF TypeOK

(* What is not satisfied, or what the bundle follows, moves on its own: the   *)
(* graph above a bundle that stands is the same after the step.               *)
LEMMA UpstreamStays ==
    ASSUME NEW b \in Work, NEW w \in Work, w # b, w \notin Upstream[b],
           \A u \in Work \ {w} : extraNeeds'[u] = extraNeeds[u]
    PROVE  RuntimeUpstream(b)' = RuntimeUpstream(b)
<1>1. Upstream[b] \subseteq Work
  BY UpstreamFacts, PlanAssumption
<1>2. \A u \in Upstream[b] \cup {b} : extraNeeds'[u] = extraNeeds[u]
  BY <1>1
<1>3. RuntimeUpstream(b)' = Upstream[b] \cup UNION {extraNeeds'[u] : u \in Upstream[b] \cup {b}}
  BY DEF RuntimeUpstream
<1> QED
  BY <1>2, <1>3 DEF RuntimeUpstream

LEMMA EvidenceInit == ConsoleInit => RowsGrown /\ EvidenceStands
BY DEF ConsoleInit, Init, RowsGrown, EvidenceStands, Passed, Rows

LEMMA EvidenceGentle ==
    ASSUME Bookkeeping, RowsGrown, EvidenceStands, GentleMove
    PROVE  EvidenceStands'
<1> SUFFICES ASSUME NEW b \in Work, Node[b].kind = "bundle"
             PROVE  /\ Passed(b)' => b \in cleared'
                    /\ b \in cleared' /\ Self(b) \in Rows' /\ node'[Self(b)] \in {"PASSED", "ERRORED"}
                       => StandsUpstream(b)'
  BY DEF EvidenceStands
<1>1. /\ Rows' = Rows /\ \A x \in Rows : Gentle(x)
      /\ cleared' = cleared /\ RuntimeUpstream(b)' = RuntimeUpstream(b)
  BY DEF GentleMove, RuntimeUpstream
<1>2. \A v \in RuntimeUpstream(b) : v \in Work /\ KindOf(Self(v)) = Node[v].kind
  BY BundleFacts, SelfFacts
<1>3. \A v \in RuntimeUpstream(b) : IsSatisfied(Self(v)) =>
          Node[v].kind = "human" \/ IsSatisfied(Self(v))'
  BY <1>1, <1>2 DEF IsSatisfied, Gentle, Terminal
<1>4. node'[Self(b)] \in {"PASSED", "ERRORED"} /\ Self(b) \in Rows => node[Self(b)] = node'[Self(b)]
  BY <1>1 DEF Gentle
<1> QED
  BY <1>1, <1>3, <1>4 DEF EvidenceStands, StandsUpstream, Passed

LEMMA EvidenceAnswer ==
    ASSUME Bookkeeping, RowsGrown, EvidenceStands, NEW id \in Rows, AnswerMove(id)
    PROVE  EvidenceStands'
<1> SUFFICES ASSUME NEW b \in Work, Node[b].kind = "bundle"
             PROVE  /\ Passed(b)' => b \in cleared'
                    /\ b \in cleared' /\ Self(b) \in Rows' /\ node'[Self(b)] \in {"PASSED", "ERRORED"}
                       => StandsUpstream(b)'
  BY DEF EvidenceStands
<1>1. /\ Rows' = Rows /\ cleared' = cleared /\ RuntimeUpstream(b)' = RuntimeUpstream(b)
      /\ \A x \in Rows \ {id} :
            \/ node'[x] = node[x]
            \/ node[x] \in {"FAILED", "ERRORED"} /\ node'[x] \in {"PENDING", "SKIPPED"}
  BY DEF AnswerMove, RuntimeUpstream
<1>2. \A v \in RuntimeUpstream(b) : Node[v].kind = "human" \/ Self(v) # id
  BY BundleFacts, SelfFacts DEF AnswerMove
<1>3. \A v \in RuntimeUpstream(b) : IsSatisfied(Self(v)) =>
          Node[v].kind = "human" \/ IsSatisfied(Self(v))'
  BY <1>1, <1>2 DEF IsSatisfied, Terminal
<1>4. Self(b) # id
  BY SelfFacts DEF AnswerMove
<1>5. node'[Self(b)] \in {"PASSED", "ERRORED"} /\ Self(b) \in Rows => node[Self(b)] = node'[Self(b)]
  BY <1>1, <1>4
<1> QED
  BY <1>1, <1>3, <1>5 DEF EvidenceStands, StandsUpstream, Passed

LEMMA EvidenceExpand ==
    ASSUME Bookkeeping, RowsGrown, EvidenceStands, NEW f \in Work, ExpandMove(f)
    PROVE  EvidenceStands'
<1> SUFFICES ASSUME NEW b \in Work, Node[b].kind = "bundle", b \in cleared',
                    node'[Self(b)] \in {"PASSED", "ERRORED"}
             PROVE  StandsUpstream(b)'
  <2>1. ASSUME NEW b \in Work, Node[b].kind = "bundle", Passed(b)' PROVE b \in cleared'
    <3>1. Self(b) # Self(f) /\ Self(b) \in Rows /\ cleared' = cleared
      BY <2>1, BundleFacts, SelfFacts DEF ExpandMove
    <3>2. Passed(b)
      BY <2>1, <3>1 DEF ExpandMove, Passed
    <3> QED
      BY <2>1, <3>1, <3>2 DEF EvidenceStands
  <2> QED
    BY <2>1 DEF EvidenceStands
<1>1. /\ b # f /\ Self(b) # Self(f) /\ Self(b) \in Rows /\ cleared' = cleared
      /\ Node[f].kind = "fanout" /\ Self(f) \in wave
  BY BundleFacts, SelfFacts DEF ExpandMove
<1>2. node[Self(b)] = node'[Self(b)]
  BY <1>1 DEF ExpandMove
<1>3. StandsUpstream(b)
  BY <1>1, <1>2 DEF EvidenceStands
<1>4. ~IsSatisfied(Self(f))
  BY <1>1 DEF IsSatisfied, Terminal, Bookkeeping, WaveIsUndone
<1>5. f \notin RuntimeUpstream(b) /\ f \notin Upstream[b]
  BY <1>1, <1>3, <1>4, BundleFacts DEF StandsUpstream
<1>6. RuntimeUpstream(b)' = RuntimeUpstream(b)
  BY <1>1, <1>5, UpstreamStays DEF ExpandMove
<1>7. ASSUME NEW v \in RuntimeUpstream(b), NEW c \in extraNeeds'[f]
      PROVE  Self(v) # Self(c)
  <2>1. c \in Owned(f) /\ c \in Work \ Plan /\ v \in Work
    BY <1>7, BundleFacts, PlanAssumption DEF ExpandMove, Owned, NodeFields
  <2>2. SUFFICES ASSUME v = c PROVE FALSE
    BY <2>1, SelfFacts
  <2>3. PICK u \in Upstream[b] \cup {b} : v \in extraNeeds[u]
    BY <2>1, <2>2, BundleFacts
  <2>4. u \in Work /\ u # f /\ v \in Owned(u)
    BY <1>1, <1>5, <2>3, UpstreamFacts, PlanAssumption DEF Bookkeeping, GrownByOwner
  <2> QED
    BY <2>1, <2>2, <2>4, PlanAssumption
<1>8. ASSUME NEW v \in RuntimeUpstream(b)
      PROVE  Node[v].kind = "human" \/ IsSatisfied(Self(v))'
  <2>1. v \in Work /\ Self(v) \in Rows /\ Self(v) # Self(f)
    BY <1>5, BundleFacts, SelfFacts
  <2>2. Self(v) \in Rows' /\ node'[Self(v)] = node[Self(v)]
    BY <1>7, <2>1 DEF ExpandMove
  <2> QED
    BY <1>3, <2>2 DEF StandsUpstream, IsSatisfied
<1> QED
  BY <1>6, <1>8 DEF StandsUpstream

LEMMA EvidenceVerdict ==
    ASSUME Bookkeeping, RowsGrown, EvidenceStands, RaisedUpstream,
           NEW w \in Work, NEW v \in Verdicts, VerdictMove(w, v)
    PROVE  EvidenceStands'
<1>1. /\ Self(w) \in Rows /\ ~IsSatisfied(Self(w)) /\ Node[w].kind \in {"work", "bundle"}
      /\ Rows \subseteq Rows' /\ TypeOK
  BY DEF VerdictMove, VerdictOn, VerdictRows, IsSatisfied, Judged, Bookkeeping
<1>2. ASSUME NEW b \in Work, Node[b].kind = "bundle", b # w
      PROVE  /\ b \in cleared' <=> b \in cleared
             /\ node'[Self(b)] \in {"PASSED", "ERRORED"} => node[Self(b)] = node'[Self(b)]
  <2>1. Self(b) \in Rows /\ Self(b) # Self(w) /\ \A x \in Handoffs({w}) : Self(b) # x
    BY <1>2, BundleFacts, SelfFacts DEF Handoffs
  <2> QED
    BY <1>2, <2>1 DEF VerdictMove, VerdictEvidence, VerdictRows
<1>3. ASSUME NEW b \in Work, Node[b].kind = "bundle", Passed(b)' PROVE b \in cleared'
  <2>1. CASE b = w
    <3>1. v = "pass"
      BY <1>3, <2>1 DEF Passed, VerdictMove, VerdictRows
    <3> QED
      BY <1>3, <2>1, <3>1 DEF VerdictMove, VerdictEvidence
  <2>2. CASE b # w
    BY <1>2, <1>3, <2>2, BundleFacts DEF Passed, EvidenceStands
  <2> QED
    BY <2>1, <2>2
<1>4. \* What stood before stands, as long as w is not upstream.
      ASSUME NEW b \in Work, Node[b].kind = "bundle", StandsUpstream(b),
             RuntimeUpstream(b)' = RuntimeUpstream(b)
      PROVE  StandsUpstream(b)'
  <2>1. w \notin RuntimeUpstream(b) /\ w \notin Upstream[b]
    BY <1>1, <1>4, BundleFacts DEF StandsUpstream
  <2>2. ASSUME NEW u \in RuntimeUpstream(b), Node[u].kind # "human"
        PROVE  IsSatisfied(Self(u))'
    <3>1. u \in Work /\ Self(u) \in Rows /\ Self(u) # Self(w) /\ IsSatisfied(Self(u))
      BY <1>4, <2>1, <2>2, BundleFacts, SelfFacts DEF StandsUpstream
    <3>2. \A x \in Handoffs({w}) : Self(u) # x
      BY <3>1, SelfFacts DEF Handoffs
    <3>3. \A d \in Raised(w) : Self(u) # Self(d)
      <4>1. SUFFICES ASSUME NEW d \in Raised(w), Self(u) = Self(d) PROVE FALSE
        OBVIOUS
      <4>2. d \in Plan /\ d \in Work
        <5>1. Node[w].onEscalate \in Plan \cup {NoNode}
          BY PlanAssumption DEF NodeFields
        <5> QED
          BY <4>1, <5>1, DownstreamFacts, PlanAssumption DEF Raised
      <4>3. u = d
        BY <3>1, <4>1, <4>2, SelfFacts
      <4>4. d \in Upstream[b]
        BY <1>4, <4>2, <4>3, BundleFacts
      <4> QED
        BY <1>4, <2>1, <4>4 DEF RaisedUpstream
    <3>4. \A d \in Downstream[w] : Self(u) # Self(d)
      <4>1. SUFFICES ASSUME NEW d \in Downstream[w], Self(u) = Self(d) PROVE FALSE
        OBVIOUS
      <4>2. d \in Plan /\ d \in Work /\ Downstream[d] \subseteq Downstream[w]
        BY DownstreamFollows
      <4>3. u = d
        BY <3>1, <4>1, <4>2, SelfFacts
      <4>4. b \in Downstream[d]
        BY <1>4, <4>2, <4>3, BundleFacts DEF Upstream
      <4> QED
        BY <2>1, <4>2, <4>4, UpstreamFacts
    <3>5. KindOf(Self(u)) # "human"
      BY <2>2, <3>1, SelfFacts
    <3>6. node'[Self(u)] = node[Self(u)]
      BY <3>1, <3>2, <3>3, <3>4, <3>5 DEF VerdictMove, VerdictRows, Reopens
    <3> QED
      BY <1>1, <3>1, <3>6 DEF IsSatisfied
  <2> QED
    BY <1>4, <2>2 DEF StandsUpstream
<1>5. ASSUME NEW b \in Work, Node[b].kind = "bundle", b # w, b \in cleared',
             node'[Self(b)] \in {"PASSED", "ERRORED"}
      PROVE  StandsUpstream(b)'
  <2>1. StandsUpstream(b)
    BY <1>2, <1>5, BundleFacts DEF EvidenceStands
  <2>2. w \notin Upstream[b]
    BY <1>1, <1>5, <2>1, BundleFacts DEF StandsUpstream
  <2>3. \A u \in Work \ {w} : extraNeeds'[u] = extraNeeds[u]
    BY <1>1 DEF VerdictMove, VerdictEdges, Repaired, TypeOK
  <2> QED
    BY <1>4, <1>5, <2>1, <2>2, <2>3, UpstreamStays
<1>6. ASSUME Node[w].kind = "bundle", w \in cleared', node'[Self(w)] \in {"PASSED", "ERRORED"}
      PROVE  StandsUpstream(w)'
  <2>1. StandsUpstream(w)
    <3>1. CASE w \in cleared /\ node[Self(w)] = "ERRORED"
      BY <1>1, <1>6, <3>1 DEF EvidenceStands
    <3>2. CASE Releasable([node EXCEPT ![Self(w)] = "RUNNING"], w)
      <4>1. PICK nd : nd = [node EXCEPT ![Self(w)] = "RUNNING"]
        OBVIOUS
      <4>2. DOMAIN nd = Rows /\ \A x \in Rows \ {Self(w)} : nd[x] = node[x]
        BY <4>1 DEF Rows
      <4>3. ASSUME NEW u \in RuntimeUpstream(w) PROVE IsSatisfied(Self(u))
        <5>1. u \in Work /\ Self(u) \in Rows
          BY <1>6, BundleFacts
        <5>2. u # w
          BY <1>6, BundleFacts, UpstreamFacts
        <5>3. Self(u) # Self(w) /\ node[Self(u)] \in NodeStatuses
          BY <1>1, <5>1, <5>2, SelfFacts DEF TypeOK
        <5>4. node[Self(u)] \notin Unfinished \cup {"FAILED", "ERRORED", "STALE"}
          BY <3>2, <4>1, <4>2, <5>1, <5>3 DEF Releasable, AllUpstreamGatesGreen,
             NoNodeInNonterminalState
        <5> QED
          BY <5>1, <5>3, <5>4 DEF IsSatisfied, Terminal, Unfinished, NodeStatuses
      <4> QED
        BY <4>3 DEF StandsUpstream
    <3> QED
      BY <1>6, <3>1, <3>2 DEF VerdictMove, VerdictEvidence
  <2>2. extraNeeds' = extraNeeds
    BY <1>6 DEF VerdictMove, VerdictEdges, Repaired
  <2>3. RuntimeUpstream(w)' = RuntimeUpstream(w)
    BY <2>2 DEF RuntimeUpstream
  <2> QED
    BY <1>4, <1>6, <2>1, <2>3
<1> QED
  BY <1>3, <1>5, <1>6 DEF EvidenceStands

LEMMA EvidenceWithdraw ==
    ASSUME Bookkeeping, RowsGrown, EvidenceStands, NEW n \in Plan, WithdrawMove(n)
    PROVE  EvidenceStands'
<1>1. /\ n \in Work /\ Rows' = Rows /\ cleared' = cleared /\ node'[Self(n)] = "PENDING"
      /\ extraNeeds \in [Work -> SUBSET Work] /\ GrownByOwner /\ TypeOK
  BY PlanAssumption DEF WithdrawMove, Bookkeeping, TypeOK
<1>2. ASSUME NEW b \in Work, Node[b].kind = "bundle", node'[Self(b)] \in {"PASSED", "ERRORED"}
      PROVE  b # n /\ b \notin Downstream[n] /\ node[Self(b)] = node'[Self(b)]
  <2>1. Self(b) \in Rows /\ b # n /\ Self(b) # Self(n) /\ ~IsHandoff(Self(b))
    BY <1>1, <1>2, BundleFacts, SelfFacts
  <2>2. b \notin Downstream[n]
    BY <1>2, <2>1 DEF WithdrawMove
  <2> QED
    BY <1>2, <2>1, <2>2 DEF WithdrawMove
<1>3. ASSUME NEW b \in Work, Node[b].kind = "bundle", b \in cleared,
             node'[Self(b)] \in {"PASSED", "ERRORED"}
      PROVE  StandsUpstream(b)'
  <2>1. StandsUpstream(b) /\ n \notin Upstream[b] /\ n # b
    BY <1>1, <1>2, <1>3, BundleFacts DEF EvidenceStands, Upstream
  <2>2. RuntimeUpstream(b)' = RuntimeUpstream(b)
    <3>1. \A u \in Work \ {n} : extraNeeds'[u] = extraNeeds[u]
      BY <1>1 DEF WithdrawMove
    <3> QED
      BY <1>1, <2>1, <3>1, UpstreamStays
  <2>3. ASSUME NEW u \in RuntimeUpstream(b), IsSatisfied(Self(u))
        PROVE  IsSatisfied(Self(u))'
    <3>1. u \in Work /\ Self(u) \in Rows
      BY <1>3, BundleFacts
    <3>2. u # n /\ Self(u) # Self(n)
      BY <1>1, <1>3, <2>1, <3>1, BundleFacts, SelfFacts
    <3>3. \A d \in Downstream[n] : Self(u) # Self(d)
      <4>1. SUFFICES ASSUME NEW d \in Downstream[n], Self(u) = Self(d) PROVE FALSE
        OBVIOUS
      <4>2. d \in Plan /\ d \in Work /\ Downstream[d] \subseteq Downstream[n]
        BY <1>1, DownstreamFollows
      <4>3. u = d
        BY <3>1, <4>1, <4>2, SelfFacts
      <4>4. b \in Downstream[d]
        BY <1>3, <4>2, <4>3, BundleFacts DEF Upstream
      <4> QED
        BY <1>2, <1>3, <4>2, <4>4
    <3>4. node'[Self(u)] \in {node[Self(u)], "SKIPPED"}
      BY <3>1, <3>2, <3>3 DEF WithdrawMove
    <3> QED
      BY <1>1, <2>3, <3>4 DEF IsSatisfied, Terminal
  <2> QED
    BY <2>1, <2>2, <2>3 DEF StandsUpstream
<1> QED
  BY <1>1, <1>2, <1>3, BundleFacts DEF EvidenceStands, Passed

LEMMA EvidenceKept ==
    ASSUME Bookkeeping, RowsGrown, EvidenceStands, RaisedUpstream, [Next]_vars
    PROVE  EvidenceStands'
BY StepMoves, EvidenceGentle, EvidenceAnswer, EvidenceExpand, EvidenceVerdict, EvidenceWithdraw

(* Whatever is retried, re-derived, repaired, re-checked or withdrawn, in     *)
(* which order the waves record it and wherever a process dies: everything    *)
(* that does work upstream of a green bundle is done and not stale.           *)
THEOREM GreenEvidenceStands ==
    ASSUME RaisedUpstream
    PROVE  Spec => [](\A b \in Work : Node[b].kind = "bundle" /\ Passed(b) => StandsUpstream(b))
<1>1. ConsoleInit => Bookkeeping /\ RowsGrown /\ EvidenceStands
  BY InitHolds, EvidenceInit
<1>2. Bookkeeping /\ RowsGrown /\ EvidenceStands /\ [Next]_vars
         => (Bookkeeping /\ RowsGrown /\ EvidenceStands)'
  BY NextKeeps, RowsGrownKept, EvidenceKept
<1>3. EvidenceStands =>
         \A b \in Work : Node[b].kind = "bundle" /\ Passed(b) => StandsUpstream(b)
  BY DEF EvidenceStands, Passed
<1> QED
  BY <1>1, <1>2, <1>3, PTL DEF Spec

(* Nobody is asked before a bundle.                                           *)
NobodyIsAskedFirst ==
    \A b \in Work : Node[b].kind = "bundle" => \A v \in Upstream[b] : Node[v].kind # "human"

(* In such a plan everything upstream of a green bundle is done: a checkpoint *)
(* in between could be refused, on a request left over, under the bundle.     *)
THEOREM EvidenceIsCurrentHolds ==
    ASSUME RaisedUpstream, NobodyIsAskedFirst
    PROVE  Spec => []EvidenceIsCurrent
<1>1. Bookkeeping /\ RowsGrown
      /\ (\A b \in Work : Node[b].kind = "bundle" /\ Passed(b) => StandsUpstream(b))
         => EvidenceIsCurrent
  <2> SUFFICES ASSUME Bookkeeping, RowsGrown, NEW b \in Work, Node[b].kind = "bundle",
                      StandsUpstream(b), NEW v \in RuntimeUpstream(b)
               PROVE  IsSatisfied(Self(v))
    BY DEF EvidenceIsCurrent
  <2>1. CASE v \in Plan
    BY <2>1, BundleFacts DEF StandsUpstream, NobodyIsAskedFirst
  <2>2. CASE v \notin Plan
    <3>1. v \in Work /\ Node[v].kind = "work"
      BY <2>2, BundleFacts, PlanAssumption
    <3> QED
      BY <3>1 DEF StandsUpstream
  <2> QED
    BY <2>1, <2>2
<1>2. ConsoleInit => RowsGrown
  BY EvidenceInit
<1>3. Bookkeeping /\ RowsGrown /\ [Next]_vars => RowsGrown'
  BY RowsGrownKept
<1> QED
  BY <1>1, <1>2, <1>3, BookkeepingHolds, GreenEvidenceStands, PTL DEF Spec

-------------------------------------------------------------------------------
(* The shape a fan-out implemented.                                           *)

(* A fan-out is behind its source, and a new version of the source reaches    *)
(* it: either the source's output is known by the name it is recorded under,  *)
(* or the fan-out needs the source itself, which cannot run again unless      *)
(* someone withdraws it.                                                      *)
SourcesFirst ==
    \A f \in Work : LET s == Node[f].from IN Node[f].kind = "fanout" /\ s # NoNode =>
        /\ f \in Downstream[s]
        /\ \/ Node[s].qualified
           \/ /\ s \in Node[f].needs /\ ~Node[s].optional
              /\ \A u \in Upstream[s] : ~Node[u].qualified

(* Why the shape stays current: what a fan-out could expand was recorded, and *)
(* a source nothing invalidates is done as long as its fan-out is green or in *)
(* flight.                                                                    *)
SourceStands ==
    \A f \in Work : LET s == Node[f].from IN Node[f].kind = "fanout" =>
        /\ items[f] # {} => s # NoNode /\ version[s] > 0
        /\ s # NoNode /\ ~Node[s].qualified /\ Node[s].kind = "work"
              /\ (Passed(f) \/ Self(f) \in wave)
           => IsSatisfied(Self(s))

LEMMA SourceFacts ==
    ASSUME Bookkeeping, SourcesFirst, NEW f \in Work, Node[f].kind = "fanout",
           Node[f].from # NoNode
    PROVE  LET s == Node[f].from
           IN  /\ f \in Plan /\ s \in Plan /\ s \in Work /\ Self(s) \in Rows /\ Self(f) \in Rows
               /\ f \in Downstream[s] /\ s # f
               /\ \A n \in Work : s \in Downstream[n] => f \in Downstream[n]
<1> DEFINE s == Node[f].from
<1>1. f \in Plan
  BY PlanAssumption
<1>2. f \in Downstream[s]
  BY DEF SourcesFirst
<1>3. s \in Plan /\ f \in Downstream[s]
  BY <1>2, PlanAssumption DEF NodeFields
<1>4. s # f
  BY <1>3, AcyclicAssumption
<1>5. \A n \in Work : s \in Downstream[n] => f \in Downstream[n]
  BY <1>3, DownstreamFollows
<1> QED
  BY <1>1, <1>3, <1>4, <1>5, PlanAssumption DEF Bookkeeping, TypeOK

LEMMA SourceInit == ConsoleInit => SourceStands /\ FanoutMatchesSource
BY DEF ConsoleInit, Init, SourceStands, FanoutMatchesSource, Passed, Rows

(* Only a dispatch puts a row in the wave, and then what it needs is done.    *)
LEMMA WaveGrows ==
    ASSUME Bookkeeping, [Next]_vars, NEW f \in Work, NEW s \in Node[f].needs,
           Self(f) \in wave', Self(f) \notin wave, Node[s].kind = "work"
    PROVE  IsSatisfied(Self(s)) /\ GentleMove
<1>1. Dispatch
  BY DEF Next, Driver, Operator, Resume, Crash, BlockForHuman, Expand, RecordWork, RecordBundle,
     Recorded, ExpandRaises, Settle, Approve, Reject, Retry, Invalidate, RecheckPasses,
     RecheckFails, Rechecking, Stop, Rollback, Command, vars
<1>2. Self(f) \in Ready
  BY <1>1 DEF Dispatch
<1>3. IsSatisfied(Self(s))
  BY <1>2, SelfFacts DEF Ready, IsReady, NeedsOf
<1> QED
  BY <1>1, <1>3, SettledIsGentle

(* A fan-out turns green only by expanding.                                   *)
LEMMA FanoutPasses ==
    ASSUME Bookkeeping, [Next]_vars, NEW f \in Work, Node[f].kind = "fanout", Passed(f)'
    PROVE  \/ Passed(f) /\ extraNeeds'[f] = extraNeeds[f]
           \/ ExpandMove(f)
<1>1. CASE GentleMove
  BY <1>1 DEF GentleMove, Gentle, Passed
<1>2. ASSUME NEW id \in Rows, AnswerMove(id)
      PROVE  Passed(f) /\ extraNeeds'[f] = extraNeeds[f]
  BY <1>2, SelfFacts DEF AnswerMove, Passed
<1>3. ASSUME NEW g \in Work, ExpandMove(g), g # f
      PROVE  Passed(f) /\ extraNeeds'[f] = extraNeeds[f]
  <2>1. Self(f) # Self(g)
    BY <1>3, SelfFacts
  <2> QED
    BY <1>3, <2>1 DEF ExpandMove, Passed
<1>4. ASSUME NEW w \in Work, NEW v \in Verdicts, VerdictMove(w, v)
      PROVE  Passed(f) /\ extraNeeds'[f] = extraNeeds[f]
  <2>1. f # w /\ Self(f) # Self(w) /\ Self(f) \in Rows'
    BY <1>4, SelfFacts DEF VerdictMove, VerdictOn, Judged, Passed
  <2>2. Self(f) \in Rows /\ node[Self(f)] = "PASSED"
    BY <1>4, <2>1 DEF VerdictMove, VerdictRows, Passed
  <2>3. extraNeeds'[f] = extraNeeds[f]
    BY <1>4, <2>1 DEF VerdictMove, VerdictEdges, Repaired, Bookkeeping, TypeOK
  <2> QED
    BY <2>2, <2>3 DEF Passed
<1>5. ASSUME NEW n \in Plan, WithdrawMove(n)
      PROVE  Passed(f) /\ extraNeeds'[f] = extraNeeds[f]
  <2>1. f # n /\ Self(f) # Self(n)
    BY <1>5 DEF WithdrawMove, Passed
  <2> QED
    BY <1>5, <2>1 DEF WithdrawMove, Passed, Bookkeeping, TypeOK
<1> QED
  BY <1>1, <1>2, <1>3, <1>4, <1>5, StepMoves

(* An unqualified source stays done while its fan-out is green or in flight.  *)
LEMMA SourceStaysDone ==
    ASSUME Bookkeeping, SourcesFirst, [Next]_vars, NEW f \in Work, Node[f].kind = "fanout",
           Node[f].from # NoNode, Node[Node[f].from].kind = "work",
           ~Node[Node[f].from].qualified, IsSatisfied(Self(Node[f].from)),
           Passed(f)' \/ Self(f) \in wave'
    PROVE  IsSatisfied(Self(Node[f].from))'
<1> DEFINE s == Node[f].from
<1>1. /\ f \in Plan /\ s \in Plan /\ s \in Work /\ Self(s) \in Rows
      /\ f \in Downstream[s]
      /\ \A n \in Work : s \in Downstream[n] => f \in Downstream[n]
  BY SourceFacts
<1>2. ~Node[s].optional /\ \A u \in Upstream[s] : ~Node[u].qualified
  BY DEF SourcesFirst
<1>3. /\ KindOf(Self(s)) = "work" /\ ~IsHandoff(Self(s))
      /\ node[Self(s)] \in {"PASSED", "SKIPPED"} /\ Node[s].kind = "work"
  BY <1>1, SelfFacts DEF IsSatisfied, Terminal
<1> HIDE DEF s
<1>4. CASE GentleMove
  BY <1>1, <1>3, <1>4 DEF s, GentleMove, Gentle, IsSatisfied, Terminal
<1>5. ASSUME NEW id \in Rows, AnswerMove(id) PROVE IsSatisfied(Self(s))'
  BY <1>1, <1>3, <1>5 DEF s, AnswerMove, IsSatisfied, Terminal
<1>6. ASSUME NEW g \in Work, ExpandMove(g) PROVE IsSatisfied(Self(s))'
  <2>1. Self(s) # Self(g)
    BY <1>1, <1>3, <1>6, SelfFacts DEF ExpandMove
  <2>2. \A c \in extraNeeds'[g] : Self(s) # Self(c)
    <3>1. \A c \in extraNeeds'[g] : c \in Work \ Plan
      BY ZenonT(30), <1>6, PlanAssumption DEF ExpandMove, Owned, NodeFields
    <3> QED
      BY <1>1, <3>1, SelfFacts
  <2> QED
    BY <1>1, <1>3, <1>6, <2>1, <2>2 DEF ExpandMove, IsSatisfied, Terminal
<1>7. ASSUME NEW w \in Work, NEW v \in Verdicts, VerdictMove(w, v)
      PROVE  IsSatisfied(Self(s))'
  <2>1. Self(s) # Self(w)
    BY <1>3, <1>7 DEF VerdictMove, VerdictOn, Terminal
  <2>2. \A d \in Raised(w) : Self(s) # Self(d)
    <3>1. Node[w].onEscalate \in Plan \cup {NoNode}
      BY PlanAssumption DEF NodeFields
    <3>2. \A d \in Raised(w) : d \in Work /\ Node[d].optional
      BY <3>1, DownstreamFacts, PlanAssumption DEF Raised
    <3> QED
      BY <1>1, <1>2, <3>2, SelfFacts
  <2>3. Node[w].qualified => \A d \in Downstream[w] : Self(s) # Self(d)
    <3>1. \A d \in Downstream[w] : d \in Work
      BY DownstreamFacts, PlanAssumption
    <3>2. Node[w].qualified => s \notin Downstream[w]
      BY <1>1, <1>2, UpstreamFacts
    <3> QED
      BY <1>1, <3>1, <3>2, SelfFacts
  <2>4. \A x \in Handoffs({w}) : Self(s) # x
    BY <1>3 DEF Handoffs
  <2> QED
    BY <1>1, <1>3, <1>7, <2>1, <2>2, <2>3, <2>4
       DEF VerdictMove, VerdictRows, Reopens, IsSatisfied, Terminal
<1>8. ASSUME NEW n \in Plan, WithdrawMove(n) PROVE IsSatisfied(Self(s))'
  <2>1. n \in Work /\ Passed(f)' /\ Self(f) \in Rows
    BY <1>8, PlanAssumption DEF WithdrawMove, Passed
  <2>2. f \notin Downstream[n]
    BY <1>8, <2>1 DEF WithdrawMove, Passed
  <2>3. s # n /\ s \notin Downstream[n]
    BY <1>1, <2>1, <2>2
  <2>4. Self(s) # Self(n) /\ \A d \in Downstream[n] : Self(s) # Self(d)
    BY <1>1, <2>1, <2>3, DownstreamFacts, SelfFacts, PlanAssumption
  <2> QED
    BY <1>1, <1>3, <1>8, <2>4 DEF WithdrawMove, IsSatisfied, Terminal
<1> QED
  BY <1>4, <1>5, <1>6, <1>7, <1>8, StepMoves DEF s

(* What the fan-outs may expand changes with the version of their source.     *)
LEMMA SourceVersions ==
    ASSUME Bookkeeping, [Next]_vars, NEW f \in Work
    PROVE  \/ items'[f] = items[f] /\ \A u \in Work : version'[u] >= version[u]
           \/ /\ Node[f].from \in Work /\ version'[Node[f].from] = version[Node[f].from] + 1
              /\ ~IsSatisfied(Self(Node[f].from)) /\ Node[Node[f].from].kind = "work"
              /\ Node[Node[f].from].qualified /\ version[Node[f].from] > 0 =>
                    \A d \in Downstream[Node[f].from] : Self(d) \in Rows => node'[Self(d)] # "PASSED"
<1>1. TypeOK
  BY DEF Bookkeeping
<1>2. CASE GentleMove \/ (\E id \in Rows : AnswerMove(id)) \/ (\E g \in Work : ExpandMove(g))
            \/ (\E n \in Plan : WithdrawMove(n))
  <2>1. UNCHANGED <<items, version>>
    BY <1>2 DEF GentleMove, AnswerMove, ExpandMove, WithdrawMove
  <2> QED
    BY <1>1, <2>1 DEF TypeOK
<1>3. ASSUME NEW w \in Work, NEW v \in Verdicts, VerdictMove(w, v), items'[f] = items[f]
      PROVE  \A u \in Work : version'[u] >= version[u]
  <2>1. \A u \in Work : version'[u] \in {version[u], version[u] + 1}
    BY <1>3 DEF VerdictMove, VerdictSources
  <2>2. \A u \in Work : version[u] \in Nat
    BY <1>1 DEF TypeOK
  <2> QED
    BY <2>1, <2>2
<1>4. ASSUME NEW w \in Work, NEW v \in Verdicts, VerdictMove(w, v), items'[f] # items[f]
      PROVE  /\ Node[f].from \in Work /\ version'[Node[f].from] = version[Node[f].from] + 1
             /\ ~IsSatisfied(Self(Node[f].from)) /\ Node[Node[f].from].kind = "work"
             /\ Node[Node[f].from].qualified /\ version[Node[f].from] > 0 =>
                   \A d \in Downstream[Node[f].from] : Self(d) \in Rows => node'[Self(d)] # "PASSED"
  <2>1. VerdictSources(w) /\ ~IsSatisfied(Self(w))
    BY <1>4 DEF VerdictMove, VerdictOn, IsSatisfied
  <2>2. Node[f].from = w /\ Node[w].kind = "work" /\ version'[w] = version[w] + 1
    BY <1>4, <2>1 DEF VerdictSources
  <2> QED
    BY <1>1, <1>4, <2>1, <2>2 DEF VerdictSources, TypeOK
<1> QED
  BY <1>2, <1>3, <1>4, StepMoves

LEMMA SourceKept ==
    ASSUME Bookkeeping, SourcesFirst, SourceStands, FanoutMatchesSource, [Next]_vars
    PROVE  SourceStands' /\ FanoutMatchesSource'
<1>1. ASSUME NEW f \in Work, Node[f].kind = "fanout", Passed(f)'
      PROVE  Passed(f) \/ Self(f) \in wave
  BY <1>1, FanoutPasses DEF ExpandMove
<1>2. ASSUME NEW f \in Work, Node[f].kind = "fanout", items'[f] # {}
      PROVE  Node[f].from # NoNode /\ version'[Node[f].from] > 0
  <2>1. \/ items'[f] = items[f] /\ \A u \in Work : version'[u] >= version[u]
        \/ Node[f].from \in Work /\ version'[Node[f].from] = version[Node[f].from] + 1
    BY SourceVersions
  <2>2. version \in [Work -> Nat] /\ version' \in [Work -> Nat] /\ NoNode \notin Work
        /\ Node[f].from \in Work \cup {NoNode}
    BY NextKeeps, PlanAssumption DEF Bookkeeping, TypeOK, NodeFields
  <2>3. CASE items'[f] = items[f] /\ \A u \in Work : version'[u] >= version[u]
    BY <1>2, <2>2, <2>3 DEF SourceStands
  <2>4. CASE Node[f].from \in Work /\ version'[Node[f].from] = version[Node[f].from] + 1
    BY <2>2, <2>4
  <2> QED
    BY <2>1, <2>3, <2>4
<1>3. ASSUME NEW f \in Work, Node[f].kind = "fanout", Node[f].from # NoNode,
             ~Node[Node[f].from].qualified, Node[Node[f].from].kind = "work",
             Passed(f)' \/ Self(f) \in wave'
      PROVE  IsSatisfied(Self(Node[f].from))'
  <2>1. Passed(f) \/ Self(f) \in wave => IsSatisfied(Self(Node[f].from))
    BY <1>3 DEF SourceStands
  <2>2. Node[f].from \in Node[f].needs
    BY <1>3 DEF SourcesFirst
  <2>3. IsSatisfied(Self(Node[f].from))
    BY <1>1, <1>3, <2>1, <2>2, WaveGrows
  <2> QED
    BY <1>3, <2>3, SourceStaysDone
<1>4. ASSUME NEW f \in Work, Node[f].kind = "fanout", Passed(f)'
      PROVE  extraNeeds'[f] \in items'[f]
  <2>1. CASE ExpandMove(f)
    BY <2>1 DEF ExpandMove
  <2>2. CASE Passed(f) /\ extraNeeds'[f] = extraNeeds[f]
    <3>1. extraNeeds[f] \in items[f]
      BY <1>4, <2>2 DEF FanoutMatchesSource
    <3>2. Node[f].from # NoNode /\ version[Node[f].from] > 0
      BY <1>4, <3>1 DEF SourceStands
    <3>3. f \in Downstream[Node[f].from] /\ Self(f) \in Rows
      BY <1>4, <3>2, SourceFacts
    <3>4. Node[Node[f].from].kind = "work" /\ ~Node[Node[f].from].qualified =>
             IsSatisfied(Self(Node[f].from))
      BY <1>4, <2>2, <3>2 DEF SourceStands
    <3>5. items'[f] = items[f]
      BY <1>4, <3>2, <3>3, <3>4, SourceVersions DEF Passed
    <3> QED
      BY <2>2, <3>1, <3>5
  <2> QED
    BY <1>4, <2>1, <2>2, FanoutPasses
<1>5. SourceStands'
  BY <1>2, <1>3 DEF SourceStands
<1> QED
  BY <1>4, <1>5 DEF FanoutMatchesSource

(* A green fan-out implemented the decomposition its source describes now,    *)
(* whatever was withdrawn, re-derived, waived or lost in a crash since.       *)
THEOREM FanoutMatchesSourceHolds ==
    ASSUME SourcesFirst
    PROVE  Spec => []FanoutMatchesSource
<1>1. ConsoleInit => Bookkeeping /\ SourceStands /\ FanoutMatchesSource
  BY InitHolds, SourceInit
<1>2. Bookkeeping /\ SourceStands /\ FanoutMatchesSource /\ [Next]_vars
         => (Bookkeeping /\ SourceStands /\ FanoutMatchesSource)'
  BY NextKeeps, SourceKept
<1> QED
  BY <1>1, <1>2, PTL DEF Spec

-------------------------------------------------------------------------------
(* Repairs and waivers.                                                       *)

(* Only nodes that do work hand a failure to a person, and only a gate or a   *)
(* bundle can fail: what has neither passes or raises.                        *)
HandoffsJudged ==
    \A id \in Rows : IsHandoff(id) =>
        Judged(id[1]) /\ (id[3] = "fail" => Node[id[1]].gated \/ Node[id[1]].kind = "bundle")

LEMMA HandoffsJudgedInit == ConsoleInit => HandoffsJudged
<1> SUFFICES ASSUME ConsoleInit PROVE HandoffsJudged
  OBVIOUS
<1>1. Bookkeeping
  BY InitHolds
<1>2. \A x \in Rows : \E w \in Plan : x = Self(w)
  BY DEF ConsoleInit, Init, Rows
<1> QED
  BY <1>2, SelfFacts, PlanAssumption DEF HandoffsJudged

LEMMA HandoffsJudgedKept ==
    ASSUME Bookkeeping, HandoffsJudged, [Next]_vars
    PROVE  HandoffsJudged'
<1>1. CASE Rows' = Rows
  BY <1>1 DEF HandoffsJudged, Judged, IsHandoff
<1>2. ASSUME NEW f \in Work, ExpandMove(f) PROVE HandoffsJudged'
  <2>1. \A x \in Rows' \ Rows : ~IsHandoff(x)
    BY <1>2 DEF ExpandMove, IsHandoff, Self
  <2> QED
    BY <2>1 DEF HandoffsJudged, Judged, IsHandoff
<1>3. ASSUME NEW w \in Work, NEW v \in Verdicts, VerdictMove(w, v) PROVE HandoffsJudged'
  <2>1. ASSUME NEW x \in Rows' \ Rows, IsHandoff(x)
        PROVE  x = <<w, attempts[w] + 1, v>>
    BY <1>3, <2>1 DEF VerdictMove, VerdictRows, IsHandoff, Self
  <2>2. Judged(w) /\ (v = "fail" => Node[w].gated \/ Node[w].kind = "bundle")
    BY <1>3 DEF VerdictMove, VerdictOn
  <2> QED
    BY <2>1, <2>2 DEF HandoffsJudged, Judged, IsHandoff
<1> QED
  BY <1>1, <1>2, <1>3, StepMoves DEF GentleMove, AnswerMove, WithdrawMove

(* One repair per node at most, by an agent without a gate of its own.        *)
OneRepair ==
    \A w \in Work : Node[w].policy.repairs =>
        Node[w].policy.maxAttempts <= 2 /\ ~Node[Node[w].fix].gated

(* Why the repair comes first: the node waits for a fix that is not done, and *)
(* the first insertion of a fix is its only one.                              *)
RepairOwed ==
    /\ \A w \in owed :
          /\ Node[w].policy.repairs /\ Node[w].fix \in extraNeeds[w]
          /\ Self(w) \in Rows /\ node[Self(w)] # "RUNNING"
          /\ Self(Node[w].fix) \in Rows /\ node[Self(Node[w].fix)] \notin Terminal
    /\ \A w \in Work : Node[w].fix # NoNode /\ Self(Node[w].fix) \in Rows => attempts[w] > 0

LEMMA RepairInit == ConsoleInit => RepairOwed
<1> SUFFICES ASSUME ConsoleInit PROVE RepairOwed
  OBVIOUS
<1>1. owed = {} /\ Rows = {Self(w) : w \in Plan}
  BY DEF ConsoleInit, Init, Rows
<1>2. ASSUME NEW w \in Work, Node[w].fix # NoNode PROVE Self(Node[w].fix) \notin Rows
  <2>1. Node[w].fix \in Work \ Plan
    BY <1>2, PlanAssumption DEF Owned, NodeFields
  <2> QED
    BY <1>1, <2>1, SelfFacts, PlanAssumption
<1> QED
  BY <1>1, <1>2 DEF RepairOwed

(* A fix belongs to the one node it repairs, and is agent work.               *)
LEMMA FixFacts ==
    ASSUME NEW w \in Work, Node[w].fix # NoNode
    PROVE  /\ Node[w].fix \in Work \ Plan /\ Node[w].fix \in Owned(w)
           /\ KindOf(Self(Node[w].fix)) = "work" /\ ~IsHandoff(Self(Node[w].fix))
           /\ Node[w].kind \in {"work", "bundle"}
           /\ \A u \in Work : Node[w].fix \in Owned(u) => u = w
<1>1. Node[w].fix \in Work \ Plan /\ Node[w].fix \in Owned(w)
  BY PlanAssumption DEF Owned, NodeFields
<1>2. Node[Node[w].fix].kind = "work" /\ Node[w].kind \in {"work", "bundle"}
  BY <1>1, PlanAssumption
<1>3. \A u \in Work : Node[w].fix \in Owned(u) => u = w
  BY <1>1, PlanAssumption
<1> QED
  BY <1>1, <1>2, <1>3, SelfFacts

LEMMA RepairKept ==
    ASSUME Bookkeeping, HandoffsJudged, OneRepair, RepairOwed, [Next]_vars
    PROVE  RepairOwed'
<1>1. TypeOK /\ GrownByOwner
  BY DEF Bookkeeping
<1>2. \A w \in owed :
         /\ w \in Work /\ Node[w].fix # NoNode /\ ~Node[Node[w].fix].gated
         /\ Node[w].policy.repairs /\ Node[w].fix \in extraNeeds[w]
         /\ Self(w) \in Rows /\ node[Self(w)] # "RUNNING"
         /\ Self(Node[w].fix) \in Rows /\ node[Self(Node[w].fix)] \notin Terminal
  BY <1>1, PlanAssumption DEF RepairOwed, OneRepair, TypeOK
<1>3. CASE GentleMove
  <2>1. \A w \in owed : Self(w) \notin Ready
    BY <1>2, SelfFacts DEF Ready, IsReady, NeedsOf, IsSatisfied
  <2>2. ASSUME NEW w \in owed
        PROVE  node'[Self(w)] # "RUNNING" /\ node'[Self(Node[w].fix)] \notin Terminal
    <3>1. node'[Self(w)] # "RUNNING"
      BY <1>2, <1>3, <2>1 DEF GentleMove
    <3>2. Gentle(Self(Node[w].fix))
      BY <1>2, <1>3 DEF GentleMove
    <3> QED
      BY <1>2, <3>1, <3>2 DEF Gentle, Terminal
  <2> QED
    BY <1>3, <2>2 DEF GentleMove, RepairOwed
<1>4. ASSUME NEW id \in Rows, AnswerMove(id) PROVE RepairOwed'
  <2>1. ASSUME NEW w \in owed
        PROVE  node'[Self(w)] # "RUNNING" /\ node'[Self(Node[w].fix)] \notin Terminal
    <3>1. Self(w) # id /\ Self(Node[w].fix) # id
      BY <1>2, <1>4, FixFacts, SelfFacts DEF AnswerMove
    <3>2. IsHandoff(id) /\ id[3] = "fail" => Self(Node[w].fix) # Self(id[1])
      <4>1. SUFFICES ASSUME IsHandoff(id), id[3] = "fail", Self(Node[w].fix) = Self(id[1])
                     PROVE  FALSE
        OBVIOUS
      <4>2. id[1] = Node[w].fix
        BY <4>1 DEF Self
      <4>3. ~Node[Node[w].fix].gated /\ Node[Node[w].fix].kind = "work"
        BY <1>2, FixFacts, SelfFacts
      <4> QED
        BY <4>1, <4>2, <4>3 DEF HandoffsJudged
    <3> QED
      BY <1>2, <1>4, <3>1, <3>2 DEF AnswerMove, Terminal
  <2> QED
    BY <1>4, <2>1 DEF AnswerMove, RepairOwed
<1>5. ASSUME NEW f \in Work, ExpandMove(f) PROVE RepairOwed'
  <2>1. \A w \in Work : Node[w].fix # NoNode => w # f /\ \A c \in extraNeeds'[f] : c # Node[w].fix
    BY <1>5, FixFacts DEF ExpandMove
  <2>2. \A c \in extraNeeds'[f] : c \in Work
    BY <1>5, PlanAssumption DEF ExpandMove, Owned, NodeFields
  <2>3. \A w \in Work : Node[w].fix # NoNode =>
           \A c \in extraNeeds'[f] : Self(c) # Self(Node[w].fix)
    BY <2>1, <2>2, FixFacts, SelfFacts
  <2>4. \A w \in Work : Node[w].fix # NoNode => Self(Node[w].fix) # Self(f) /\ Self(w) # Self(f)
    BY <1>5, <2>1, FixFacts, SelfFacts DEF ExpandMove
  <2>5. ASSUME NEW w \in owed
        PROVE  /\ node'[Self(w)] # "RUNNING" /\ node'[Self(Node[w].fix)] = node[Self(Node[w].fix)]
               /\ extraNeeds'[w] = extraNeeds[w]
    BY <1>2, <1>5, <2>1, <2>3, <2>4 DEF ExpandMove
  <2>6. \A w \in Work : Node[w].fix # NoNode /\ Self(Node[w].fix) \in Rows' =>
           Self(Node[w].fix) \in Rows
    BY <1>5, <2>3 DEF ExpandMove
  <2> QED
    BY <1>2, <1>5, <2>5, <2>6 DEF ExpandMove, RepairOwed
<1>6. ASSUME NEW u \in Work, NEW v \in Verdicts, VerdictMove(u, v) PROVE RepairOwed'
  <2>1. attempts'[u] = attempts[u] + 1 /\ attempts[u] \in Nat
        /\ \A w \in Work \ {u} : attempts'[w] = attempts[w]
    BY <1>1, <1>6 DEF VerdictMove, VerdictOn, TypeOK
  <2>2. Rows \subseteq Rows' /\ Self(u) \in Rows /\ node'[Self(u)] # "RUNNING"
        /\ (v # "pass" => node'[Self(u)] \notin Terminal)
    BY <1>6 DEF VerdictMove, VerdictOn, VerdictRows, StatusFor, Terminal
  <2>3. ASSUME NEW w \in Work, Node[w].fix # NoNode, Self(Node[w].fix) \in Rows' \ Rows
        PROVE  w = u /\ Repaired(u) /\ node'[Self(Node[w].fix)] = "PENDING"
    <3>1. Self(Node[w].fix) # <<u, attempts[u] + 1, v>>
      BY <2>1 DEF Self
    <3>2. Repaired(u) /\ Self(Node[w].fix) = Self(Node[u].fix)
          /\ node'[Self(Node[w].fix)] = "PENDING"
      BY <1>6, <2>3, <3>1 DEF VerdictMove, VerdictRows
    <3>3. Node[w].fix = Node[u].fix
      BY <3>2 DEF Self
    <3> QED
      BY <2>3, <3>2, <3>3, FixFacts
  <2>4. ASSUME NEW w \in owed, w \in owed'
        PROVE  /\ node'[Self(w)] # "RUNNING" /\ node'[Self(Node[w].fix)] \notin Terminal
               /\ Node[w].fix \in extraNeeds'[w]
    <3>1. node'[Self(w)] # "RUNNING"
      BY <1>2, <1>6, <2>2 DEF VerdictMove, VerdictRows
    <3>2. Node[w].fix \in extraNeeds'[w]
      <4>1. w \in Work /\ Node[w].fix \in extraNeeds[w]
            /\ extraNeeds \in [Work -> SUBSET Work]
        BY <1>1, <1>2 DEF TypeOK
      <4>2. \/ extraNeeds' = extraNeeds
            \/ extraNeeds' = [extraNeeds EXCEPT ![u] = @ \cup {Node[u].fix}]
        BY <1>6 DEF VerdictMove, VerdictEdges, Repaired
      <4> QED
        BY <4>1, <4>2
    <3>3. CASE Node[w].fix = u
      <4>1. v # "pass"
        BY <1>2, <1>6, <2>4, <3>3 DEF VerdictMove, VerdictEdges
      <4> QED
        BY <2>2, <3>1, <3>2, <3>3, <4>1
    <3>4. CASE Node[w].fix # u
      <4>1. Self(Node[w].fix) # Self(u)
        BY <3>4 DEF Self
      <4>2. Self(Node[w].fix) \notin Handoffs({u})
        BY <1>2, FixFacts DEF Handoffs
      <4> QED
        BY <1>2, <1>6, <3>1, <3>2, <4>1, <4>2 DEF VerdictMove, VerdictRows, Terminal
    <3> QED
      BY <3>3, <3>4
  <2>5. ASSUME NEW w \in owed', w \notin owed
        PROVE  /\ Node[w].policy.repairs /\ Node[w].fix \in extraNeeds'[w]
               /\ Self(w) \in Rows' /\ node'[Self(w)] # "RUNNING"
               /\ Self(Node[w].fix) \in Rows' /\ node'[Self(Node[w].fix)] \notin Terminal
    <3>1. w = u /\ Repaired(u)
      BY <1>6, <2>5 DEF VerdictMove, VerdictEdges, Repaired
    <3>2. Node[u].policy.repairs /\ Node[u].policy.maxAttempts \in Nat
          /\ Node[u].fix # NoNode /\ attempts[u] + 1 < Node[u].policy.maxAttempts
      BY <3>1, PlanAssumption DEF Repaired, NodeFields, Policies
    <3>3. attempts[u] = 0
      BY <2>1, <3>2 DEF OneRepair
    <3>4. Self(Node[u].fix) \in Rows' \ Rows
      BY <3>1, <3>2, <3>3 DEF Repaired, RepairOwed
    <3>5. node'[Self(Node[u].fix)] = "PENDING"
      BY <2>3, <3>2, <3>4
    <3> QED
      BY <1>1, <2>2, <3>1, <3>2, <3>4, <3>5 DEF Repaired, Terminal, TypeOK
  <2>6. ASSUME NEW w \in Work, Node[w].fix # NoNode, Self(Node[w].fix) \in Rows'
        PROVE  attempts'[w] > 0
    <3>1. attempts[w] \in Nat
      BY <1>1 DEF TypeOK
    <3>2. CASE Self(Node[w].fix) \in Rows
      BY <2>1, <2>6, <3>1, <3>2 DEF RepairOwed
    <3>3. CASE Self(Node[w].fix) \notin Rows
      BY <2>1, <2>3, <2>6, <3>3
    <3> QED
      BY <3>2, <3>3
  <2> QED
    BY <1>2, <2>2, <2>4, <2>5, <2>6 DEF RepairOwed
<1>7. ASSUME NEW n \in Plan, WithdrawMove(n) PROVE RepairOwed'
  <2>1. n \in Work /\ Rows' = Rows /\ node'[Self(n)] = "PENDING" /\ owed' = owed \ {n}
        /\ attempts' = attempts
    BY <1>7, PlanAssumption DEF WithdrawMove
  <2>2. ASSUME NEW w \in owed, w # n
        PROVE  /\ node'[Self(w)] # "RUNNING" /\ node'[Self(Node[w].fix)] \notin Terminal
               /\ extraNeeds'[w] = extraNeeds[w]
    <3>1. node'[Self(w)] # "RUNNING" /\ extraNeeds'[w] = extraNeeds[w]
      <4>1. w \in Work /\ Self(w) \in Rows /\ node[Self(w)] # "RUNNING"
        BY <1>2, <2>2
      <4>2. node'[Self(w)] # "RUNNING"
        BY <1>7, <4>1 DEF WithdrawMove
      <4>3. extraNeeds \in [Work -> SUBSET Work]
            /\ extraNeeds' = [extraNeeds EXCEPT ![n] = {}]
        BY <1>1, <1>7 DEF WithdrawMove, TypeOK
      <4> QED
        BY <2>2, <4>1, <4>2, <4>3
    <3>2. ~IsHandoff(Self(Node[w].fix)) /\ Self(Node[w].fix) # Self(n)
      BY <1>2, <2>1, FixFacts, SelfFacts
    <3>3. \A c \in extraNeeds[n] : Self(Node[w].fix) # Self(c)
      <4>1. SUFFICES ASSUME NEW c \in extraNeeds[n], Self(Node[w].fix) = Self(c) PROVE FALSE
        OBVIOUS
      <4>2. c \in Owned(n) /\ c = Node[w].fix
        BY <1>1, <2>1, <4>1 DEF GrownByOwner, Self
      <4> QED
        BY <1>2, <2>1, <2>2, <4>2, FixFacts
    <3> QED
      BY <1>2, <1>7, <3>1, <3>2, <3>3 DEF WithdrawMove, Terminal
  <2> QED
    BY <1>2, <2>1, <2>2 DEF RepairOwed
<1> QED
  BY <1>3, <1>4, <1>5, <1>6, <1>7, StepMoves

(* A node that failed is not dispatched again before the repair inserted for  *)
(* it has passed, whatever crashes, retries, answers and withdrawals come in  *)
(* between.                                                                   *)
THEOREM RepairPrecedesReentryHolds ==
    ASSUME OneRepair
    PROVE  Spec => []RepairPrecedesReentry
<1>1. ConsoleInit => Bookkeeping /\ HandoffsJudged /\ RepairOwed
  BY InitHolds, HandoffsJudgedInit, RepairInit
<1>2. Bookkeeping /\ HandoffsJudged /\ RepairOwed /\ [Next]_vars
         => (Bookkeeping /\ HandoffsJudged /\ RepairOwed)'
  BY NextKeeps, HandoffsJudgedKept, RepairKept
<1>3. RepairOwed => RepairPrecedesReentry
  BY DEF RepairOwed, RepairPrecedesReentry
<1> QED
  BY <1>1, <1>2, <1>3, PTL DEF Spec

(* A waiver of optional work, or of a child of a fan-out, can be undone: such *)
(* work is collected again when it is raised, or when the fan-out re-expands. *)
Required(w) == ~Node[w].optional /\ \A f \in Work : w \notin UNION Node[f].shapes

LEMMA WaivedStays ==
    ASSUME Bookkeeping, HandoffsJudged, [Next]_vars, phase # "parked",
           NEW w \in Work, Required(w), Waived(w)
    PROVE  node'[Self(w)] = "SKIPPED"
<1>1. Self(w) \in Rows /\ node[Self(w)] = "SKIPPED"
  BY DEF Waived
<1>2. Judged(w)
  BY DEF Waived, Handoffs, HandoffsJudged
<1>3. ~IsHandoff(Self(w)) /\ KindOf(Self(w)) \in {"work", "bundle"}
  BY <1>2, SelfFacts DEF Judged
<1>4. CASE GentleMove
  BY <1>1, <1>4 DEF GentleMove, Gentle
<1>5. ASSUME NEW id \in Rows, AnswerMove(id) PROVE node'[Self(w)] = "SKIPPED"
  BY <1>1, <1>3, <1>5 DEF AnswerMove
<1>6. ASSUME NEW f \in Work, ExpandMove(f) PROVE node'[Self(w)] = "SKIPPED"
  <2>1. Self(w) # Self(f)
    BY <1>3, <1>6, SelfFacts DEF ExpandMove
  <2>2. ASSUME NEW c \in extraNeeds'[f] PROVE Self(w) # Self(c)
    <3>1. c \in UNION Node[f].shapes
      BY <1>6 DEF ExpandMove, Bookkeeping, GrownByOwner
    <3> QED
      BY <1>6, <3>1 DEF Required, Self
  <2> QED
    BY <1>1, <1>6, <2>1, <2>2 DEF ExpandMove
<1>7. ASSUME NEW u \in Work, NEW v \in Verdicts, VerdictMove(u, v)
      PROVE  node'[Self(w)] = "SKIPPED"
  <2>1. Self(w) # Self(u)
    BY <1>1, <1>7 DEF VerdictMove, VerdictOn, Terminal
  <2>2. \A d \in Raised(u) : Self(w) # Self(d)
    BY DEF Required, Raised, Self
  <2> QED
    BY <1>1, <1>7, <2>1, <2>2 DEF VerdictMove, VerdictRows
<1> QED
  BY <1>4, <1>5, <1>6, <1>7, StepMoves DEF WithdrawMove

(* The driver never re-enters required work whose failure a person accepted,  *)
(* in any plan.                                                               *)
THEOREM RequiredWaiversStand ==
    Spec => [][phase # "parked" =>
                  \A w \in Work : Required(w) /\ Waived(w) => node'[Self(w)] = "SKIPPED"]_vars
<1>1. Bookkeeping /\ HandoffsJudged /\ [Next]_vars =>
         [phase # "parked" =>
             \A w \in Work : Required(w) /\ Waived(w) => node'[Self(w)] = "SKIPPED"]_vars
  BY WaivedStays
<1>2. Bookkeeping /\ HandoffsJudged /\ [Next]_vars => HandoffsJudged'
  BY HandoffsJudgedKept
<1> QED
  BY <1>1, <1>2, HandoffsJudgedInit, BookkeepingHolds, PTL DEF Spec

(* Only required work can fail, and be waived.                                *)
WaivedIsRequired == \A w \in Work : Node[w].gated \/ Node[w].kind = "bundle" => Required(w)

(* In such a plan the driver re-enters nothing a person accepted.             *)
THEOREM WaiverHoldsHolds ==
    ASSUME WaivedIsRequired
    PROVE  Spec => WaiverHolds
<1>1. ASSUME HandoffsJudged, NEW w \in Work, Waived(w) PROVE Required(w)
  BY <1>1 DEF Waived, Handoffs, HandoffsJudged, WaivedIsRequired
<1>2. Bookkeeping /\ HandoffsJudged /\ [Next]_vars =>
         [phase # "parked" => \A w \in Work : Waived(w) => node'[Self(w)] = "SKIPPED"]_vars
  BY <1>1, WaivedStays
<1>3. Bookkeeping /\ HandoffsJudged /\ [Next]_vars => HandoffsJudged'
  BY HandoffsJudgedKept
<1> QED
  BY <1>2, <1>3, HandoffsJudgedInit, BookkeepingHolds, PTL DEF Spec, WaiverHolds

-------------------------------------------------------------------------------
(* What a checkpoint approved.                                                *)

(* A checkpoint records the versions of outputs a re-derivation is noticed    *)
(* of: those whose declared names are the names artifacts are stored under.   *)
BindsQualified ==
    \A h \in Plan : Node[h].kind = "human" =>
        \A d \in Node[h].binds : Node[d].kind = "work" /\ Node[d].qualified

(* Only questions put to a checkpoint name versions, and no version that has  *)
(* not been recorded.                                                         *)
Names(ver, id, bound) ==
    \A b \in bound : /\ ~IsHandoff(id) /\ b[1] \in Node[id[1]].binds
                     /\ 1 <= b[2] /\ b[2] <= ver[b[1]]

Dated == \A i \in DOMAIN approvals :
            approvals[i].at <= clock /\ Names(version, approvals[i].node, approvals[i].bound)

Current(i) == \A b \in approvals[i].bound : version[b[1]] = b[2]

(* Why work is built on an approval: a green checkpoint has a decision that   *)
(* stands, and while a process drives the run, one of the versions there are. *)
Covered ==
    \A h \in Plan : Node[h].kind = "human" /\ Passed(h) =>
        \E i \in Standing(approvals) :
            approvals[i].node = Self(h) /\ (phase # "parked" => Current(i))

(* When each recorder call dates the approvals it writes.                     *)
LEMMA AskDates ==
    ASSUME NEW ap \in Seq(Approval), NEW id \in Ids, NEW bound \in SUBSET (Plan \X Nat),
           NEW t, t = Ask(ap, id, bound)
    PROVE  \A i \in DOMAIN t \ DOMAIN ap : t[i].at = 0
<1>1. PICK q : q = [node |-> id, bound |-> bound, decision |-> "PENDING", at |-> 0]
  OBVIOUS
<1>2. q \in Approval /\ q.at = 0
  BY <1>1 DEF Approval, Decisions
<1>3. t = Append(ap, q)
  BY <1>1 DEF Ask
<1>4. \A i \in DOMAIN t \ DOMAIN ap : t[i] = q
  BY <1>2, <1>3, AppendFacts
<1> QED
  BY <1>2, <1>4

LEMMA NotedDates ==
    ASSUME NEW ap \in Seq(Approval), NEW id \in Ids, NEW decision \in Decisions,
           clock \in Nat, NEW t, t = Noted(ap, id, decision)
    PROVE  \A i \in DOMAIN t \ DOMAIN ap : t[i].at = clock + 1
<1>1. PICK q : q = [node |-> id, bound |-> {}, decision |-> decision, at |-> clock + 1]
  OBVIOUS
<1>2. q \in Approval /\ q.at = clock + 1
  BY <1>1 DEF Approval
<1>3. t = Append(ap, q)
  BY <1>1 DEF Noted
<1>4. \A i \in DOMAIN t \ DOMAIN ap : t[i] = q
  BY <1>2, <1>3, AppendFacts
<1> QED
  BY <1>2, <1>4

LEMMA StampDates ==
    ASSUME NEW ap \in Seq(Approval), NEW I, NEW decision \in Decisions
    PROVE  /\ \A i \in DOMAIN ap :
                 IF i \in I THEN Decide(ap, I, decision)[i].at = clock + 1
                 ELSE Decide(ap, I, decision)[i] = ap[i]
           /\ \A i \in DOMAIN ap :
                 IF i \in I THEN Reverted(ap, I)[i].at = 0 ELSE Reverted(ap, I)[i] = ap[i]
BY DEF Decide, Reverted, Stamped

(* A step that only asks, dates by its own clock and forgets no version keeps *)
(* the dates in order.                                                        *)
Continued ==
    /\ DOMAIN approvals \subseteq DOMAIN approvals'
    /\ \A i \in DOMAIN approvals :
          /\ approvals'[i].node = approvals[i].node /\ approvals'[i].bound = approvals[i].bound
          /\ approvals'[i].at = approvals[i].at \/ approvals'[i].at \in {0, clock'}
    /\ \A i \in DOMAIN approvals' \ DOMAIN approvals :
          /\ approvals'[i].at \in {0, clock'}
          /\ Names(version, approvals'[i].node, approvals'[i].bound)
    /\ clock' \in {clock, clock + 1}
    /\ \A w \in Work : version'[w] >= version[w]

LEMMA DatedKept ==
    ASSUME TypeOK, TypeOK', Dated, Continued
    PROVE  Dated'
<1>1. clock \in Nat /\ clock' \in Nat /\ clock <= clock'
  BY DEF TypeOK, Continued
<1>2. ASSUME NEW id \in Ids, NEW bound \in SUBSET (Plan \X Nat), Names(version, id, bound)
      PROVE  Names(version', id, bound)
  <2>1. SUFFICES ASSUME NEW b \in bound
                 PROVE  /\ ~IsHandoff(id) /\ b[1] \in Node[id[1]].binds
                        /\ 1 <= b[2] /\ b[2] <= version'[b[1]]
    BY DEF Names
  <2>2. b[1] \in Work /\ b[2] \in Nat
    BY PlanAssumption
  <2>3. version'[b[1]] >= version[b[1]] /\ version'[b[1]] \in Nat /\ version[b[1]] \in Nat
    BY <2>2 DEF Continued, TypeOK
  <2> QED
    BY <1>2, <2>2, <2>3 DEF Names
<1>3. ASSUME NEW i \in DOMAIN approvals'
      PROVE  approvals'[i].at <= clock' /\ Names(version', approvals'[i].node, approvals'[i].bound)
  <2>1. approvals'[i] \in Approval
    BY DEF TypeOK
  <2>2. approvals'[i].node \in Ids /\ approvals'[i].bound \in SUBSET (Plan \X Nat)
    BY <2>1 DEF Approval
  <2>3. Names(version, approvals'[i].node, approvals'[i].bound)
    BY DEF Continued, Dated
  <2>4. approvals'[i].at <= clock'
    <3>1. CASE i \in DOMAIN approvals
      <4>1. approvals[i] \in Approval /\ approvals[i].at <= clock
        BY <3>1 DEF TypeOK, Dated
      <4> QED
        BY <1>1, <3>1, <4>1 DEF Continued, Approval
    <3>2. CASE i \notin DOMAIN approvals
      BY <1>1, <3>2 DEF Continued
    <3> QED
      BY <3>1, <3>2
  <2> QED
    BY <1>2, <2>2, <2>3, <2>4
<1> QED
  BY <1>3 DEF Dated

(* The decisions on checkpoint h are left as they are.                        *)
Untouched(h) ==
    /\ \A i \in DOMAIN approvals : approvals[i].node = Self(h) =>
          i \in DOMAIN approvals' /\ approvals'[i] = approvals[i]
    /\ \A i \in DOMAIN approvals' : approvals'[i].node = Self(h) =>
          i \in DOMAIN approvals /\ approvals'[i] = approvals[i]

LEMMA CoverStays ==
    ASSUME Covered, NEW h \in Plan, Node[h].kind = "human", Passed(h), Untouched(h),
           \A i \in Standing(approvals) :
               approvals[i].node = Self(h) /\ (phase # "parked" => Current(i)) =>
                   (phase' # "parked" => Current(i)')
    PROVE  \E i \in Standing(approvals') :
               approvals'[i].node = Self(h) /\ (phase' # "parked" => Current(i)')
<1>1. PICK i \in Standing(approvals) :
         approvals[i].node = Self(h) /\ (phase # "parked" => Current(i))
  BY DEF Covered
<1>2. i \in DOMAIN approvals' /\ approvals'[i] = approvals[i]
  BY <1>1 DEF Standing, Untouched
<1>3. i \in Standing(approvals')
  BY <1>1, <1>2 DEF Standing, Untouched
<1> QED
  BY <1>1, <1>2, <1>3

(* It is enough that the decisions on a green checkpoint are left as they     *)
(* are, or that the checkpoint was answered just now.                         *)
Held(h) ==
    /\ Passed(h) /\ Untouched(h)
    /\ \A i \in Standing(approvals) :
          approvals[i].node = Self(h) /\ (phase # "parked" => Current(i)) =>
              (phase' # "parked" => Current(i)')

Renewed(h) ==
    phase' = "parked" /\ \E i \in Standing(approvals') : approvals'[i].node = Self(h)

ApprovalsKept ==
    /\ Continued
    /\ \A h \in Plan : Node[h].kind = "human" /\ Passed(h)' => Held(h) \/ Renewed(h)

LEMMA ApprovalsStay ==
    ASSUME Bookkeeping, Bookkeeping', Dated, Covered, ApprovalsKept
    PROVE  Dated' /\ Covered'
<1>1. TypeOK /\ TypeOK'
  BY DEF Bookkeeping
<1>2. Dated'
  BY <1>1, DatedKept DEF ApprovalsKept
<1>3. ASSUME NEW h \in Plan, Node[h].kind = "human", Passed(h)'
      PROVE  \E i \in Standing(approvals') :
                 approvals'[i].node = Self(h) /\ (phase' # "parked" => Current(i)')
  <2>1. CASE Held(h)
    BY <1>3, <2>1, CoverStays DEF Held
  <2>2. CASE Renewed(h)
    BY <2>2 DEF Renewed
  <2> QED
    BY <1>3, <2>1, <2>2 DEF ApprovalsKept
<1> QED
  BY <1>2, <1>3 DEF Covered

(* What becomes of the approvals when those of I are re-opened and a handoff  *)
(* may be asked (_invalidate_downstream, then _insert_escalation).            *)
LEMMA ReopenedApprovals ==
    ASSUME TypeOK, NEW I, NEW w \in Work, NEW v \in Verdicts, NEW ap,
           ap = Reverted(approvals, I),
           approvals' = ap \/ (v # "pass" /\ approvals' = Ask(ap, <<w, attempts[w] + 1, v>>, {})),
           clock' = clock, \A u \in Work : version'[u] >= version[u]
    PROVE  /\ Continued
           /\ \A h \in Work : (\A i \in I \cap DOMAIN approvals : approvals[i].node # Self(h))
                  => Untouched(h)
<1>1. approvals \in Seq(Approval) /\ attempts[w] \in Nat
  BY DEF TypeOK
<1>2. /\ ap \in Seq(Approval) /\ DOMAIN ap = DOMAIN approvals
      /\ \A i \in DOMAIN approvals :
            /\ ap[i].node = approvals[i].node /\ ap[i].bound = approvals[i].bound
            /\ IF i \in I THEN ap[i].at = 0 ELSE ap[i] = approvals[i]
  BY <1>1, RevertFacts, StampDates DEF Decisions
<1>3. PICK id : id = <<w, attempts[w] + 1, v>>
  OBVIOUS
<1>4. \A i \in DOMAIN ap : i \in DOMAIN approvals' /\ approvals'[i] = ap[i]
  <2>1. CASE approvals' = ap
    BY <2>1
  <2>2. CASE v # "pass" /\ approvals' = Ask(ap, id, {})
    <3>1. id \in Ids
      BY <1>1, <1>3, <2>2, HandoffFacts DEF Verdicts
    <3> QED
      BY <1>2, <2>2, <3>1, AskFacts
  <2> QED
    BY <1>3, <2>1, <2>2
<1>5. \A i \in DOMAIN approvals' \ DOMAIN ap :
         /\ approvals'[i].at = 0 /\ approvals'[i].bound = {} /\ IsHandoff(approvals'[i].node)
  <2>1. CASE approvals' = ap
    BY <2>1
  <2>2. CASE v # "pass" /\ approvals' = Ask(ap, id, {})
    <3>1. id \in Ids /\ IsHandoff(id)
      BY <1>1, <1>3, <2>2, HandoffFacts DEF Verdicts
    <3> QED
      BY <1>2, <2>2, <3>1, AskFacts, AskDates
  <2> QED
    BY <1>3, <2>1, <2>2
<1>6. Continued
  BY <1>2, <1>4, <1>5 DEF Continued, Names, TypeOK
<1>7. ASSUME NEW h \in Work, \A i \in I \cap DOMAIN approvals : approvals[i].node # Self(h)
      PROVE  Untouched(h)
  BY <1>2, <1>4, <1>5, <1>7, SelfFacts DEF Untouched
<1> QED
  BY <1>6, <1>7

(* And when those of I are decided, and a decision on id noted.               *)
LEMMA DecidedApprovals ==
    ASSUME TypeOK, NEW I, NEW decision \in Decisions, NEW ap,
           ap = Decide(approvals, I, decision),
           \/ approvals' = ap
           \/ \E id \in Ids, noted \in Decisions : approvals' = Noted(ap, id, noted),
           clock' = clock + 1, version' = version
    PROVE  /\ Continued
           /\ \A h \in Work :
                 /\ \A i \in I \cap DOMAIN approvals : approvals[i].node # Self(h)
                 /\ \A i \in DOMAIN approvals' \ DOMAIN approvals : approvals'[i].node # Self(h)
                 => Untouched(h)
<1>1. approvals \in Seq(Approval) /\ clock \in Nat /\ version \in [Work -> Nat]
  BY DEF TypeOK
<1>2. /\ ap \in Seq(Approval) /\ DOMAIN ap = DOMAIN approvals
      /\ \A i \in DOMAIN approvals :
            /\ ap[i].node = approvals[i].node /\ ap[i].bound = approvals[i].bound
            /\ IF i \in I THEN ap[i].at = clock + 1 ELSE ap[i] = approvals[i]
  BY <1>1, DecideFacts, StampDates
<1>3. /\ \A i \in DOMAIN ap : i \in DOMAIN approvals' /\ approvals'[i] = ap[i]
      /\ \A i \in DOMAIN approvals' \ DOMAIN ap :
            approvals'[i].at = clock + 1 /\ approvals'[i].bound = {}
  <2>1. CASE approvals' = ap
    BY <2>1
  <2>2. ASSUME NEW id \in Ids, NEW noted \in Decisions, approvals' = Noted(ap, id, noted)
        PROVE  /\ \A i \in DOMAIN ap : i \in DOMAIN approvals' /\ approvals'[i] = ap[i]
               /\ \A i \in DOMAIN approvals' \ DOMAIN ap :
                     approvals'[i].at = clock + 1 /\ approvals'[i].bound = {}
    <3>1. ap \in Seq(Approval) /\ clock \in Nat
      BY <1>1, <1>2
    <3>2. PICK t : t = Noted(ap, id, noted)
      OBVIOUS
    <3>3. /\ DOMAIN ap \subseteq DOMAIN t
          /\ \A i \in DOMAIN ap : t[i] = ap[i]
          /\ \A i \in DOMAIN t \ DOMAIN ap :
                t[i].node = id /\ t[i].decision = noted /\ t[i].bound = {}
      BY <3>1, <3>2, NotedFacts
    <3>4. \A i \in DOMAIN t \ DOMAIN ap : t[i].at = clock + 1
      BY <3>1, <3>2, NotedDates
    <3> QED
      BY <2>2, <3>2, <3>3, <3>4
  <2> QED
    BY <2>1, <2>2
<1>4. Continued
  BY <1>1, <1>2, <1>3 DEF Continued, Names
<1>5. ASSUME NEW h \in Work,
             \A i \in I \cap DOMAIN approvals : approvals[i].node # Self(h),
             \A i \in DOMAIN approvals' \ DOMAIN approvals : approvals'[i].node # Self(h)
      PROVE  Untouched(h)
  BY <1>2, <1>3, <1>5 DEF Untouched
<1> QED
  BY <1>4, <1>5

(* The driver between two records, crashes, and what an operator may do to a  *)
(* run without deciding anything.                                             *)
LEMMA QuietApprovals ==
    ASSUME Bookkeeping,
           \/ Dispatch \/ Crash \/ ExpandRaises \/ Settle \/ Stop \/ Rollback
           \/ (\E f \in Work : Expand(f))
           \/ UNCHANGED vars
    PROVE  ApprovalsKept
<1>1. TypeOK
  BY DEF Bookkeeping
<1>2. UNCHANGED <<approvals, clock, version>> /\ (phase = "parked" => phase' = "parked")
  <2>1. CASE \E f \in Work : Expand(f)
    BY <1>1, <2>1 DEF Expand, Recorded, TypeOK
  <2> QED
    BY <2>1 DEF Dispatch, Crash, ExpandRaises, Settle, Stop, Rollback, Command, vars
<1>3. ASSUME NEW h \in Plan, Node[h].kind = "human", Passed(h)' PROVE Passed(h)
  <2>1. h \in Work /\ KindOf(Self(h)) = "human" /\ Self(h) \in Rows
    BY <1>1, <1>3, SelfFacts, PlanAssumption DEF TypeOK
  <2>2. CASE GentleMove
    BY <1>3, <2>1, <2>2 DEF GentleMove, Gentle, Passed
  <2>3. ASSUME NEW f \in Work, ExpandMove(f) PROVE node[Self(h)] = "PASSED"
    <3>1. Self(h) # Self(f)
      BY <1>3, <2>1, <2>3, SelfFacts DEF ExpandMove
    <3> QED
      BY <1>3, <2>1, <2>3, <3>1 DEF ExpandMove, Passed
  <2>4. CASE UNCHANGED vars
    BY <1>3, <2>4 DEF vars, Passed, Rows
  <2> QED
    BY <2>1, <2>2, <2>3, <2>4, SettledIsGentle, ResumedIsGentle, ExpandMoves DEF Passed
<1>4. Continued
  BY <1>1, <1>2 DEF Continued, TypeOK
<1>5. ASSUME NEW h \in Plan, Node[h].kind = "human", Passed(h)' PROVE Held(h)
  <2>1. Passed(h) /\ Untouched(h)
    BY <1>2, <1>3, <1>5 DEF Untouched
  <2>2. \A i \in DOMAIN approvals : Current(i)' <=> Current(i)
    BY <1>2 DEF Current
  <2> QED
    BY <1>2, <2>1, <2>2 DEF Held, Standing
<1> QED
  BY <1>4, <1>5 DEF ApprovalsKept

(* _block_for_human asks about the versions there are.                        *)
LEMMA AskedApprovals ==
    ASSUME Bookkeeping, Bookkeeping', NEW id \in wave, BlockForHuman(id)
    PROVE  ApprovalsKept
<1>1. TypeOK
  BY DEF Bookkeeping
<1>2. /\ approvals' = Ask(approvals, id, Bound(id)) /\ UNCHANGED <<clock, version>>
      /\ node' = [node EXCEPT ![id] = "BLOCKED"] /\ phase # "parked"
      /\ id \in Rows /\ id \in Ids /\ approvals \in Seq(Approval) /\ version \in [Work -> Nat]
  BY <1>1 DEF BlockForHuman, TypeOK
<1>3. Bound(id) \in SUBSET (Plan \X Nat) /\ Names(version, id, Bound(id))
  <2>1. id[1] \in Work
    BY <1>2 DEF Ids
  <2>2. Node[id[1]].binds \subseteq Plan
    BY <2>1, PlanAssumption DEF NodeFields
  <2> QED
    BY <1>2, <2>2, PlanAssumption DEF Bound, Names
<1>4. /\ DOMAIN approvals \subseteq DOMAIN approvals'
      /\ \A i \in DOMAIN approvals : approvals'[i] = approvals[i]
      /\ \A i \in DOMAIN approvals' \ DOMAIN approvals :
            /\ approvals'[i].node = id /\ approvals'[i].bound = Bound(id)
            /\ approvals'[i].at = 0
  BY <1>2, <1>3, AskFacts, AskDates
<1>5. Continued
  BY <1>2, <1>3, <1>4 DEF Continued
<1>6. ASSUME NEW h \in Plan, Node[h].kind = "human", Passed(h)' PROVE Held(h)
  <2>1. Self(h) # id /\ Passed(h)
    BY <1>2, <1>6 DEF Passed, Rows
  <2>2. Untouched(h)
    BY <1>4, <2>1 DEF Untouched
  <2>3. \A i \in DOMAIN approvals : Current(i)' <=> Current(i)
    BY <1>2, <1>4 DEF Current
  <2> QED
    BY <1>2, <2>1, <2>2, <2>3 DEF Held, Standing
<1> QED
  BY <1>5, <1>6 DEF ApprovalsKept

(* The head of advance re-opens what names a superseded version.              *)
LEMMA ResumedApprovals ==
    ASSUME Bookkeeping, Dated, Resume
    PROVE  ApprovalsKept
<1>1. TypeOK /\ PeopleAreAsked
  BY DEF Bookkeeping
<1>2. PICK stale : stale = StaleApprovals(approvals, version)
  OBVIOUS
<1>3. /\ approvals' = Reverted(approvals, stale) /\ node' = Reopened(Redo(node), approvals, stale)
      /\ UNCHANGED <<clock, version>> /\ phase = "parked"
  BY <1>2 DEF Resume
<1>4. /\ approvals \in Seq(Approval) /\ version \in [Work -> Nat]
      /\ \A i \in DOMAIN approvals : approvals[i] \in Approval
  BY <1>1 DEF TypeOK
<1>5. /\ DOMAIN approvals' = DOMAIN approvals
      /\ \A i \in DOMAIN approvals :
            /\ approvals'[i].node = approvals[i].node
            /\ approvals'[i].bound = approvals[i].bound
            /\ IF i \in stale THEN approvals'[i].at = 0 ELSE approvals'[i] = approvals[i]
  BY <1>3, <1>4, RevertFacts, StampDates DEF Decisions
<1>6. Continued
  BY <1>3, <1>4, <1>5 DEF Continued
<1>7. ASSUME NEW h \in Plan, Node[h].kind = "human", Passed(h)' PROVE Held(h)
  <2>1. h \in Work /\ Self(h) \in Rows
    BY <1>1, <1>7, PlanAssumption DEF TypeOK
  <2>2. node' \in [Rows -> NodeStatuses]
        /\ \A x \in Rows : node'[x] = Redo(node)[x] \/ node'[x] = "STALE"
    BY <1>1, <1>2, <1>3, RedoFacts, ReopenedFacts
  <2>3. node'[Self(h)] = "PASSED" /\ Redo(node)[Self(h)] = "PASSED"
    BY <1>7, <2>1, <2>2 DEF Passed
  <2>4. Passed(h)
    BY <1>1, <2>1, <2>3, RedoFacts DEF Passed
  <2>5. \A i \in stale : approvals[i].node # Self(h)
    <3>1. DOMAIN Redo(node) = Rows
      BY DEF Redo, Rows
    <3> QED
      BY <1>3, <2>1, <2>3, <3>1 DEF Reopened
  <2>6. ASSUME NEW i \in Standing(approvals), approvals[i].node = Self(h) PROVE Current(i)'
    <3>1. i \in DOMAIN approvals /\ approvals'[i] = approvals[i]
      BY <1>5, <2>5, <2>6 DEF Standing
    <3>2. i \notin stale
      BY <2>5, <2>6
    <3>3. ASSUME NEW b \in approvals[i].bound PROVE version[b[1]] = b[2]
      <4>1. b \in Plan \X Nat /\ b[1] \in Work
        BY <1>4, <3>1, PlanAssumption DEF Approval
      <4>2. b[2] <= version[b[1]] /\ ~(version[b[1]] > b[2])
        BY <1>2, <2>6, <3>1, <3>2, <3>3 DEF Dated, Names, StaleApprovals
      <4> QED
        BY <1>4, <4>1, <4>2
    <3> QED
      BY <1>3, <3>1, <3>3 DEF Current
  <2> QED
    BY <1>5, <2>4, <2>5, <2>6 DEF Held, Untouched
<1> QED
  BY <1>6, <1>7 DEF ApprovalsKept

(* A result recorded over an older version re-opens the checkpoints that name *)
(* the older one; any other leaves the versions they name alone.              *)
LEMMA RecordWorkApprovals ==
    ASSUME BindsQualified, Bookkeeping, Dated, NEW w \in Work, RecordWork(w)
    PROVE  ApprovalsKept
<1>1. /\ Self(w) \in wave /\ Node[w].kind = "work" /\ clock' = clock /\ phase # "parked"
      /\ TypeOK /\ HandoffsNumbered /\ Self(w) \in Rows
      /\ \A i \in DOMAIN approvals : approvals[i] \in Approval
  BY DEF RecordWork, Recorded, Bookkeeping, TypeOK
<1>2. PICK v, signal, produced, nd, I :
         /\ v \in WorkVerdicts(w) /\ signal \in Signals(w) /\ produced \in BOOLEAN
         /\ Stored(w, produced) /\ Judgement(w, v, produced, nd, I)
         /\ ApplyPolicy(w, v, signal, nd, Reverted(approvals, I))
  BY RecordWorkJudges
<1>3. v \in Verdicts
  BY <1>2 DEF WorkVerdicts, Verdicts
<1>4. Consequence(w, v, nd, Reverted(approvals, I))
  BY <1>1, <1>2, <1>3, Consequences DEF Judgement
<1>5. \/ version' = version
      \/ produced /\ version' = [version EXCEPT ![w] = @ + 1]
  BY <1>2, Zenon DEF Stored
<1>6. \A u \in Work : version'[u] >= version[u]
  <2>1. version \in [Work -> Nat]
    BY <1>1 DEF TypeOK
  <2> QED
    BY <1>5, <2>1
<1>7. /\ Continued
      /\ \A h \in Work : (\A i \in I : approvals[i].node # Self(h)) => Untouched(h)
  BY <1>1, <1>3, <1>4, <1>6, ReopenedApprovals DEF Consequence
<1>8. ASSUME NEW h \in Plan, Node[h].kind = "human", Passed(h)' PROVE Held(h)
  <2>1. h \in Work /\ Self(h) \in Rows /\ Self(h) # Self(w)
    BY <1>1, <1>8, SelfFacts, PlanAssumption DEF TypeOK
  <2>2. nd[Self(h)] = "PASSED" /\ Passed(h)
    BY <1>2, <1>4, <1>8, <2>1 DEF Judgement, Consequence, Passed
  <2>3. Untouched(h) /\ \A i \in I : approvals[i].node # Self(h)
    BY <1>2, <1>7, <2>1, <2>2 DEF Judgement
  <2>4. ASSUME NEW i \in Standing(approvals), approvals[i].node = Self(h), Current(i)
        PROVE  Current(i)'
    <3>1. i \in DOMAIN approvals /\ approvals'[i] = approvals[i]
      BY <2>3, <2>4 DEF Standing, Untouched
    <3>2. ASSUME NEW b \in approvals[i].bound PROVE version'[b[1]] = version[b[1]]
      <4>1. /\ b[1] \in Node[h].binds /\ b[1] \in Work /\ b[2] = version[b[1]]
            /\ 1 <= b[2] /\ b[2] \in Nat
        <5>1. Names(version, Self(h), approvals[i].bound) /\ b \in Plan \X Nat
          BY <1>1, <2>4, <3>1, <3>2 DEF Dated, Approval
        <5> QED
          BY <2>1, <2>4, <3>2, <5>1, SelfFacts, PlanAssumption DEF Names, Current
      <4>2. SUFFICES ASSUME produced, b[1] = w PROVE FALSE
        BY <1>1, <1>5, <4>1 DEF TypeOK
      <4>3. ReDerived(w, produced)
        BY <1>1, <1>8, <4>1, <4>2 DEF ReDerived, BindsQualified, TypeOK
      <4>4. [version EXCEPT ![w] = @ + 1][b[1]] > b[2]
        BY <1>1, <4>1, <4>2 DEF TypeOK
      <4>5. i \in I
        BY <1>2, <2>4, <3>2, <4>3, <4>4 DEF Judgement, StaleApprovals
      <4> QED
        BY <2>3, <2>4, <4>5
    <3> QED
      BY <2>4, <3>1, <3>2 DEF Current
  <2> QED
    BY <1>1, <2>2, <2>3, <2>4 DEF Held
<1> QED
  BY <1>7, <1>8 DEF ApprovalsKept

(* No checkpoint binds a bundle, and a re-check records no version.           *)
LEMMA RecordBundleApprovals ==
    ASSUME BindsQualified, Bookkeeping, Dated, NEW w \in Work, RecordBundle(w) \/ RecheckFails(w)
    PROVE  ApprovalsKept
<1>1. /\ Judged(w) /\ clock' = clock /\ TypeOK /\ HandoffsNumbered /\ Self(w) \in Rows
      /\ approvals \in Seq(Approval) /\ version \in [Work -> Nat]
      /\ phase # "parked" \/ phase' = "parked"
  BY DEF RecordBundle, Recorded, RecheckFails, Rechecking, Command, Bookkeeping, TypeOK, Judged
<1>2. PICK v \in Verdicts, signal \in Signals(w) :
         /\ ApplyPolicy(w, v, signal, [node EXCEPT ![Self(w)] = StatusFor(v)], approvals)
         /\ version' = version \/ (Node[w].kind = "bundle" /\ \E k : version' = [version EXCEPT ![w] = k]
                                   /\ k \in Nat /\ k >= version[w])
  <2>1. CASE RecordBundle(w)
    <3>1. PICK v \in Verdicts, signal \in Signals(w) :
             /\ ApplyPolicy(w, v, signal, [node EXCEPT ![Self(w)] = StatusFor(v)], approvals)
             /\ version' = [version EXCEPT ![w] = IF v = "pass" THEN @ + 1 ELSE @]
      BY <2>1 DEF RecordBundle
    <3>2. PICK k : k = IF v = "pass" THEN version[w] + 1 ELSE version[w]
      OBVIOUS
    <3>3. version' = [version EXCEPT ![w] = k] /\ k \in Nat /\ k >= version[w]
      BY <1>1, <3>1, <3>2
    <3> QED
      BY <2>1, <3>1, <3>3 DEF RecordBundle
  <2>2. CASE RecheckFails(w)
    BY <2>2 DEF RecheckFails, Rechecking, Verdicts, Signals
  <2> QED
    BY <2>1, <2>2
<1>3. PICK nd : nd = [node EXCEPT ![Self(w)] = StatusFor(v)]
  OBVIOUS
<1>4. /\ nd \in [Rows -> NodeStatuses] /\ nd[Self(w)] = StatusFor(v)
      /\ \A x \in Rows \ {Self(w)} : nd[x] = node[x]
  <2>1. Rows = DOMAIN node /\ node \in [Rows -> NodeStatuses] /\ Self(w) \in Rows
    BY <1>1 DEF Rows, TypeOK
  <2>2. StatusFor(v) \in NodeStatuses
    BY DEF StatusFor, NodeStatuses
  <2> QED
    BY <1>3, <2>1, <2>2
<1>5. Consequence(w, v, nd, approvals)
  BY <1>1, <1>2, <1>3, <1>4, Consequences
<1>6. approvals = Reverted(approvals, {}) /\ \A u \in Work : version'[u] >= version[u]
  BY <1>1, <1>2 DEF Reverted
<1>7. Continued /\ \A h \in Work : Untouched(h)
  BY <1>1, <1>5, <1>6, ReopenedApprovals DEF Consequence
<1>8. ASSUME NEW h \in Plan, Node[h].kind = "human", Passed(h)' PROVE Held(h)
  <2>1. h \in Work /\ Self(h) \in Rows /\ Self(h) # Self(w)
    BY <1>1, <1>8, SelfFacts, PlanAssumption DEF TypeOK, Judged
  <2>2. Passed(h)
    BY <1>4, <1>5, <1>8, <2>1 DEF Consequence, Passed
  <2>3. ASSUME NEW i \in Standing(approvals), approvals[i].node = Self(h), Current(i)
        PROVE  Current(i)'
    <3>1. i \in DOMAIN approvals /\ approvals'[i] = approvals[i]
      BY <1>7, <2>1, <2>3 DEF Standing, Untouched
    <3>2. ASSUME NEW b \in approvals[i].bound PROVE version'[b[1]] = version[b[1]]
      <4>1. b[1] \in Node[h].binds /\ b[1] \in Work
        <5>1. Names(version, Self(h), approvals[i].bound)
          BY <2>3, <3>1 DEF Dated
        <5>2. approvals[i] \in Approval
          BY <1>1, <3>1
        <5>3. b \in Plan \X Nat
          BY <3>2, <5>2 DEF Approval
        <5> QED
          BY <2>1, <3>2, <5>1, SelfFacts, PlanAssumption DEF Names, NodeFields
      <4>2. Node[b[1]].kind = "work"
        BY <1>8, <4>1 DEF BindsQualified
      <4> QED
        BY <1>1, <1>2, <4>1, <4>2
    <3> QED
      BY <2>3, <3>1, <3>2 DEF Current
  <2> QED
    BY <1>1, <1>7, <2>1, <2>2, <2>3 DEF Held
<1> QED
  BY <1>7, <1>8 DEF ApprovalsKept

(* An approval is the latest decision on its checkpoint.                      *)
LEMMA ApprovedApprovals ==
    ASSUME Bookkeeping, Dated, NEW id \in Rows, Approve(id)
    PROVE  ApprovalsKept
<1>1. TypeOK /\ PeopleAreAsked
  BY DEF Bookkeeping
<1>2. /\ approvals' = Decide(approvals, FirstOpen(id), "APPROVED") /\ clock' = clock + 1
      /\ version' = version /\ phase' = "parked" /\ Open(approvals, {id}) # {}
      /\ approvals \in Seq(Approval) /\ clock \in Nat /\ "APPROVED" \in Decisions
  BY <1>1 DEF Approve, Command, TypeOK, Decisions
<1>3. \A i \in FirstOpen(id) : i \in DOMAIN approvals /\ approvals[i].node = id
  BY <1>1, <1>2, FirstOpenFacts
<1>4. /\ DOMAIN approvals' = DOMAIN approvals
      /\ \A i \in DOMAIN approvals :
            /\ approvals'[i].node = approvals[i].node
            /\ IF i \in FirstOpen(id)
               THEN approvals'[i].at = clock + 1 /\ approvals'[i].decision = "APPROVED"
               ELSE approvals'[i] = approvals[i]
  BY <1>2, DecideFacts, StampDates
<1>5. /\ Continued
      /\ \A h \in Work : (\A i \in FirstOpen(id) \cap DOMAIN approvals : approvals[i].node # Self(h))
            => Untouched(h)
  BY <1>1, <1>2, <1>4, DecidedApprovals
<1>6. ASSUME NEW h \in Plan, Node[h].kind = "human", Passed(h)', Self(h) = id
      PROVE  Renewed(h)
  <2>1. PICK i \in FirstOpen(id) : TRUE
    BY <1>2, FirstIsOpen
  <2>2. i \in DOMAIN approvals' /\ approvals'[i].node = id
        /\ approvals'[i].decision = "APPROVED" /\ approvals'[i].at = clock + 1
    BY <1>3, <1>4, <2>1
  <2>3. \A j \in DOMAIN approvals' : approvals'[j].at <= clock + 1
    <3>1. ASSUME NEW j \in DOMAIN approvals PROVE approvals'[j].at <= clock + 1
      <4>1. approvals[j] \in Approval /\ approvals[j].at <= clock
        BY <1>2 DEF Dated
      <4>2. approvals[j].at \in Nat
        BY <4>1 DEF Approval
      <4> QED
        BY <1>2, <1>4, <4>1, <4>2
    <3> QED
      BY <1>4, <3>1
  <2>4. i \in Standing(approvals')
    BY <2>2, <2>3 DEF Standing
  <2> QED
    BY <1>2, <1>6, <2>2, <2>4 DEF Renewed
<1>7. ASSUME NEW h \in Plan, Node[h].kind = "human", Passed(h)', Self(h) # id
      PROVE  Held(h)
  <2>1. Self(h) \in Rows /\ Rows = DOMAIN node /\ node \in [Rows -> NodeStatuses]
    BY <1>1 DEF TypeOK, Rows
  <2>2. node' = Released([node EXCEPT ![id] = "PASSED"], id)
    BY DEF Approve
  <2>3. node'[Self(h)] = "PASSED" => node[Self(h)] = "PASSED"
    BY <1>7, <2>1, <2>2 DEF Released
  <2>4. Passed(h) /\ h \in Work
    BY <1>7, <2>1, <2>3, PlanAssumption DEF Passed
  <2> QED
    BY <1>2, <1>3, <1>5, <1>7, <2>4 DEF Held
<1> QED
  BY <1>5, <1>6, <1>7 DEF ApprovalsKept

(* Every other decision is on a row that is not green afterwards.             *)
LEMMA RefusedApprovals ==
    ASSUME Bookkeeping, NEW id \in Rows, Reject(id) \/ Retry(id)
    PROVE  ApprovalsKept
<1>1. TypeOK /\ PeopleAreAsked
  BY DEF Bookkeeping
<1>2. /\ clock' = clock + 1 /\ version' = version /\ phase' = "parked" /\ id \in Ids
      /\ approvals \in Seq(Approval) /\ clock \in Nat
      /\ Rows = DOMAIN node /\ node \in [Rows -> NodeStatuses]
      /\ "APPROVED" \in Decisions /\ "REJECTED" \in Decisions
  BY <1>1 DEF Reject, Retry, Command, TypeOK, Decisions, Rows
<1>3. /\ Continued
      /\ \A h \in Work : Self(h) # id => Untouched(h)
  <2>1. CASE Reject(id)
    <3>1. /\ approvals' = Decide(approvals, FirstOpen(id), "REJECTED")
          /\ \A i \in FirstOpen(id) : approvals[i].node = id
      BY <1>1, <2>1, FirstOpenFacts DEF Reject
    <3>2. DOMAIN approvals' = DOMAIN approvals
      BY <3>1 DEF Decide
    <3> QED
      BY <1>1, <1>2, <3>1, <3>2, DecidedApprovals
  <2>2. CASE Retry(id)
    <3>1. PICK ap : ap = Decide(approvals, {}, "APPROVED")
      OBVIOUS
    <3>2. ap = approvals
      BY <1>2, <3>1 DEF Decide
    <3>3. approvals' = Noted(ap, id, "APPROVED")
      BY <2>2, <3>2 DEF Retry
    <3>4. \A i \in DOMAIN approvals' \ DOMAIN approvals : approvals'[i].node = id
      BY SMTT(30), <1>2, <3>2, <3>3, NotedFacts
    <3> QED
      BY <1>1, <1>2, <3>1, <3>3, <3>4, DecidedApprovals
  <2> QED
    BY <2>1, <2>2
<1>4. ASSUME NEW h \in Plan, Node[h].kind = "human", Passed(h)' PROVE Held(h)
  <2>1. Self(h) \in Rows /\ h \in Work
    BY <1>1, PlanAssumption DEF TypeOK
  <2>2. Self(h) # id /\ node[Self(h)] = "PASSED"
    BY <1>2, <1>4, <2>1 DEF Reject, Retry, Passed
  <2> QED
    BY <1>2, <1>3, <2>1, <2>2 DEF Held, Passed
<1> QED
  BY <1>3, <1>4 DEF ApprovalsKept

LEMMA WithdrawnApprovals ==
    ASSUME Bookkeeping, NEW n \in Plan, Invalidate(n)
    PROVE  ApprovalsKept
<1>1. TypeOK
  BY DEF Bookkeeping
<1>2. PICK I, ap : I = Open(approvals, Moot(n) \cup BuiltOn(n)) /\ ap = Decide(approvals, I, "REJECTED")
  OBVIOUS
<1>3. /\ approvals' = Noted(ap, Self(n), "REJECTED") /\ clock' = clock + 1 /\ version' = version
      /\ phase' = "parked" /\ node' = Withdrawn(n) /\ "REJECTED" \in Decisions
      /\ approvals \in Seq(Approval) /\ clock \in Nat /\ n \in Work /\ Self(n) \in Ids
  BY <1>1, <1>2, SelfFacts, PlanAssumption DEF Invalidate, Command, TypeOK, Decisions
<1>4. ap \in Seq(Approval) /\ DOMAIN ap = DOMAIN approvals
  BY <1>2, <1>3, DecideFacts
<1>5. \A i \in DOMAIN approvals' \ DOMAIN approvals : approvals'[i].node = Self(n)
  BY <1>3, <1>4, NotedFacts
<1>6. /\ Continued
      /\ \A h \in Work :
            /\ \A i \in I \cap DOMAIN approvals : approvals[i].node # Self(h)
            /\ \A i \in DOMAIN approvals' \ DOMAIN approvals : approvals'[i].node # Self(h)
            => Untouched(h)
  BY <1>1, <1>2, <1>3, DecidedApprovals
<1>7. ASSUME NEW h \in Plan, Node[h].kind = "human", Passed(h)' PROVE Held(h)
  <2>1. Self(h) \in Rows /\ h \in Work /\ ~IsHandoff(Self(h))
    BY <1>1, SelfFacts, PlanAssumption DEF TypeOK
  <2>2. PICK children : children = {Self(c) : c \in Reclaimed(n)}
    OBVIOUS
  <2>3. node'[Self(h)] = IF Self(h) = Self(n) THEN "PENDING"
                         ELSE IF Self(h) \in Moot(n) \cup children THEN "SKIPPED"
                         ELSE IF Self(h) \in BuiltOn(n) THEN "STALE" ELSE node[Self(h)]
    BY <1>3, <2>1, <2>2 DEF Withdrawn
  <2>4. Self(h) # Self(n) /\ Self(h) \notin Moot(n) /\ Self(h) \notin BuiltOn(n)
        /\ node[Self(h)] = "PASSED"
    BY <1>7, <2>1, <2>3 DEF Passed
  <2>5. \A i \in I : approvals[i].node # Self(h)
    BY <1>2, <2>4 DEF Open
  <2> QED
    BY <1>3, <1>5, <1>6, <2>1, <2>4, <2>5 DEF Held, Passed
<1> QED
  BY <1>6, <1>7 DEF ApprovalsKept

LEMMA RecheckedApprovals ==
    ASSUME Bookkeeping, NEW w \in Work, RecheckPasses(w)
    PROVE  ApprovalsKept
<1>1. TypeOK
  BY DEF Bookkeeping
<1>2. PICK I : I = Open(approvals, Handoffs({w}))
  OBVIOUS
<1>3. /\ approvals' = Decide(approvals, I, "REJECTED") /\ clock' = clock + 1 /\ version' = version
      /\ phase' = "parked" /\ "REJECTED" \in Decisions /\ Judged(w)
  BY <1>2 DEF RecheckPasses, Rechecking, Command, Decisions, Judged
<1>4. DOMAIN approvals' = DOMAIN approvals /\ \A i \in I : IsHandoff(approvals[i].node)
  BY <1>2, <1>3 DEF Decide, Open, Handoffs
<1>5. Continued /\ \A h \in Work : Untouched(h)
  BY <1>1, <1>3, <1>4, SelfFacts, DecidedApprovals
<1>6. ASSUME NEW h \in Plan, Node[h].kind = "human", Passed(h)' PROVE Held(h)
  <2>1. h \in Work /\ Self(h) \in Rows /\ Self(h) # Self(w) /\ ~IsHandoff(Self(h))
    BY <1>1, <1>3, <1>6, SelfFacts, PlanAssumption DEF TypeOK, Judged
  <2>2. VerdictRows(w, "pass")
    BY RecheckPassesMoves DEF VerdictMove
  <2>3. node[Self(h)] = "PASSED"
    BY <1>6, <2>1, <2>2 DEF VerdictRows, Passed
  <2> QED
    BY <1>3, <1>5, <2>1, <2>3 DEF Held, Passed
<1> QED
  BY <1>5, <1>6 DEF ApprovalsKept

LEMMA ApprovalsInit == ConsoleInit => Dated /\ Covered
BY DEF ConsoleInit, Init, Dated, Covered, Passed, Rows

LEMMA CoveredKept ==
    ASSUME BindsQualified, Bookkeeping, Dated, Covered, [Next]_vars
    PROVE  Dated' /\ Covered'
<1>1. Bookkeeping'
  BY NextKeeps
<1>2. ApprovalsKept
  BY <1>1, QuietApprovals, AskedApprovals, ResumedApprovals, RecordWorkApprovals,
     RecordBundleApprovals, ApprovedApprovals, RefusedApprovals, WithdrawnApprovals,
     RecheckedApprovals DEF Next, Driver, Operator
<1> QED
  BY <1>1, <1>2, ApprovalsStay

(* Work behind a checkpoint is dispatched only under an approval that names   *)
(* the versions there are, whatever was re-derived, withdrawn, rejected or    *)
(* asked again since it was given.                                            *)
THEOREM BuiltOnApprovalHolds ==
    ASSUME BindsQualified
    PROVE  Spec => []BuiltOnApproval
<1>1. Bookkeeping /\ Dated /\ Covered /\ [Next]_vars => (Dated /\ Covered)'
  BY CoveredKept
<1>2. Covered => BuiltOnApproval
  BY DEF Covered, BuiltOnApproval, Current
<1> QED
  BY <1>1, <1>2, ApprovalsInit, BookkeepingHolds, PTL DEF Spec

-------------------------------------------------------------------------------
(* What a run is reported to have been.                                       *)

(* A row that is out of the run is not asked about, and handoffs name no      *)
(* versions: an answer left over cannot bring back what was closed.           *)
SkippedIsSilent ==
    \A i \in DOMAIN approvals : IsHandoff(approvals[i].node) =>
        /\ approvals[i].bound = {}
        /\ approvals[i].decision = "PENDING" => node[approvals[i].node] # "SKIPPED"

LEMMA ReopenedDecisions ==
    ASSUME TypeOK, NEW I, NEW w \in Work, NEW v \in Verdicts, NEW ap,
           ap = Reverted(approvals, I),
           approvals' = ap \/ (v # "pass" /\ approvals' = Ask(ap, <<w, attempts[w] + 1, v>>, {}))
    PROVE  \A i \in DOMAIN approvals' :
              \/ /\ i \in DOMAIN approvals
                 /\ approvals'[i].node = approvals[i].node /\ approvals'[i].bound = approvals[i].bound
                 /\ i \notin I => approvals'[i].decision = approvals[i].decision
              \/ /\ v # "pass" /\ approvals'[i].node = <<w, attempts[w] + 1, v>>
                 /\ approvals'[i].bound = {}
<1>1. approvals \in Seq(Approval) /\ attempts[w] \in Nat
  BY DEF TypeOK
<1>2. /\ ap \in Seq(Approval) /\ DOMAIN ap = DOMAIN approvals
      /\ \A i \in DOMAIN approvals :
            /\ ap[i].node = approvals[i].node /\ ap[i].bound = approvals[i].bound
            /\ i \notin I => ap[i].decision = approvals[i].decision
  BY <1>1, RevertFacts
<1>3. CASE approvals' = ap
  BY <1>2, <1>3
<1>4. CASE v # "pass" /\ approvals' = Ask(ap, <<w, attempts[w] + 1, v>>, {})
  <2>1. PICK id : id = <<w, attempts[w] + 1, v>>
    OBVIOUS
  <2>2. id \in Ids /\ v # "pass"
    BY <1>1, <1>4, <2>1, HandoffFacts DEF Verdicts
  <2>3. PICK t : t = Ask(ap, id, {})
    OBVIOUS
  <2>4. /\ \A i \in DOMAIN ap : t[i] = ap[i]
        /\ \A i \in DOMAIN t \ DOMAIN ap :
              t[i].node = id /\ t[i].decision = "PENDING" /\ t[i].bound = {}
    BY <1>2, <2>2, <2>3, AskFacts
  <2>5. approvals' = t
    BY <1>4, <2>1, <2>3
  <2> QED
    BY <1>2, <2>1, <2>2, <2>4, <2>5
<1> QED
  BY <1>3, <1>4

LEMMA DecidedDecisions ==
    ASSUME TypeOK, NEW I, NEW decision \in Decisions, NEW ap,
           ap = Decide(approvals, I, decision),
           \/ approvals' = ap
           \/ \E id \in Ids, noted \in Decisions \ {"PENDING"} : approvals' = Noted(ap, id, noted)
    PROVE  \A i \in DOMAIN approvals' :
              \/ /\ i \in DOMAIN approvals
                 /\ approvals'[i].node = approvals[i].node /\ approvals'[i].bound = approvals[i].bound
                 /\ approvals'[i].decision = IF i \in I THEN decision ELSE approvals[i].decision
              \/ approvals'[i].bound = {} /\ approvals'[i].decision # "PENDING"
<1>1. approvals \in Seq(Approval) /\ clock \in Nat
  BY DEF TypeOK
<1>2. /\ ap \in Seq(Approval) /\ DOMAIN ap = DOMAIN approvals
      /\ \A i \in DOMAIN approvals :
            /\ ap[i].node = approvals[i].node /\ ap[i].bound = approvals[i].bound
            /\ ap[i].decision = IF i \in I THEN decision ELSE approvals[i].decision
  BY <1>1, DecideFacts
<1>3. CASE approvals' = ap
  BY <1>2, <1>3
<1>4. ASSUME NEW id \in Ids, NEW noted \in Decisions \ {"PENDING"}, approvals' = Noted(ap, id, noted)
      PROVE  /\ \A i \in DOMAIN ap : approvals'[i] = ap[i]
             /\ \A i \in DOMAIN approvals' \ DOMAIN ap :
                   approvals'[i].bound = {} /\ approvals'[i].decision # "PENDING"
  <2>1. PICK t : t = Noted(ap, id, noted)
    OBVIOUS
  <2>2. /\ \A i \in DOMAIN ap : t[i] = ap[i]
        /\ \A i \in DOMAIN t \ DOMAIN ap :
              t[i].node = id /\ t[i].decision = noted /\ t[i].bound = {}
    BY SMTT(30), <1>1, <1>2, <2>1, NotedFacts
  <2> QED
    BY <1>4, <2>1, <2>2
<1> QED
  BY <1>2, <1>3, <1>4

(* What is said of a handoff after a step of each kind.                       *)
LEMMA QuietHandoffs ==
    ASSUME Bookkeeping, SkippedIsSilent, approvals' = approvals,
           GentleMove \/ (\E f \in Work : ExpandMove(f))
    PROVE  SkippedIsSilent'
<1>1. \A i \in DOMAIN approvals : approvals[i].node \in Rows
  BY DEF Bookkeeping, TypeOK
<1>2. ASSUME NEW x \in Rows, IsHandoff(x) PROVE node'[x] = "SKIPPED" => node[x] = "SKIPPED"
  <2>1. \A c : x # Self(c)
    BY <1>2 DEF IsHandoff, Self
  <2> QED
    BY <2>1 DEF GentleMove, Gentle, ExpandMove
<1> QED
  BY <1>1, <1>2 DEF SkippedIsSilent

LEMMA AskedHandoffs ==
    ASSUME Bookkeeping, SkippedIsSilent, NEW id \in wave, BlockForHuman(id)
    PROVE  SkippedIsSilent'
<1>1. TypeOK
  BY DEF Bookkeeping
<1>2. PICK bound : bound = Bound(id)
  OBVIOUS
<1>3. /\ approvals' = Ask(approvals, id, bound) /\ node' = [node EXCEPT ![id] = "BLOCKED"]
      /\ approvals \in Seq(Approval) /\ id \in Rows /\ id \in Ids /\ id[1] \in Work
      /\ Rows = DOMAIN node /\ \A i \in DOMAIN approvals : approvals[i].node \in Rows
  BY <1>1, <1>2 DEF BlockForHuman, TypeOK, Ids, Rows
<1>4. bound \in SUBSET (Plan \X Nat) /\ (IsHandoff(id) => bound = {})
  <2>1. Node[id[1]].binds \subseteq Plan /\ version \in [Work -> Nat]
    BY <1>1, <1>3, PlanAssumption DEF NodeFields, TypeOK
  <2> QED
    BY <1>2, <2>1, PlanAssumption DEF Bound
<1>5. /\ \A i \in DOMAIN approvals : approvals'[i] = approvals[i]
      /\ \A i \in DOMAIN approvals' \ DOMAIN approvals :
            approvals'[i].node = id /\ approvals'[i].bound = bound
  BY <1>3, <1>4, AskFacts
<1> QED
  BY <1>3, <1>4, <1>5 DEF SkippedIsSilent

LEMMA ResumedHandoffs ==
    ASSUME Bookkeeping, SkippedIsSilent, Resume
    PROVE  SkippedIsSilent'
<1>1. TypeOK /\ PeopleAreAsked
  BY DEF Bookkeeping
<1>2. PICK stale : stale = StaleApprovals(approvals, version)
  OBVIOUS
<1>3. approvals' = Reverted(approvals, stale) /\ approvals \in Seq(Approval)
  BY <1>1, <1>2 DEF Resume, TypeOK
<1>4. \A i \in stale : approvals[i].bound # {}
  BY <1>1, <1>2, StaleFacts
<1>5. /\ DOMAIN approvals' = DOMAIN approvals
      /\ \A i \in DOMAIN approvals :
            /\ approvals'[i].node = approvals[i].node /\ approvals'[i].bound = approvals[i].bound
            /\ i \notin stale => approvals'[i].decision = approvals[i].decision
  BY <1>3, RevertFacts
<1>6. \A i \in DOMAIN approvals : approvals[i].node \in Rows
  BY <1>1 DEF TypeOK
<1>7. \A x \in Rows : node'[x] = "SKIPPED" => node[x] = "SKIPPED"
  BY ResumedIsGentle DEF GentleMove, Gentle
<1> QED
  BY <1>4, <1>5, <1>6, <1>7 DEF SkippedIsSilent

(* A verdict asks about a handoff that did not exist, and re-opens none.      *)
LEMMA JudgedHandoffs ==
    ASSUME Bookkeeping, Bookkeeping', SkippedIsSilent, NEW w \in Work, NEW v \in Verdicts,
           NEW nd, NEW I, Consequence(w, v, nd, Reverted(approvals, I)),
           \A x \in Rows \ {Self(w)} : nd[x] = node[x] \/ nd[x] = "STALE",
           \A i \in I : approvals[i].bound # {}
    PROVE  SkippedIsSilent'
<1>1. TypeOK /\ HandoffsNumbered /\ attempts[w] \in Nat
  BY DEF Bookkeeping, TypeOK
<1>2. PICK id : id = <<w, attempts[w] + 1, v>>
  OBVIOUS
<1>3. \A i \in DOMAIN approvals' :
         \/ /\ i \in DOMAIN approvals
            /\ approvals'[i].node = approvals[i].node /\ approvals'[i].bound = approvals[i].bound
            /\ i \notin I => approvals'[i].decision = approvals[i].decision
         \/ v # "pass" /\ approvals'[i].node = id /\ approvals'[i].bound = {}
  BY <1>1, <1>2, ReopenedDecisions DEF Consequence
<1>4. \A x \in Rows : IsHandoff(x) /\ node'[x] = "SKIPPED" => node[x] = "SKIPPED"
  <2>1. \A x \in Rows : IsHandoff(x) => x # Self(w)
    BY DEF IsHandoff, Self
  <2> QED
    BY <2>1 DEF Consequence
<1>5. \A i \in DOMAIN approvals : approvals[i].node \in Rows
  BY <1>1 DEF TypeOK
<1>6. id \notin Rows
  <2>1. id[1] = w /\ id[2] = attempts[w] + 1 /\ IsHandoff(id)
    BY <1>1, <1>2 DEF IsHandoff
  <2> QED
    BY <1>1, <2>1 DEF HandoffsNumbered
<1>7. \A i \in DOMAIN approvals' : approvals'[i].node = id => node'[id] # "SKIPPED"
  <2>1. \A i \in DOMAIN approvals' : approvals'[i].node \in Rows'
    BY DEF Bookkeeping, TypeOK
  <2> QED
    BY <1>6, <2>1 DEF Consequence
<1> QED
  BY <1>3, <1>4, <1>5, <1>7 DEF SkippedIsSilent

LEMMA RecordedHandoffs ==
    ASSUME Bookkeeping, Bookkeeping', SkippedIsSilent, NEW w \in Work,
           RecordWork(w) \/ RecordBundle(w) \/ RecheckFails(w)
    PROVE  SkippedIsSilent'
<1>1. TypeOK /\ HandoffsNumbered /\ Self(w) \in Rows /\ approvals = Reverted(approvals, {})
  <2>1. TypeOK /\ HandoffsNumbered /\ wave \subseteq Rows /\ approvals \in Seq(Approval)
    BY DEF Bookkeeping, TypeOK
  <2>2. Self(w) \in Rows
    BY <2>1 DEF RecordWork, RecordBundle, Recorded, RecheckFails, Rechecking
  <2>3. approvals = Reverted(approvals, {})
    BY <2>1 DEF Reverted
  <2> QED
    BY <2>1, <2>2, <2>3
<1>2. CASE RecordWork(w)
  <2>1. PICK v, signal, produced, nd, I :
           /\ v \in WorkVerdicts(w) /\ signal \in Signals(w) /\ produced \in BOOLEAN
           /\ Stored(w, produced) /\ Judgement(w, v, produced, nd, I)
           /\ ApplyPolicy(w, v, signal, nd, Reverted(approvals, I))
    BY <1>2, RecordWorkJudges
  <2>2. v \in Verdicts
    BY <2>1 DEF WorkVerdicts, Verdicts
  <2>3. Consequence(w, v, nd, Reverted(approvals, I))
    BY <1>1, <2>1, <2>2, Consequences DEF Judgement
  <2>4. /\ \A x \in Rows \ {Self(w)} : nd[x] = node[x] \/ nd[x] = "STALE"
        /\ \A i \in I : approvals[i].bound # {}
    BY <2>1 DEF Judgement
  <2> QED
    BY <2>2, <2>3, <2>4, JudgedHandoffs
<1>3. CASE RecordBundle(w) \/ RecheckFails(w)
  <2>1. PICK v \in Verdicts, signal \in Signals(w) :
           ApplyPolicy(w, v, signal, [node EXCEPT ![Self(w)] = StatusFor(v)], approvals)
    BY <1>3 DEF RecordBundle, RecheckFails, Verdicts, Signals
  <2>2. PICK nd : nd = [node EXCEPT ![Self(w)] = StatusFor(v)]
    OBVIOUS
  <2>3. /\ nd \in [Rows -> NodeStatuses] /\ nd[Self(w)] = StatusFor(v)
        /\ \A x \in Rows \ {Self(w)} : nd[x] = node[x]
    <3>1. Rows = DOMAIN node /\ node \in [Rows -> NodeStatuses] /\ Self(w) \in Rows
      BY <1>1 DEF Rows, TypeOK
    <3>2. StatusFor(v) \in NodeStatuses
      BY DEF StatusFor, NodeStatuses
    <3> QED
      BY <2>2, <3>1, <3>2
  <2>4. Consequence(w, v, nd, approvals)
    BY <1>1, <2>1, <2>2, <2>3, Consequences
  <2>5. Consequence(w, v, nd, Reverted(approvals, {}))
    BY <1>1, <2>4
  <2> QED
    BY <2>3, <2>5, JudgedHandoffs
<1> QED
  BY <1>2, <1>3

(* An answer closes the request it answers, and one command all of a handoff  *)
(* that leaves the run.                                                       *)
LEMMA DecidedHandoffs ==
    ASSUME Bookkeeping, SkippedIsSilent,
           \/ \E id \in Rows : Approve(id) \/ Reject(id) \/ Retry(id)
           \/ \E n \in Plan : Invalidate(n)
           \/ \E w \in Work : RecheckPasses(w)
    PROVE  SkippedIsSilent'
<1>1. TypeOK /\ PeopleAreAsked
  BY DEF Bookkeeping
<1>2. /\ approvals \in Seq(Approval) /\ \A i \in DOMAIN approvals : approvals[i].node \in Rows
      /\ Rows = DOMAIN node /\ node \in [Rows -> NodeStatuses] /\ Rows \subseteq Ids
      /\ {"APPROVED", "REJECTED"} \subseteq Decisions \ {"PENDING"}
  BY <1>1 DEF TypeOK, Rows, Decisions
<1>3. ASSUME NEW I, NEW decision \in {"APPROVED", "REJECTED"}, NEW ap,
             ap = Decide(approvals, I, decision),
             \/ approvals' = ap
             \/ \E id \in Ids, noted \in {"APPROVED", "REJECTED"} : approvals' = Noted(ap, id, noted),
             \A i \in DOMAIN approvals :
                IsHandoff(approvals[i].node) /\ node'[approvals[i].node] = "SKIPPED" =>
                    node[approvals[i].node] = "SKIPPED" \/ approvals[i].decision # "PENDING" \/ i \in I
      PROVE  SkippedIsSilent'
  <2>1. \A i \in DOMAIN approvals' :
            \/ /\ i \in DOMAIN approvals
               /\ approvals'[i].node = approvals[i].node /\ approvals'[i].bound = approvals[i].bound
               /\ approvals'[i].decision = IF i \in I THEN decision ELSE approvals[i].decision
            \/ approvals'[i].bound = {} /\ approvals'[i].decision # "PENDING"
    BY <1>1, <1>2, <1>3, DecidedDecisions
  <2> QED
    BY <1>3, <2>1 DEF SkippedIsSilent
<1>4. ASSUME NEW id \in Rows, Approve(id) PROVE SkippedIsSilent'
  <2>1. /\ approvals' = Decide(approvals, FirstOpen(id), "APPROVED")
        /\ node' = Released([node EXCEPT ![id] = "PASSED"], id)
    BY <1>4 DEF Approve
  <2>2. \A x \in Rows : IsHandoff(x) /\ node'[x] = "SKIPPED" => node[x] = "SKIPPED"
    BY <1>2, <2>1 DEF Released, IsHandoff, Self
  <2> QED
    BY <1>2, <1>3, <2>1, <2>2
<1>5. ASSUME NEW id \in Rows, Reject(id) PROVE SkippedIsSilent'
  <2>1. /\ approvals' = Decide(approvals, FirstOpen(id), "REJECTED")
        /\ node' = [node EXCEPT ![id] = "FAILED"]
    BY <1>5 DEF Reject
  <2> QED
    BY <1>2, <1>3, <2>1
<1>6. ASSUME NEW id \in Rows, Retry(id) PROVE SkippedIsSilent'
  <2>1. PICK ap : ap = Decide(approvals, {}, "APPROVED")
    OBVIOUS
  <2>2. approvals = ap
    BY <1>2, <2>1 DEF Decide
  <2>3. /\ approvals' = Noted(ap, id, "APPROVED")
        /\ node' = [node EXCEPT ![id] = "PENDING"]
    BY <1>6, <2>2 DEF Retry
  <2> QED
    BY <1>2, <1>3, <2>1, <2>3
<1>7. ASSUME NEW n \in Plan, Invalidate(n) PROVE SkippedIsSilent'
  <2>1. PICK I, ap : I = Open(approvals, Moot(n) \cup BuiltOn(n)) /\ ap = Decide(approvals, I, "REJECTED")
    OBVIOUS
  <2>2. approvals' = Noted(ap, Self(n), "REJECTED") /\ node' = Withdrawn(n) /\ Self(n) \in Ids
    BY <1>7, <2>1, SelfFacts, PlanAssumption DEF Invalidate
  <2>3. ASSUME NEW x \in Rows, IsHandoff(x), node'[x] = "SKIPPED"
        PROVE  node[x] = "SKIPPED" \/ x \in Moot(n)
    <3>1. \A c : x # Self(c)
      BY <2>3 DEF IsHandoff, Self
    <3> QED
      BY <2>2, <2>3, <3>1 DEF Withdrawn
  <2>4. \A i \in DOMAIN approvals :
           IsHandoff(approvals[i].node) /\ node'[approvals[i].node] = "SKIPPED" =>
               node[approvals[i].node] = "SKIPPED" \/ approvals[i].decision # "PENDING" \/ i \in I
    BY <1>2, <2>1, <2>3 DEF Open
  <2> QED
    BY <1>3, <2>1, <2>2, <2>4
<1>8. ASSUME NEW w \in Work, RecheckPasses(w) PROVE SkippedIsSilent'
  <2>1. PICK I : I = Open(approvals, Handoffs({w}))
    OBVIOUS
  <2>2. approvals' = Decide(approvals, I, "REJECTED")
    BY <1>8, <2>1 DEF RecheckPasses
  <2>3. \A x \in Rows : IsHandoff(x) /\ node'[x] = "SKIPPED" => node[x] = "SKIPPED" \/ x \in Handoffs({w})
    <3>1. VerdictRows(w, "pass") /\ \A x \in Rows : IsHandoff(x) => x # Self(w)
      BY <1>8, RecheckPassesMoves DEF VerdictMove, IsHandoff, Self
    <3> QED
      BY <3>1 DEF VerdictRows
  <2>4. \A i \in DOMAIN approvals :
           IsHandoff(approvals[i].node) /\ node'[approvals[i].node] = "SKIPPED" =>
               node[approvals[i].node] = "SKIPPED" \/ approvals[i].decision # "PENDING" \/ i \in I
    BY <1>2, <2>1, <2>3 DEF Open
  <2> QED
    BY <1>3, <2>2, <2>4
<1> QED
  BY <1>4, <1>5, <1>6, <1>7, <1>8

LEMMA SilentKept ==
    ASSUME Bookkeeping, SkippedIsSilent, [Next]_vars
    PROVE  SkippedIsSilent'
<1>1. Bookkeeping'
  BY NextKeeps
<1>2. CASE Dispatch \/ Crash \/ ExpandRaises \/ Settle \/ Stop \/ Rollback \/ UNCHANGED vars
  <2>1. approvals' = approvals
    BY <1>2 DEF Dispatch, Crash, ExpandRaises, Settle, Stop, Rollback, vars
  <2>2. GentleMove
    BY <1>2, SettledIsGentle, ResumedIsGentle DEF vars, GentleMove, Gentle, Rows
  <2> QED
    BY <2>1, <2>2, QuietHandoffs
<1>3. ASSUME NEW f \in Work, Expand(f) PROVE SkippedIsSilent'
  <2>1. approvals' = approvals
    BY <1>3 DEF Expand
  <2> QED
    BY <1>3, <2>1, ExpandMoves, QuietHandoffs
<1> QED
  BY <1>1, <1>2, <1>3, AskedHandoffs, ResumedHandoffs, RecordedHandoffs, DecidedHandoffs
  DEF Next, Driver, Operator

(* The last outcome in the ledger of a node.                                  *)
EndsIn(s, outcome) == s # <<>> /\ s[Len(s)] = outcome

(* The ledger of a node agrees with its row: as many outcomes as attempts, a  *)
(* green one last under a green node and a red one under a broken node.  One  *)
(* that ends green under a skipped node was reclaimed, not waived.            *)
LedgerTyped ==
    /\ ledger \in [Work -> Seq({"pass", "red"})]
    /\ \A w \in Work : Len(ledger[w]) = attempts[w] /\ (~Judged(w) => attempts[w] = 0)

LedgerMatches ==
    \A w \in Work : Judged(w) =>
        /\ Passed(w) => EndsIn(ledger[w], "pass")
        /\ Broken(w) => EndsIn(ledger[w], "red")

ReclaimedIsClosed ==
    \A w \in Work :
        EndsIn(ledger[w], "pass") /\ Self(w) \in Rows /\ node[Self(w)] = "SKIPPED" =>
            \A x \in Handoffs({w}) : node[x] = "SKIPPED"

LedgerKept == LedgerTyped /\ LedgerMatches /\ ReclaimedIsClosed

LEMMA AppendOutcome ==
    ASSUME NEW s \in Seq({"pass", "red"}), NEW o \in {"pass", "red"}, NEW t, t = Append(s, o)
    PROVE  t \in Seq({"pass", "red"}) /\ Len(t) = Len(s) + 1 /\ EndsIn(t, o)
BY DEF EndsIn

LEMMA NotJudgedUnlogged ==
    ASSUME LedgerTyped, NEW w \in Work, EndsIn(ledger[w], "pass") \/ EndsIn(ledger[w], "red")
    PROVE  Judged(w)
<1>1. ledger[w] \in Seq({"pass", "red"}) /\ Len(ledger[w]) = attempts[w] /\ ledger[w] # <<>>
  BY DEF LedgerTyped, EndsIn
<1>2. Len(ledger[w]) # 0
  BY <1>1
<1> QED
  BY <1>1, <1>2 DEF LedgerTyped

(* No row but the one judged becomes green or broken.                         *)
LEMMA RowsUnjudged ==
    ASSUME Bookkeeping, GentleMove \/ (\E id \in Rows : AnswerMove(id))
                      \/ (\E f \in Work : ExpandMove(f)) \/ (\E n \in Plan : WithdrawMove(n)),
           NEW w \in Work, Judged(w)
    PROVE  /\ Passed(w)' => Passed(w)
           /\ Broken(w)' => Broken(w)
<1>1. ~IsHandoff(Self(w)) /\ KindOf(Self(w)) \in {"work", "bundle"}
  BY SelfFacts DEF Judged
<1>2. CASE GentleMove
  BY <1>2 DEF GentleMove, Gentle, Passed, Broken
<1>3. ASSUME NEW id \in Rows, AnswerMove(id)
      PROVE  (Passed(w)' => Passed(w)) /\ (Broken(w)' => Broken(w))
  <2>1. Self(w) # id
    BY <1>1, <1>3 DEF AnswerMove
  <2> QED
    BY <1>3, <2>1 DEF AnswerMove, Passed, Broken
<1>4. ASSUME NEW f \in Work, ExpandMove(f)
      PROVE  (Passed(w)' => Passed(w)) /\ (Broken(w)' => Broken(w))
  <2>1. Self(w) # Self(f)
    BY <1>1, <1>4, SelfFacts DEF ExpandMove
  <2> QED
    BY <1>4, <2>1 DEF ExpandMove, Passed, Broken
<1>5. ASSUME NEW n \in Plan, WithdrawMove(n)
      PROVE  (Passed(w)' => Passed(w)) /\ (Broken(w)' => Broken(w))
  BY <1>5 DEF WithdrawMove, Passed, Broken
<1> QED
  BY <1>2, <1>3, <1>4, <1>5

(* A handoff that left the run does not come back.                            *)
LEMMA SkippedStays ==
    ASSUME Bookkeeping, SkippedIsSilent, [Next]_vars,
           NEW x \in Rows, IsHandoff(x), node[x] = "SKIPPED"
    PROVE  node'[x] = "SKIPPED"
<1>1. \A c : x # Self(c)
  BY DEF IsHandoff, Self
<1>2. CASE GentleMove
  BY <1>2 DEF GentleMove, Gentle
<1>3. ASSUME NEW id \in Rows, AnswerMove(id) PROVE node'[x] = "SKIPPED"
  <2>1. Open(approvals, {x}) = {}
    BY DEF SkippedIsSilent, Open
  <2> QED
    BY <1>3, <2>1 DEF AnswerMove
<1>4. ASSUME NEW f \in Work, ExpandMove(f) PROVE node'[x] = "SKIPPED"
  BY <1>1, <1>4 DEF ExpandMove
<1>5. ASSUME NEW w \in Work, NEW v \in Verdicts, VerdictMove(w, v) PROVE node'[x] = "SKIPPED"
  BY <1>1, <1>5 DEF VerdictMove, VerdictRows
<1>6. ASSUME NEW n \in Plan, WithdrawMove(n) PROVE node'[x] = "SKIPPED"
  BY <1>1, <1>6 DEF WithdrawMove
<1> QED
  BY <1>2, <1>3, <1>4, <1>5, <1>6, StepMoves

LEMMA VerdictIsLogged ==
    ASSUME Bookkeeping, LedgerTyped, Logged, NEW w \in Work, NEW v \in Verdicts, VerdictMove(w, v)
    PROVE  /\ LedgerTyped'
           /\ v = "pass" => EndsIn(ledger'[w], "pass")
           /\ v # "pass" => EndsIn(ledger'[w], "red")
           /\ \A u \in Work \ {w} : ledger'[u] = ledger[u]
<1>1. /\ attempts \in [Work -> Nat] /\ attempts' = [attempts EXCEPT ![w] = @ + 1] /\ Judged(w)
      /\ v = "pass" <=> node'[Self(w)] = "PASSED"
  BY DEF Bookkeeping, TypeOK, VerdictMove, VerdictOn, VerdictRows
<1>2. /\ attempts'[w] = attempts[w] + 1 /\ attempts'[w] # attempts[w]
      /\ \A u \in Work \ {w} : attempts'[u] = attempts[u]
  BY <1>1
<1>3. PICK o \in {"pass", "red"} : o = IF v = "pass" THEN "pass" ELSE "red"
  OBVIOUS
<1>4. /\ DOMAIN ledger' = Work /\ ledger' = [u \in Work |-> ledger'[u]]
      /\ ledger'[w] = Append(ledger[w], o)
      /\ \A u \in Work \ {w} : ledger'[u] = ledger[u]
  BY <1>1, <1>2, <1>3 DEF Logged
<1>5. /\ ledger'[w] \in Seq({"pass", "red"}) /\ Len(ledger'[w]) = Len(ledger[w]) + 1
      /\ EndsIn(ledger'[w], o)
  <2>1. ledger[w] \in Seq({"pass", "red"})
    BY DEF LedgerTyped
  <2> QED
    BY <1>4, <2>1, AppendOutcome
<1>6. LedgerTyped'
  <2>1. ASSUME NEW u \in Work
        PROVE  /\ ledger'[u] \in Seq({"pass", "red"}) /\ Len(ledger'[u]) = attempts'[u]
               /\ ~Judged(u) => attempts'[u] = 0
    <3>1. CASE u = w
      BY <1>1, <1>2, <1>5, <3>1 DEF LedgerTyped
    <3>2. CASE u # w
      BY <1>2, <1>4, <3>2 DEF LedgerTyped
    <3> QED
      BY <3>1, <3>2
  <2>2. ledger' \in [Work -> Seq({"pass", "red"})]
    BY <1>4, <2>1
  <2> QED
    BY <2>1, <2>2 DEF LedgerTyped, Judged
<1> QED
  BY <1>3, <1>4, <1>5, <1>6

LEMMA QuietLedger ==
    ASSUME LedgerTyped, Logged, attempts' = attempts
    PROVE  ledger' = ledger
BY DEF Logged, LedgerTyped

LEMMA ReclaimedStays ==
    ASSUME Bookkeeping, LedgerKept, SkippedIsSilent, ReportNext
    PROVE  ReclaimedIsClosed'
<1>1. HandoffsNumbered /\ LedgerTyped /\ [Next]_vars /\ Logged /\ Rows \subseteq Rows'
  <2>1. Rows \subseteq Rows'
    BY StepMoves DEF ReportNext, GentleMove, AnswerMove, ExpandMove, VerdictMove, VerdictRows,
       WithdrawMove
  <2> QED
    BY <2>1 DEF ReportNext, Bookkeeping, LedgerKept
<1>2. ASSUME NEW w \in Work, ledger'[w] = ledger[w], EndsIn(ledger[w], "pass"),
             Self(w) \in Rows, node[Self(w)] = "SKIPPED",
             NEW x \in Rows, x \in Handoffs({w})
      PROVE  node'[x] = "SKIPPED"
  <2>1. node[x] = "SKIPPED" /\ IsHandoff(x)
    BY <1>2 DEF LedgerKept, ReclaimedIsClosed, Handoffs
  <2> QED
    BY <1>1, <2>1, SkippedStays
<1>3. SUFFICES ASSUME NEW w \in Work, EndsIn(ledger'[w], "pass"), Self(w) \in Rows',
                      node'[Self(w)] = "SKIPPED", NEW x \in Rows', IsHandoff(x), x[1] = w
               PROVE  node'[x] = "SKIPPED"
  BY DEF ReclaimedIsClosed, Handoffs
<1>4. ASSUME attempts' = attempts,
             Rows' = Rows \/ \A y \in Rows' \ Rows : node'[y] = "PENDING" /\ ~IsHandoff(y),
             node[Self(w)] = "SKIPPED" \/ \A y \in Handoffs({w}) : node'[y] = "SKIPPED"
      PROVE  node'[x] = "SKIPPED"
  <2>1. ledger' = ledger
    BY <1>1, <1>4, QuietLedger
  <2>2. x \in Rows /\ Self(w) \in Rows /\ x \in Handoffs({w})
    BY <1>3, <1>4 DEF Handoffs
  <2> QED
    BY <1>2, <1>3, <1>4, <2>1, <2>2
<1>5. CASE GentleMove
  BY <1>3, <1>4, <1>5 DEF GentleMove, Gentle
<1>6. ASSUME NEW id \in Rows, AnswerMove(id) PROVE node'[x] = "SKIPPED"
  <2>1. ledger' = ledger /\ Rows' = Rows /\ attempts' = attempts
    BY <1>1, <1>6, QuietLedger DEF AnswerMove
  <2>2. Judged(w) /\ ~Broken(w)
    <3>1. EndsIn(ledger[w], "pass")
      BY <1>3, <2>1
    <3>2. Judged(w)
      BY <1>1, <3>1, NotJudgedUnlogged
    <3> QED
      BY <3>1, <3>2 DEF LedgerKept, LedgerMatches, EndsIn
  <2>3. Self(w) # id
    BY <1>6, <2>2, SelfFacts DEF AnswerMove, Judged
  <2>4. node[Self(w)] = "SKIPPED"
    BY <1>3, <1>6, <2>1, <2>2, <2>3 DEF AnswerMove, Broken
  <2> QED
    BY <1>4, <2>1, <2>4
<1>7. ASSUME NEW f \in Work, ExpandMove(f) PROVE node'[x] = "SKIPPED"
  <2>1. \A y \in Rows' \ Rows : node'[y] = "PENDING" /\ ~IsHandoff(y)
    BY <1>7 DEF ExpandMove, IsHandoff, Self
  <2>2. Self(w) \in Rows /\ node[Self(w)] = "SKIPPED"
    BY <1>3, <1>7, <2>1 DEF ExpandMove
  <2> QED
    BY <1>4, <1>7, <2>1, <2>2 DEF ExpandMove
<1>8. ASSUME NEW u \in Work, NEW v \in Verdicts, VerdictMove(u, v) PROVE node'[x] = "SKIPPED"
  <2>1. w # u /\ node'[Self(u)] # "SKIPPED"
    BY <1>3, <1>8 DEF VerdictMove, VerdictRows, StatusFor
  <2>2. Self(w) \in Rows /\ node[Self(w)] = "SKIPPED"
    <3>1. ~IsHandoff(Self(w)) /\ Self(w) # Self(u)
      BY <1>3, <2>1, SelfFacts
    <3> QED
      BY <1>3, <1>8, <3>1 DEF VerdictMove, VerdictRows, Handoffs
  <2>3. x \in Rows /\ x \in Handoffs({w})
    <3>1. x # Self(Node[u].fix) /\ x # <<u, attempts[u] + 1, v>>
      BY <1>3, <2>1 DEF IsHandoff, Self
    <3> QED
      BY <1>3, <1>8, <3>1 DEF VerdictMove, VerdictRows, Handoffs
  <2>4. ledger'[w] = ledger[w]
    BY <1>1, <1>8, <2>1, VerdictIsLogged
  <2> QED
    BY <1>2, <1>3, <2>2, <2>3, <2>4
<1>9. ASSUME NEW n \in Plan, WithdrawMove(n) PROVE node'[x] = "SKIPPED"
  <2>1. Self(w) # Self(n) /\ Rows' = Rows /\ attempts' = attempts
    BY <1>3, <1>9 DEF WithdrawMove
  <2>2. node[Self(w)] = "SKIPPED" \/ w \in extraNeeds[n]
    <3>1. ~IsHandoff(Self(w)) /\ \A c : Self(w) = Self(c) => c = w
      BY SelfFacts DEF Self
    <3> QED
      BY <1>3, <1>9, <2>1, <3>1 DEF WithdrawMove
  <2> QED
    BY <1>3, <1>4, <1>9, <2>1, <2>2 DEF WithdrawMove
<1> QED
  BY <1>1, <1>5, <1>6, <1>7, <1>8, <1>9, StepMoves

(* A step that is no verdict logs nothing; a verdict logs one outcome.        *)
LEMMA MatchesStay ==
    ASSUME Bookkeeping, LedgerKept, ReportNext
    PROVE  LedgerTyped' /\ LedgerMatches'
<1>1. LedgerTyped /\ LedgerMatches /\ Logged /\ [Next]_vars
  BY DEF LedgerKept, ReportNext
<1>2. CASE GentleMove \/ (\E id \in Rows : AnswerMove(id))
             \/ (\E f \in Work : ExpandMove(f)) \/ (\E n \in Plan : WithdrawMove(n))
  <2>1. attempts' = attempts
    BY <1>2 DEF GentleMove, AnswerMove, ExpandMove, WithdrawMove
  <2>2. ledger' = ledger
    BY <1>1, <2>1, QuietLedger
  <2>3. LedgerTyped'
    BY <1>1, <2>1, <2>2 DEF LedgerTyped, Judged
  <2>4. \A w \in Work : Judged(w) => (Passed(w)' => Passed(w)) /\ (Broken(w)' => Broken(w))
    BY <1>2, RowsUnjudged
  <2>5. LedgerMatches'
    BY <1>1, <2>2, <2>4 DEF LedgerMatches, Judged
  <2> QED
    BY <2>3, <2>5
<1>3. ASSUME NEW w \in Work, NEW v \in Verdicts, VerdictMove(w, v)
      PROVE  LedgerTyped' /\ LedgerMatches'
  <2>1. /\ LedgerTyped'
        /\ v = "pass" => EndsIn(ledger'[w], "pass")
        /\ v # "pass" => EndsIn(ledger'[w], "red")
        /\ \A u \in Work \ {w} : ledger'[u] = ledger[u]
    BY <1>1, <1>3, VerdictIsLogged
  <2>2. v # "pass" => node'[Self(w)] # "PASSED"
    BY <1>3 DEF VerdictMove, VerdictRows
  <2>3. v = "pass" => node'[Self(w)] = "PASSED"
    BY <1>3 DEF VerdictMove, VerdictRows
  <2>4. ASSUME NEW u \in Work, Judged(u)
        PROVE  /\ Passed(u)' => EndsIn(ledger'[u], "pass")
               /\ Broken(u)' => EndsIn(ledger'[u], "red")
    <3>1. CASE u = w
      BY <2>1, <2>2, <2>3, <3>1 DEF Passed, Broken
    <3>2. CASE u # w
      <4>1. /\ Self(u) # Self(w) /\ ~IsHandoff(Self(u)) /\ KindOf(Self(u)) # "human"
        BY <2>4, <3>2, SelfFacts DEF Judged
      <4>2. (Passed(u)' => Passed(u)) /\ (Broken(u)' => Broken(u))
        BY <1>3, <4>1 DEF VerdictMove, VerdictRows, Passed, Broken
      <4> QED
        BY <1>1, <2>1, <2>4, <3>2, <4>2 DEF LedgerMatches
    <3> QED
      BY <3>1, <3>2
  <2>5. LedgerMatches'
    BY <2>4 DEF LedgerMatches, Judged
  <2> QED
    BY <2>1, <2>5
<1> QED
  BY <1>1, <1>2, <1>3, StepMoves

LEMMA LedgerKeeps ==
    ASSUME Bookkeeping, LedgerKept, SkippedIsSilent, [ReportNext]_reportVars
    PROVE  LedgerKept'
<1>1. CASE ReportNext
  BY <1>1, MatchesStay, ReclaimedStays DEF LedgerKept
<1>2. CASE UNCHANGED reportVars
  BY <1>2 DEF reportVars, vars, LedgerKept, LedgerTyped, LedgerMatches, ReclaimedIsClosed,
     Judged, Passed, Broken, Handoffs, Rows
<1> QED
  BY <1>1, <1>2

LEMMA ReportStarts ==
    ReportInit => Bookkeeping /\ SkippedIsSilent /\ LedgerKept
<1> SUFFICES ASSUME ReportInit PROVE Bookkeeping /\ SkippedIsSilent /\ LedgerKept
  OBVIOUS
<1>1. ConsoleInit /\ ledger = [w \in Work |-> <<>>] /\ attempts = [w \in Work |-> 0]
      /\ approvals = <<>>
  BY DEF ReportInit, ConsoleInit, Init
<1>2. Bookkeeping /\ SkippedIsSilent
  BY <1>1, InitHolds DEF SkippedIsSilent
<1>3. \A w \in Work : ~Passed(w) /\ ~Broken(w)
  <2>1. \A x \in Rows : node[x] \in {"PENDING", "SKIPPED"}
    BY <1>1 DEF ConsoleInit, Init, Rows
  <2> QED
    BY <2>1 DEF Passed, Broken
<1> QED
  BY <1>1, <1>2, <1>3 DEF LedgerKept, LedgerTyped, LedgerMatches, ReclaimedIsClosed, EndsIn

(* The bundle and the metrics do not contradict each other, whatever was      *)
(* retried, withdrawn, waived or checked again on the way: both are read off  *)
(* a ledger that agrees with the rows.                                        *)
THEOREM ReportsAgreeHolds == ReportSpec => []ReportsAgree
<1>1. Bookkeeping /\ SkippedIsSilent /\ LedgerKept /\ [ReportNext]_reportVars
         => (Bookkeeping /\ SkippedIsSilent /\ LedgerKept)'
  <2>1. [ReportNext]_reportVars => [Next]_vars
    BY DEF ReportNext, reportVars
  <2> QED
    BY <2>1, NextKeeps, SilentKept, LedgerKeeps
<1>2. Bookkeeping /\ SkippedIsSilent /\ LedgerKept => ReportsAgree
  <2> SUFFICES ASSUME LedgerKept PROVE ReportsAgree
    OBVIOUS
  <2>1. \A w \in Work : /\ ledger[w] \in Seq({"pass", "red"})
                        /\ ledger[w] # <<>> => Judged(w) /\ Len(ledger[w]) \in DOMAIN ledger[w]
    BY DEF LedgerKept, LedgerTyped
  <2>2. PassedFirstAttempt \subseteq FirstPasses
    BY <2>1 DEF PassedFirstAttempt, FirstPasses, Executed, LedgerKept, LedgerMatches, EndsIn
  <2>3. BlockingGates \subseteq Incidents
    BY <2>1 DEF BlockingGates, Blocked, Gates, Incidents, Executed, Range
  <2>4. ASSUME NEW w \in Unrecovered, Node[w].gated PROVE w \in BlockingGates
    <3>1. PICK s \in Seq({"pass", "red"}) : s = ledger[w]
      BY <2>1 DEF Unrecovered, Incidents, Executed
    <3>2. /\ w \in Work /\ s # <<>>
          /\ \A i \in DOMAIN s : ~(i > FailedAt(w) /\ s[i] = "pass")
      BY <3>1 DEF Unrecovered, Incidents, Executed, Recovered
    <3> DEFINE Red == {i \in DOMAIN s : s[i] = "red"}
    <3>3. Red \in SUBSET Nat /\ Red # {}
      BY <3>1 DEF Unrecovered, Incidents, Range
    <3>4. \E m \in Red : \A j \in Red : m <= j
      BY <3>3, LeastNumber
    <3>5. FailedAt(w) \in Red
      BY <3>1, <3>4 DEF FailedAt, Min
    <3>6. s[Len(s)] = "red"
      BY <3>1, <3>2, <3>5
    <3> QED
      BY <2>4, <3>1, <3>2, <3>6 DEF BlockingGates, Blocked, Gates
  <2> QED
    BY <2>2, <2>3, <2>4 DEF ReportsAgree, Unrecovered, Incidents, Executed
<1> QED
  BY <1>1, <1>2, ReportStarts, PTL DEF ReportSpec

-------------------------------------------------------------------------------
(* Releasable runs.                                                           *)

(* A run is COMPLETED only while nobody drives it, and nothing in it is left  *)
(* to do unless a gate that was re-checked since blocks it.                   *)
CompletedIsDone ==
    runStatus = "COMPLETED" =>
        /\ phase = "parked"
        /\ BlockingGates = {} => \A x \in Rows : node[x] \notin Unfinished

LEMMA PolicyCompletesNothing ==
    ASSUME TypeOK, NEW w \in Work, NEW v \in Verdicts, NEW signal, NEW nd, NEW ap,
           ApplyPolicy(w, v, signal, nd, ap)
    PROVE  runStatus' \in {runStatus, "BLOCKED", "STOPPED", "ROLLED_BACK"}
BY Responses DEF Proceed, RetryNode, InsertFix, Escalate, Halt

(* What the driver records completes nothing; a dry loop does.                *)
LEMMA RecordedCompletesNothing ==
    ASSUME TypeOK, \/ \E id \in wave : BlockForHuman(id)
                   \/ \E w \in Work : Expand(w) \/ RecordWork(w) \/ RecordBundle(w)
    PROVE  /\ phase # "parked"
           /\ runStatus' \in {runStatus, "BLOCKED", "STOPPED", "ROLLED_BACK"}
<1>1. (\E id \in wave : TRUE) => phase # "parked"
  BY DEF TypeOK
<1>2. CASE \E id \in wave : BlockForHuman(id)
  BY <1>1, <1>2 DEF BlockForHuman
<1>3. ASSUME NEW w \in Work, Expand(w)
      PROVE  phase # "parked" /\ runStatus' = runStatus
  BY <1>1, <1>3 DEF Expand, Recorded
<1>4. ASSUME NEW w \in Work, RecordWork(w)
      PROVE  /\ phase # "parked"
             /\ runStatus' \in {runStatus, "BLOCKED", "STOPPED", "ROLLED_BACK"}
  <2>1. PICK v \in WorkVerdicts(w), signal \in Signals(w) :
            \E nd, ap : ApplyPolicy(w, v, signal, nd, ap)
    BY <1>4 DEF RecordWork
  <2>2. v \in Verdicts
    BY DEF WorkVerdicts, Verdicts
  <2> QED
    BY <1>1, <1>4, <2>1, <2>2, PolicyCompletesNothing DEF RecordWork, Recorded
<1>5. ASSUME NEW w \in Work, RecordBundle(w)
      PROVE  /\ phase # "parked"
             /\ runStatus' \in {runStatus, "BLOCKED", "STOPPED", "ROLLED_BACK"}
  <2>1. PICK v \in Verdicts, signal \in Signals(w) : \E nd, ap : ApplyPolicy(w, v, signal, nd, ap)
    BY <1>5 DEF RecordBundle
  <2> QED
    BY <1>1, <1>5, <2>1, PolicyCompletesNothing DEF RecordBundle, Recorded
<1> QED
  BY <1>2, <1>3, <1>4, <1>5

LEMMA CompletedBySettling ==
    ASSUME TypeOK, CompletedIsDone, [Next]_vars, runStatus # "COMPLETED",
           runStatus' = "COMPLETED"
    PROVE  Settle /\ Unsettled = {}
<1>1. CASE Driver
  <2>1. Settle
    BY <1>1, RecordedCompletesNothing DEF Driver, Dispatch, ExpandRaises
  <2>2. Resting = "COMPLETED"
    BY <2>1 DEF Settle
  <2> QED
    BY <2>1, <2>2 DEF Resting
<1>2. CASE Resume \/ Crash
  BY <1>2 DEF Resume, Crash
<1>3. CASE Operator
  <2>1. ASSUME NEW w \in Work, RecheckFails(w) PROVE runStatus' # "COMPLETED"
    <3>1. PICK v \in {"fail", "error"} : \E nd, ap : ApplyPolicy(w, v, FALSE, nd, ap)
      BY <2>1 DEF RecheckFails
    <3>2. v \in Verdicts
      BY DEF Verdicts
    <3> QED
      BY <3>1, <3>2, PolicyCompletesNothing
  <2>2. ASSUME NEW w \in Work, RecheckPasses(w) PROVE runStatus' = "RUNNING"
    BY <2>2 DEF RecheckPasses
  <2> QED
    BY <1>3, <2>1, <2>2 DEF Operator, Approve, Reject, Retry, Invalidate, Stop, Rollback
<1> QED
  BY <1>1, <1>2, <1>3 DEF Next, vars

LEMMA CompletedUntilRechecked ==
    ASSUME TypeOK, CompletedIsDone, Next, runStatus = "COMPLETED", runStatus' = "COMPLETED"
    PROVE  \E w \in Work : RecheckFails(w)
<1>1. phase = "parked"
  BY DEF CompletedIsDone
<1>2. ~Driver
  BY <1>1, RecordedCompletesNothing DEF Driver, Dispatch, ExpandRaises, Settle
<1>3. ~Resume /\ ~Crash
  BY <1>1 DEF Resume, Crash
<1>4. Operator
  BY <1>2, <1>3 DEF Next
<1>5. ASSUME NEW w \in Work, RecheckPasses(w) PROVE runStatus' = "RUNNING"
  BY <1>5 DEF RecheckPasses
<1> QED
  BY <1>4, <1>5 DEF Operator, Approve, Reject, Retry, Invalidate, Stop, Rollback

LEMMA CompletedStays ==
    ASSUME Bookkeeping, LedgerKept, CompletedIsDone, [ReportNext]_reportVars
    PROVE  CompletedIsDone'
<1>1. TypeOK /\ LedgerTyped
  BY DEF Bookkeeping, LedgerKept
<1>2. CASE UNCHANGED reportVars
  BY <1>2 DEF reportVars, vars, CompletedIsDone, BlockingGates, Blocked, Gates, Rows
<1>3. ASSUME ReportNext, runStatus' = "COMPLETED", runStatus # "COMPLETED"
      PROVE  CompletedIsDone'
  <2>1. Settle /\ Unsettled = {}
    BY <1>1, <1>3, CompletedBySettling DEF ReportNext
  <2> QED
    BY <2>1 DEF Settle, Unsettled, CompletedIsDone, Rows
<1>4. ASSUME ReportNext, runStatus' = "COMPLETED", runStatus = "COMPLETED"
      PROVE  CompletedIsDone'
  <2>1. PICK w \in Work : RecheckFails(w)
    BY <1>1, <1>4, CompletedUntilRechecked DEF ReportNext
  <2>2. phase' = "parked" /\ Node[w].gated
    BY <2>1 DEF RecheckFails, Rechecking, Command
  <2>3. PICK v \in Verdicts \ {"pass"} : VerdictMove(w, v)
    BY <2>1, RecheckFailsMoves
  <2>4. EndsIn(ledger'[w], "red")
    BY <1>1, <1>4, <2>3, VerdictIsLogged DEF ReportNext
  <2>5. w \in BlockingGates'
    BY <2>2, <2>4 DEF BlockingGates, Blocked, Gates, EndsIn
  <2> QED
    BY <2>2, <2>5 DEF CompletedIsDone
<1> QED
  BY <1>2, <1>3, <1>4 DEF CompletedIsDone

(* A gate is decided by the worker of its node: the loader would also take a  *)
(* gate on a checkpoint, which nothing ever evaluates.                        *)
GatesAreJudged == \A w \in Work : Node[w].gated => Judged(w)

(* "RELEASABLE: every gate held": every gated node of a releasable run is     *)
(* green, or out of the run for a reason other than a waived failure.         *)
THEOREM ReleasableIsGreenHolds ==
    ASSUME GatesAreJudged
    PROVE  ReportSpec => []ReleasableIsGreen
<1>1. ReportInit => Bookkeeping /\ SkippedIsSilent /\ LedgerKept /\ CompletedIsDone
  BY ReportStarts DEF ReportInit, ConsoleInit, Init, CompletedIsDone
<1>2. Bookkeeping /\ SkippedIsSilent /\ LedgerKept /\ CompletedIsDone /\ [ReportNext]_reportVars
         => (Bookkeeping /\ SkippedIsSilent /\ LedgerKept /\ CompletedIsDone)'
  <2>1. [ReportNext]_reportVars => [Next]_vars
    BY DEF ReportNext, reportVars
  <2> QED
    BY <2>1, NextKeeps, SilentKept, LedgerKeeps, CompletedStays
<1>3. Bookkeeping /\ LedgerKept /\ CompletedIsDone => ReleasableIsGreen
  <2> SUFFICES ASSUME Bookkeeping, LedgerKept, CompletedIsDone, IsReleasable,
                      NEW w \in Work, Node[w].gated, Self(w) \in Rows
               PROVE  Passed(w) \/ (node[Self(w)] = "SKIPPED" /\ ~Waived(w))
    BY DEF ReleasableIsGreen
  <2>1. Judged(w)
    BY DEF GatesAreJudged
  <2>2. BlockingGates = {} /\ runStatus = "COMPLETED"
    BY DEF IsReleasable
  <2>3. ~EndsIn(ledger[w], "red")
    BY <2>2 DEF BlockingGates, Blocked, Gates, EndsIn
  <2>4. node[Self(w)] \in {"PASSED", "SKIPPED"}
    <3>1. node[Self(w)] \in NodeStatuses /\ node[Self(w)] \notin Unfinished
      BY <2>2 DEF CompletedIsDone, Bookkeeping, TypeOK
    <3>2. ~Broken(w)
      BY <2>1, <2>3 DEF LedgerKept, LedgerMatches
    <3> QED
      BY <3>1, <3>2 DEF NodeStatuses, Unfinished, Broken
  <2>5. ASSUME node[Self(w)] = "SKIPPED", NEW id \in Handoffs({w}), node[id] = "PASSED"
        PROVE  FALSE
    <3>1. id[2] > 0 /\ id[2] <= attempts[w] /\ attempts \in [Work -> Nat] /\ id \in Ids
      BY <2>5 DEF Handoffs, IsHandoff, Bookkeeping, TypeOK, HandoffsNumbered
    <3>2. /\ ledger[w] \in Seq({"pass", "red"}) /\ Len(ledger[w]) = attempts[w]
          /\ attempts[w] \in Nat /\ id[2] \in Nat
      BY <3>1 DEF LedgerKept, LedgerTyped, Ids
    <3>3. ledger[w] # <<>> /\ ledger[w][Len(ledger[w])] \in {"pass", "red"}
      BY <3>1, <3>2
    <3>4. EndsIn(ledger[w], "pass")
      BY <2>3, <3>3 DEF EndsIn
    <3> QED
      BY <2>5, <3>4 DEF LedgerKept, ReclaimedIsClosed
  <2> QED
    BY <2>4, <2>5 DEF Passed, Waived
<1> QED
  BY <1>1, <1>2, <1>3, PTL DEF ReportSpec

-------------------------------------------------------------------------------
(* The dialogue.                                                              *)

LEMMA DialogueSteps ==
    ASSUME [DialogueNext]_dialogueVars
    PROVE  [Next]_vars
<1>1. {Intake, Triage, Normalize} \subseteq Work
  BY PlanAssumption, ClarificationAssumption
<1>2. CASE DialogueNext
  BY <1>1, <1>2 DEF DialogueNext, RecordIntake, RecordTriage, RecordNormalize, Next, Driver
<1>3. CASE UNCHANGED dialogueVars
  BY <1>3 DEF dialogueVars
<1> QED
  BY <1>2, <1>3

(* A decision on what names no version is never changed; a step records one   *)
(* more at most, which asks about a row of the wave or a new one, and names   *)
(* versions only on a checkpoint of the plan that binds some.                 *)
DecisionsStand ==
    /\ DOMAIN approvals \subseteq DOMAIN approvals'
    /\ \A i \in DOMAIN approvals :
          /\ approvals'[i].node = approvals[i].node /\ approvals'[i].bound = approvals[i].bound
          /\ approvals[i].bound = {} /\ approvals[i].decision # "PENDING"
                => approvals'[i] = approvals[i]
    /\ \A i \in DOMAIN approvals' \ DOMAIN approvals :
          LET h == approvals'[i].node
          IN  /\ approvals'[i].bound # {} => ~IsHandoff(h) /\ Node[h[1]].binds # {}
              /\ approvals'[i].decision = "PENDING" => h \in wave \/ h \notin Rows
    /\ \A i, j \in DOMAIN approvals' \ DOMAIN approvals : i = j

(* What is asked or noted is one more record.                                 *)
LEMMA OneMore ==
    ASSUME NEW ap \in Seq(Approval), NEW q, NEW t, t = Append(ap, q)
    PROVE  \A i, j \in DOMAIN t \ DOMAIN ap : i = j
<1>1. DOMAIN t = 1 .. Len(ap) + 1 /\ DOMAIN ap = 1 .. Len(ap) /\ Len(ap) \in Nat
  OBVIOUS
<1> QED
  BY <1>1

LEMMA RevertedDecisions ==
    ASSUME TypeOK, HandoffsNumbered, NEW I, NEW w \in Work, NEW v \in Verdicts, NEW ap,
           ap = Reverted(approvals, I), \A i \in I : approvals[i].bound # {},
           approvals' = ap \/ (v # "pass" /\ approvals' = Ask(ap, <<w, attempts[w] + 1, v>>, {}))
    PROVE  DecisionsStand
<1>1. approvals \in Seq(Approval) /\ attempts[w] \in Nat
  BY DEF TypeOK
<1>2. /\ ap \in Seq(Approval) /\ DOMAIN ap = DOMAIN approvals
      /\ \A i \in DOMAIN approvals :
            /\ ap[i].node = approvals[i].node /\ ap[i].bound = approvals[i].bound
            /\ i \notin I => ap[i] = approvals[i]
  BY <1>1, RevertFacts, StampDates DEF Decisions
<1>3. CASE approvals' = ap
  BY <1>2, <1>3 DEF DecisionsStand
<1>4. CASE v # "pass" /\ approvals' = Ask(ap, <<w, attempts[w] + 1, v>>, {})
  <2>1. PICK id : id = <<w, attempts[w] + 1, v>>
    OBVIOUS
  <2>2. id \in Ids
    BY <1>1, <1>4, <2>1, HandoffFacts DEF Verdicts
  <2>3. PICK t : t = Ask(ap, id, {})
    OBVIOUS
  <2>4. /\ DOMAIN ap \subseteq DOMAIN t /\ \A i \in DOMAIN ap : t[i] = ap[i]
        /\ \A i \in DOMAIN t \ DOMAIN ap : t[i].bound = {} /\ t[i].node = id
    BY <1>2, <2>2, <2>3, AskFacts
  <2>7. \A i, j \in DOMAIN t \ DOMAIN ap : i = j
    <3>1. \E q : t = Append(ap, q)
      BY <2>3 DEF Ask
    <3> QED
      BY <1>2, <3>1, OneMore
  <2>5. approvals' = t
    BY <1>4, <2>1, <2>3
  <2>6. id \notin Rows
    <3>1. ~(attempts[w] + 1 <= attempts[w]) /\ attempts[w] + 1 > 0
      BY <1>1
    <3>2. id[1] = w /\ id[2] = attempts[w] + 1
      BY <2>1
    <3> QED
      BY <3>1, <3>2 DEF HandoffsNumbered, IsHandoff
  <2> QED
    BY <1>2, <2>4, <2>5, <2>6, <2>7 DEF DecisionsStand
<1> QED
  BY <1>3, <1>4

LEMMA AnsweredDecisions ==
    ASSUME TypeOK, NEW I, NEW decision \in Decisions, NEW ap,
           ap = Decide(approvals, I, decision),
           \A i \in I \cap DOMAIN approvals : approvals[i].decision = "PENDING",
           \/ approvals' = ap
           \/ \E id \in Ids, noted \in Decisions \ {"PENDING"} :
                 approvals' = Noted(ap, id, noted)
    PROVE  DecisionsStand
<1>1. approvals \in Seq(Approval) /\ clock \in Nat
  BY DEF TypeOK
<1>2. /\ ap \in Seq(Approval) /\ DOMAIN ap = DOMAIN approvals
      /\ \A i \in DOMAIN approvals :
            /\ ap[i].node = approvals[i].node /\ ap[i].bound = approvals[i].bound
            /\ i \notin I => ap[i] = approvals[i]
  BY <1>1, DecideFacts, StampDates
<1>3. CASE approvals' = ap
  BY <1>2, <1>3 DEF DecisionsStand
<1>4. ASSUME NEW id \in Ids, NEW noted \in Decisions \ {"PENDING"},
             approvals' = Noted(ap, id, noted)
      PROVE  DecisionsStand
  <2>1. PICK t : t = Noted(ap, id, noted)
    OBVIOUS
  <2>2. /\ DOMAIN ap \subseteq DOMAIN t /\ \A i \in DOMAIN ap : t[i] = ap[i]
        /\ \A i \in DOMAIN t \ DOMAIN ap : t[i].bound = {} /\ t[i].decision = noted
    BY SMTT(30), <1>1, <1>2, <2>1, NotedFacts
  <2>3. \A i, j \in DOMAIN t \ DOMAIN ap : i = j
    <3>1. \E q : t = Append(ap, q)
      BY <2>1 DEF Noted
    <3> QED
      BY <1>2, <3>1, OneMore
  <2> QED
    BY <1>2, <1>4, <2>1, <2>2, <2>3 DEF DecisionsStand
<1> QED
  BY <1>3, <1>4

LEMMA DecisionsStay ==
    ASSUME Bookkeeping, [Next]_vars
    PROVE  DecisionsStand
<1>1. TypeOK /\ PeopleAreAsked /\ HandoffsNumbered
  BY DEF Bookkeeping
<1>2. /\ approvals \in Seq(Approval) /\ clock \in Nat /\ approvals = Reverted(approvals, {})
      /\ {"APPROVED", "REJECTED"} \subseteq Decisions
  BY <1>1 DEF TypeOK, Reverted, Decisions
<1>3. CASE approvals' = approvals
  BY <1>3 DEF DecisionsStand
<1>4. CASE Resume
  <2>1. PICK stale : stale = StaleApprovals(approvals, version)
    OBVIOUS
  <2>2. PICK ap : ap = Reverted(approvals, stale)
    OBVIOUS
  <2>3. approvals' = ap /\ \A i \in stale : approvals[i].bound # {}
    BY <1>1, <1>4, <2>1, <2>2, StaleFacts DEF Resume
  <2>4. /\ DOMAIN ap = DOMAIN approvals
        /\ \A i \in DOMAIN approvals :
              /\ ap[i].node = approvals[i].node /\ ap[i].bound = approvals[i].bound
              /\ i \notin stale => ap[i] = approvals[i]
    BY <1>2, <2>2, RevertFacts, StampDates DEF Decisions
  <2> QED
    BY <2>3, <2>4 DEF DecisionsStand
<1>5. ASSUME NEW id \in wave, BlockForHuman(id) PROVE DecisionsStand
  <2>1. PICK bound : bound = Bound(id)
    OBVIOUS
  <2>2. approvals' = Ask(approvals, id, bound) /\ id \in Ids /\ id[1] \in Work
    BY <1>1, <1>5, <2>1 DEF BlockForHuman, TypeOK, Ids
  <2>3. /\ bound \in SUBSET (Plan \X Nat)
        /\ bound # {} => ~IsHandoff(id) /\ Node[id[1]].binds # {}
    <3>1. Node[id[1]].binds \subseteq Plan /\ version \in [Work -> Nat]
      BY <1>1, <2>2, PlanAssumption DEF NodeFields, TypeOK
    <3> QED
      BY <2>1, <3>1, PlanAssumption DEF Bound
  <2>4. PICK t : t = Ask(approvals, id, bound)
    OBVIOUS
  <2>5. /\ DOMAIN approvals \subseteq DOMAIN t /\ \A i \in DOMAIN approvals : t[i] = approvals[i]
        /\ \A i \in DOMAIN t \ DOMAIN approvals : t[i].node = id /\ t[i].bound = bound
    BY <1>2, <2>2, <2>3, <2>4, AskFacts
  <2>6. \A i, j \in DOMAIN t \ DOMAIN approvals : i = j
    <3>1. \E q : t = Append(approvals, q)
      BY <2>4 DEF Ask
    <3> QED
      BY <1>2, <3>1, OneMore
  <2> QED
    BY <1>5, <2>2, <2>3, <2>4, <2>5, <2>6 DEF DecisionsStand
<1>6. ASSUME NEW w \in Work, RecordWork(w) PROVE DecisionsStand
  <2>1. PICK v, signal, produced, nd, I :
           /\ v \in WorkVerdicts(w) /\ signal \in Signals(w)
           /\ Judgement(w, v, produced, nd, I)
           /\ ApplyPolicy(w, v, signal, nd, Reverted(approvals, I))
    BY <1>6, RecordWorkJudges
  <2>2. v \in Verdicts /\ Self(w) \in Rows
    BY <1>1, <1>6, <2>1 DEF WorkVerdicts, Verdicts, RecordWork, Recorded, TypeOK
  <2>3. Consequence(w, v, nd, Reverted(approvals, I))
    BY <1>1, <2>1, <2>2, Consequences DEF Judgement
  <2>4. PICK ap : ap = Reverted(approvals, I)
    OBVIOUS
  <2>5. approvals' = ap \/ (v # "pass" /\ approvals' = Ask(ap, <<w, attempts[w] + 1, v>>, {}))
    BY <2>3, <2>4 DEF Consequence
  <2>6. \A i \in I : approvals[i].bound # {}
    BY <2>1 DEF Judgement
  <2> QED
    BY <1>1, <2>2, <2>4, <2>5, <2>6, RevertedDecisions
<1>7. ASSUME NEW w \in Work, RecordBundle(w) \/ RecheckFails(w) PROVE DecisionsStand
  <2>1. /\ Self(w) \in Rows
        /\ \E v \in Verdicts, signal \in Signals(w) :
              ApplyPolicy(w, v, signal, [node EXCEPT ![Self(w)] = StatusFor(v)], approvals)
    BY <1>1, <1>7
    DEF RecordBundle, Recorded, RecheckFails, Rechecking, Verdicts, TypeOK, Signals
  <2>2. PICK v \in Verdicts, signal \in Signals(w) :
           ApplyPolicy(w, v, signal, [node EXCEPT ![Self(w)] = StatusFor(v)], approvals)
    BY <2>1
  <2>3. PICK nd : nd = [node EXCEPT ![Self(w)] = StatusFor(v)]
    OBVIOUS
  <2>4. nd \in [Rows -> NodeStatuses] /\ nd[Self(w)] = StatusFor(v)
    BY <1>1, <2>1, <2>3, StatusFacts
  <2>5. Consequence(w, v, nd, approvals)
    BY <1>1, <2>1, <2>2, <2>3, <2>4, Consequences
  <2> QED
    BY <1>1, <1>2, <2>5, RevertedDecisions DEF Consequence
<1>8. ASSUME NEW id \in Rows, Approve(id) \/ Reject(id) PROVE DecisionsStand
  <2>1. PICK decision \in Decisions : approvals' = Decide(approvals, FirstOpen(id), decision)
    BY <1>2, <1>8 DEF Approve, Reject
  <2> QED
    BY <1>1, <2>1, AnsweredDecisions DEF FirstOpen, Open
<1>9. ASSUME NEW id \in Rows, Retry(id) PROVE DecisionsStand
  <2>1. PICK ap : ap = Decide(approvals, {}, "APPROVED")
    OBVIOUS
  <2>2. ap = approvals /\ id \in Ids
    BY <1>1, <1>2, <2>1 DEF Decide, TypeOK
  <2>3. approvals' = Noted(ap, id, "APPROVED")
    BY <1>9, <2>2 DEF Retry
  <2> QED
    BY <1>1, <1>2, <2>1, <2>2, <2>3, AnsweredDecisions
<1>10. ASSUME NEW n \in Plan, Invalidate(n) PROVE DecisionsStand
  <2>1. PICK I, ap : I = Open(approvals, Moot(n) \cup BuiltOn(n)) /\ ap = Decide(approvals, I, "REJECTED")
    OBVIOUS
  <2>2. approvals' = Noted(ap, Self(n), "REJECTED") /\ Self(n) \in Ids
    BY <1>10, <2>1, SelfFacts, PlanAssumption DEF Invalidate
  <2>3. \A i \in I : approvals[i].decision = "PENDING"
    BY <2>1 DEF Open
  <2> QED
    BY <1>1, <1>2, <2>1, <2>2, <2>3, AnsweredDecisions
<1>11. ASSUME NEW w \in Work, RecheckPasses(w) PROVE DecisionsStand
  <2>1. PICK I : I = Open(approvals, Handoffs({w}))
    OBVIOUS
  <2>2. /\ approvals' = Decide(approvals, I, "REJECTED")
        /\ \A i \in I : approvals[i].decision = "PENDING"
    BY <1>11, <2>1 DEF RecheckPasses, Open
  <2> QED
    BY <1>1, <1>2, <2>2, AnsweredDecisions
<1>12. CASE \/ Dispatch \/ Crash \/ ExpandRaises \/ Settle \/ Stop \/ Rollback
            \/ (\E f \in Work : Expand(f)) \/ UNCHANGED vars
  BY <1>3, <1>12 DEF Dispatch, Crash, ExpandRaises, Settle, Stop, Rollback, Expand, vars
<1> QED
  BY <1>4, <1>5, <1>6, <1>7, <1>8, <1>9, <1>10, <1>11, <1>12 DEF Next, Driver, Operator

(* normalize reads the latest decision on the checkpoint.                     *)
LEMMA LatestDecision ==
    ASSUME TypeOK, Decided # {}
    PROVE  DecisionText \in Decided /\ DecisionText \in Nat \ {0}
<1> DEFINE above == {u \in Nat : \A i \in Decided : i <= u}
<1>1. approvals \in Seq(Approval)
  BY DEF TypeOK
<1>2. Decided \subseteq Nat \ {0} /\ \A i \in Decided : i <= Len(approvals)
  BY <1>1 DEF Decided
<1>3. above # {}
  <2>1. Len(approvals) \in above
    BY <1>1, <1>2
  <2> QED
    BY <2>1
<1>4. PICK u \in above : \A j \in above : u <= j
  BY <1>3, LeastNumber
<1>5. u \in Decided
  <2> SUFFICES ASSUME u \notin Decided PROVE FALSE
    OBVIOUS
  <2>1. \A i \in Decided : i < u
    BY <1>2
  <2>2. PICK i \in Decided : i \in Nat /\ i < u
    BY <1>2, <2>1
  <2>3. u - 1 \in above
    BY <1>2, <2>1, <2>2
  <2> QED
    BY <1>4, <2>3
<1>6. \E i \in Decided : \A j \in Decided : i >= j
  BY <1>2, <1>5
<1>7. Max(Decided) \in Decided
  BY <1>6 DEF Max
<1> QED
  BY <1>2, <1>7 DEF DecisionText

RegisterTyped == register = NoRegister \/ register \in [Questions -> Ambiguity]

(* What each step makes of the register: a new one, a triage of the one there *)
(* is, or one with the answers of the latest decision.                        *)
LEMMA RegisterMoves ==
    ASSUME TypeOK, TypeOK', RegisterTyped, [DialogueNext]_dialogueVars
    PROVE  \/ UNCHANGED <<register, claimed>>
           \/ /\ RecordIntake /\ register' \in Registers /\ version'[Intake] # version[Intake]
              /\ claimed' = {q \in Questions : register'[q].disposition = "resolved"}
           \/ /\ RecordTriage /\ register \in [Questions -> Ambiguity] /\ claimed' = claimed
              /\ register' = [q \in Questions |-> Triaged(register[q])]
           \/ /\ RecordNormalize /\ register \in [Questions -> Ambiguity] /\ Decided # {}
              /\ register' = Normalized(register) /\ claimed' = claimed
<1>1. version[Intake] \in Nat /\ version'[Intake] \in Nat
  BY PlanAssumption, ClarificationAssumption DEF TypeOK
<1>2. CASE RecordIntake
  BY <1>1, <1>2 DEF RecordIntake
<1>3. CASE RecordTriage
  BY <1>3 DEF RecordTriage, RegisterTyped
<1>4. CASE RecordNormalize
  BY <1>4 DEF RecordNormalize, RegisterTyped
<1> QED
  BY <1>2, <1>3, <1>4 DEF DialogueNext, dialogueVars

LEMMA RegisterKept ==
    ASSUME TypeOK, TypeOK', RegisterTyped, [DialogueNext]_dialogueVars
    PROVE  RegisterTyped'
<1>1. CASE register' = register
  BY <1>1 DEF RegisterTyped
<1>2. CASE register' \in Registers
  BY <1>2, ClarificationAssumption DEF RegisterTyped, Registers, Ambiguity
<1>3. CASE /\ register \in [Questions -> Ambiguity]
           /\ register' = [q \in Questions |-> Triaged(register[q])]
  <2>1. ASSUME NEW a \in Ambiguity PROVE Triaged(a) \in Ambiguity
    BY DEF Triaged, Ambiguity, Disposition
  <2> QED
    BY <1>3, <2>1 DEF RegisterTyped
<1>4. CASE /\ register \in [Questions -> Ambiguity] /\ Decided # {}
           /\ register' = Normalized(register)
  <2>1. DecisionText \in Nat
    BY <1>4, LatestDecision
  <2>2. ASSUME NEW a \in Ambiguity
        PROVE  [a EXCEPT !.disposition = "resolved", !.by = DecisionText] \in Ambiguity
    BY <2>1 DEF Ambiguity, Disposition
  <2> QED
    BY <1>4, <2>2 DEF RegisterTyped, Normalized
<1> QED
  BY <1>1, <1>2, <1>3, <1>4, RegisterMoves

(* A resolved question stays as it was answered until intake writes a new     *)
(* register: triage passes it by, and normalize answers what is open.         *)
LEMMA ResolvedStays ==
    ASSUME TypeOK, TypeOK', RegisterTyped, [DialogueNext]_dialogueVars,
           NEW q \in DOMAIN register, register[q].disposition = "resolved",
           version'[Intake] = version[Intake]
    PROVE  register'[q] = register[q]
<1>1. CASE /\ register \in [Questions -> Ambiguity]
           /\ register' = [p \in Questions |-> Triaged(register[p])]
  BY <1>1 DEF Triaged
<1>2. CASE /\ register \in [Questions -> Ambiguity] /\ register' = Normalized(register)
  BY <1>2 DEF Normalized, Answered, OpenQuestions
<1> QED
  BY <1>1, <1>2, RegisterMoves

(* "A human answer is a decision and is never revisited": of every plan, and  *)
(* whoever proposes what.                                                     *)
THEOREM AnswersStandHolds == DialogueSpec => AnswersStand
<1>1. DialogueInit => Bookkeeping /\ RegisterTyped
  BY InitHolds DEF DialogueInit, RegisterTyped
<1>2. Bookkeeping /\ RegisterTyped /\ [DialogueNext]_dialogueVars => (Bookkeeping /\ RegisterTyped)'
  <2> SUFFICES ASSUME Bookkeeping, RegisterTyped, [DialogueNext]_dialogueVars
               PROVE  (Bookkeeping /\ RegisterTyped)'
    OBVIOUS
  <2>1. Bookkeeping'
    BY DialogueSteps, NextKeeps
  <2> QED
    BY <2>1, RegisterKept DEF Bookkeeping
<1>3. Bookkeeping /\ RegisterTyped /\ Bookkeeping' /\ [DialogueNext]_dialogueVars =>
         [\A q \in DOMAIN register :
             /\ register[q].disposition = "resolved"
             /\ version'[Intake] = version[Intake]
             => register'[q] = register[q]]_dialogueVars
  BY ResolvedStays DEF Bookkeeping
<1> QED
  BY <1>1, <1>2, <1>3, PTL DEF DialogueSpec, AnswersStand

(* The checkpoint of the dialogue approves no version: no decision on it is   *)
(* ever re-opened.                                                            *)
BindsNothing == Node[Clarify].binds = {}

(* What was said is said of a decision, and an answer quotes its decision.    *)
Spoken ==
    /\ DOMAIN said = DOMAIN approvals
    /\ \A i \in DOMAIN approvals : approvals[i].node = Self(Clarify) => approvals[i].bound = {}
    /\ \A q \in DOMAIN register : register[q].by > 0 =>
          register[q].by \in Decided /\ q \in said[register[q].by]

LEMMA DecidedStays ==
    ASSUME Bookkeeping, Spoken, [DialogueNext]_dialogueVars, NEW i \in Decided
    PROVE  i \in Decided' /\ said'[i] = said[i]
<1>1. DecisionsStand
  BY DialogueSteps, DecisionsStay
<1>2. /\ i \in DOMAIN approvals /\ i \in DOMAIN approvals' /\ approvals'[i] = approvals[i]
      /\ approvals[i].node = Self(Clarify) /\ approvals[i].decision # "PENDING"
  BY <1>1 DEF DecisionsStand, Decided, Spoken
<1>3. CASE DialogueNext
  <2>1. PICK note : said' = [j \in DOMAIN approvals' |-> NoteOf(j, note)]
    BY <1>3 DEF DialogueNext, Hear
  <2>2. NoteOf(i, note) = said[i]
    BY <1>2 DEF NoteOf
  <2> QED
    BY <1>2, <2>1, <2>2 DEF Decided
<1>4. CASE UNCHANGED dialogueVars
  BY <1>2, <1>4 DEF dialogueVars, Decided
<1> QED
  BY <1>3, <1>4

LEMMA SpokenKept ==
    ASSUME BindsNothing, Bookkeeping, Bookkeeping', RegisterTyped, Spoken,
           [DialogueNext]_dialogueVars
    PROVE  Spoken'
<1>1. DecisionsStand /\ TypeOK /\ TypeOK' /\ Clarify \in Work
  BY DialogueSteps, DecisionsStay, PlanAssumption, ClarificationAssumption DEF Bookkeeping
<1>2. DOMAIN said' = DOMAIN approvals'
  BY DEF DialogueNext, Hear, dialogueVars, vars, Spoken
<1>3. ASSUME NEW i \in DOMAIN approvals', approvals'[i].node = Self(Clarify)
      PROVE  approvals'[i].bound = {}
  BY <1>1, <1>3, SelfFacts DEF DecisionsStand, Spoken, BindsNothing
<1>4. ASSUME NEW q \in DOMAIN register', register'[q].by > 0
      PROVE  register'[q].by \in Decided' /\ q \in said'[register'[q].by]
  <2>1. \/ q \in DOMAIN register /\ register'[q].by = register[q].by
        \/ /\ Decided # {} /\ register'[q].by = DecisionText /\ q \in said[DecisionText]
    <3>1. CASE register' = register
      BY <1>4, <3>1
    <3>2. CASE register' \in Registers
      BY <1>4, <3>2 DEF Registers
    <3>3. CASE /\ register \in [Questions -> Ambiguity]
               /\ register' = [p \in Questions |-> Triaged(register[p])]
      <4>1. \A a \in Ambiguity : Triaged(a).by = a.by
        BY DEF Triaged, Ambiguity
      <4> QED
        BY <1>4, <3>3, <4>1
    <3>4. CASE /\ register \in [Questions -> Ambiguity] /\ Decided # {}
               /\ register' = Normalized(register)
      <4>1. \A a \in Ambiguity :
               [a EXCEPT !.disposition = "resolved", !.by = DecisionText].by = DecisionText
        BY DEF Ambiguity
      <4> QED
        BY <1>4, <3>4, <4>1 DEF Normalized, Answered
    <3> QED
      BY <1>1, <3>1, <3>2, <3>3, <3>4, RegisterMoves
  <2>2. CASE q \in DOMAIN register /\ register'[q].by = register[q].by
    <3>1. register[q].by \in Decided /\ q \in said[register[q].by]
      BY <1>4, <2>2 DEF Spoken
    <3> QED
      BY <2>2, <3>1, DecidedStays
  <2>3. CASE Decided # {} /\ register'[q].by = DecisionText /\ q \in said[DecisionText]
    <3>1. DecisionText \in Decided
      BY <1>1, <2>3, LatestDecision
    <3> QED
      BY <2>3, <3>1, DecidedStays
  <2> QED
    BY <2>1, <2>2, <2>3
<1> QED
  BY <1>2, <1>3, <1>4 DEF Spoken

(* Every answer in the register is one a person gave to that question: no     *)
(* later decision, retry or withdrawal takes the text of an answer away.      *)
THEOREM AnswersAreQuotedHolds ==
    ASSUME BindsNothing
    PROVE  DialogueSpec => []AnswersAreQuoted
<1>1. DialogueInit => Bookkeeping /\ RegisterTyped /\ Spoken
  <2> SUFFICES ASSUME DialogueInit PROVE Bookkeeping /\ RegisterTyped /\ Spoken
    OBVIOUS
  <2>1. Bookkeeping
    BY InitHolds DEF DialogueInit
  <2>2. approvals = <<>> /\ register = <<>> /\ said = <<>>
    BY DEF DialogueInit, ConsoleInit, Init, NoRegister
  <2> QED
    BY <2>1, <2>2 DEF RegisterTyped, Spoken, NoRegister
<1>2. Bookkeeping /\ RegisterTyped /\ Spoken /\ [DialogueNext]_dialogueVars
         => (Bookkeeping /\ RegisterTyped /\ Spoken)'
  <2> SUFFICES ASSUME Bookkeeping, RegisterTyped, Spoken, [DialogueNext]_dialogueVars
               PROVE  (Bookkeeping /\ RegisterTyped /\ Spoken)'
    OBVIOUS
  <2>1. Bookkeeping'
    BY DialogueSteps, NextKeeps
  <2> QED
    BY <2>1, RegisterKept, SpokenKept DEF Bookkeeping
<1>3. Spoken => AnswersAreQuoted
  BY DEF Spoken, AnswersAreQuoted
<1> QED
  BY <1>1, <1>2, <1>3, PTL DEF DialogueSpec

(* A plan that asks before it builds: intake waits for nothing, triage for    *)
(* intake alone, a mandatory checkpoint for triage, and normalize for the     *)
(* checkpoint.                                                                *)
AsksFirst ==
    /\ \A w \in {Intake, Triage, Normalize} : Node[w].kind = "work" /\ ~Node[w].optional
    /\ Node[Clarify].kind = "human" /\ ~Node[Clarify].optional
    /\ Node[Intake].needs = {} /\ Node[Triage].needs = {Intake}
    /\ Triage \in Node[Clarify].needs /\ Clarify \in Node[Normalize].needs

(* A root is behind nothing, and what waits for it alone is behind it alone.  *)
LEMMA BehindTheRoot ==
    ASSUME NEW p \in Plan, Node[p].needs = {}, NEW t \in Plan, Node[t].needs = {p},
           NEW w \in Work
    PROVE  p \notin Downstream[w] /\ (t \in Downstream[w] => w = p)
<1>1. p \notin Downstream[w]
  <2>1. PICK D \in SUBSET Plan : D = Plan \ {p}
    OBVIOUS
  <2>2. Dependents({w} \cup D) \subseteq D /\ p \notin D
    BY <2>1 DEF Dependents
  <2> QED
    BY <2>2 DEF Downstream
<1>2. ASSUME w # p PROVE t \notin Downstream[w]
  <2>1. PICK D \in SUBSET Plan : D = Plan \ {p, t}
    OBVIOUS
  <2>2. Dependents({w} \cup D) \subseteq D /\ t \notin D
    BY <1>2, <2>1 DEF Dependents
  <2> QED
    BY <2>2 DEF Downstream
<1> QED
  BY <1>1, <1>2

LEMMA AskedInOrder ==
    ASSUME AsksFirst, TypeOK
    PROVE  /\ {Intake, Triage, Clarify, Normalize} \subseteq Plan \cap Work
           /\ \A w \in {Intake, Triage, Clarify, Normalize} : Self(w) \in Rows
           /\ {Triage, Clarify, Normalize} \subseteq Downstream[Intake]
           /\ {Clarify, Normalize} \subseteq Downstream[Triage]
           /\ Intake # Triage /\ Intake # Normalize /\ Triage # Normalize
           /\ \A w \in Work : /\ Intake \notin Downstream[w]
                              /\ Triage \in Downstream[w] => w = Intake
<1>1. {Intake, Triage, Clarify, Normalize} \subseteq Plan \cap Work
  BY PlanAssumption, ClarificationAssumption
<1>2. Triage \in Downstream[Intake] /\ Clarify \in Downstream[Triage] /\ Normalize \in Downstream[Clarify]
  BY <1>1, DependentIsDownstream DEF AsksFirst
<1>3. /\ Downstream[Clarify] \subseteq Downstream[Triage]
      /\ Downstream[Triage] \subseteq Downstream[Intake]
  BY <1>1, <1>2, DownstreamFollows
<1>4. \A w \in Work : Intake \notin Downstream[w] /\ (Triage \in Downstream[w] => w = Intake)
  BY <1>1, BehindTheRoot DEF AsksFirst
<1>5. \A w \in {Intake, Triage, Clarify, Normalize} : Self(w) \in Rows
  BY <1>1 DEF TypeOK
<1> QED
  BY <1>1, <1>2, <1>3, <1>4, <1>5, AcyclicAssumption

(* A step of the dialogue is under way, or has been taken.                    *)
Engaged(w) ==
    \/ Self(w) \in wave
    \/ node[Self(w)] \in IF w = Clarify THEN {"PASSED", "BLOCKED"}
                         ELSE {"PASSED", "FAILED", "ERRORED"}

Done(w) == node[Self(w)] \in Terminal

(* Nothing of the dialogue is under way before what it waits for is done,     *)
(* unless a person waived triage; and the checkpoint is never waived.         *)
InOrder ==
    /\ node[Self(Clarify)] # "SKIPPED"
    /\ ~early =>
          /\ Engaged(Triage) => Done(Intake)
          /\ \A c \in {Clarify, Normalize} :
                Engaged(c) => Done(Triage) /\ (Done(Intake) \/ Skipped(Triage))

(* Required work of the plan that is done stays so, until what it is built on *)
(* is judged again or withdrawn, or it is withdrawn itself.                   *)
LEMMA DoneStays ==
    ASSUME Bookkeeping, [Next]_vars, NEW p \in Plan, Judged(p), ~Node[p].optional,
           node[Self(p)] \in Terminal
    PROVE  \/ node'[Self(p)] = node[Self(p)]
           \/ /\ node[Self(p)] = "PASSED"
              /\ \E w \in Work : \E v \in Verdicts :
                    VerdictMove(w, v) /\ Node[w].qualified /\ p \in Downstream[w]
           \/ \E n \in Plan : WithdrawMove(n) /\ (n = p \/ p \in Downstream[n])
<1>1. /\ p \in Work /\ Self(p) \in Rows /\ ~IsHandoff(Self(p)) /\ KindOf(Self(p)) \in {"work", "bundle"}
      /\ node[Self(p)] \in {"PASSED", "SKIPPED"}
  BY SelfFacts, PlanAssumption DEF Bookkeeping, TypeOK, Terminal, Judged
<1>2. CASE GentleMove
  BY <1>1, <1>2 DEF GentleMove, Gentle
<1>3. ASSUME NEW id \in Rows, AnswerMove(id) PROVE node'[Self(p)] = node[Self(p)]
  BY <1>1, <1>3 DEF AnswerMove
<1>4. ASSUME NEW f \in Work, ExpandMove(f) PROVE node'[Self(p)] = node[Self(p)]
  <2>1. Self(p) # Self(f)
    BY <1>1, <1>4, SelfFacts DEF ExpandMove
  <2>2. \A c \in extraNeeds'[f] : Self(p) # Self(c)
    BY <1>4, PlanAssumption DEF ExpandMove, Self
  <2> QED
    BY <1>1, <1>4, <2>1, <2>2 DEF ExpandMove
<1>5. ASSUME NEW w \in Work, NEW v \in Verdicts, VerdictMove(w, v)
      PROVE  \/ node'[Self(p)] = node[Self(p)]
             \/ node[Self(p)] = "PASSED" /\ Node[w].qualified /\ p \in Downstream[w]
  <2>1. Self(p) # Self(w)
    BY <1>5 DEF VerdictMove, VerdictOn
  <2>2. \A d \in Raised(w) : Self(p) # Self(d)
    BY DEF Raised, Self
  <2>3. \A d \in Downstream[w] : Self(p) = Self(d) => p = d
    BY DEF Self
  <2>4. Self(p) \notin Handoffs({w})
    BY <1>1 DEF Handoffs
  <2> QED
    BY <1>1, <1>5, <2>1, <2>2, <2>3, <2>4 DEF VerdictMove, VerdictRows, Reopens
<1>6. ASSUME NEW n \in Plan, WithdrawMove(n)
      PROVE  node'[Self(p)] = node[Self(p)] \/ n = p \/ p \in Downstream[n]
  <2>1. \A c \in extraNeeds[n] : Self(p) # Self(c)
    BY <1>1, GrownFacts, SelfFacts, PlanAssumption DEF Bookkeeping
  <2>2. \A d \in Downstream[n] : Self(p) = Self(d) => p = d
    BY DEF Self
  <2> QED
    BY <1>1, <1>6, <2>1, <2>2, SelfFacts, PlanAssumption DEF WithdrawMove
<1> QED
  BY <1>2, <1>3, <1>4, <1>5, <1>6, StepMoves

(* Withdrawing a result disengages what is built on it.                       *)
LEMMA WithdrawalDisengages ==
    ASSUME NEW n \in Plan, WithdrawMove(n), NEW d \in Downstream[n], Self(d) \in Rows
    PROVE  ~Engaged(d)'
BY DEF WithdrawMove, Engaged

(* Only a dispatch puts a row in the wave, and then all it needs is done.     *)
LEMMA WaveStarts ==
    ASSUME [Next]_vars, NEW id \in wave', id \notin wave
    PROVE  Dispatch /\ id \in Ready
BY DEF Next, Driver, Operator, Resume, Crash, BlockForHuman, Expand, RecordWork, RecordBundle,
   Recorded, Dispatch, ExpandRaises, Settle, Approve, Reject, Retry, Invalidate, RecheckPasses,
   RecheckFails, Rechecking, Stop, Rollback, Command, vars

(* Work gets a verdict only while it is in the wave or broken.                *)
LEMMA WorkEngages ==
    ASSUME Bookkeeping, [Next]_vars, NEW c \in Plan, Node[c].kind = "work",
           node'[Self(c)] \in {"PASSED", "FAILED", "ERRORED"}
    PROVE  \/ node'[Self(c)] = node[Self(c)]
           \/ \E v \in Verdicts : VerdictMove(c, v)
<1>1. c \in Work /\ Self(c) \in Rows /\ ~IsHandoff(Self(c)) /\ KindOf(Self(c)) = "work"
  BY SelfFacts, PlanAssumption DEF Bookkeeping, TypeOK
<1>2. CASE GentleMove
  BY <1>1, <1>2 DEF GentleMove, Gentle
<1>3. ASSUME NEW id \in Rows, AnswerMove(id) PROVE node'[Self(c)] = node[Self(c)]
  BY <1>1, <1>3 DEF AnswerMove
<1>4. ASSUME NEW f \in Work, ExpandMove(f) PROVE node'[Self(c)] = node[Self(c)]
  <2>1. Self(c) # Self(f)
    BY <1>1, <1>4, SelfFacts DEF ExpandMove
  <2> QED
    BY <1>1, <1>4, <2>1 DEF ExpandMove
<1>5. ASSUME NEW w \in Work, NEW v \in Verdicts, VerdictMove(w, v), w # c
      PROVE  node'[Self(c)] = node[Self(c)]
  <2>1. Self(c) # Self(w)
    BY <1>1, <1>5, SelfFacts
  <2> QED
    BY <1>1, <1>5, <2>1 DEF VerdictMove, VerdictRows
<1>6. ASSUME NEW n \in Plan, WithdrawMove(n) PROVE node'[Self(c)] = node[Self(c)]
  BY <1>1, <1>6 DEF WithdrawMove
<1> QED
  BY <1>2, <1>3, <1>4, <1>5, <1>6, StepMoves

(* The checkpoint is blocked from the wave, and answered by a person.         *)
LEMMA CheckpointMoves ==
    ASSUME AsksFirst, Bookkeeping, HandoffsJudged, [Next]_vars, node[Self(Clarify)] # "SKIPPED"
    PROVE  /\ node'[Self(Clarify)] # "SKIPPED"
           /\ node'[Self(Clarify)] \in {"PASSED", "BLOCKED"} =>
                 \/ Engaged(Clarify)
                 \/ /\ node[Self(Clarify)] # "BLOCKED"
                    /\ \E i \in Open(approvals, {Self(Clarify)}) :
                          approvals'[i].decision = "APPROVED"
<1> DEFINE me == Self(Clarify)
<1>1. /\ Clarify \in Plan /\ Clarify \in Work /\ me \in Rows /\ ~IsHandoff(me)
      /\ Node[Clarify].kind = "human" /\ ~Node[Clarify].optional
  BY SelfFacts, PlanAssumption, ClarificationAssumption DEF AsksFirst, Bookkeeping, TypeOK
<1> HIDE DEF me
<1>2. ASSUME node'[me] # "SKIPPED", node'[me] \in {"PASSED", "BLOCKED"} => node'[me] = node[me]
      PROVE  /\ node'[me] # "SKIPPED"
             /\ node'[me] \in {"PASSED", "BLOCKED"} => Engaged(Clarify)
  BY <1>2 DEF Engaged, me
<1>3. CASE GentleMove
  BY <1>1, <1>2, <1>3 DEF GentleMove, Gentle, me
<1>4. ASSUME NEW id \in Rows, AnswerMove(id), id # me
      PROVE  node'[me] # "SKIPPED" /\ (node'[me] \in {"PASSED", "BLOCKED"} => node'[me] = node[me])
  <2>1. ASSUME IsHandoff(id) PROVE me # Self(id[1])
    <3>1. Judged(id[1])
      BY <1>4, <2>1 DEF HandoffsJudged
    <3> QED
      BY <1>1, <3>1 DEF Judged, Self, me
  <2> QED
    BY <1>1, <1>4, <2>1 DEF AnswerMove, me
<1>5. CASE AnswerMove(me)
  BY <1>5 DEF AnswerMove, Engaged, me
<1>6. ASSUME NEW f \in Work, ExpandMove(f)
      PROVE  node'[me] # "SKIPPED" /\ (node'[me] \in {"PASSED", "BLOCKED"} => node'[me] = node[me])
  <2>1. me # Self(f)
    BY <1>1, <1>6 DEF ExpandMove, Self, me
  <2> QED
    BY <1>1, <1>6, <2>1 DEF ExpandMove, me
<1>7. ASSUME NEW w \in Work, NEW v \in Verdicts, VerdictMove(w, v)
      PROVE  node'[me] # "SKIPPED" /\ (node'[me] \in {"PASSED", "BLOCKED"} => node'[me] = node[me])
  <2>1. me # Self(w) /\ me \notin Handoffs({w})
    BY <1>1, <1>7 DEF VerdictMove, VerdictOn, Judged, Self, Handoffs, me
  <2> QED
    BY <1>1, <1>7, <2>1 DEF VerdictMove, VerdictRows, me
<1>8. ASSUME NEW n \in Plan, WithdrawMove(n)
      PROVE  node'[me] # "SKIPPED" /\ (node'[me] \in {"PASSED", "BLOCKED"} => node'[me] = node[me])
  <2>1. \A c \in extraNeeds[n] : me # Self(c)
    BY <1>1, GrownFacts, PlanAssumption DEF Bookkeeping, Self, me
  <2> QED
    BY <1>1, <1>8, <2>1 DEF WithdrawMove, me
<1> QED
  BY <1>2, <1>3, <1>4, <1>5, <1>6, <1>7, <1>8, StepMoves DEF me

(* What a step under way in the next state was, or why it may be.             *)
LEMMA Engages ==
    ASSUME AsksFirst, Bookkeeping, HandoffsJudged, InOrder, [DialogueNext]_dialogueVars,
           ~early', NEW c \in {Triage, Clarify, Normalize}, Engaged(c)'
    PROVE  Engaged(c) \/ (Dispatch /\ Self(c) \in Ready)
<1>1. [Next]_vars /\ c \in Plan
  BY DialogueSteps, ClarificationAssumption
<1>2. CASE Self(c) \in wave'
  BY <1>1, <1>2, WaveStarts DEF Engaged
<1>3. CASE c # Clarify /\ node'[Self(c)] \in {"PASSED", "FAILED", "ERRORED"}
  <2>1. Node[c].kind = "work"
    BY <1>3 DEF AsksFirst
  <2> QED
    BY <1>1, <1>3, <2>1, WorkEngages DEF Engaged, VerdictMove, VerdictOn
<1>4. CASE c = Clarify /\ node'[Self(c)] \in {"PASSED", "BLOCKED"}
  <2>1. ASSUME node[Self(Clarify)] # "BLOCKED",
               NEW i \in Open(approvals, {Self(Clarify)}), approvals'[i].decision = "APPROVED"
        PROVE  FALSE
    <3>1. i \in DOMAIN approvals /\ approvals[i].node = Self(Clarify)
          /\ approvals[i].decision = "PENDING"
      BY DEF Open
    <3>2. CASE DialogueNext
      BY <2>1, <3>1, <3>2 DEF DialogueNext
    <3>3. CASE UNCHANGED dialogueVars
      BY <2>1, <3>1, <3>3 DEF dialogueVars, vars
    <3> QED
      BY <3>2, <3>3
  <2> QED
    BY <1>1, <1>4, <2>1, CheckpointMoves DEF InOrder
<1> QED
  BY <1>2, <1>3, <1>4 DEF Engaged

LEMMA InOrderKept ==
    ASSUME AsksFirst, Bookkeeping, HandoffsJudged, InOrder, [DialogueNext]_dialogueVars
    PROVE  InOrder'
<1>1. /\ [Next]_vars /\ {Intake, Triage, Clarify, Normalize} \subseteq Plan \cap Work
      /\ \A w \in {Intake, Triage, Clarify, Normalize} : Self(w) \in Rows
      /\ {Triage, Clarify, Normalize} \subseteq Downstream[Intake]
      /\ {Clarify, Normalize} \subseteq Downstream[Triage]
      /\ Triage # Clarify /\ Normalize # Clarify
      /\ \A w \in Work : Intake \notin Downstream[w] /\ (Triage \in Downstream[w] => w = Intake)
  BY DialogueSteps, AskedInOrder DEF Bookkeeping, AsksFirst
<1>2. node'[Self(Clarify)] # "SKIPPED"
  BY <1>1, CheckpointMoves DEF InOrder
<1>3. SUFFICES ASSUME ~early'
               PROVE  /\ Engaged(Triage)' => Done(Intake)'
                      /\ \A c \in {Clarify, Normalize} : Engaged(c)' =>
                            Done(Triage)' /\ (Done(Intake)' \/ Skipped(Triage)')
  BY <1>2 DEF InOrder
<1>4. ~early
  BY <1>3 DEF DialogueNext, dialogueVars
<1>5. Done(Intake) => Done(Intake)' \/ WithdrawMove(Intake)
  <2> SUFFICES ASSUME Done(Intake) PROVE Done(Intake)' \/ WithdrawMove(Intake)
    OBVIOUS
  <2>1. Node[Intake].kind = "work" /\ ~Node[Intake].optional /\ Plan \subseteq Work
    BY PlanAssumption DEF AsksFirst
  <2>2. \/ node'[Self(Intake)] = node[Self(Intake)]
        \/ \E w \in Work : Intake \in Downstream[w]
        \/ \E n \in Plan : WithdrawMove(n) /\ (n = Intake \/ Intake \in Downstream[n])
    BY <1>1, <2>1, DoneStays DEF Done, Judged
  <2> QED
    BY <1>1, <2>1, <2>2 DEF Done
<1>6. Done(Triage) =>
         \/ node'[Self(Triage)] = node[Self(Triage)]
         \/ ~Skipped(Triage) /\ ~Done(Intake)
         \/ WithdrawMove(Triage) \/ WithdrawMove(Intake)
  <2> SUFFICES ASSUME Done(Triage)
               PROVE  \/ node'[Self(Triage)] = node[Self(Triage)]
                      \/ ~Skipped(Triage) /\ ~Done(Intake)
                      \/ WithdrawMove(Triage) \/ WithdrawMove(Intake)
    OBVIOUS
  <2>1. Node[Triage].kind = "work" /\ ~Node[Triage].optional /\ Plan \subseteq Work
    BY PlanAssumption DEF AsksFirst
  <2>2. \/ node'[Self(Triage)] = node[Self(Triage)]
        \/ /\ node[Self(Triage)] = "PASSED"
           /\ \E w \in Work : \E v \in Verdicts : VerdictMove(w, v) /\ Triage \in Downstream[w]
        \/ \E n \in Plan : WithdrawMove(n) /\ (n = Triage \/ Triage \in Downstream[n])
    BY <1>1, <2>1, DoneStays DEF Done, Judged
  <2>3. ASSUME NEW v \in Verdicts, VerdictMove(Intake, v) PROVE ~Done(Intake)
    BY <2>3 DEF VerdictMove, VerdictOn, Done
  <2> QED
    BY <1>1, <2>1, <2>2, <2>3 DEF Skipped
<1>7. CASE Dispatch
  <2>1. \A w \in {Intake, Triage, Clarify} :
           IsSatisfied(Self(w)) => node'[Self(w)] = node[Self(w)]
    BY <1>1, <1>7 DEF Dispatch, Ready, IsReady, IsSatisfied, Terminal
  <2>2. \A c, d \in Plan : Self(c) \in Ready /\ d \in Node[c].needs => IsSatisfied(Self(d))
    BY SelfFacts, PlanAssumption DEF Ready, IsReady, NeedsOf
  <2>3. Engaged(Triage)' => Engaged(Triage) \/ IsSatisfied(Self(Intake))
    BY <1>1, <1>3, <2>2, Engages DEF AsksFirst
  <2>4. Engaged(Triage)' => Done(Intake) /\ IsSatisfied(Self(Intake))
    BY <1>1, <1>4, <2>3 DEF InOrder, Done, IsSatisfied
  <2>5. ASSUME IsSatisfied(Self(Triage))
        PROVE  Done(Triage) /\ (Done(Intake) \/ Skipped(Triage))
    <3>1. node[Self(Triage)] = "PASSED" => Engaged(Triage)
      BY <1>1 DEF Engaged
    <3> QED
      BY <1>4, <2>5, <3>1 DEF InOrder, IsSatisfied, Done, Skipped, Terminal
  <2>6. Engaged(Clarify)' => Engaged(Clarify) \/ IsSatisfied(Self(Triage))
    BY <1>1, <1>3, <2>2, Engages DEF AsksFirst
  <2>7. Engaged(Normalize)' => Engaged(Normalize) \/ IsSatisfied(Self(Clarify))
    BY <1>1, <1>3, <2>2, Engages DEF AsksFirst
  <2>8. IsSatisfied(Self(Clarify)) => Engaged(Clarify)
    BY DEF InOrder, IsSatisfied, Terminal, Engaged
  <2>9. \A c \in {Clarify, Normalize} :
           Engaged(c)' => Done(Triage) /\ (Done(Intake) \/ Skipped(Triage))
    BY <1>4, <2>5, <2>6, <2>7, <2>8 DEF InOrder
  <2> QED
    BY <1>1, <2>1, <2>4, <2>9 DEF Done, Skipped, IsSatisfied
<1>8. CASE ~Dispatch
  <2>1. \A c \in {Triage, Clarify, Normalize} : Engaged(c)' => Engaged(c)
    BY <1>3, <1>8, Engages
  <2>2. WithdrawMove(Intake) => \A c \in {Triage, Clarify, Normalize} : ~Engaged(c)'
    BY <1>1, WithdrawalDisengages
  <2>3. WithdrawMove(Triage) => \A c \in {Clarify, Normalize} : ~Engaged(c)'
    BY <1>1, WithdrawalDisengages
  <2>4. Engaged(Triage)' => Done(Intake)'
    BY <1>4, <1>5, <2>1, <2>2 DEF InOrder
  <2>5. ASSUME NEW c \in {Clarify, Normalize}, Engaged(c)'
        PROVE  Done(Triage)' /\ (Done(Intake)' \/ Skipped(Triage)')
    <3>1. Done(Triage) /\ (Done(Intake) \/ Skipped(Triage))
      BY <1>4, <2>1, <2>5 DEF InOrder
    <3>2. ~WithdrawMove(Intake) /\ ~WithdrawMove(Triage)
      BY <2>2, <2>3, <2>5
    <3>3. node'[Self(Triage)] = node[Self(Triage)]
      BY <1>6, <3>1, <3>2
    <3> QED
      BY <1>5, <3>1, <3>2, <3>3 DEF Done, Skipped
  <2> QED
    BY <2>4, <2>5
<1> QED
  BY <1>7, <1>8

(* triage and normalize are judged by their own step, or by a re-check that   *)
(* asks their predicates again.                                               *)
LEMMA JudgedInDialogue ==
    ASSUME Bookkeeping, [DialogueNext]_dialogueVars, NEW w \in {Triage, Normalize},
           w # Intake, Triage # Normalize, NEW v \in Verdicts, VerdictMove(w, v)
    PROVE  \/ w = Triage /\ RecordTriage
           \/ w = Normalize /\ RecordNormalize
           \/ /\ Rechecks /\ UNCHANGED <<register, folded>>
              /\ node[Self(w)] \in {"FAILED", "ERRORED"} /\ attempts'[w] > attempts[w]
<1>1. /\ {Intake, Triage, Normalize} \subseteq Work /\ attempts \in [Work -> Nat]
      /\ phase = "parked" => wave = {}
  <2>1. {Intake, Triage, Normalize} \subseteq Work
    BY PlanAssumption, ClarificationAssumption
  <2>2. attempts \in [Work -> Nat] /\ (phase \in {"wave", "record"} <=> wave # {})
    BY DEF Bookkeeping, TypeOK
  <2> QED
    BY <2>1, <2>2
<1>2. attempts'[w] = attempts[w] + 1 /\ attempts'[w] > attempts[w] /\ attempts'[w] # attempts[w]
  BY <1>1 DEF VerdictMove, VerdictOn
<1>3. ASSUME NEW u \in Work, RecordWork(u) PROVE u = w
  <2>1. attempts' = [attempts EXCEPT ![u] = @ + 1]
    BY <1>3 DEF RecordWork
  <2> QED
    BY <1>1, <1>2, <2>1
<1>4. ~(Dispatch \/ (\E id \in wave : BlockForHuman(id)) \/ Settle \/ Resume
        \/ UNCHANGED dialogueVars)
  BY <1>2 DEF Dispatch, BlockForHuman, Settle, Resume, dialogueVars, vars
<1>5. CASE Operator /\ Rechecks /\ UNCHANGED <<register, folded>>
  <2>1. phase = "parked"
    BY <1>5 DEF Operator, Approve, Reject, Retry, Invalidate, RecheckPasses, RecheckFails,
       Rechecking, Stop, Rollback, Command
  <2> QED
    BY <1>1, <1>2, <1>5, <2>1 DEF VerdictMove, VerdictOn
<1>6. CASE RecordIntake
  BY <1>1, <1>3, <1>6 DEF RecordIntake
<1>7. CASE RecordTriage
  BY <1>1, <1>3, <1>7 DEF RecordTriage
<1>8. CASE RecordNormalize
  BY <1>1, <1>3, <1>8 DEF RecordNormalize
<1>9. ASSUME NEW u \in Work \ {Intake, Triage, Normalize}, RecordWork(u) PROVE FALSE
  BY <1>3, <1>9
<1> QED
  BY <1>4, <1>5, <1>6, <1>7, <1>8, <1>9 DEF DialogueNext

(* What triage leaves of the questions it may not settle, and what normalize  *)
(* leaves of them.                                                            *)
Reviewed(reg) ==
    \A q \in Questions : reg[q].severity >= Threshold => reg[q].disposition \in {"open", "resolved"}
Closed(reg) ==
    \A q \in Questions : reg[q].severity >= Threshold => reg[q].disposition = "resolved"

LEMMA TriageReviews ==
    ASSUME register \in [Questions -> Ambiguity]
    PROVE  Reviewed([q \in Questions |-> Triaged(register[q])])
<1>1. ASSUME NEW a \in Ambiguity, Triaged(a).severity >= Threshold
      PROVE  Triaged(a).disposition \in {"open", "resolved"}
  BY <1>1 DEF Triaged, Ambiguity
<1> QED
  BY <1>1 DEF Reviewed

LEMMA AnswersClose ==
    ASSUME register \in [Questions -> Ambiguity], Reviewed(register)
    PROVE  /\ Reviewed(Normalized(register))
           /\ OpenQuestions(register) = {} => Closed(register)
           /\ OpenQuestions(Normalized(register)) = {} => Closed(Normalized(register))
<1>1. \A a \in Ambiguity :
         LET b == [a EXCEPT !.disposition = "resolved", !.by = DecisionText]
         IN  b.severity = a.severity /\ b.disposition = "resolved"
  BY DEF Ambiguity
<1>2. \A q \in Questions :
         /\ Normalized(register)[q].severity = register[q].severity
         /\ Normalized(register)[q].disposition \in {register[q].disposition, "resolved"}
  BY <1>1 DEF Normalized
<1>3. Reviewed(Normalized(register))
  BY <1>2 DEF Reviewed
<1> QED
  BY <1>3 DEF Reviewed, Closed, OpenQuestions

(* A resolved question was answered unless intake claimed it, a judged triage *)
(* reviewed the register, and under a green normalize nothing that needs a    *)
(* person is left.                                                            *)
Settled(q) == register[q].by > 0 \/ q \in claimed
Heard ==
    /\ \A q \in DOMAIN register : register[q].disposition = "resolved" => Settled(q)
    /\ ~early /\ register # NoRegister =>
          /\ node[Self(Triage)] \in {"PASSED", "FAILED", "ERRORED"} => Reviewed(register)
          /\ node[Self(Normalize)] = "PASSED" => Skipped(Triage) \/ Closed(register)

LEMMA ResolvedIsAnswered ==
    ASSUME AsksFirst, TypeOK, TypeOK', RegisterTyped, Heard, [DialogueNext]_dialogueVars,
           NEW q \in DOMAIN register', register'[q].disposition = "resolved"
    PROVE  Settled(q)'
<1> USE DEF Settled
<1>1. CASE UNCHANGED <<register, claimed>>
  BY <1>1 DEF Heard
<1>2. CASE /\ register' \in Registers
           /\ claimed' = {p \in Questions : register'[p].disposition = "resolved"}
  BY <1>2 DEF Registers
<1>3. CASE /\ register \in [Questions -> Ambiguity] /\ claimed' = claimed
           /\ register' = [p \in Questions |-> Triaged(register[p])]
  <2>1. \A a \in Ambiguity : Triaged(a).disposition = "resolved" => Triaged(a) = a
    BY DEF Triaged, Ambiguity
  <2> QED
    BY <1>3, <2>1 DEF Heard
<1>4. CASE /\ register \in [Questions -> Ambiguity] /\ Decided # {}
           /\ register' = Normalized(register) /\ claimed' = claimed
  <2>1. DecisionText > 0
    BY <1>4, LatestDecision
  <2>2. \A a \in Ambiguity :
           [a EXCEPT !.disposition = "resolved", !.by = DecisionText].by = DecisionText
    BY DEF Ambiguity
  <2> QED
    BY <1>4, <2>1, <2>2 DEF Heard, Normalized
<1> QED
  BY <1>1, <1>2, <1>3, <1>4, RegisterMoves

(* Whatever triage made of a judged register, it reviewed it: a new one is    *)
(* recorded only before it is judged.                                         *)
LEMMA TriageStaysReviewed ==
    ASSUME AsksFirst, Bookkeeping, Bookkeeping', InOrder, RegisterTyped, Heard,
           [DialogueNext]_dialogueVars, ~early', register' # NoRegister,
           node'[Self(Triage)] \in {"PASSED", "FAILED", "ERRORED"}
    PROVE  Reviewed(register')
<1>1. /\ TypeOK /\ TypeOK' /\ WaveIsUndone /\ [Next]_vars /\ Triage \in Plan /\ Triage # Normalize
      /\ Triage # Intake /\ Triage # Clarify /\ Node[Triage].kind = "work" /\ ~early
  <2>1. TypeOK /\ TypeOK' /\ WaveIsUndone
    BY DEF Bookkeeping
  <2>2. [Next]_vars
    BY DialogueSteps
  <2>3. Triage \in Plan /\ Triage # Normalize /\ Triage # Intake
    BY <2>1, AskedInOrder
  <2>4. Triage # Clarify /\ Node[Triage].kind = "work"
    BY DEF AsksFirst
  <2>5. ~early
    BY DEF DialogueNext, dialogueVars
  <2> QED
    BY <2>1, <2>2, <2>3, <2>4, <2>5
<1>2. ASSUME RecordTriage PROVE Reviewed(register')
  <2>1. register \in [Questions -> Ambiguity]
    BY <1>2 DEF RecordTriage, RegisterTyped
  <2> QED
    BY <1>2, <2>1, TriageReviews DEF RecordTriage
<1>3. CASE node'[Self(Triage)] = node[Self(Triage)]
  <2>1. register' = register => Reviewed(register')
    BY <1>1, <1>3 DEF Heard
  <2>2. ~RecordIntake
    <3>1. Engaged(Triage) /\ Done(Intake)
      BY <1>1, <1>3 DEF Engaged, InOrder
    <3>2. RecordIntake => Self(Intake) \in wave
      BY DEF RecordIntake, RecordWork, Recorded
    <3> QED
      BY <1>1, <3>1, <3>2 DEF Done, Terminal, WaveIsUndone
  <2>3. register \in [Questions -> Ambiguity] /\ register' = Normalized(register)
           => Reviewed(register')
    <3>1. register # NoRegister => Reviewed(register)
      BY <1>1, <1>3 DEF Heard
    <3>2. register = NoRegister /\ register \in [Questions -> Ambiguity] => Questions = {}
      BY DEF NoRegister
    <3> QED
      BY <3>1, <3>2, AnswersClose DEF Reviewed
  <2> QED
    BY <1>1, <1>2, <2>1, <2>2, <2>3, RegisterMoves
<1>4. ASSUME NEW v \in Verdicts, VerdictMove(Triage, v) PROVE Reviewed(register')
  BY <1>1, <1>2, <1>4, JudgedInDialogue DEF Heard
<1> QED
  BY <1>1, <1>3, <1>4, WorkEngages

(* A green normalize has closed what triage left open, or triage was waived.  *)
LEMMA NormalizeStaysClosed ==
    ASSUME AsksFirst, Bookkeeping, Bookkeeping', HandoffsJudged, InOrder, RegisterTyped, Heard,
           [DialogueNext]_dialogueVars, ~early', register' # NoRegister,
           node'[Self(Normalize)] = "PASSED"
    PROVE  Skipped(Triage)' \/ Closed(register')
<1>1. /\ TypeOK /\ TypeOK' /\ WaveIsUndone /\ [Next]_vars
      /\ {Intake, Triage, Normalize} \subseteq Plan \cap Work
      /\ Triage # Normalize /\ Intake # Normalize /\ Normalize # Clarify /\ Triage # Clarify
      /\ Node[Normalize].kind = "work" /\ ~early
  <2>1. TypeOK /\ TypeOK' /\ WaveIsUndone
    BY DEF Bookkeeping
  <2>2. [Next]_vars
    BY DialogueSteps
  <2>3. /\ {Intake, Triage, Normalize} \subseteq Plan \cap Work
        /\ Triage # Normalize /\ Intake # Normalize
    BY <2>1, AskedInOrder
  <2>4. Normalize # Clarify /\ Triage # Clarify /\ Node[Normalize].kind = "work"
    BY DEF AsksFirst
  <2>5. ~early
    BY DEF DialogueNext, dialogueVars
  <2> QED
    BY <2>1, <2>2, <2>3, <2>4, <2>5
<1>2. Skipped(Triage) => Skipped(Triage)'
  <2>1. /\ Node[Triage].kind = "work" /\ ~Node[Triage].optional /\ Plan \subseteq Work
        /\ Normalize \in Downstream[Intake] /\ Normalize \in Downstream[Triage]
        /\ Self(Normalize) \in Rows
        /\ \A w \in Work : Triage \in Downstream[w] => w = Intake
    BY <1>1, AskedInOrder, PlanAssumption DEF AsksFirst
  <2>2. ~WithdrawMove(Intake) /\ ~WithdrawMove(Triage)
    BY <1>1, <2>1 DEF WithdrawMove
  <2>3. Skipped(Triage) =>
           \/ node'[Self(Triage)] = node[Self(Triage)]
           \/ \E n \in Plan : WithdrawMove(n) /\ (n = Triage \/ Triage \in Downstream[n])
    BY <1>1, <2>1, DoneStays DEF Skipped, Terminal, Judged
  <2> QED
    BY <1>1, <2>1, <2>2, <2>3 DEF Skipped
<1>3. ASSUME Engaged(Normalize), register # NoRegister
      PROVE  Skipped(Triage) \/ Reviewed(register)
  BY <1>1, <1>3 DEF InOrder, Heard, Done, Terminal, Skipped
<1>4. CASE node'[Self(Normalize)] = node[Self(Normalize)]
  <2>1. /\ Engaged(Normalize) /\ node[Self(Normalize)] = "PASSED"
        /\ Done(Triage) /\ (Done(Intake) \/ Skipped(Triage))
    BY <1>1, <1>4 DEF Engaged, InOrder
  <2>2. ~RecordTriage /\ ~RecordNormalize /\ (RecordIntake => Skipped(Triage))
    BY <1>1, <2>1 DEF RecordIntake, RecordTriage, RecordNormalize, RecordWork, Recorded, Done,
       Terminal, WaveIsUndone
  <2>3. register' = register => Skipped(Triage)' \/ Closed(register')
    BY <1>1, <1>2, <2>1 DEF Heard
  <2> QED
    BY <1>1, <1>2, <2>2, <2>3, RegisterMoves
<1>5. ASSUME NEW v \in Verdicts, VerdictMove(Normalize, v)
      PROVE  Skipped(Triage)' \/ Closed(register')
  <2>1. Passing(Normalize) /\ Engaged(Normalize)
    <3>1. Engaged(Normalize) /\ node[Self(Normalize)] # "PASSED"
      BY <1>1, <1>5 DEF VerdictMove, VerdictOn, Engaged, Terminal
    <3> QED
      BY <3>1 DEF Passing
  <2>2. CASE RecordNormalize
    <3>1. /\ register # NoRegister /\ register \in [Questions -> Ambiguity]
          /\ register' = Normalized(register) /\ OpenQuestions(register') = {}
      BY <2>1, <2>2 DEF RecordNormalize, NormalizeGate, RegisterTyped
    <3>2. Skipped(Triage) \/ Reviewed(register)
      BY <1>3, <2>1, <3>1
    <3> QED
      BY <1>2, <3>1, <3>2, AnswersClose
  <2>3. CASE /\ Rechecks /\ register' = register /\ attempts'[Normalize] > attempts[Normalize]
    <3>1. /\ register # NoRegister /\ register \in [Questions -> Ambiguity]
          /\ OpenQuestions(register) = {}
      BY <2>1, <2>3 DEF Rechecks, NormalizeGate, RegisterTyped
    <3>2. Skipped(Triage) \/ Reviewed(register)
      BY <1>3, <2>1, <3>1
    <3> QED
      BY <1>2, <2>3, <3>1, <3>2, AnswersClose
  <2> QED
    BY <1>1, <1>5, <2>2, <2>3, JudgedInDialogue
<1> QED
  BY <1>1, <1>4, <1>5, WorkEngages

(* What a wave dispatched needs is done when it starts.                       *)
WaveReady == phase = "wave" => \A id \in wave : \A d \in NeedsOf(id) : IsSatisfied(d)

LEMMA WaveReadyKept ==
    ASSUME Bookkeeping, WaveReady, [Next]_vars
    PROVE  WaveReady'
<1>1. phase' = "wave" => Dispatch \/ UNCHANGED vars
  BY DEF Bookkeeping, TypeOK, Next, Driver, Operator, Resume, Crash, BlockForHuman, Expand, RecordWork, RecordBundle,
     Recorded, ExpandRaises, Settle, Approve, Reject, Retry, Invalidate, RecheckPasses,
     RecheckFails, Rechecking, Stop, Rollback, Command
<1>2. CASE Dispatch
  <2>1. wave' = Ready /\ extraNeeds' = extraNeeds
    BY <1>2 DEF Dispatch
  <2>2. \A x \in Rows : IsSatisfied(x) => IsSatisfied(x)'
    BY <1>2 DEF Dispatch, Ready, IsReady, IsSatisfied, Terminal, Rows
  <2>3. \A id \in Ready : \A d \in NeedsOf(id) : IsSatisfied(d) /\ d \in Rows
    BY DEF Ready, IsReady, IsSatisfied
  <2>4. \A id \in Ready : NeedsOf(id)' = NeedsOf(id)
    BY <2>1 DEF NeedsOf
  <2> QED
    BY <2>1, <2>2, <2>3, <2>4 DEF WaveReady
<1>3. CASE UNCHANGED vars
  BY <1>3 DEF vars, WaveReady, NeedsOf, IsSatisfied, Rows
<1> QED
  BY <1>1, <1>2, <1>3 DEF WaveReady

LEMMA HeardKept ==
    ASSUME AsksFirst, Bookkeeping, Bookkeeping', HandoffsJudged, InOrder, RegisterTyped, Heard,
           [DialogueNext]_dialogueVars
    PROVE  Heard'
<1>1. TypeOK /\ TypeOK'
  BY DEF Bookkeeping
<1>2. \A q \in DOMAIN register' :
         register'[q].disposition = "resolved" => Settled(q)'
  BY <1>1, ResolvedIsAnswered
<1>3. ~early' /\ register' # NoRegister
      /\ node'[Self(Triage)] \in {"PASSED", "FAILED", "ERRORED"} => Reviewed(register')
  BY TriageStaysReviewed
<1>4. ~early' /\ register' # NoRegister /\ node'[Self(Normalize)] = "PASSED"
         => Skipped(Triage)' \/ Closed(register')
  BY NormalizeStaysClosed
<1> QED
  BY <1>2, <1>3, <1>4 DEF Heard, Reviewed, Closed, NoRegister

LEMMA DialogueStarts ==
    ASSUME AsksFirst, DialogueInit
    PROVE  Bookkeeping /\ HandoffsJudged /\ RegisterTyped /\ InOrder /\ Heard /\ WaveReady
<1>1. ConsoleInit /\ Bookkeeping /\ HandoffsJudged
  BY InitHolds, HandoffsJudgedInit DEF DialogueInit
<1>2. \A w \in {Intake, Triage, Clarify, Normalize} : Self(w) \in Rows /\ ~Node[w].optional
  BY <1>1, AskedInOrder DEF Bookkeeping, AsksFirst
<1>3. \A w \in {Intake, Triage, Clarify, Normalize} : node[Self(w)] = "PENDING"
  BY <1>1, <1>2, SelfFacts, PlanAssumption, ClarificationAssumption DEF ConsoleInit, Init, Self, Rows
<1>4. wave = {} /\ phase # "wave" /\ register = <<>>
  BY DEF DialogueInit, ConsoleInit, Init, NoRegister
<1>5. InOrder
  BY <1>3, <1>4 DEF InOrder, Engaged
<1>6. Heard
  BY <1>3, <1>4 DEF Heard, NoRegister
<1> QED
  BY <1>1, <1>4, <1>5, <1>6 DEF WaveReady, RegisterTyped, NoRegister

(* A question at or above the threshold is answered before w starts, by a     *)
(* person or by the register intake recorded.                                 *)
AnswersPrecede(w) ==
    phase = "wave" /\ register # NoRegister /\ Self(w) \in wave /\ ~Accepted =>
        \A q \in Questions : register[q].severity >= Threshold =>
            register[q].disposition = "resolved" /\ (register[q].by > 0 \/ q \in claimed)

Asked == Bookkeeping /\ HandoffsJudged /\ RegisterTyped /\ InOrder /\ Heard /\ WaveReady

LEMMA AskedKept ==
    ASSUME AsksFirst, Asked, [DialogueNext]_dialogueVars
    PROVE  Asked'
<1>1. Bookkeeping' /\ [Next]_vars
  BY DialogueSteps, NextKeeps DEF Asked
<1>2. HandoffsJudged'
  BY <1>1, HandoffsJudgedKept DEF Asked
<1>3. RegisterTyped'
  BY <1>1, RegisterKept DEF Asked, Bookkeeping
<1>4. InOrder' /\ Heard' /\ WaveReady'
  BY <1>1, InOrderKept, HeardKept, WaveReadyKept DEF Asked
<1> QED
  BY <1>1, <1>2, <1>3, <1>4 DEF Asked

LEMMA BuiltOnAnswers ==
    ASSUME AsksFirst, Asked, NEW w \in Work, Normalize \in Node[w].needs
    PROVE  AnswersPrecede(w)
<1> SUFFICES ASSUME phase = "wave", register # NoRegister, Self(w) \in wave, ~Accepted,
                    NEW q \in Questions, register[q].severity >= Threshold
             PROVE  register[q].disposition = "resolved" /\ (register[q].by > 0 \/ q \in claimed)
  BY DEF AnswersPrecede
<1>1. Self(Normalize) \in NeedsOf(Self(w))
  BY SelfFacts DEF NeedsOf
<1>2. IsSatisfied(Self(Normalize))
  BY <1>1 DEF WaveReady, Asked
<1>3. node[Self(Normalize)] = "PASSED" /\ ~Skipped(Triage) /\ ~early
  BY <1>2 DEF IsSatisfied, Terminal, Accepted, Skipped, InOrder, Asked
<1>4. Closed(register)
  BY <1>3 DEF Heard, Asked
<1>5. q \in DOMAIN register
  BY DEF RegisterTyped, Asked
<1> QED
  BY <1>4, <1>5 DEF Closed, Heard, Settled, Asked

(* Work that waits for normalize starts only when a person has answered every *)
(* question at or above the threshold that the analyst did not record as      *)
(* resolved itself, whatever is withdrawn, re-run, re-checked or interrupted  *)
(* before, and whatever else the analyst proposes.                            *)
THEOREM AnswersPrecedeWork ==
    ASSUME AsksFirst, NEW w \in Work, Normalize \in Node[w].needs
    PROVE  DialogueSpec => []AnswersPrecede(w)
<1>1. DialogueInit => Asked
  BY DialogueStarts DEF Asked
<1>2. Asked /\ [DialogueNext]_dialogueVars => Asked'
  BY AskedKept
<1>3. Asked => AnswersPrecede(w)
  BY BuiltOnAnswers
<1> QED
  BY <1>1, <1>2, <1>3, PTL DEF DialogueSpec

(* What is built on the register waits for normalize itself.                  *)
BuildersWait == \A w \in Work : Builds(w) => Normalize \in Node[w].needs

(* The same of everything that is built on the register, in a plan where all  *)
(* of it waits for normalize.                                                 *)
THEOREM QuestionsReachAPersonHolds ==
    ASSUME AsksFirst, BuildersWait
    PROVE  DialogueSpec => []QuestionsReachAPerson
<1>1. DialogueInit => Asked
  BY DialogueStarts DEF Asked
<1>2. Asked /\ [DialogueNext]_dialogueVars => Asked'
  BY AskedKept
<1>3. Asked => QuestionsReachAPerson
  BY BuiltOnAnswers
  DEF AnswersPrecede, BuildersWait, QuestionsReachAPerson, Building
<1> QED
  BY <1>1, <1>2, <1>3, PTL DEF DialogueSpec

-------------------------------------------------------------------------------
(* The optional question.                                                     *)

(* Checkpoint h is brought in by an escalation, and asks about what exists;   *)
(* n works its answer in: it waits for h alone and comes with it.             *)
AsksThrough(h, n) ==
    /\ {h, n} \subseteq Plan /\ Node[h].optional /\ Node[n].optional
    /\ Node[h].kind = "human" /\ Node[h].needs = {} /\ Node[h].binds = {}
    /\ Node[n].kind = "work" /\ Node[n].needs = {h}
    /\ \A w \in Work : Node[w].onEscalate # n

LEMMA QuestionFacts ==
    ASSUME TypeOK, NEW h, NEW n, AsksThrough(h, n)
    PROVE  /\ h \in Work /\ n \in Work /\ Self(h) # Self(n)
           /\ \A q \in {h, n} : Self(q) \in Rows /\ ~IsHandoff(Self(q))
           /\ KindOf(Self(h)) = "human" /\ KindOf(Self(n)) = "work"
           /\ \A w \in Work : h \notin Downstream[w] /\ (n \in Downstream[w] => w = h)
           /\ \A w \in Work : Raised(w) \cap {h, n} # {} => {h, n} \subseteq Raised(w)
<1>1. h \in Plan /\ n \in Plan /\ h \in Work /\ n \in Work /\ h # n
  BY PlanAssumption DEF AsksThrough
<1>2. \A w \in Work : h \notin Downstream[w] /\ (n \in Downstream[w] => w = h)
  BY <1>1, BehindTheRoot DEF AsksThrough
<1>3. n \in Downstream[h]
  BY <1>1, DependentIsDownstream DEF AsksThrough
<1>4. ASSUME NEW w \in Work, Raised(w) \cap {h, n} # {} PROVE {h, n} \subseteq Raised(w)
  <2>1. Node[w].onEscalate # NoNode /\ Node[w].onEscalate \in Work
    BY <1>4, PlanAssumption DEF Raised, NodeFields
  <2>2. Node[w].onEscalate = h
    BY <1>2, <1>4, <2>1 DEF Raised, AsksThrough
  <2> QED
    BY <1>3, <2>1, <2>2 DEF Raised, AsksThrough
<1> QED
  BY <1>1, <1>2, <1>4, SelfFacts DEF TypeOK, AsksThrough

(* What is decided on the question, on its processing or on a handoff names   *)
(* no version, and so stays decided.                                          *)
Versionless(h, n) ==
    \A i \in DOMAIN approvals :
        IsHandoff(approvals[i].node) \/ approvals[i].node \in {Self(h), Self(n)}
        => approvals[i].bound = {}

LEMMA VersionlessKept ==
    ASSUME Bookkeeping, Bookkeeping', [Next]_vars, NEW h, NEW n, AsksThrough(h, n), Versionless(h, n)
    PROVE  Versionless(h, n)'
<1>1. DecisionsStand /\ TypeOK /\ PeopleAreAsked'
  BY DecisionsStay DEF Bookkeeping
<1>2. KindOf(Self(n)) = "work" /\ Self(h)[1] = h
  BY <1>1, QuestionFacts DEF Self
<1>3. \A i \in DOMAIN approvals' \ DOMAIN approvals :
         IsHandoff(approvals'[i].node) \/ approvals'[i].node = Self(h)
         => approvals'[i].bound = {}
  BY <1>1, <1>2 DEF DecisionsStand, AsksThrough
<1>4. \A i \in DOMAIN approvals' : approvals'[i].node = Self(n) => approvals'[i].bound = {}
  BY <1>1, <1>2 DEF PeopleAreAsked
<1>5. \A i \in DOMAIN approvals :
         approvals'[i].node = approvals[i].node /\ approvals'[i].bound = approvals[i].bound
  BY <1>1 DEF DecisionsStand
<1> QED
  BY <1>3, <1>4, <1>5 DEF Versionless

(* What a person refused or withdrew stays refused.                           *)
LEMMA RefusedStays ==
    ASSUME Bookkeeping, [Next]_vars, NEW h, NEW n, Versionless(h, n), NEW q \in {h, n}
    PROVE  Refused(q) => Refused(q)'
<1>1. DecisionsStand
  BY DecisionsStay
<1> QED
  BY <1>1 DEF DecisionsStand, Versionless, Refused

(* A step that starts unrefused and refuses nothing.                          *)
Sought(h, n) == ~Refused(h) /\ ~Refused(n)

LEMMA WithdrawnIsRefused ==
    ASSUME NEW q, WithdrawMove(q)
    PROVE  Refused(q)'
BY DEF WithdrawMove, Refused

(* No withdrawal reaches the question or its processing without refusing one. *)
LEMMA Unwithdrawn ==
    ASSUME Bookkeeping, NEW h, NEW n, AsksThrough(h, n), Sought(h, n)',
           NEW m \in Plan, WithdrawMove(m)
    PROVE  /\ \A q \in {h, n} : node'[Self(q)] = node[Self(q)]
           /\ \A id \in Handoffs({n}) : node'[id] = node[id]
<1>1. TypeOK /\ GrownByOwner /\ m \in Work
  BY PlanAssumption DEF Bookkeeping
<1>2. m # h /\ m # n
  BY WithdrawnIsRefused DEF Sought
<1>3. /\ h \in Work /\ n \in Work
      /\ \A q \in {h, n} : Self(q) \in Rows /\ ~IsHandoff(Self(q)) /\ q \notin Downstream[m]
  BY <1>1, <1>2, QuestionFacts
<1>4. h \notin extraNeeds[m] /\ n \notin extraNeeds[m]
  BY <1>1, GrownFacts DEF AsksThrough
<1>5. \A q \in {h, n} : Self(q) # Self(m)
                        /\ (\A c \in extraNeeds[m] \cup Downstream[m] : Self(q) # Self(c))
  BY <1>2, <1>3, <1>4 DEF Self
<1>6. \A id \in Handoffs({n}) : /\ id \in Rows /\ id[1] \notin {m} \cup extraNeeds[m] \cup Downstream[m]
                                /\ \A c : id # Self(c)
  BY <1>2, <1>3, <1>4 DEF Handoffs, IsHandoff, Self
<1>7. ASSUME NEW q \in {h, n} PROVE node'[Self(q)] = node[Self(q)]
  BY <1>3, <1>5 DEF WithdrawMove
<1>8. ASSUME NEW id \in Handoffs({n}) PROVE node'[id] = node[id]
  <2>1. id \in Rows \ {Self(m)} /\ id[1] \notin {m} \cup extraNeeds[m] \cup Downstream[m]
    BY <1>6
  <2>2. (\A c \in extraNeeds[m] : id # Self(c)) /\ (\A d \in Downstream[m] : id # Self(d))
    BY <1>6
  <2> QED
    BY <2>1, <2>2 DEF WithdrawMove
<1> QED
  BY <1>7, <1>8

(* An answered question and a processed answer stay so, until one is refused. *)
LEMMA AnswerStays ==
    ASSUME Bookkeeping, [Next]_vars, NEW h, NEW n, AsksThrough(h, n), Versionless(h, n),
           Sought(h, n)', NEW q \in {h, n}, node[Self(q)] = "PASSED"
    PROVE  node'[Self(q)] = "PASSED"
<1>1. /\ TypeOK /\ GrownByOwner /\ h \in Work /\ n \in Work
      /\ \A w \in Work : h \notin Downstream[w] /\ (n \in Downstream[w] => w = h)
      /\ Self(q) \in Rows /\ ~IsHandoff(Self(q)) /\ Self(q) \notin wave
      /\ KindOf(Self(h)) = "human" /\ KindOf(Self(n)) = "work"
  BY QuestionFacts DEF Bookkeeping, WaveIsUndone
<1>2. ~Reopens(Self(q))
  BY <1>1 DEF Versionless, Reopens
<1>3. CASE GentleMove
  BY <1>1, <1>2, <1>3 DEF GentleMove
<1>4. ASSUME NEW id \in Rows, AnswerMove(id) PROVE node'[Self(q)] = "PASSED"
  <2>1. CASE id = Self(q)
    <3>1. q = h
      BY <1>1, <1>4, <2>1 DEF AnswerMove
    <3>2. node'[id] # "FAILED"
      BY <1>4, <2>1, <3>1 DEF AnswerMove, Refused, Sought
    <3> QED
      BY <1>1, <1>4, <2>1, <3>2 DEF AnswerMove
  <2>2. CASE id # Self(q)
    BY <1>1, <1>4, <2>2 DEF AnswerMove
  <2> QED
    BY <2>1, <2>2
<1>5. ASSUME NEW f \in Work, ExpandMove(f) PROVE node'[Self(q)] = "PASSED"
  <2>1. Self(q) # Self(f)
    BY <1>1, <1>5, SelfFacts DEF ExpandMove
  <2> QED
    BY <1>1, <1>5, <2>1 DEF ExpandMove
<1>6. ASSUME NEW w \in Work, NEW v \in Verdicts, VerdictMove(w, v)
      PROVE  node'[Self(q)] = "PASSED"
  <2>1. Self(q) # Self(w) /\ w # h
    BY <1>1, <1>6 DEF VerdictMove, VerdictOn, Terminal, Judged, AsksThrough
  <2>2. q \notin Downstream[w]
    BY <1>1, <2>1
  <2>3. Self(q) \notin Handoffs({w}) /\ \A d \in Downstream[w] : Self(q) # Self(d)
    BY <1>1, <2>2 DEF Handoffs, Self
  <2> QED
    BY <1>1, <1>2, <1>6, <2>1, <2>3 DEF VerdictMove, VerdictRows
<1>7. ASSUME NEW m \in Plan, WithdrawMove(m) PROVE node'[Self(q)] = "PASSED"
  BY <1>7, Unwithdrawn
<1> QED
  BY <1>3, <1>4, <1>5, <1>6, <1>7, StepMoves

(* Nothing is asked again on a row that is not in the wave.                   *)
LEMMA OpenShrinks ==
    ASSUME Bookkeeping, [Next]_vars, NEW h, NEW n, Versionless(h, n),
           NEW id \in Rows, id \notin wave, IsHandoff(id) \/ id \in {Self(h), Self(n)}
    PROVE  Open(approvals, {id})' \subseteq Open(approvals, {id})
<1>1. DecisionsStand
  BY DecisionsStay
<1> SUFFICES ASSUME NEW i \in Open(approvals, {id})' PROVE i \in Open(approvals, {id})
  OBVIOUS
<1>2. i \in DOMAIN approvals' /\ approvals'[i].node = id /\ approvals'[i].decision = "PENDING"
  BY DEF Open
<1>3. i \in DOMAIN approvals
  BY <1>1, <1>2 DEF DecisionsStand
<1>4. approvals[i].node = id /\ approvals[i].bound = {}
  BY <1>1, <1>2, <1>3 DEF DecisionsStand, Versionless
<1>5. approvals[i].decision = "PENDING"
  BY <1>1, <1>2, <1>3, <1>4 DEF DecisionsStand
<1> QED
  BY <1>3, <1>4, <1>5 DEF Open

(* Nothing escalated yet: the question does not exist, and nobody was asked.  *)
Unraised(h, n) ==
    /\ node[Self(h)] = "SKIPPED" /\ node[Self(n)] = "SKIPPED"
    /\ Handoffs({n}) = {} /\ Open(approvals, {Self(h)}) = {}

(* An escalation brings in the question and its processing together.          *)
LEMMA RaisedAsOne ==
    ASSUME Bookkeeping, [Next]_vars, NEW h, NEW n, AsksThrough(h, n), Sought(h, n)',
           Unraised(h, n)
    PROVE  \/ \A q \in {h, n} : node'[Self(q)] = "SKIPPED"
           \/ \A q \in {h, n} : node'[Self(q)] = "PENDING"
<1>1. /\ TypeOK /\ h \in Work /\ n \in Work
      /\ \A q \in {h, n} : /\ Self(q) \in Rows /\ ~IsHandoff(Self(q)) /\ Self(q) \notin wave
                           /\ node[Self(q)] = "SKIPPED"
      /\ KindOf(Self(h)) = "human" /\ KindOf(Self(n)) = "work"
      /\ \A w \in Work : Raised(w) \cap {h, n} # {} => {h, n} \subseteq Raised(w)
  BY QuestionFacts DEF Bookkeeping, WaveIsUndone, Unraised
<1>2. CASE GentleMove
  BY <1>1, <1>2 DEF GentleMove, Gentle
<1>3. ASSUME NEW id \in Rows, AnswerMove(id), NEW q \in {h, n}
      PROVE  node'[Self(q)] = "SKIPPED"
  <2>1. id # Self(q)
    BY <1>1, <1>3 DEF AnswerMove, Unraised
  <2> QED
    BY <1>1, <1>3, <2>1 DEF AnswerMove
<1>4. ASSUME NEW f \in Work, ExpandMove(f), NEW q \in {h, n}
      PROVE  node'[Self(q)] = "SKIPPED"
  <2>1. Self(q) # Self(f)
    BY <1>1, <1>4, SelfFacts DEF ExpandMove
  <2>2. \A c \in extraNeeds'[f] : Self(q) # Self(c)
    BY <1>4, PlanAssumption DEF ExpandMove, AsksThrough, Self
  <2> QED
    BY <1>1, <1>4, <2>1, <2>2 DEF ExpandMove
<1>5. ASSUME NEW w \in Work, NEW v \in Verdicts, VerdictMove(w, v)
      PROVE  \/ \A q \in {h, n} : node'[Self(q)] = "SKIPPED"
             \/ \A q \in {h, n} : node'[Self(q)] = "PENDING"
  <2>1. ASSUME NEW q \in {h, n}
        PROVE  \/ node'[Self(q)] = "SKIPPED"
               \/ node'[Self(q)] = "PENDING" /\ q \in Raised(w)
    <3>1. Self(q) # Self(w) /\ Self(q) \notin Handoffs({w})
      BY <1>1, <1>5 DEF VerdictMove, VerdictOn, Terminal, Handoffs
    <3>2. \A d \in Raised(w) : Self(q) = Self(d) => q = d
      BY DEF Self
    <3> QED
      BY <1>1, <1>5, <3>1, <3>2 DEF VerdictMove, VerdictRows
  <2>2. RaisedTogether(w, node)
    BY <1>5 DEF VerdictMove, VerdictRows
  <2>3. CASE \A d \in Raised(w) : Self(d) \in Rows => node'[Self(d)] # "SKIPPED"
    BY <1>1, <2>1, <2>3
  <2>4. CASE \A x \in Rows : node[x] = "SKIPPED" => node'[x] = "SKIPPED"
    BY <1>1, <2>4
  <2> QED
    BY <2>2, <2>3, <2>4 DEF RaisedTogether
<1>6. ASSUME NEW m \in Plan, WithdrawMove(m), NEW q \in {h, n}
      PROVE  node'[Self(q)] = "SKIPPED"
  BY <1>1, <1>6, Unwithdrawn
<1> QED
  BY <1>2, <1>3, <1>4, <1>5, <1>6, StepMoves

(* A handoff is inserted by a verdict on what it hands over, and no row goes. *)
LEMMA HandoffsGrow ==
    ASSUME Bookkeeping, [Next]_vars, NEW n \in Plan
    PROVE  /\ Rows \subseteq Rows'
           /\ Handoffs({n}) \subseteq Handoffs({n})'
           /\ Handoffs({n})' # Handoffs({n}) => \E v \in Verdicts : VerdictMove(n, v)
<1>1. Rows \subseteq Rows'
  BY StepMoves DEF GentleMove, AnswerMove, ExpandMove, VerdictMove, VerdictRows, WithdrawMove
<1>2. ASSUME NEW x \in Rows' \ Rows, IsHandoff(x), x[1] = n
      PROVE  \E v \in Verdicts : VerdictMove(n, v)
  <2>1. ASSUME NEW f \in Work, ExpandMove(f) PROVE FALSE
    BY <1>2, <2>1 DEF ExpandMove, IsHandoff, Self
  <2>2. ASSUME NEW w \in Work, NEW v \in Verdicts, VerdictMove(w, v) PROVE w = n
    BY <1>2, <2>2 DEF VerdictMove, VerdictRows, IsHandoff, Self
  <2> QED
    BY <1>2, <2>1, <2>2, StepMoves DEF GentleMove, AnswerMove, WithdrawMove
<1> QED
  BY <1>1, <1>2 DEF Handoffs, IsHandoff

LEMMA UnraisedStays ==
    ASSUME Bookkeeping, [Next]_vars, NEW h, NEW n, AsksThrough(h, n), Versionless(h, n),
           Sought(h, n)', Unraised(h, n)
    PROVE  \/ Unraised(h, n)'
           \/ /\ \A q \in {h, n} : node'[Self(q)] = "PENDING"
              /\ Self(n) \notin wave' /\ Handoffs({n})' = {}
<1>1. /\ n \in Plan /\ Self(h) \in Rows /\ Self(h) \notin wave /\ Self(n) \notin wave
  BY QuestionFacts DEF Bookkeeping, WaveIsUndone, Unraised, AsksThrough
<1>2. Handoffs({n})' = {}
  <2>1. ASSUME NEW v \in Verdicts, VerdictMove(n, v) PROVE FALSE
    BY <2>1 DEF VerdictMove, VerdictOn, Terminal, Unraised
  <2> QED
    BY <1>1, <2>1, HandoffsGrow DEF Unraised
<1>3. Self(n) \notin wave'
  <2>1. Self(n) \notin Ready
    BY DEF Ready, IsReady, Unraised
  <2> QED
    BY <1>1, <2>1, WaveStarts
<1>4. Open(approvals, {Self(h)})' = {}
  BY <1>1, OpenShrinks DEF Unraised
<1> QED
  BY <1>2, <1>3, <1>4, RaisedAsOne DEF Unraised

(* A question that was raised is never skipped again.                         *)
LEMMA RaisedStays ==
    ASSUME Bookkeeping, HandoffsJudged, [Next]_vars, NEW h, NEW n, AsksThrough(h, n),
           Sought(h, n)', node[Self(h)] # "SKIPPED"
    PROVE  node'[Self(h)] # "SKIPPED"
<1>1. /\ h \in Work /\ Self(h) \in Rows /\ ~IsHandoff(Self(h)) /\ KindOf(Self(h)) = "human"
  BY QuestionFacts DEF Bookkeeping
<1>2. CASE GentleMove
  BY <1>1, <1>2 DEF GentleMove, Gentle
<1>3. ASSUME NEW id \in Rows, AnswerMove(id) PROVE node'[Self(h)] # "SKIPPED"
  <2>1. IsHandoff(id) => Self(h) # Self(id[1])
    BY <1>1 DEF HandoffsJudged, Judged, Self, AsksThrough
  <2> QED
    BY <1>1, <1>3, <2>1 DEF AnswerMove
<1>4. ASSUME NEW f \in Work, ExpandMove(f) PROVE node'[Self(h)] # "SKIPPED"
  BY <1>1, <1>4 DEF ExpandMove
<1>5. ASSUME NEW w \in Work, NEW v \in Verdicts, VerdictMove(w, v)
      PROVE  node'[Self(h)] # "SKIPPED"
  <2>1. Self(h) # Self(w) /\ Self(h) \notin Handoffs({w})
    BY <1>1, <1>5 DEF VerdictMove, VerdictOn, Judged, Self, Handoffs, AsksThrough
  <2> QED
    BY <1>1, <1>5, <2>1 DEF VerdictMove, VerdictRows
<1>6. ASSUME NEW m \in Plan, WithdrawMove(m) PROVE node'[Self(h)] # "SKIPPED"
  BY <1>6, Unwithdrawn
<1> QED
  BY <1>2, <1>3, <1>4, <1>5, <1>6, StepMoves

(* The processing starts, and has a result, only once the question is         *)
(* answered.                                                                  *)
AnsweredFirst(h, n) ==
    Self(n) \in wave \/ node[Self(n)] \in {"PASSED", "FAILED", "ERRORED", "SKIPPED"}
    => node[Self(h)] = "PASSED"

(* Only a person who waives its failure skips work that was raised.           *)
LEMMA SkippedByWaiver ==
    ASSUME Bookkeeping, [Next]_vars, NEW h, NEW n, AsksThrough(h, n), Sought(h, n)',
           node[Self(n)] # "SKIPPED", node'[Self(n)] = "SKIPPED"
    PROVE  /\ node[Self(n)] \in {"FAILED", "ERRORED"}
           /\ \E id \in Handoffs({n}) : AnswerMove(id) /\ id[3] = "fail" /\ node'[id] = "PASSED"
<1>1. /\ n \in Work /\ Self(n) \in Rows /\ ~IsHandoff(Self(n)) /\ KindOf(Self(n)) = "work"
  BY QuestionFacts DEF Bookkeeping
<1>2. CASE GentleMove
  BY <1>1, <1>2 DEF GentleMove, Gentle
<1>3. ASSUME NEW id \in Rows, AnswerMove(id)
      PROVE  /\ node[Self(n)] \in {"FAILED", "ERRORED"}
             /\ id \in Handoffs({n}) /\ id[3] = "fail" /\ node'[id] = "PASSED"
  <2>1. id # Self(n)
    BY <1>1, <1>3 DEF AnswerMove
  <2>2. /\ node[Self(n)] \in {"FAILED", "ERRORED"} /\ node'[id] = "PASSED"
        /\ IsHandoff(id) /\ id[3] = "fail" /\ Self(n) = Self(id[1])
    BY <1>1, <1>3, <2>1 DEF AnswerMove
  <2>3. id[1] = n
    BY <2>2 DEF Self
  <2> QED
    BY <2>2, <2>3 DEF Handoffs
<1>4. ASSUME NEW f \in Work, ExpandMove(f) PROVE FALSE
  BY <1>1, <1>4 DEF ExpandMove
<1>5. ASSUME NEW w \in Work, NEW v \in Verdicts, VerdictMove(w, v) PROVE FALSE
  <2>1. Self(n) \notin Handoffs({w}) /\ StatusFor(v) # "SKIPPED"
    BY <1>1 DEF Handoffs, StatusFor
  <2> QED
    BY <1>1, <1>5, <2>1 DEF VerdictMove, VerdictRows
<1>6. ASSUME NEW m \in Plan, WithdrawMove(m) PROVE FALSE
  BY <1>6, Unwithdrawn
<1> QED
  BY <1>2, <1>3, <1>4, <1>5, <1>6, StepMoves

LEMMA AnsweredKept ==
    ASSUME Bookkeeping, [Next]_vars, NEW h, NEW n, AsksThrough(h, n), Versionless(h, n),
           Sought(h, n)', node[Self(h)] # "SKIPPED", AnsweredFirst(h, n)
    PROVE  AnsweredFirst(h, n)'
<1>1. n \in Plan /\ n \in Work /\ Node[n].kind = "work"
  BY PlanAssumption DEF AsksThrough
<1> SUFFICES ASSUME Self(n) \in wave' \/
                    node'[Self(n)] \in {"PASSED", "FAILED", "ERRORED", "SKIPPED"}
             PROVE  node'[Self(h)] = "PASSED"
  BY DEF AnsweredFirst
<1>2. CASE Self(n) \in wave'
  <2>1. CASE Self(n) \in Ready
    <3>1. Self(h) \in NeedsOf(Self(n))
      BY <1>1, SelfFacts DEF NeedsOf, AsksThrough
    <3> QED
      BY <2>1, <3>1, AnswerStays DEF Ready, IsReady, IsSatisfied, Terminal
  <2>2. CASE Self(n) \in wave
    BY <2>2, AnswerStays DEF AnsweredFirst
  <2> QED
    BY <1>2, <2>1, <2>2, WaveStarts
<1>3. CASE node'[Self(n)] \in {"PASSED", "FAILED", "ERRORED"}
  <2>1. \/ node'[Self(n)] = node[Self(n)]
        \/ Self(n) \in wave \/ node[Self(n)] \in {"FAILED", "ERRORED"}
    BY <1>1, <1>3, WorkEngages DEF VerdictMove, VerdictOn
  <2> QED
    BY <1>3, <2>1, AnswerStays DEF AnsweredFirst
<1>4. CASE node'[Self(n)] = "SKIPPED"
  <2>1. node[Self(n)] \in {"FAILED", "ERRORED", "SKIPPED"}
    BY <1>4, SkippedByWaiver
  <2> QED
    BY <2>1, AnswerStays DEF AnsweredFirst
<1> QED
  BY <1>2, <1>3, <1>4

(* Its answer is processed, its failure is waived for good, or each failure   *)
(* was put to a person once.                                                  *)
WaivedAt(id) == id[3] = "fail" /\ node[id] = "PASSED" /\ Open(approvals, {id}) = {}
PutOnce(n) == \A id \in Handoffs({n}) :
                  id \notin wave /\ \A i, j \in Open(approvals, {id}) : i = j
Processed(n) ==
    \/ node[Self(n)] = "PASSED"
    \/ \E id \in Handoffs({n}) : WaivedAt(id)
    \/ node[Self(n)] # "SKIPPED" /\ PutOnce(n)

(* A waiver stands until what was waived passes after all.                    *)
LEMMA WaivedAtStays ==
    ASSUME Bookkeeping, [Next]_vars, NEW h, NEW n, AsksThrough(h, n), Versionless(h, n),
           Sought(h, n)', NEW id \in Handoffs({n}), WaivedAt(id)
    PROVE  WaivedAt(id)' \/ node'[Self(n)] = "PASSED"
<1>1. /\ id \in Rows /\ IsHandoff(id) /\ id[1] = n /\ id \notin wave
      /\ KindOf(id) = "human" /\ node[id] = "PASSED"
  BY DEF Handoffs, WaivedAt, Bookkeeping, WaveIsUndone, KindOf
<1>2. Open(approvals, {id})' = {}
  BY <1>1, OpenShrinks DEF WaivedAt
<1>3. ~Reopens(id)
  BY <1>1 DEF Versionless, Reopens
<1>4. node'[id] = "PASSED" \/ node'[Self(n)] = "PASSED"
  <2>1. CASE GentleMove
    BY <1>1, <1>3, <2>1 DEF GentleMove
  <2>2. ASSUME NEW x \in Rows, AnswerMove(x) PROVE node'[id] = "PASSED"
    BY <1>1, <2>2 DEF AnswerMove, WaivedAt
  <2>3. ASSUME NEW f \in Work, ExpandMove(f) PROVE node'[id] = "PASSED"
    <3>1. id # Self(f)
      BY <1>1 DEF IsHandoff, Self
    <3> QED
      BY <1>1, <2>3, <3>1 DEF ExpandMove
  <2>4. ASSUME NEW w \in Work, NEW v \in Verdicts, VerdictMove(w, v)
        PROVE  node'[id] = "PASSED" \/ node'[Self(n)] = "PASSED"
    <3>1. \A d : id # Self(d)
      BY <1>1 DEF IsHandoff, Self
    <3>2. id \in Rows \ {Self(w)} /\ (\A d \in Downstream[w] : id # Self(d))
      BY <1>1, <3>1
    <3>3. node'[id] = "PASSED" \/ (v = "pass" /\ id \in Handoffs({w}))
      BY <1>1, <1>3, <2>4, <3>2 DEF VerdictMove, VerdictRows
    <3>4. id \in Handoffs({w}) => w = n
      BY <1>1 DEF Handoffs
    <3> QED
      BY <2>4, <3>3, <3>4 DEF VerdictMove, VerdictRows
  <2>5. ASSUME NEW m \in Plan, WithdrawMove(m) PROVE node'[id] = "PASSED"
    BY <1>1, <2>5, Unwithdrawn
  <2> QED
    BY <2>1, <2>2, <2>3, <2>4, <2>5, StepMoves
<1> QED
  BY <1>2, <1>4 DEF WaivedAt

(* While the processing is not done, a failure of it is put to a person once. *)
LEMMA PutOnceStays ==
    ASSUME Bookkeeping, Bookkeeping', [Next]_vars, NEW h, NEW n, AsksThrough(h, n),
           Versionless(h, n), node[Self(n)] \notin Terminal, PutOnce(n)
    PROVE  PutOnce(n)'
<1>1. DecisionsStand /\ TypeOK
  BY DecisionsStay DEF Bookkeeping
<1> SUFFICES ASSUME NEW id \in Handoffs({n})'
             PROVE  id \notin wave' /\ \A i, j \in Open(approvals, {id})' : i = j
  BY DEF PutOnce
<1>2. id \in Rows' /\ IsHandoff(id) /\ id[1] = n
  BY DEF Handoffs, IsHandoff
<1>3. CASE id \in Rows
  <2>1. id \in Handoffs({n}) /\ id \notin wave /\ \A i, j \in Open(approvals, {id}) : i = j
    BY <1>2, <1>3 DEF Handoffs, PutOnce
  <2>2. id \notin Ready
    BY <1>2 DEF Ready, IsReady, NeedsOf, IsSatisfied
  <2>3. Open(approvals, {id})' \subseteq Open(approvals, {id})
    BY <1>2, <1>3, <2>1, OpenShrinks
  <2> QED
    BY <2>1, <2>2, <2>3, WaveStarts
<1>4. CASE id \notin Rows
  <2>1. id \notin Ready /\ id \notin wave
    BY <1>1, <1>4 DEF Ready, TypeOK
  <2>2. \A i \in Open(approvals, {id})' : i \in DOMAIN approvals' \ DOMAIN approvals
    BY <1>1, <1>4 DEF DecisionsStand, Open, TypeOK
  <2>3. \A i, j \in Open(approvals, {id})' : i = j
    BY <1>1, <2>2 DEF DecisionsStand
  <2> QED
    BY <2>1, <2>3, WaveStarts
<1> QED
  BY <1>3, <1>4

(* The approval that waives it leaves nothing open.                           *)
LEMMA WaiverCloses ==
    ASSUME Bookkeeping, [Next]_vars, NEW n \in Plan, PutOnce(n),
           NEW id \in Handoffs({n}), AnswerMove(id), id[3] = "fail", node'[id] = "PASSED"
    PROVE  id \in Handoffs({n})' /\ WaivedAt(id)'
<1>1. /\ approvals \in Seq(Approval) /\ clock \in Nat /\ "APPROVED" \in Decisions
  BY DEF Bookkeeping, TypeOK, Decisions
<1>2. /\ approvals' = Decide(approvals, FirstOpen(id), "APPROVED")
      /\ Open(approvals, {id}) # {}
  BY DEF AnswerMove
<1>3. PICK i : i \in FirstOpen(id) /\ i \in Open(approvals, {id})
  BY <1>1, <1>2, FirstIsOpen
<1>4. \A j \in Open(approvals, {id}) : j = i
  BY <1>3 DEF PutOnce
<1>5. ASSUME NEW j \in Open(approvals, {id})' PROVE FALSE
  <2>1. j \in DOMAIN approvals' /\ approvals'[j].node = id /\ approvals'[j].decision = "PENDING"
    BY <1>5 DEF Open
  <2>2. j \in DOMAIN approvals /\ approvals[j].node = id
        /\ j \notin FirstOpen(id) /\ approvals[j].decision = "PENDING"
    BY <1>1, <1>2, <2>1, DecideFacts
  <2> QED
    BY <1>3, <1>4, <2>2 DEF Open
<1>6. id \in Handoffs({n})'
  BY HandoffsGrow
<1> QED
  BY <1>5, <1>6 DEF WaivedAt

LEMMA ProcessedKept ==
    ASSUME Bookkeeping, Bookkeeping', [Next]_vars, NEW h, NEW n, AsksThrough(h, n),
           Versionless(h, n), Sought(h, n)', Processed(n)
    PROVE  Processed(n)'
<1>1. n \in Plan
  BY DEF AsksThrough
<1>2. CASE node[Self(n)] = "PASSED"
  BY <1>2, AnswerStays DEF Processed
<1>3. ASSUME NEW id \in Handoffs({n}), WaivedAt(id) PROVE Processed(n)'
  BY <1>1, <1>3, WaivedAtStays, HandoffsGrow DEF Processed
<1>4. CASE node[Self(n)] \notin Terminal /\ PutOnce(n)
  <2>1. CASE node'[Self(n)] = "SKIPPED"
    <3>1. PICK id \in Handoffs({n}) : AnswerMove(id) /\ id[3] = "fail" /\ node'[id] = "PASSED"
      BY <1>4, <2>1, SkippedByWaiver DEF Terminal
    <3> QED
      BY <1>1, <1>4, <3>1, WaiverCloses DEF Processed
  <2>2. CASE node'[Self(n)] # "SKIPPED"
    BY <1>4, <2>2, PutOnceStays DEF Processed
  <2> QED
    BY <2>1, <2>2
<1> QED
  BY <1>2, <1>3, <1>4 DEF Processed, Terminal

(* Unless one of the two was refused: the question does not exist yet, or it  *)
(* comes before its processing.                                               *)
QuestionFirst(h, n) ==
    /\ Versionless(h, n)
    /\ Sought(h, n) => \/ Unraised(h, n)
                       \/ node[Self(h)] # "SKIPPED" /\ AnsweredFirst(h, n) /\ Processed(n)

LEMMA QuestionFirstKept ==
    ASSUME Bookkeeping, Bookkeeping', HandoffsJudged, [Next]_vars, NEW h, NEW n,
           AsksThrough(h, n), QuestionFirst(h, n)
    PROVE  QuestionFirst(h, n)'
<1>1. Versionless(h, n) /\ Versionless(h, n)'
  BY VersionlessKept DEF QuestionFirst
<1> SUFFICES ASSUME Sought(h, n)'
             PROVE  \/ Unraised(h, n)'
                    \/ node'[Self(h)] # "SKIPPED" /\ AnsweredFirst(h, n)' /\ Processed(n)'
  BY <1>1 DEF QuestionFirst
<1>2. Sought(h, n)
  BY <1>1, RefusedStays DEF Sought
<1>3. CASE Unraised(h, n)
  <2>1. \/ Unraised(h, n)'
        \/ /\ node'[Self(h)] = "PENDING" /\ node'[Self(n)] = "PENDING"
           /\ Self(n) \notin wave' /\ Handoffs({n})' = {}
    BY <1>1, <1>3, UnraisedStays
  <2> QED
    BY <2>1 DEF AnsweredFirst, Processed, PutOnce
<1>4. CASE node[Self(h)] # "SKIPPED" /\ AnsweredFirst(h, n) /\ Processed(n)
  BY <1>1, <1>4, RaisedStays, AnsweredKept, ProcessedKept
<1> QED
  BY <1>2, <1>3, <1>4 DEF QuestionFirst

LEMMA QuestionFirstInit ==
    ASSUME ConsoleInit, NEW h, NEW n, AsksThrough(h, n)
    PROVE  QuestionFirst(h, n)
<1>1. TypeOK /\ n \in Work /\ h \in Work
  BY InitHolds, PlanAssumption DEF Bookkeeping, AsksThrough
<1>2. approvals = <<>> /\ node[Self(h)] = "SKIPPED" /\ node[Self(n)] = "SKIPPED"
  BY <1>1, SelfFacts DEF ConsoleInit, Init, AsksThrough
<1>3. Handoffs({n}) = {}
  BY DEF ConsoleInit, Init, Handoffs, Rows, IsHandoff, Self
<1>4. DOMAIN approvals = {}
  BY <1>2
<1>5. Versionless(h, n) /\ Open(approvals, {Self(h)}) = {}
  BY <1>4 DEF Versionless, Open
<1> QED
  BY <1>2, <1>3, <1>5 DEF QuestionFirst, Unraised

(* Work d starts after the question was answered and the answer processed (or *)
(* its processing waived), once the question was raised, unless a person      *)
(* refused or withdrew either.                                                *)
AnswerFirst(h, n, d) ==
    phase = "wave" /\ Self(d) \in wave /\ node[Self(h)] # "SKIPPED" /\ Sought(h, n)
    => \A q \in {h, n} : Passed(q) \/ Waived(q)

LEMMA HeldByQuestion ==
    ASSUME TypeOK, NEW h, NEW n, AsksThrough(h, n), QuestionFirst(h, n), WaveReady,
           NEW d \in Work, n \in Node[d].needs
    PROVE  AnswerFirst(h, n, d)
<1> SUFFICES ASSUME phase = "wave", Self(d) \in wave, node[Self(h)] # "SKIPPED", Sought(h, n)
             PROVE  \A q \in {h, n} : Passed(q) \/ Waived(q)
  BY DEF AnswerFirst
<1>1. Self(h) \in Rows /\ Self(n) \in Rows
  BY QuestionFacts
<1>2. AnsweredFirst(h, n) /\ Processed(n)
  BY DEF QuestionFirst, Unraised
<1>3. Self(n) \in NeedsOf(Self(d))
  BY SelfFacts DEF NeedsOf
<1>4. node[Self(n)] \in {"PASSED", "SKIPPED"}
  BY <1>3 DEF WaveReady, IsSatisfied, Terminal
<1>5. Passed(h)
  BY <1>1, <1>2, <1>4 DEF AnsweredFirst, Passed
<1>6. Passed(n) \/ Waived(n)
  BY <1>1, <1>2, <1>4 DEF Processed, WaivedAt, Passed, Waived
<1> QED
  BY <1>5, <1>6

QuestionAsked(h, n) == Bookkeeping /\ HandoffsJudged /\ WaveReady /\ QuestionFirst(h, n)

LEMMA QuestionInvariant ==
    ASSUME NEW h, NEW n, AsksThrough(h, n)
    PROVE  Spec => []QuestionAsked(h, n)
<1>1. ConsoleInit => QuestionAsked(h, n)
  BY InitHolds, HandoffsJudgedInit, QuestionFirstInit
  DEF QuestionAsked, ConsoleInit, Init, WaveReady
<1>2. QuestionAsked(h, n) /\ [Next]_vars => QuestionAsked(h, n)'
  BY NextKeeps, HandoffsJudgedKept, WaveReadyKept, QuestionFirstKept DEF QuestionAsked
<1> QED
  BY <1>1, <1>2, PTL DEF Spec

(* Work that waits for the processing of an optional question starts after    *)
(* the question, whatever crashes, is retried, re-run or withdrawn before.    *)
THEOREM RaisedQuestionsAreAnswered ==
    ASSUME NEW h, NEW n, AsksThrough(h, n), NEW d \in Work, n \in Node[d].needs
    PROVE  Spec => []AnswerFirst(h, n, d)
<1>1. QuestionAsked(h, n) => AnswerFirst(h, n, d)
  BY HeldByQuestion DEF QuestionAsked, Bookkeeping
<1> QED
  BY <1>1, QuestionInvariant, PTL

(* A plan with one such question, where all that follows a node that raises   *)
(* it waits for its processing.                                               *)
HeldByOne(h, n) ==
    /\ AsksThrough(h, n)
    /\ {q \in Downstream[h] : Node[q].optional} = {n}
    /\ \A w \in Plan : Node[w].onEscalate # NoNode =>
          /\ Node[w].onEscalate = h
          /\ \A d \in Downstream[w] \ {h, n} : n \in Node[d].needs

(* In such a plan a raised question holds all the work behind it.             *)
THEOREM QuestionHoldsWorkHolds ==
    ASSUME NEW h, NEW n, HeldByOne(h, n)
    PROVE  Spec => []QuestionHoldsWork
<1>1. AsksThrough(h, n)
  BY DEF HeldByOne
<1>2. ASSUME QuestionAsked(h, n) PROVE QuestionHoldsWork
  <2> SUFFICES ASSUME phase = "wave", NEW w \in Plan, Node[w].onEscalate # NoNode,
                      node[Self(h)] # "SKIPPED", Sought(h, n),
                      NEW d \in Downstream[w] \ {h, n}, Self(d) \in wave
               PROVE  \A q \in {h, n} : Passed(q) \/ Waived(q)
    BY DEF QuestionHoldsWork, HeldByOne, Sought
  <2>1. d \in Work /\ n \in Node[d].needs
    BY PlanAssumption DEF HeldByOne, Downstream
  <2>2. AnswerFirst(h, n, d)
    BY <1>1, <1>2, <2>1, HeldByQuestion DEF QuestionAsked, Bookkeeping
  <2> QED
    BY <2>2 DEF AnswerFirst
<1> QED
  BY <1>1, <1>2, QuestionInvariant, PTL

-------------------------------------------------------------------------------
(* Evidence that was replaced.                                                *)

(* What w reads and does work, w waits for itself; it is not optional, and no *)
(* re-derivation behind its back makes it stale.                              *)
ReadsNeeds(w) ==
    \A d \in Reads(w) : Judged(d) =>
        /\ d \in Node[w].needs /\ ~Node[d].optional
        /\ \A u \in Work : Node[u].qualified => d \notin Downstream[u]

(* What w works from, or has a result of, is what there is, and it is done.   *)
ReadsStand ==
    \A w \in Work : Judged(w) /\ ReadsNeeds(w) /\
        (Self(w) \in wave \/
            (Self(w) \in Rows /\ node[Self(w)] \in {"PASSED", "FAILED", "ERRORED"}))
        => \A d \in Reads(w) :
              used[w][d] = version[d] /\ (Judged(d) => IsSatisfied(Self(d)))

(* Work is dispatched from the versions there are.                            *)
LEMMA DispatchReads ==
    ASSUME Bookkeeping, ReadsStand, Dispatch
    PROVE  ReadsStand'
<1>1. /\ wave' = Ready /\ version' = version /\ Rows' = Rows /\ TypeOK
      /\ \A w \in Work : used'[w] = IF Self(w) \in Ready THEN Material(w) ELSE used[w]
      /\ \A x \in Rows \ Ready : node'[x] = node[x]
      /\ \A x \in Ready : node'[x] \in {"RUNNING", node[x]} /\ node[x] \in {"PENDING", "STALE"}
  BY DEF Dispatch, Ready, IsReady, Rows, Bookkeeping
<1>2. \A x \in Rows : IsSatisfied(x) => IsSatisfied(x)'
  BY <1>1 DEF IsSatisfied, Terminal
<1> SUFFICES ASSUME NEW w \in Work, Judged(w), ReadsNeeds(w),
                    \/ Self(w) \in wave'
                    \/ Self(w) \in Rows' /\ node'[Self(w)] \in {"PASSED", "FAILED", "ERRORED"},
                    NEW d \in Reads(w)
             PROVE  used'[w][d] = version'[d] /\ (Judged(d) => IsSatisfied(Self(d))')
  BY DEF ReadsStand, Judged, ReadsNeeds, Reads
<1>3. d \in Plan /\ Self(d) \in Rows
  BY <1>1, PlanAssumption DEF Reads, NodeFields, TypeOK
<1>4. CASE Self(w) \in Ready
  <2>1. used'[w][d] = version[d]
    BY <1>1, <1>3, <1>4 DEF Material
  <2>2. ASSUME Judged(d) PROVE IsSatisfied(Self(d))
    <3>1. Self(d) \in NeedsOf(Self(w))
      BY <2>2, SelfFacts DEF NeedsOf, ReadsNeeds
    <3> QED
      BY <1>4, <3>1 DEF Ready, IsReady
  <2> QED
    BY <1>1, <1>2, <1>3, <2>1, <2>2
<1>5. CASE Self(w) \notin Ready
  <2>1. used[w][d] = version[d] /\ (Judged(d) => IsSatisfied(Self(d)))
    BY <1>1, <1>5 DEF ReadsStand
  <2> QED
    BY <1>1, <1>2, <1>3, <1>5, <2>1
<1> QED
  BY <1>4, <1>5

(* Only a dispatch says what work was computed from.                          *)
LEMMA UsedStays ==
    ASSUME [Next]_vars
    PROVE  Dispatch \/ used' = used
<1>1. CASE Driver
  BY <1>1 DEF Driver, BlockForHuman, Expand, RecordWork, RecordBundle, Recorded, ExpandRaises,
              Settle
<1>2. CASE Resume \/ Crash
  BY <1>2 DEF Resume, Crash
<1>3. CASE Operator
  BY <1>3 DEF Operator, Approve, Reject, Retry, Invalidate, RecheckPasses, RecheckFails,
              Rechecking, Stop, Rollback, Command
<1>4. CASE UNCHANGED vars
  BY <1>4 DEF vars
<1> QED
  BY <1>1, <1>2, <1>3, <1>4 DEF Next

(* What does work gets a result from a verdict on it only.                    *)
LEMMA ResultIsVerdict ==
    ASSUME Bookkeeping, [Next]_vars, NEW w \in Work, Judged(w), Self(w) \in Rows',
           node'[Self(w)] \in {"PASSED", "FAILED", "ERRORED"}
    PROVE  \/ Self(w) \in Rows /\ node'[Self(w)] = node[Self(w)]
           \/ \E v \in Verdicts : VerdictMove(w, v)
<1>1. ~IsHandoff(Self(w)) /\ KindOf(Self(w)) \in {"work", "bundle"} /\ Rows \subseteq Ids
  BY SelfFacts DEF Judged, Bookkeeping, TypeOK
<1>2. CASE GentleMove
  BY <1>1, <1>2 DEF GentleMove, Gentle
<1>3. ASSUME NEW id \in Rows, AnswerMove(id)
      PROVE  Self(w) \in Rows /\ node'[Self(w)] = node[Self(w)]
  BY <1>1, <1>3 DEF AnswerMove
<1>4. ASSUME NEW f \in Work, ExpandMove(f)
      PROVE  Self(w) \in Rows /\ node'[Self(w)] = node[Self(w)]
  <2>1. Self(w) # Self(f)
    BY <1>1, <1>4, SelfFacts DEF ExpandMove
  <2> QED
    BY <1>1, <1>4, <2>1 DEF ExpandMove
<1>5. ASSUME NEW u \in Work, NEW v \in Verdicts, VerdictMove(u, v), u # w
      PROVE  Self(w) \in Rows /\ node'[Self(w)] = node[Self(w)]
  <2>1. Self(w) # Self(u)
    BY <1>5, SelfFacts
  <2> QED
    BY <1>1, <1>5, <2>1 DEF VerdictMove, VerdictRows
<1>6. ASSUME NEW n \in Plan, WithdrawMove(n)
      PROVE  Self(w) \in Rows /\ node'[Self(w)] = node[Self(w)]
  BY <1>1, <1>6 DEF WithdrawMove
<1> QED
  BY <1>2, <1>3, <1>4, <1>5, <1>6, StepMoves

(* Only a verdict records a version, of what was not done.                    *)
LEMMA VersionStays ==
    ASSUME Bookkeeping, [Next]_vars, NEW d \in Plan, Judged(d) => IsSatisfied(Self(d))
    PROVE  version'[d] = version[d]
<1>1. d \in Work
  BY PlanAssumption
<1>2. ASSUME NEW u \in Work, NEW v \in Verdicts, VerdictMove(u, v) PROVE u # d
  BY <1>2 DEF VerdictMove, VerdictOn, IsSatisfied
<1> QED
  BY <1>1, <1>2, StepMoves
  DEF GentleMove, AnswerMove, ExpandMove, VerdictMove, VerdictSources, WithdrawMove

LEMMA ReadsStandKept ==
    ASSUME Bookkeeping, Bookkeeping', ReadsStand, [Next]_vars
    PROVE  ReadsStand'
<1>1. CASE Dispatch
  BY <1>1, DispatchReads
<1>2. CASE used' = used /\ ~Dispatch
  <2> SUFFICES ASSUME NEW w \in Work, Judged(w), ReadsNeeds(w),
                      \/ Self(w) \in wave'
                      \/ Self(w) \in Rows' /\ node'[Self(w)] \in {"PASSED", "FAILED", "ERRORED"},
                      NEW d \in Reads(w)
               PROVE  used'[w][d] = version'[d] /\ (Judged(d) => IsSatisfied(Self(d))')
    BY DEF ReadsStand, Judged, ReadsNeeds, Reads
  <2>1. d \in Plan /\ d \in Work /\ Self(d) \in Rows /\ Self(d) \in Rows'
    BY PlanAssumption DEF Reads, NodeFields, Bookkeeping, TypeOK
  <2>2. \/ Self(w) \in wave
        \/ Self(w) \in Rows /\ node[Self(w)] \in {"PASSED", "FAILED", "ERRORED"}
    <3>1. CASE Self(w) \in wave'
      BY <1>2, <3>1, WaveStarts
    <3>2. CASE Self(w) \in Rows' /\ node'[Self(w)] \in {"PASSED", "FAILED", "ERRORED"}
      BY <3>2, ResultIsVerdict DEF VerdictMove, VerdictOn
    <3> QED
      BY <3>1, <3>2
  <2>3. used[w][d] = version[d] /\ (Judged(d) => IsSatisfied(Self(d)))
    BY <2>2 DEF ReadsStand
  <2>4. used'[w][d] = version'[d]
    BY <1>2, <2>1, <2>3, VersionStays
  <2>5. ASSUME Judged(d) PROVE IsSatisfied(Self(d))'
    <3>1. /\ d \in Node[w].needs /\ ~Node[d].optional
          /\ \A u \in Work : Node[u].qualified => d \notin Downstream[u]
      BY <2>5 DEF ReadsNeeds
    <3>2. w \in Plan /\ w \in Downstream[d]
      BY <2>1, <3>1, PlanAssumption, DependentIsDownstream
    <3>3. \A n \in Plan : d \in Downstream[n] => w \in Downstream[n]
      BY <2>1, <3>2, DownstreamFollows, PlanAssumption
    <3>4. ASSUME NEW n \in Plan, WithdrawMove(n), n = d \/ d \in Downstream[n] PROVE FALSE
      <4>1. w \in Downstream[n]
        BY <3>2, <3>3, <3>4
      <4>2. Self(w) \in Rows /\ wave' = {} /\ Rows' = Rows
        BY <3>2, <3>4 DEF WithdrawMove, Bookkeeping, TypeOK
      <4> QED
        BY <3>4, <4>1, <4>2 DEF WithdrawMove
    <3>5. node'[Self(d)] = node[Self(d)]
      BY <2>1, <2>3, <2>5, <3>1, <3>4, DoneStays DEF IsSatisfied
    <3> QED
      BY <2>1, <2>3, <2>5, <3>5 DEF IsSatisfied
  <2> QED
    BY <2>4, <2>5
<1> QED
  BY <1>1, <1>2, UsedStays

LEMMA ReadsInvariant == Spec => [](Bookkeeping /\ ReadsStand)
<1>1. ConsoleInit => Bookkeeping /\ ReadsStand
  <2>1. ConsoleInit => ReadsStand
    BY DEF ConsoleInit, Init, Rows, ReadsStand
  <2> QED
    BY <2>1, InitHolds
<1>2. Bookkeeping /\ ReadsStand /\ [Next]_vars => (Bookkeeping /\ ReadsStand)'
  BY NextKeeps, ReadsStandKept
<1> QED
  BY <1>1, <1>2, PTL DEF Spec

(* A green result of w was computed from the versions there are, also while   *)
(* the run goes on.                                                           *)
CurrentAt(w) == Passed(w) => \A d \in Reads(w) : used[w][d] = version[d]

(* So it is for work that waits for all it reads.                             *)
THEOREM GreenIsCurrentAt ==
    ASSUME NEW w \in Work, Judged(w), ReadsNeeds(w)
    PROVE  Spec => []CurrentAt(w)
<1>1. ReadsStand => CurrentAt(w)
  BY DEF ReadsStand, CurrentAt, Passed
<1> QED
  BY <1>1, ReadsInvariant, PTL

(* In a plan where all work does, every green result of a completed run was   *)
(* computed from the versions that exist.                                     *)
THEOREM GreenIsCurrentHolds ==
    ASSUME \A w \in Work : Judged(w) => ReadsNeeds(w)
    PROVE  Spec => []GreenIsCurrent
<1>1. ReadsStand => GreenIsCurrent
  BY DEF ReadsStand, GreenIsCurrent, Passed
<1> QED
  BY <1>1, ReadsInvariant, PTL

-------------------------------------------------------------------------------
(* The contract of a run: every step of the engine and of the console is a    *)
(* step of RunContract, or one it does not see.                               *)

(* What the contract sees of a node, read off its row and the wave.           *)
LEMMA StageFacts ==
    ASSUME Bookkeeping, NEW w \in Plan
    PROVE  /\ w \in Work /\ Self(w) \in Rows
           /\ Stage(w) = "running" <=> Self(w) \in wave
           /\ Stage(w) = "done"    <=> node[Self(w)] = "PASSED"
           /\ Stage(w) = "skipped" <=> node[Self(w)] = "SKIPPED"
           /\ Stage(w) = "asked"   <=> node[Self(w)] = "BLOCKED"
           /\ Stage(w) = "open"    <=> /\ Self(w) \notin wave
                                       /\ node[Self(w)] \notin {"PASSED", "SKIPPED", "BLOCKED"}
BY PlanAssumption DEF Stage, Bookkeeping, TypeOK, WaveIsUndone

LEMMA StageFactsLater ==
    ASSUME Bookkeeping', NEW w \in Plan
    PROVE  /\ Self(w) \in Rows'
           /\ Stage(w)' = "running" <=> Self(w) \in wave'
           /\ Stage(w)' = "done"    <=> node'[Self(w)] = "PASSED"
           /\ Stage(w)' = "skipped" <=> node'[Self(w)] = "SKIPPED"
           /\ Stage(w)' = "asked"   <=> node'[Self(w)] = "BLOCKED"
           /\ Stage(w)' = "open"    <=> /\ Self(w) \notin wave'
                                        /\ node'[Self(w)] \notin {"PASSED", "SKIPPED", "BLOCKED"}
BY PlanAssumption DEF Stage, Bookkeeping, TypeOK, WaveIsUndone

(* A node has an open question.                                               *)
Questioned(w) == Open(approvals, {Self(w)}) # {}

(* A step that the contract does not see.                                     *)
LEMMA Unseen ==
    ASSUME phase' = phase, \A w \in Plan : Stage(w)' = Stage(w),
           \A w \in Plan : Questioned(w)' <=> Questioned(w)
    PROVE  UNCHANGED Contract!vars
BY DEF Contract!vars, Questioned

(* What becomes of the open questions about authored nodes when some are      *)
(* closed or asked again, and something is noted or asked of a handoff.       *)
LEMMA QuestionsAsked ==
    ASSUME approvals \in Seq(Approval), NEW id \in Ids, NEW bound \in SUBSET (Plan \X Nat),
           approvals' = Ask(approvals, id, bound)
    PROVE  \A w \in Plan : Questioned(w)' <=> Questioned(w) \/ id = Self(w)
<1>1. PICK t : t = Ask(approvals, id, bound)
  OBVIOUS
<1>2. /\ DOMAIN approvals \subseteq DOMAIN t /\ \A i \in DOMAIN approvals : t[i] = approvals[i]
      /\ Len(approvals) + 1 \in DOMAIN t
      /\ \A i \in DOMAIN t \ DOMAIN approvals : t[i].node = id /\ t[i].decision = "PENDING"
  BY <1>1, AskFacts
<1>3. Len(approvals) + 1 \in DOMAIN t \ DOMAIN approvals
  BY <1>2
<1> QED
  BY <1>1, <1>2, <1>3 DEF Questioned, Open

LEMMA QuestionsReverted ==
    ASSUME approvals \in Seq(Approval), NEW I \in SUBSET DOMAIN approvals,
           NEW ap, ap = Reverted(approvals, I),
           \/ approvals' = ap
           \/ \E id \in Ids : IsHandoff(id) /\ approvals' = Ask(ap, id, {})
    PROVE  \A w \in Plan : Questioned(w)' <=> \/ Questioned(w)
                                              \/ \E i \in I : approvals[i].node = Self(w)
<1>1. /\ ap \in Seq(Approval) /\ DOMAIN ap = DOMAIN approvals
      /\ \A i \in DOMAIN approvals :
            /\ ap[i].node = approvals[i].node
            /\ ap[i].decision = IF i \in I THEN "PENDING" ELSE approvals[i].decision
  BY RevertFacts
<1>2. CASE approvals' = ap
  BY <1>1, <1>2 DEF Questioned, Open
<1>3. ASSUME NEW id \in Ids, IsHandoff(id), approvals' = Ask(ap, id, {})
      PROVE  \A w \in Plan : Questioned(w)' <=> \/ Questioned(w)
                                                \/ \E i \in I : approvals[i].node = Self(w)
  <2>1. PICK t : t = Ask(ap, id, {})
    OBVIOUS
  <2>2. /\ DOMAIN ap \subseteq DOMAIN t /\ \A i \in DOMAIN ap : t[i] = ap[i]
        /\ \A i \in DOMAIN t \ DOMAIN ap : t[i].node = id
    BY <1>1, <2>1, AskFacts
  <2>3. \A w : id # Self(w)
    BY <1>3 DEF IsHandoff, Self
  <2> QED
    BY <1>1, <1>3, <2>1, <2>2, <2>3 DEF Questioned, Open
<1> QED
  BY <1>2, <1>3

LEMMA QuestionsClosed ==
    ASSUME approvals \in Seq(Approval), clock \in Nat, NEW I,
           NEW d \in Decisions \ {"PENDING"}, NEW ap, ap = Decide(approvals, I, d),
           \/ approvals' = ap
           \/ \E id \in Ids, noted \in Decisions \ {"PENDING"} : approvals' = Noted(ap, id, noted)
    PROVE  \A w \in Plan : Open(approvals, {Self(w)})' = Open(approvals, {Self(w)}) \ I
<1>1. /\ ap \in Seq(Approval) /\ DOMAIN ap = DOMAIN approvals
      /\ \A i \in DOMAIN approvals :
            /\ ap[i].node = approvals[i].node
            /\ ap[i].decision = IF i \in I THEN d ELSE approvals[i].decision
  BY DecideFacts
<1>2. CASE approvals' = ap
  BY <1>1, <1>2 DEF Open
<1>3. ASSUME NEW id \in Ids, NEW noted \in Decisions \ {"PENDING"}, approvals' = Noted(ap, id, noted)
      PROVE  \A w \in Plan : Open(approvals, {Self(w)})' = Open(approvals, {Self(w)}) \ I
  <2>1. PICK t : t = Noted(ap, id, noted)
    OBVIOUS
  <2>2. /\ DOMAIN ap \subseteq DOMAIN t /\ \A i \in DOMAIN ap : t[i] = ap[i]
        /\ \A i \in DOMAIN t \ DOMAIN ap : t[i].decision = noted
    BY <1>1, <2>1, NotedFacts
  <2> QED
    BY <1>1, <1>3, <2>1, <2>2 DEF Open
<1> QED
  BY <1>2, <1>3

LEMMA NothingReverted ==
    ASSUME approvals \in Seq(Approval)
    PROVE  approvals = Reverted(approvals, {})
BY DEF Reverted

-------------------------------------------------------------------------------
(* The driver.                                                                *)

(* A dispatched wave starts nodes whose needs are settled, all of it at once. *)
LEMMA DispatchStarts ==
    ASSUME Bookkeeping, Bookkeeping', Dispatch
    PROVE  \E S \in SUBSET Plan : Contract!Start(S)
<1> DEFINE S == {w \in Plan : Self(w) \in Ready}
<1>1. /\ phase = "loop" /\ phase' = "wave" /\ wave' = Ready /\ wave = {}
      /\ UNCHANGED decideVars
  BY DEF Dispatch, Bookkeeping, TypeOK
<1>2. \A x \in Rows : node'[x] = IF x \in Ready /\ KindOf(x) \notin {"human", "fanout"}
                                 THEN "RUNNING" ELSE node[x]
  BY DEF Dispatch
<1>3. \A x \in Ready : x \in Rows /\ node[x] \in {"PENDING", "STALE"}
  BY DEF Ready, IsReady
<1>4. ASSUME NEW w \in Plan
      PROVE  Stage(w)' = IF w \in S /\ Stage(w) = "open" THEN "running" ELSE Stage(w)
  BY <1>1, <1>2, <1>3, <1>4, StageFacts, StageFactsLater DEF Stage
<1>5. ASSUME NEW w \in S
      PROVE  Stage(w) = "open" /\ \A d \in Node[w].needs : Stage(d) \in {"done", "skipped"}
  <2>1. Stage(w) = "open"
    BY <1>1, <1>3, <1>5, StageFacts
  <2>2. ASSUME NEW d \in Node[w].needs PROVE Stage(d) \in {"done", "skipped"}
    <3>1. d \in Plan
      BY <1>5, PlanAssumption DEF NodeFields
    <3>2. IsSatisfied(Self(d))
      BY <1>5, SelfFacts, PlanAssumption DEF Ready, IsReady, NeedsOf
    <3> QED
      BY <3>1, <3>2, StageFacts DEF IsSatisfied, Terminal
  <2> QED
    BY <2>1, <2>2
<1>6. \A w \in Plan : Stage(w) # "running" /\ Node[w].needs \subseteq Plan
  BY <1>1, StageFacts, PlanAssumption DEF NodeFields
<1> HIDE DEF S
<1>7. S \in SUBSET Plan
  BY DEF S
<1>8. [w \in Plan |-> Stage(w)]' = Contract!Moved([w \in Plan |-> Stage(w)], S, {"open"}, "running")
  BY <1>4 DEF Contract!Moved
<1> QED
  BY <1>1, <1>5, <1>6, <1>7, <1>8
  DEF Contract!Start, Contract!Driving, Contract!Running, Contract!Settled

(* However a process ends, what ran is to be done again.                      *)
LEMMA EndLeaves ==
    ASSUME Bookkeeping, Bookkeeping', Crash \/ ExpandRaises \/ Settle
    PROVE  Contract!Leave
<1>1. /\ phase # "parked" /\ phase' = "parked" /\ wave' = {} /\ node' = node
      /\ approvals' = approvals
  BY DEF Crash, ExpandRaises, Settle, Bookkeeping, TypeOK
<1>2. ASSUME NEW w \in Plan
      PROVE  Stage(w)' = IF Stage(w) = "running" THEN "open" ELSE Stage(w)
  <2>1. Self(w) \in wave => node[Self(w)] \in {"PENDING", "RUNNING", "STALE"}
    BY DEF Bookkeeping, WaveIsUndone
  <2> QED
    BY <1>1, <2>1 DEF Stage
<1> QED
  BY <1>1, <1>2 DEF Contract!Leave, Contract!Moved, Open

(* Taking over re-opens the checkpoints whose approval is stale, only those.  *)
LEMMA ResumeTakesOver ==
    ASSUME Bookkeeping, Bookkeeping', Resume
    PROVE  \E R \in SUBSET {w \in Plan : Node[w].kind = "human"} : Contract!TakeOver(R)
<1>1. TypeOK /\ PeopleAreAsked
  BY DEF Bookkeeping
<1>2. PICK stale : stale = StaleApprovals(approvals, version)
  OBVIOUS
<1>3. /\ phase = "parked" /\ phase' = "loop" /\ wave = {} /\ wave' = {}
      /\ approvals' = Reverted(approvals, stale) /\ node' = Reopened(Redo(node), approvals, stale)
  BY <1>1, <1>2 DEF Resume, TypeOK
<1>4. stale \in SUBSET DOMAIN approvals /\ \A i \in stale : KindOf(approvals[i].node) = "human"
  BY <1>1, <1>2, StaleFacts
<1>5. PICK R : R = {w \in Plan : \E i \in stale : approvals[i].node = Self(w)}
  OBVIOUS
<1>6. R \in SUBSET {w \in Plan : Node[w].kind = "human"}
  BY <1>4, <1>5, SelfFacts, PlanAssumption
<1>7. ASSUME NEW w \in Plan
      PROVE  Stage(w)' = IF w \in R /\ Stage(w) = "done" THEN "open" ELSE Stage(w)
  <2>1. Redo(node)[Self(w)] = IF node[Self(w)] = "RUNNING" THEN "PENDING" ELSE node[Self(w)]
    BY <1>1, StageFacts, RedoFacts
  <2>2. DOMAIN Redo(node) = Rows
    BY DEF Redo, Rows
  <2>3. node'[Self(w)] = IF Redo(node)[Self(w)] = "PASSED" /\ w \in R
                         THEN "STALE" ELSE Redo(node)[Self(w)]
    BY <1>3, <1>5, <2>2, StageFacts DEF Reopened
  <2> QED
    BY <1>3, <2>1, <2>3 DEF Stage
<1>8. \A w \in Plan : Questioned(w)' <=> Questioned(w) \/ w \in R
  <2>1. approvals \in Seq(Approval)
    BY <1>1 DEF TypeOK
  <2> QED
    BY <1>3, <1>4, <1>5, <2>1, QuestionsReverted
<1>9. Contract!TakeOver(R)
  BY <1>3, <1>6, <1>7, <1>8 DEF Contract!TakeOver, Contract!Moved, Questioned
<1> QED
  BY <1>6, <1>9

(* Recording a row leaves the others of the wave in flight.                   *)
LEMMA RecordedSeen ==
    ASSUME Bookkeeping, NEW id \in Ids, Recorded(id)
    PROVE  id \in wave /\ wave' = wave \ {id} /\ phase # "parked" /\ phase' # "parked"
BY DEF Recorded, Bookkeeping, TypeOK

(* A row put to a person is a checkpoint of the plan, or a handoff.           *)
LEMMA BlockPuts ==
    ASSUME Bookkeeping, Bookkeeping', NEW id \in wave, BlockForHuman(id)
    PROVE  UNCHANGED Contract!vars \/ \E h \in Plan : Contract!Put(h)
<1>1. /\ id \in Ids /\ id \in Rows /\ approvals \in Seq(Approval) /\ version \in [Work -> Nat]
      /\ KindOf(id) = "human" /\ HandoffsNumbered
  BY DEF Bookkeeping, TypeOK, BlockForHuman
<1>2. wave' = wave \ {id} /\ phase # "parked" /\ phase' # "parked"
  BY <1>1, RecordedSeen DEF BlockForHuman
<1>3. node' = [node EXCEPT ![id] = "BLOCKED"]
  BY DEF BlockForHuman
<1>4. Bound(id) \in SUBSET (Plan \X Nat)
  BY <1>1, PlanAssumption DEF Bound, NodeFields, HandoffsNumbered, Ids, IsHandoff
<1>5. \A w \in Plan : Questioned(w)' <=> Questioned(w) \/ id = Self(w)
  BY <1>1, <1>4, QuestionsAsked DEF BlockForHuman
<1>6. ASSUME NEW w \in Plan
      PROVE  Stage(w)' = IF id = Self(w) THEN "asked" ELSE Stage(w)
  <2>1. node'[Self(w)] = IF id = Self(w) THEN "BLOCKED" ELSE node[Self(w)]
    BY <1>3, StageFacts DEF Rows
  <2> QED
    BY <1>2, <2>1 DEF Stage
<1>7. CASE \A w \in Plan : id # Self(w)
  BY <1>2, <1>5, <1>6, <1>7 DEF Contract!vars, Questioned
<1>8. ASSUME NEW h \in Plan, id = Self(h) PROVE Contract!Put(h)
  <2>1. Node[h].kind = "human" /\ Stage(h) = "running"
    BY <1>1, <1>8, SelfFacts, StageFacts, PlanAssumption
  <2>2. \A w \in Plan : id = Self(w) <=> w = h
    BY <1>8 DEF Self
  <2> QED
    BY <1>2, <1>5, <1>6, <2>1, <2>2 DEF Contract!Put, Contract!Driving, Questioned
<1> QED
  BY <1>7, <1>8

(* A verdict of the driver on w, recorded in rows nd in which what was done   *)
(* of `undone` is stale.                                                      *)
LEMMA VerdictSeen ==
    ASSUME Bookkeeping, Bookkeeping', NEW w \in Work, Judged(w), Recorded(Self(w)),
           NEW v \in Verdicts, NEW nd \in [Rows -> NodeStatuses], nd[Self(w)] = StatusFor(v),
           NEW ap, Consequence(w, v, nd, ap), NEW undone \in SUBSET Plan,
           \A u \in Plan \ {w} :
              nd[Self(u)] = IF u \in undone /\ node[Self(u)] = "PASSED" THEN "STALE"
                            ELSE node[Self(u)]
    PROVE  Contract!Judged(w, undone)
<1> DEFINE stage == [u \in Plan |-> Stage(u)]
           half  == [u \in Plan |-> IF u = w THEN IF v = "pass" THEN "done" ELSE "open"
                                    ELSE IF u \in undone /\ Stage(u) = "done" THEN "open"
                                    ELSE Stage(u)]
           later(raised) == Contract!Moved(half, raised, {"skipped"}, "open")
<1>1. Self(w) \in wave /\ wave' = wave \ {Self(w)} /\ phase # "parked" /\ phase' # "parked"
  BY SelfFacts, RecordedSeen
<1>2. w \notin {h \in Plan : Node[h].kind = "human"} /\ (w \in Plan => Stage(w) = "running")
  BY <1>1, StageFacts DEF Judged
<1>3. half = Contract!Moved(Contract!Moved(stage, undone, {"done"}, "open"), {w}, {"running"},
                            IF v = "pass" THEN "done" ELSE "open")
  BY <1>2 DEF Contract!Moved
<1>4. ASSUME NEW u \in Plan
      PROVE  \/ Stage(u)' = half[u]
             \/ half[u] = "skipped" /\ Stage(u)' = "open" /\ v = "pass" /\ u \in Raised(w)
  <2>1. CASE u = w
    <3>1. node'[Self(w)] = "PASSED" \/ node'[Self(w)] \in {"FAILED", "ERRORED", "PENDING"}
      BY DEF Consequence, StatusFor
    <3> QED
      BY <1>1, <2>1, <3>1, StageFactsLater DEF Consequence
  <2>2. CASE u # w
    <3>1. Self(u) \in Rows \ {Self(w)} /\ (Self(u) \in wave' <=> Self(u) \in wave)
      BY <1>1, <2>2, StageFacts, SelfFacts
    <3>2. \/ node'[Self(u)] = nd[Self(u)]
          \/ /\ nd[Self(u)] = "SKIPPED" /\ node'[Self(u)] = "PENDING" /\ v = "pass"
             /\ u \in Raised(w)
      BY <3>1 DEF Consequence, Self
    <3>3. nd[Self(u)] = IF u \in undone /\ Stage(u) = "done" THEN "STALE" ELSE node[Self(u)]
      BY <2>2, StageFacts
    <3>4. Stage(u) = "skipped" => Self(u) \notin wave
      BY StageFacts DEF Bookkeeping, WaveIsUndone
    <3>5. Stage(u) = "done" => Self(u) \notin wave
      BY StageFacts DEF Bookkeeping, WaveIsUndone
    <3>6. half[u] = IF u \in undone /\ Stage(u) = "done" THEN "open" ELSE Stage(u)
      BY <2>2
    <3>7. CASE node'[Self(u)] = nd[Self(u)]
      <4>1. CASE u \in undone /\ Stage(u) = "done"
        BY <3>1, <3>3, <3>5, <3>6, <3>7, <4>1 DEF Stage
      <4>2. CASE ~(u \in undone /\ Stage(u) = "done")
        BY <3>1, <3>3, <3>6, <3>7, <4>2 DEF Stage
      <4> QED
        BY <4>1, <4>2
    <3>8. CASE /\ nd[Self(u)] = "SKIPPED" /\ node'[Self(u)] = "PENDING" /\ v = "pass"
               /\ u \in Raised(w)
      <4>1. node[Self(u)] = "SKIPPED" /\ ~(u \in undone /\ Stage(u) = "done")
        BY <3>3, <3>8
      <4>2. Stage(u) = "skipped"
        BY <4>1, StageFacts
      <4>3. Stage(u)' = "open"
        BY <3>1, <3>4, <3>8, <4>2 DEF Stage
      <4> QED
        BY <3>6, <3>8, <4>1, <4>2, <4>3
    <3> QED
      BY <3>2, <3>7, <3>8
  <2> QED
    BY <2>1, <2>2
<1>5. \E raised \in {{}, IF v = "pass" THEN Raised(w) ELSE {}} :
         \A u \in Plan : Stage(u)' = IF u \in raised /\ half[u] = "skipped" THEN "open" ELSE half[u]
  <2>1. CASE v # "pass"
    BY <1>4, <2>1
  <2>2. CASE v = "pass" /\ \A d \in Raised(w) : Self(d) \in Rows => node'[Self(d)] # "SKIPPED"
    <3>1. ASSUME NEW u \in Plan
          PROVE  Stage(u)' = IF u \in Raised(w) /\ half[u] = "skipped" THEN "open" ELSE half[u]
      <4>1. u \in Raised(w) => Stage(u)' # "skipped"
        BY <2>2, StageFacts, StageFactsLater
      <4> QED
        BY <1>4, <4>1
    <3> QED
      BY <2>2, <3>1
  <2>3. CASE v = "pass" /\ \A x \in Rows : nd[x] = "SKIPPED" => node'[x] = "SKIPPED"
    <3>1. ASSUME NEW u \in Plan, half[u] = "skipped" PROVE Stage(u)' = "skipped"
      <4>1. u # w /\ Stage(u) = "skipped"
        BY <2>3, <3>1
      <4>2. nd[Self(u)] = "SKIPPED"
        BY <4>1, StageFacts
      <4> QED
        BY <2>3, <4>2, StageFacts, StageFactsLater
    <3> QED
      BY <1>4, <3>1
  <2> QED
    BY <2>1, <2>2, <2>3 DEF Consequence, RaisedTogether
<1> HIDE DEF half, stage
<1>6. PICK raised \in {{}, IF v = "pass" THEN Raised(w) ELSE {}} :
         [u \in Plan |-> Stage(u)]' = Contract!Moved(half, raised, {"skipped"}, "open")
  BY <1>5 DEF Contract!Moved
<1>7. Contract!Result(w, IF v = "pass" THEN "done" ELSE "open", raised, undone)
  BY <1>1, <1>2, <1>3, <1>6 DEF Contract!Result, Contract!Driving, stage
<1> QED
  BY <1>7 DEF Contract!Judged

(* The consequence of a verdict asks about a handoff only.                    *)
LEMMA PolicyReasks ==
    ASSUME approvals \in Seq(Approval), NEW w \in Work, attempts[w] \in Nat,
           NEW v \in Verdicts, NEW nd, NEW I \in SUBSET DOMAIN approvals,
           Consequence(w, v, nd, Reverted(approvals, I))
    PROVE  \A u \in Plan : Questioned(u)' <=> \/ Questioned(u)
                                              \/ \E i \in I : approvals[i].node = Self(u)
<1>1. PICK ap, id : ap = Reverted(approvals, I) /\ id = <<w, attempts[w] + 1, v>>
  OBVIOUS
<1>2. approvals' = ap \/ (v # "pass" /\ approvals' = Ask(ap, id, {}))
  BY <1>1 DEF Consequence
<1>3. v # "pass" => id \in Ids /\ IsHandoff(id)
  BY <1>1, HandoffFacts DEF Verdicts
<1> QED
  BY <1>1, <1>2, <1>3, QuestionsReverted

LEMMA PolicyAsks ==
    ASSUME approvals \in Seq(Approval), NEW w \in Work, attempts[w] \in Nat,
           NEW v \in Verdicts, NEW nd, Consequence(w, v, nd, approvals)
    PROVE  \A u \in Plan : Questioned(u)' <=> Questioned(u)
<1>1. Consequence(w, v, nd, Reverted(approvals, {}))
  BY NothingReverted
<1> QED
  BY <1>1, PolicyReasks

(* A fan-out marks itself, and rows of children no author wrote.              *)
LEMMA ExpandSeen ==
    ASSUME Bookkeeping, Bookkeeping', NEW f \in Work, Expand(f)
    PROVE  Contract!Record(f)
<1>1. /\ Self(f) \in wave /\ wave' = wave \ {Self(f)} /\ phase # "parked" /\ phase' # "parked"
      /\ Node[f].kind = "fanout" /\ approvals' = approvals
  BY SelfFacts, RecordedSeen DEF Expand
<1>2. ExpandMove(f) /\ extraNeeds'[f] \cap Plan = {}
  BY ExpandMoves, PlanAssumption DEF ExpandMove
<1>3. f \notin {h \in Plan : Node[h].kind = "human"} /\ (f \in Plan => Stage(f) = "running")
  BY <1>1, StageFacts
<1>4. ASSUME NEW u \in Plan, u # f PROVE Stage(u)' = Stage(u)
  <2>1. Self(u) \in Rows \ {Self(f)} /\ (Self(u) \in wave' <=> Self(u) \in wave)
    BY <1>1, <1>4, StageFacts, SelfFacts
  <2>2. \A c \in extraNeeds'[f] : Self(u) # Self(c)
    BY <1>2, <1>4 DEF Self
  <2>3. node'[Self(u)] = node[Self(u)]
    BY <1>2, <2>1, <2>2 DEF ExpandMove
  <2> QED
    BY <2>1, <2>3 DEF Stage
<1>5. f \in Plan => Stage(f)' \in {"done", "open"}
  BY <1>1, <1>2, StageFactsLater DEF ExpandMove
<1>6. \E to \in {"done", "open"} : Contract!Result(f, to, {}, {})
  <2>1. PICK to \in {"done", "open"} : f \in Plan => Stage(f)' = to
    BY <1>5
  <2>2. \A u \in Plan : Stage(u)' = IF u = f THEN to ELSE Stage(u)
    BY <1>4, <2>1
  <2>3. Contract!Result(f, to, {}, {})
    BY <1>1, <1>3, <2>2 DEF Contract!Result, Contract!Driving, Contract!Moved
  <2> QED
    BY <2>3
<1> QED
  BY <1>1, <1>6 DEF Contract!Record, Contract!Judged, Open

(* A bundle and a node of work have one verdict each; only the new version of *)
(* a qualified output undoes what follows, and asks again what approved it.   *)
LEMMA RecordBundleSeen ==
    ASSUME Bookkeeping, Bookkeeping', NEW w \in Work, RecordBundle(w)
    PROVE  Contract!Record(w)
<1>1. /\ Self(w) \in wave /\ Recorded(Self(w)) /\ Judged(w)
      /\ TypeOK /\ HandoffsNumbered /\ Self(w) \in Rows
      /\ approvals \in Seq(Approval) /\ attempts[w] \in Nat
  BY DEF RecordBundle, Recorded, Judged, Bookkeeping, TypeOK
<1>2. PICK v \in Verdicts, signal \in Signals(w) :
          ApplyPolicy(w, v, signal, [node EXCEPT ![Self(w)] = StatusFor(v)], approvals)
  BY DEF RecordBundle
<1>3. PICK nd : nd = [node EXCEPT ![Self(w)] = StatusFor(v)]
  OBVIOUS
<1>4. /\ nd \in [Rows -> NodeStatuses] /\ nd[Self(w)] = StatusFor(v)
      /\ \A x \in Rows \ {Self(w)} : nd[x] = node[x]
  BY ZenonT(30), <1>1, <1>3, StatusFacts
<1>5. Consequence(w, v, nd, approvals)
  BY <1>1, <1>2, <1>3, <1>4, Consequences
<1>6. \A u \in Plan \ {w} : nd[Self(u)] = node[Self(u)]
  BY <1>4, StageFacts, SelfFacts
<1>7. Contract!Judged(w, {})
  BY <1>1, <1>4, <1>5, <1>6, VerdictSeen
<1>8. \A u \in Plan : Questioned(u)' <=> Questioned(u)
  BY <1>1, <1>5, PolicyAsks
<1> QED
  BY <1>7, <1>8 DEF Contract!Record, Questioned

LEMMA RecordWorkSeen ==
    ASSUME Bookkeeping, Bookkeeping', NEW w \in Work, RecordWork(w)
    PROVE  Contract!Record(w) \/ Contract!Rederive(w)
<1>1. /\ Self(w) \in wave /\ Recorded(Self(w)) /\ Judged(w)
      /\ TypeOK /\ HandoffsNumbered /\ PeopleAreAsked /\ Self(w) \in Rows
      /\ approvals \in Seq(Approval) /\ attempts[w] \in Nat
  BY DEF RecordWork, Recorded, Judged, Bookkeeping, TypeOK
<1>2. PICK v, signal, produced, nd, I :
         /\ v \in WorkVerdicts(w) /\ signal \in Signals(w) /\ produced \in BOOLEAN
         /\ Stored(w, produced) /\ Judgement(w, v, produced, nd, I)
         /\ ApplyPolicy(w, v, signal, nd, Reverted(approvals, I))
  BY RecordWorkJudges
<1>3. v \in Verdicts
  BY <1>2 DEF WorkVerdicts, Verdicts
<1>4. nd \in [Rows -> NodeStatuses] /\ nd[Self(w)] = StatusFor(v)
  BY <1>2 DEF Judgement
<1>5. Consequence(w, v, nd, Reverted(approvals, I))
  BY <1>1, <1>2, <1>3, <1>4, Consequences
<1>6. CASE ~ReDerived(w, produced)
  <2>1. I = {} /\ \A u \in Plan \ {w} : nd[Self(u)] = node[Self(u)]
    BY <1>2, <1>6, StageFacts, SelfFacts DEF Judgement
  <2>2. Reverted(approvals, I) = approvals
    BY <1>1, <2>1, NothingReverted
  <2>3. Contract!Judged(w, {})
    BY <1>1, <1>3, <1>4, <1>5, <2>1, VerdictSeen
  <2>4. \A u \in Plan : Questioned(u)' <=> Questioned(u)
    BY <1>1, <1>3, <1>5, <2>2, PolicyAsks
  <2> QED
    BY <2>3, <2>4 DEF Contract!Record, Questioned
<1>7. CASE ReDerived(w, produced)
  <2>1. /\ I \in SUBSET DOMAIN approvals
        /\ \A i \in I : /\ KindOf(approvals[i].node) = "human"
                        /\ nd[approvals[i].node] # "PASSED"
    BY <1>1, <1>2, <1>7 DEF Judgement, PeopleAreAsked
  <2>2. PICK R : R = {u \in Plan : \E i \in I : approvals[i].node = Self(u)}
    OBVIOUS
  <2>3. R \in SUBSET {u \in Plan : Node[u].kind = "human"} /\ Downstream[w] \in SUBSET Plan
    BY <2>1, <2>2, SelfFacts, PlanAssumption, DownstreamFacts
  <2>4. ASSUME NEW u \in Plan, u # w
        PROVE  nd[Self(u)] = IF u \in Downstream[w] \cup R /\ node[Self(u)] = "PASSED"
                             THEN "STALE" ELSE node[Self(u)]
    <3>1. Self(u) \in Rows \ {Self(w)}
      BY <2>4, StageFacts, SelfFacts
    <3>2. \/ nd[Self(u)] = node[Self(u)]
          \/ node[Self(u)] = "PASSED" /\ nd[Self(u)] = "STALE"
      BY <1>2, <3>1 DEF Judgement
    <3>3. nd[Self(u)] # node[Self(u)] => u \in Downstream[w] \cup R
      BY <1>2, <1>7, <2>2, <2>4, <3>1 DEF Judgement, Self
    <3>4. u \in Downstream[w] \cup R => nd[Self(u)] # "PASSED"
      BY <1>2, <1>7, <2>1, <2>2, <3>1 DEF Judgement
    <3> QED
      BY <3>2, <3>3, <3>4
  <2>5. Contract!Judged(w, Downstream[w] \cup R)
    BY <1>1, <1>3, <1>4, <1>5, <2>3, <2>4, VerdictSeen
  <2>6. \A u \in Plan : Questioned(u)' <=> Questioned(u) \/ u \in R
    BY <1>1, <1>3, <1>5, <2>1, <2>2, PolicyReasks
  <2>7. w \in {u \in Work : Node[u].qualified}
    BY <1>7 DEF ReDerived
  <2> QED
    BY <2>3, <2>5, <2>6, <2>7 DEF Contract!Rederive, Questioned
<1> QED
  BY <1>6, <1>7

-------------------------------------------------------------------------------
(* The console: no process drives, and no row of a node is in flight.         *)
LEMMA CommandingFacts ==
    ASSUME Bookkeeping, Command
    PROVE  /\ Contract!Commanding /\ phase' = phase /\ wave = {} /\ wave' = {}
           /\ approvals \in Seq(Approval) /\ clock \in Nat
           /\ node \in [Rows -> NodeStatuses] /\ Rows = DOMAIN node
BY CommandFacts DEF Contract!Commanding, Bookkeeping, TypeOK, Rows

(* An answer to the first open request of a row: the row takes the status to, *)
(* and another row only where a handoff releases the node it is about.        *)
LEMMA AnswerDecides ==
    ASSUME Bookkeeping, Command, NEW h \in Plan, Open(approvals, {Self(h)}) # {},
           NEW d \in Decisions \ {"PENDING"},
           approvals' = Decide(approvals, FirstOpen(Self(h)), d),
           \/ node' = [node EXCEPT ![Self(h)] = "PASSED"]
           \/ node' = [node EXCEPT ![Self(h)] = "FAILED"]
    PROVE  Contract!Decide(h)
<1>1. /\ Contract!Commanding /\ wave = {} /\ wave' = {}
      /\ approvals \in Seq(Approval) /\ clock \in Nat
      /\ node \in [Rows -> NodeStatuses] /\ Rows = DOMAIN node
  BY CommandingFacts
<1>2. \A u \in Plan : Self(u) \in Rows /\ (Self(u) = Self(h) <=> u = h)
  BY StageFacts DEF Self
<1>3. PICK to \in {"done", "open"} : \A u \in Plan : Stage(u)' = IF u = h THEN to ELSE Stage(u)
  <2>1. CASE node' = [node EXCEPT ![Self(h)] = "PASSED"]
    <3>1. \A u \in Plan : Stage(u)' = IF u = h THEN "done" ELSE Stage(u)
      BY <1>1, <1>2, <2>1 DEF Stage
    <3> QED
      BY <3>1
  <2>2. CASE node' = [node EXCEPT ![Self(h)] = "FAILED"]
    <3>1. \A u \in Plan : Stage(u)' = IF u = h THEN "open" ELSE Stage(u)
      BY <1>1, <1>2, <2>2 DEF Stage
    <3> QED
      BY <3>1
  <2> QED
    BY <2>1, <2>2
<1>4. Questioned(h) /\ \A u \in Plan \ {h} : Questioned(u)' <=> Questioned(u)
  <2>1. \A u \in Plan : Open(approvals, {Self(u)})' = Open(approvals, {Self(u)}) \ FirstOpen(Self(h))
    BY <1>1, QuestionsClosed
  <2>2. \A u \in Plan \ {h} : Open(approvals, {Self(u)}) \cap FirstOpen(Self(h)) = {}
    BY <1>2 DEF Open, FirstOpen
  <2> QED
    BY <2>1, <2>2 DEF Questioned
<1>5. {u \in Plan : Questioned(u)}' \in {{u \in Plan : Questioned(u)},
                                         {u \in Plan : Questioned(u)} \ {h}}
  <2>1. CASE Questioned(h)'
    <3>1. \A u \in Plan : Questioned(u)' <=> Questioned(u)
      BY <1>4, <2>1
    <3> QED
      BY <3>1
  <2>2. CASE ~Questioned(h)'
    <3>1. \A u \in Plan : Questioned(u)' <=> Questioned(u) /\ u # h
      BY <1>4, <2>2
    <3> QED
      BY <3>1
  <2> QED
    BY <2>1, <2>2
<1> QED
  BY <1>1, <1>3, <1>4, <1>5 DEF Contract!Decide, Questioned

(* An answer about a handoff: nothing, or the waiver of the node it is about. *)
LEMMA HandoffAnswered ==
    ASSUME Bookkeeping, HandoffsJudged, Command, NEW id \in Rows, IsHandoff(id),
           NEW d \in Decisions \ {"PENDING"},
           approvals' = Decide(approvals, FirstOpen(id), d),
           \/ node' = Released([node EXCEPT ![id] = "PASSED"], id)
           \/ node' = [node EXCEPT ![id] = "FAILED"]
    PROVE  UNCHANGED Contract!vars \/ \E w \in Plan : Contract!Waive(w)
<1>1. /\ Contract!Commanding /\ phase' = phase /\ wave = {} /\ wave' = {}
      /\ approvals \in Seq(Approval) /\ clock \in Nat
      /\ node \in [Rows -> NodeStatuses] /\ Rows = DOMAIN node
  BY CommandingFacts
<1>2. \A u \in Plan : Self(u) \in Rows /\ Self(u) # id
  BY StageFacts, SelfFacts
<1>3. \A u \in Plan : Questioned(u)' <=> Questioned(u)
  <2>1. \A u \in Plan : Open(approvals, {Self(u)})' = Open(approvals, {Self(u)}) \ FirstOpen(id)
    BY <1>1, QuestionsClosed
  <2>2. \A u \in Plan : Open(approvals, {Self(u)}) \cap FirstOpen(id) = {}
    BY <1>2 DEF Open, FirstOpen
  <2> QED
    BY <2>1, <2>2 DEF Questioned
<1>4. CASE \A u \in Plan : Stage(u)' = Stage(u)
  BY <1>1, <1>3, <1>4, Unseen
<1>5. ASSUME NEW u \in Plan, Stage(u)' # Stage(u) PROVE Contract!Waive(u)
  <2>1. node'[Self(u)] # node[Self(u)]
    BY <1>1, <1>5 DEF Stage
  <2>2. node' = Released([node EXCEPT ![id] = "PASSED"], id)
    BY <1>1, <1>2, <2>1
  <2>3. PICK nd : nd = [node EXCEPT ![id] = "PASSED"]
    OBVIOUS
  <2>4. /\ Self(u) = Self(id[1]) /\ nd[Self(u)] \in {"FAILED", "ERRORED"}
        /\ node' = [nd EXCEPT ![Self(u)] = IF id[3] = "error" THEN "PENDING" ELSE "SKIPPED"]
    BY <1>1, <1>2, <2>1, <2>2, <2>3 DEF Released
  <2>5. /\ u = id[1] /\ DOMAIN nd = Rows
        /\ \A x \in Rows : nd[x] = IF x = id THEN "PASSED" ELSE node[x]
    BY <1>1, <2>3, <2>4 DEF Self
  <2>6. Stage(u) = "open" /\ Stage(u)' = "skipped"
    <3>1. node[Self(u)] \in {"FAILED", "ERRORED"} /\ Stage(u) = "open"
      BY <1>1, <1>2, <2>4, <2>5 DEF Stage
    <3>2. node'[Self(u)] \in {"PENDING", "SKIPPED"}
      BY <1>2, <2>4, <2>5
    <3> QED
      BY <1>1, <1>5, <3>1, <3>2 DEF Stage
  <2>7. \A q \in Plan \ {u} : Stage(q)' = Stage(q)
    <3>1. \A q \in Plan \ {u} : Self(q) # Self(u)
      BY DEF Self
    <3>2. \A q \in Plan \ {u} : node'[Self(q)] = node[Self(q)]
      BY <1>2, <2>4, <2>5, <3>1
    <3> QED
      BY <1>1, <3>2 DEF Stage
  <2>8. Node[u].kind # "human"
    BY <2>5 DEF HandoffsJudged, Judged
  <2> QED
    BY <1>1, <1>3, <2>6, <2>7, <2>8 DEF Contract!Waive, Questioned
<1> QED
  BY <1>4, <1>5

(* Approve and reject answer a checkpoint, or waive the work of a handoff.    *)
LEMMA AnswerSeen ==
    ASSUME Bookkeeping, HandoffsJudged, NEW id \in Rows, Approve(id) \/ Reject(id)
    PROVE  \/ UNCHANGED Contract!vars
           \/ \E w \in Plan : Contract!Waive(w) \/ Contract!Decide(w)
<1>1. /\ Command /\ Open(approvals, {id}) # {}
      /\ \E d \in Decisions \ {"PENDING"} : approvals' = Decide(approvals, FirstOpen(id), d)
      /\ \/ node' = Released([node EXCEPT ![id] = "PASSED"], id)
         \/ node' = [node EXCEPT ![id] = "FAILED"]
  BY DEF Approve, Reject, Decisions
<1>2. CASE IsHandoff(id)
  BY <1>1, <1>2, HandoffAnswered
<1>3. CASE ~IsHandoff(id)
  <2>1. id = Self(id[1]) /\ id \in Ids
    BY <1>3 DEF Bookkeeping, TypeOK, HandoffsNumbered
  <2>2. KindOf(id) = "human"
    BY <1>1, FirstOpenFacts DEF Bookkeeping
  <2>3. id[1] \in Plan
    BY <1>3, <2>1, <2>2, PlanAssumption DEF KindOf, Ids
  <2>4. Released([node EXCEPT ![id] = "PASSED"], id) = [node EXCEPT ![id] = "PASSED"]
    BY <1>3 DEF Released
  <2> QED
    BY <1>1, <2>1, <2>3, <2>4, AnswerDecides
<1> QED
  BY <1>2, <1>3

(* A node that failed is still to be done: retry changes nothing in that.     *)
LEMMA RetryUnseen ==
    ASSUME Bookkeeping, NEW id \in Rows, Retry(id)
    PROVE  UNCHANGED Contract!vars
<1>1. /\ phase' = phase /\ wave = {} /\ wave' = {} /\ "APPROVED" \in Decisions
      /\ approvals \in Seq(Approval) /\ clock \in Nat
      /\ node \in [Rows -> NodeStatuses] /\ Rows = DOMAIN node /\ id \in Ids
  BY CommandingFacts DEF Retry, Bookkeeping, TypeOK, Decisions
<1>2. ASSUME NEW u \in Plan PROVE Stage(u)' = Stage(u)
  <2>1. Self(u) \in Rows
    BY StageFacts
  <2>2. /\ node[id] \in {"FAILED", "ERRORED"}
        /\ node'[Self(u)] = IF Self(u) = id THEN "PENDING" ELSE node[Self(u)]
    BY <1>1, <2>1 DEF Retry
  <2> QED
    BY <1>1, <2>2 DEF Stage
<1>3. \A u \in Plan : Open(approvals, {Self(u)})' = Open(approvals, {Self(u)})
  <2>1. PICK t : t = Noted(approvals, id, "APPROVED")
    OBVIOUS
  <2>2. /\ DOMAIN approvals \subseteq DOMAIN t /\ \A i \in DOMAIN approvals : t[i] = approvals[i]
        /\ \A i \in DOMAIN t \ DOMAIN approvals : t[i].decision = "APPROVED"
    BY <1>1, <2>1, NotedFacts
  <2>3. approvals' = t
    BY <2>1 DEF Retry
  <2> QED
    BY <2>2, <2>3 DEF Open
<1> QED
  BY <1>1, <1>2, <1>3, Unseen DEF Questioned

(* A withdrawal reaches all that is done or asked behind it.                  *)
LEMMA InvalidateWithdraws ==
    ASSUME Bookkeeping, NEW n \in Plan, Invalidate(n)
    PROVE  Contract!Withdraw(n)
<1>1. /\ Contract!Commanding /\ wave = {} /\ wave' = {}
      /\ approvals \in Seq(Approval) /\ clock \in Nat
  BY CommandingFacts DEF Invalidate
<1>2. n \in Work /\ Self(n) \in Rows /\ Downstream[n] \subseteq Plan
  BY StageFacts, DownstreamFacts
<1>3. PICK children : children = {Self(c) : c \in Reclaimed(n)}
  OBVIOUS
<1>4. \A u \in Plan : Self(u) \notin Moot(n) /\ Self(u) \notin children
  <2>1. \A c \in Reclaimed(n) : c \notin Plan
    BY <1>2, GrownFacts DEF Reclaimed, Bookkeeping
  <2> QED
    BY <1>3, <2>1 DEF Moot, Handoffs, IsHandoff, Self
<1>5. \A u \in Plan : Self(u) \in BuiltOn(n) <=>
         u \in Downstream[n] /\ node[Self(u)] \in {"PASSED", "BLOCKED", "FAILED", "ERRORED"}
  BY StageFacts DEF BuiltOn, Self
<1>6. ASSUME NEW u \in Plan
      PROVE  Stage(u)' = IF u = n THEN "open"
                         ELSE IF u \in Downstream[n] /\ Stage(u) \in {"done", "asked"} THEN "open"
                         ELSE Stage(u)
  <2>1. Self(u) \in Rows /\ (Self(u) = Self(n) <=> u = n)
    BY StageFacts DEF Self
  <2>2. node'[Self(u)] = IF u = n THEN "PENDING"
                         ELSE IF Self(u) \in BuiltOn(n) THEN "STALE" ELSE node[Self(u)]
    BY <1>3, <1>4, <2>1 DEF Invalidate, Withdrawn
  <2> QED
    BY <1>1, <1>5, <2>2 DEF Stage
<1>7. PICK I : I = Open(approvals, Moot(n) \cup BuiltOn(n))
  OBVIOUS
<1>8. \A u \in Plan : Open(approvals, {Self(u)})' = Open(approvals, {Self(u)}) \ I
  <2>1. PICK ap : ap = Decide(approvals, I, "REJECTED")
    OBVIOUS
  <2>2. approvals' = Noted(ap, Self(n), "REJECTED") /\ Self(n) \in Ids
    BY <1>2, <1>7, <2>1, SelfFacts DEF Invalidate
  <2> QED
    BY <1>1, <2>1, <2>2, QuestionsClosed DEF Decisions
<1>9. ASSUME NEW u \in Plan
      PROVE  Questioned(u)' <=> Questioned(u) /\ Self(u) \notin BuiltOn(n)
  <2>1. Open(approvals, {Self(u)}) \cap I =
           IF Self(u) \in BuiltOn(n) THEN Open(approvals, {Self(u)}) ELSE {}
    BY <1>4, <1>7 DEF Open
  <2> QED
    BY <1>8, <2>1 DEF Questioned
<1>10. ASSUME NEW u \in Downstream[n], Stage(u) \in {"done", "asked"}
       PROVE  Self(u) \in BuiltOn(n)
  BY <1>2, <1>5, <1>10, StageFacts
<1>11. {u \in Plan : Questioned(u)}' \subseteq
           {u \in Plan : Questioned(u)} \ {u \in Downstream[n] : Stage(u) \in {"done", "asked"}}
  BY <1>9, <1>10
<1>12. {u \in Plan : Questioned(u)} \ Downstream[n] \subseteq {u \in Plan : Questioned(u)}'
  BY <1>5, <1>9
<1>13. \A u \in Downstream[n] : [q \in Plan |-> Stage(q)][u] = Stage(u)
  BY <1>2
<1> QED
  BY <1>1, <1>6, <1>11, <1>12, <1>13 DEF Contract!Withdraw, Contract!Moved, Questioned

(* A re-check that passes moves its node and what its escalation brings in.   *)
LEMMA RecheckPassesRejudges ==
    ASSUME Bookkeeping, NEW w \in Work, RecheckPasses(w)
    PROVE  Contract!Rejudge(w)
<1>1. /\ Contract!Commanding /\ wave = {} /\ wave' = {}
      /\ approvals \in Seq(Approval) /\ clock \in Nat
      /\ node \in [Rows -> NodeStatuses] /\ Rows = DOMAIN node
      /\ Judged(w) /\ Self(w) \in Rows /\ node[Self(w)] \in {"FAILED", "ERRORED"}
  BY CommandingFacts DEF RecheckPasses, Rechecking, Judged
<1>2. PICK signal, half :
         /\ signal \in Signals(w) /\ half = Retired([node EXCEPT ![Self(w)] = "PASSED"], Handoffs({w}))
         /\ node' = IF signal THEN Activated(half, Node[w].onEscalate) ELSE half
  BY DEF RecheckPasses
<1>3. PICK raised : raised = IF signal THEN Raised(w) ELSE {}
  OBVIOUS
<1>4. raised \in {{}, Raised(w)}
  BY <1>3
<1>5. ASSUME NEW u \in Plan
      PROVE  Self(u) \in Rows /\ Self(u) \notin Handoffs({w}) /\ (Self(u) = Self(w) <=> u = w)
  <2>1. u \in Work /\ Self(u) \in Rows /\ ~IsHandoff(Self(u))
    BY StageFacts, SelfFacts
  <2> QED
    BY <2>1, SelfFacts DEF Handoffs
<1>6. DOMAIN half = Rows /\ \A u \in Plan : half[Self(u)] = IF u = w THEN "PASSED" ELSE node[Self(u)]
  BY <1>1, <1>2, <1>5 DEF Retired
<1>7. ASSUME NEW u \in Plan
      PROVE  node'[Self(u)] = IF half[Self(u)] = "SKIPPED" /\ u \in raised THEN "PENDING"
                              ELSE half[Self(u)]
  <2>1. CASE ~signal
    BY <1>2, <1>3, <2>1
  <2>2. CASE signal
    <3>1. Node[w].onEscalate # NoNode /\ node' = Activated(half, Node[w].onEscalate)
      BY <1>2, <2>2 DEF Signals
    <3>2. raised = {d \in {Node[w].onEscalate} \cup Downstream[Node[w].onEscalate] :
                        Node[d].optional}
      BY <1>3, <2>2, <3>1 DEF Raised
    <3>3. ~IsHandoff(Self(u)) /\ Self(u)[1] = u
      BY DEF IsHandoff, Self
    <3> QED
      BY <1>5, <1>6, <3>1, <3>2, <3>3 DEF Activated
  <2> QED
    BY <1>2, <2>1, <2>2 DEF Signals
<1>8. ASSUME NEW u \in Plan
      PROVE  Stage(u)' = IF u = w THEN "done"
                         ELSE IF u \in raised /\ Stage(u) = "skipped" THEN "open" ELSE Stage(u)
  BY <1>1, <1>6, <1>7 DEF Stage
<1>9. w \in Plan => Stage(w) = "open"
  BY <1>1 DEF Stage
<1>10. \A u \in Plan : Questioned(u)' <=> Questioned(u)
  <2>1. PICK I : I = Open(approvals, Handoffs({w}))
    OBVIOUS
  <2>2. approvals' = Decide(approvals, I, "REJECTED") /\ "REJECTED" \in Decisions \ {"PENDING"}
    BY <2>1 DEF RecheckPasses, Decisions
  <2>3. \A u \in Plan : Open(approvals, {Self(u)})' = Open(approvals, {Self(u)}) \ I
    BY <1>1, <2>2, QuestionsClosed
  <2>4. \A u \in Plan : Open(approvals, {Self(u)}) \cap I = {}
    BY <1>5, <2>1 DEF Open
  <2> QED
    BY <2>3, <2>4 DEF Questioned
<1>11. [u \in Plan |-> Stage(u)]' =
          Contract!Moved(Contract!Moved([u \in Plan |-> Stage(u)], {w}, {"open"}, "done"),
                         raised, {"skipped"}, "open")
  BY <1>8, <1>9 DEF Contract!Moved
<1>12. w \notin {h \in Plan : Node[h].kind = "human"}
  BY <1>1 DEF Judged
<1> QED
  BY <1>1, <1>4, <1>9, <1>10, <1>11, <1>12 DEF Contract!Rejudge, Questioned

(* One that does not leaves every authored node as it was.                    *)
LEMMA RecheckFailsUnseen ==
    ASSUME Bookkeeping, NEW w \in Work, RecheckFails(w)
    PROVE  UNCHANGED Contract!vars
<1>1. /\ phase' = phase /\ wave = {} /\ wave' = {}
      /\ approvals \in Seq(Approval) /\ attempts[w] \in Nat /\ TypeOK /\ HandoffsNumbered
      /\ Judged(w) /\ Self(w) \in Rows /\ node[Self(w)] \in {"FAILED", "ERRORED"}
  BY CommandingFacts DEF RecheckFails, Rechecking, Judged, Bookkeeping, TypeOK
<1>2. PICK v \in {"fail", "error"} :
          ApplyPolicy(w, v, FALSE, [node EXCEPT ![Self(w)] = StatusFor(v)], approvals)
  BY DEF RecheckFails
<1>3. PICK nd : nd = [node EXCEPT ![Self(w)] = StatusFor(v)]
  OBVIOUS
<1>4. v \in Verdicts /\ v # "pass" /\ StatusFor(v) \in {"FAILED", "ERRORED"}
  BY DEF Verdicts, StatusFor
<1>5. /\ nd \in [Rows -> NodeStatuses] /\ nd[Self(w)] = StatusFor(v)
      /\ \A x \in Rows \ {Self(w)} : nd[x] = node[x]
  BY <1>1, <1>3, <1>4, StatusFacts
<1>6. attempts' = [attempts EXCEPT ![w] = @ + 1]
  BY DEF RecheckFails, Rechecking
<1>7. Consequence(w, v, nd, approvals)
  BY <1>1, <1>2, <1>3, <1>4, <1>5, <1>6, Consequences DEF Signals
<1>8. ASSUME NEW u \in Plan PROVE Stage(u)' = Stage(u)
  <2>1. CASE u = w
    <3>1. node'[Self(u)] \in {"FAILED", "ERRORED", "PENDING"}
      BY <1>4, <1>7, <2>1 DEF Consequence
    <3> QED
      BY <1>1, <2>1, <3>1 DEF Stage
  <2>2. CASE u # w
    <3>1. Self(u) \in Rows \ {Self(w)}
      BY <2>2, StageFacts DEF Self
    <3>2. node'[Self(u)] = node[Self(u)]
      BY <1>4, <1>5, <1>7, <3>1 DEF Consequence
    <3> QED
      BY <1>1, <3>2 DEF Stage
  <2> QED
    BY <2>1, <2>2
<1> QED
  BY <1>1, <1>4, <1>7, <1>8, PolicyAsks, Unseen

LEMMA RestUnseen ==
    ASSUME Bookkeeping, Stop \/ Rollback
    PROVE  UNCHANGED Contract!vars
<1>1. Command /\ approvals' = approvals /\ node' \in {node, Redo(node)}
  BY DEF Stop, Rollback
<1>2. phase' = phase /\ wave = {} /\ wave' = {} /\ TypeOK
  BY <1>1, CommandingFacts DEF Bookkeeping
<1>3. ASSUME NEW u \in Plan PROVE Stage(u)' = Stage(u)
  <2>1. \/ node'[Self(u)] = node[Self(u)]
        \/ node[Self(u)] = "RUNNING" /\ node'[Self(u)] = "PENDING"
    BY <1>1, <1>2, StageFacts, RedoFacts
  <2> QED
    BY <1>2, <2>1 DEF Stage
<1> QED
  BY <1>1, <1>2, <1>3, Unseen DEF Questioned, Open

-------------------------------------------------------------------------------
LEMMA ContractInit == ConsoleInit => Contract!Init
<1> SUFFICES ASSUME ConsoleInit PROVE Contract!Init
  OBVIOUS
<1>1. /\ node = [id \in {Self(w) : w \in Plan} |->
                    IF Node[id[1]].optional THEN "SKIPPED" ELSE "PENDING"]
      /\ approvals = <<>> /\ phase = "loop" /\ wave = {}
  BY DEF ConsoleInit, Init
<1>2. \A w \in Plan : node[Self(w)] = IF Node[w].optional THEN "SKIPPED" ELSE "PENDING"
  BY <1>1 DEF Self
<1>3. \A w \in Plan : Stage(w) = IF Node[w].optional THEN "skipped" ELSE "open"
  BY <1>1, <1>2 DEF Stage
<1>4. \A w \in Plan : Open(approvals, {Self(w)}) = {}
  BY <1>1 DEF Open
<1> QED
  BY <1>1, <1>3, <1>4 DEF Contract!Init

LEMMA ContractStep ==
    Bookkeeping /\ HandoffsJudged /\ [Next]_vars => [Contract!Next]_(Contract!vars)
<1> SUFFICES ASSUME Bookkeeping, HandoffsJudged, [Next]_vars
             PROVE  Contract!Next \/ UNCHANGED Contract!vars
  OBVIOUS
<1>1. Bookkeeping'
  BY NextKeeps
<1>2. CASE Driver
  <2>1. CASE Dispatch
    BY <1>1, <2>1, DispatchStarts DEF Contract!Next
  <2>2. ASSUME NEW id \in wave, BlockForHuman(id) PROVE Contract!Next \/ UNCHANGED Contract!vars
    BY <1>1, <2>2, BlockPuts DEF Contract!Next
  <2>3. ASSUME NEW w \in Work, Expand(w) \/ RecordWork(w) \/ RecordBundle(w) PROVE Contract!Next
    BY <1>1, <2>3, ExpandSeen, RecordWorkSeen, RecordBundleSeen DEF Contract!Next
  <2>4. CASE ExpandRaises \/ Settle
    BY <1>1, <2>4, EndLeaves DEF Contract!Next
  <2> QED
    BY <1>2, <2>1, <2>2, <2>3, <2>4 DEF Driver
<1>3. CASE Resume
  BY <1>1, <1>3, ResumeTakesOver DEF Contract!Next
<1>4. CASE Crash
  BY <1>1, <1>4, EndLeaves DEF Contract!Next
<1>5. CASE Operator
  <2>1. ASSUME NEW id \in Rows, Approve(id) \/ Reject(id)
        PROVE  Contract!Next \/ UNCHANGED Contract!vars
    BY <2>1, AnswerSeen DEF Contract!Next
  <2>2. ASSUME NEW n \in Plan, Invalidate(n) PROVE Contract!Next
    BY <2>2, InvalidateWithdraws DEF Contract!Next
  <2>3. ASSUME NEW w \in Work, RecheckPasses(w) PROVE Contract!Next
    BY <2>3, RecheckPassesRejudges DEF Contract!Next
  <2>4. CASE (\E id \in Rows : Retry(id)) \/ (\E w \in Work : RecheckFails(w)) \/ Stop \/ Rollback
    BY <2>4, RetryUnseen, RecheckFailsUnseen, RestUnseen
  <2> QED
    BY <1>5, <2>1, <2>2, <2>3, <2>4 DEF Operator
<1>6. CASE UNCHANGED vars
  <2>1. phase' = phase /\ node' = node /\ wave' = wave /\ approvals' = approvals
    BY <1>6 DEF vars
  <2> QED
    BY <2>1, Unseen DEF Stage, Questioned, Open
<1> QED
  BY <1>2, <1>3, <1>4, <1>5, <1>6 DEF Next

(* A run implements its contract, for every plan and any number of crashes,   *)
(* attempts and commands: every step of the engine and of the console is a    *)
(* step of RunContract, or one it does not see.                               *)
THEOREM KeepsContractHolds == Spec => KeepsContract
<1> DEFINE Inv == Bookkeeping /\ HandoffsJudged
<1>1. ConsoleInit => Inv
  BY InitHolds, HandoffsJudgedInit
<1>2. Inv /\ [Next]_vars => Inv'
  BY NextKeeps, HandoffsJudgedKept
<1>3. ConsoleInit => Contract!Init
  BY ContractInit
<1>4. Inv /\ [Next]_vars => [Contract!Next]_(Contract!vars)
  BY ContractStep
<1> HIDE DEF Inv
<1> QED
  BY <1>1, <1>2, <1>3, <1>4, PTL DEF Spec, KeepsContract, Contract!Spec
===============================================================================
