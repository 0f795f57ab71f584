------------------------------ MODULE RunEngine ------------------------------
(* The driver of a run: Scheduler.advance and everything it records           *)
(* (engine/scheduler.py, state/store.py, lineage/recorder.py).                *)
(*                                                                            *)
(* A row is <<w, k, v>>.  <<w, 0, "none">> is node w itself; <<w, k, v>> with *)
(* k > 0 is the human node `escalate:w#k`, inserted because attempt k of w    *)
(* reached verdict v (v travels in the row's config and decides what an       *)
(* approval of it means).                                                     *)
(*                                                                            *)
(*   runStatus   runs.status                                                  *)
(*   node        node_executions.status, for the rows that exist              *)
(*   attempts    the highest attempt number of each node                      *)
(*   extraNeeds  node_executions.extra_needs, the edges grown at runtime      *)
(*   version     the latest version of the artifacts a node records           *)
(*   items       what the source artifact of a fan-out describes just now     *)
(*   cleared     the bundles whose latest gate record found the run releasable *)
(*   approvals   the approvals of the run in insertion order; `at` orders     *)
(*               decided_at, 0 being NULL                                     *)
(*   clock       the last decided_at handed out                               *)
(*   phase       parked: no process drives the run; loop: between waves;      *)
(*               wave: dispatched, nothing recorded; record: partly recorded  *)
(*   wave        the rows dispatched and not recorded yet                     *)
(* and two history variables, read by properties only:                        *)
(*   used        the input versions the latest dispatch of a node worked from *)
(*   owed        the nodes whose repair was inserted and has not run since    *)
EXTENDS PlanGraph, Sequences

VARIABLES runStatus, node, attempts, extraNeeds, version, items, cleared,
          approvals, clock, phase, wave, used, owed

graphVars  == <<attempts, extraNeeds, version, items, cleared, owed>>
decideVars == <<approvals, clock>>
engineVars == <<runStatus, node, graphVars, decideVars, phase, wave, used>>

RunStatuses  == {"RUNNING", "BLOCKED", "COMPLETED", "FAILED", "STOPPED", "ROLLED_BACK"}
NodeStatuses == {"PENDING", "RUNNING", "BLOCKED", "PASSED", "FAILED", "ERRORED",
                 "SKIPPED", "STALE"}
Decisions    == {"PENDING", "APPROVED", "REJECTED"}

Terminal   == {"PASSED", "SKIPPED"}
Unfinished == {"PENDING", "RUNNING", "BLOCKED", "STALE"}

Ids == Work \X Nat \X {"none", "fail", "error"}
Self(w) == <<w, 0, "none">>
IsHandoff(id) == id[2] > 0
Rows == DOMAIN node
Handoffs(W) == {id \in Rows : IsHandoff(id) /\ id[1] \in W}

KindOf(id) == IF IsHandoff(id) THEN "human" ELSE Node[id[1]].kind

(* insert_node: a new row, PENDING unless it exists.                          *)
WithRow(nd, id) ==
    [x \in DOMAIN nd \cup {id} |-> IF x \in DOMAIN nd THEN nd[x] ELSE "PENDING"]

-------------------------------------------------------------------------------
(* Approvals (lineage/recorder.py, lineage/query.py).                         *)

Approval == [node : Ids, bound : SUBSET (Plan \X Nat), decision : Decisions, at : Nat]

Ask(as, id, bound) ==
    Append(as, [node |-> id, bound |-> bound, decision |-> "PENDING", at |-> 0])

Stamped(a, decision, at) ==
    [node |-> a.node, bound |-> a.bound, decision |-> decision, at |-> at]

(* recorder.decide on each approval of I, at one instant.                     *)
Decide(as, I, decision) ==
    [i \in DOMAIN as |-> IF i \in I THEN Stamped(as[i], decision, clock + 1) ELSE as[i]]

Open(as, W) == {i \in DOMAIN as : as[i].decision = "PENDING" /\ as[i].node \in W}

(* stale_approvals: an approval stands when no decision on its checkpoint is  *)
(* later (undecided requests sort first), and is stale once an artifact it    *)
(* names has a newer version.                                                 *)
Standing(as) == {i \in DOMAIN as :
                    /\ as[i].decision = "APPROVED"
                    /\ \A j \in DOMAIN as : as[j].node = as[i].node => as[j].at <= as[i].at}
StaleApprovalsLate(as, ver) ==  \* mutant: one version too late
    {i \in Standing(as) : \E b \in as[i].bound : ver[b[1]] > b[2] + 1}
StaleApprovals(as, ver) ==
    {i \in Standing(as) : \E b \in as[i].bound : ver[b[1]] > b[2]}

(* revert_to_pending on each approval of I, and the rows it re-opens.         *)
Reverted(as, I) ==
    [i \in DOMAIN as |-> IF i \in I THEN Stamped(as[i], "PENDING", 0) ELSE as[i]]
Reopened(nd, as, I) ==
    [id \in DOMAIN nd |-> IF nd[id] = "PASSED" /\ \E i \in I : as[i].node = id
                          THEN "STALE" ELSE nd[id]]

-------------------------------------------------------------------------------
(* Readiness (_ready, _is_satisfied).                                         *)

NeedsOf(id) == IF IsHandoff(id) THEN {Self(id[1])}
               ELSE {Self(d) : d \in Node[id[1]].needs \cup extraNeeds[id[1]]}
IsSatisfied(id) == id \in Rows /\ node[id] \in Terminal
IsReadyWaived(id) ==  \* mutant: skipped work is collected again
    node[id] \in {"PENDING", "STALE", "SKIPPED"} /\ \A d \in NeedsOf(id) : IsSatisfied(d)
IsReady(id) == /\ node[id] \in {"PENDING", "STALE"}
               /\ \A d \in NeedsOf(id) : IsSatisfied(d)
Ready == {id \in Rows : IsReady(id)}

-------------------------------------------------------------------------------
(* start: the plan's rows, optional ones SKIPPED until something escalates.   *)
Init ==
    /\ runStatus = "RUNNING"
    /\ node = [id \in {Self(w) : w \in Plan} |->
                 IF Node[id[1]].optional THEN "SKIPPED" ELSE "PENDING"]
    /\ attempts = [w \in Work |-> 0]
    /\ extraNeeds = [w \in Work |-> {}]
    /\ version = [w \in Work |-> 0]
    \* {} while the source of the fan-out is missing or malformed, else {shape}.
    /\ items = [w \in Work |-> {}]
    /\ cleared = {}
    /\ approvals = <<>>
    /\ clock = 0
    /\ phase = "loop"
    /\ wave = {}
    /\ used = [w \in Work |-> [d \in Plan |-> 0]]
    /\ owed = {}

(* The head of advance, in a process of its own (_advance): the run is        *)
(* RUNNING again, what a dead process left RUNNING is PENDING again, and      *)
(* approvals of superseded versions are re-opened.                            *)
RedoNothing(nd) == nd  \* mutant: RUNNING stays RUNNING
Redo(nd) == [id \in DOMAIN nd |-> IF nd[id] = "RUNNING" THEN "PENDING" ELSE nd[id]]

Resume ==
    /\ phase = "parked"
    /\ phase' = "loop"
    /\ runStatus' = "RUNNING"
    /\ LET stale == StaleApprovals(approvals, version)
       IN  /\ approvals' = Reverted(approvals, stale)
           /\ node' = Reopened(Redo(node), approvals, stale)
    /\ UNCHANGED <<graphVars, clock, wave, used>>

(* _inputs: the latest version of everything w reads, 0 for what it does not. *)
Material(w) == [d \in Plan |-> IF d \in Reads(w) THEN version[d] ELSE 0]

(* One turn of the loop up to the commit before the wave executes.            *)
Dispatch ==
    /\ phase = "loop" /\ runStatus = "RUNNING" /\ Ready # {}
    /\ phase' = "wave"
    /\ wave' = Ready
    /\ node' = [id \in Rows |->
                  IF id \in Ready /\ KindOf(id) \notin {"human", "fanout"}
                  THEN "RUNNING" ELSE node[id]]
    /\ used' = [w \in Work |-> IF Self(w) \in Ready THEN Material(w) ELSE used[w]]
    /\ UNCHANGED <<runStatus, graphVars, decideVars>>

(* The process dies before the wave is committed: nothing of it is recorded,  *)
(* and the rows marked RUNNING stay so.                                       *)
Crash ==
    /\ phase \in {"loop", "wave"}
    /\ phase' = "parked"
    /\ wave' = {}
    /\ UNCHANGED <<runStatus, node, graphVars, decideVars, used>>

(* A wave is doomed when it holds a fan-out that will find its source missing *)
(* or malformed: _children_of raises, and the records of the wave are lost.   *)
(* A source in the same wave may still record one that parses.                *)
CanFeed(w, f) == Node[w].kind = "work" /\ Node[w].outputs /\ Node[f].shapes # {}
Expanding == {f \in Work : Self(f) \in wave /\ Node[f].kind = "fanout"}
Beside(f) == Self(Node[f].from) \in wave
Doomed == \E f \in Expanding : items[f] = {} /\ ~(Beside(f) /\ CanFeed(Node[f].from, f))

(* Row id of the wave is recorded; the last one ends the wave.                *)
Recorded(id) ==
    /\ id \in wave /\ ~Doomed
    /\ wave' = wave \ {id}
    /\ phase' = IF wave = {id} THEN "loop" ELSE "record"
    /\ UNCHANGED used

-------------------------------------------------------------------------------
(* _block_for_human.                                                          *)
Bound(id) == IF IsHandoff(id) THEN {}
             ELSE {<<d, version[d]>> : d \in {e \in Node[id[1]].binds : version[e] > 0}}

BlockForHuman(id) ==
    /\ Recorded(id) /\ KindOf(id) = "human"
    /\ node' = [node EXCEPT ![id] = "BLOCKED"]
    /\ approvals' = Ask(approvals, id, Bound(id))
    /\ runStatus' = "BLOCKED"
    /\ UNCHANGED <<graphVars, clock>>

-------------------------------------------------------------------------------
OutstandingTerminal(shape) ==  \* mutant: a waived child counts as done
    {c \in shape : ~IsSatisfied(Self(c))}

(* _expand: the children the source describes, and the ones still to be done. *)
Outstanding(shape) ==
    {c \in shape : ~(Self(c) \in Rows /\ node[Self(c)] = "PASSED")}

Expanded(f, shape) ==
    [id \in Rows \cup {Self(c) : c \in shape} |->
        IF id = Self(f) THEN IF Outstanding(shape) = {} THEN "PASSED" ELSE "PENDING"
        ELSE IF id \in {Self(c) : c \in Outstanding(shape)} THEN "PENDING"
        ELSE node[id]]

ExpandAccumulating(f) ==  \* mutant: children of an earlier shape are kept
    /\ Recorded(Self(f)) /\ Node[f].kind = "fanout"
    /\ \E shape \in items[f] :
          /\ node' = Expanded(f, shape)
          /\ extraNeeds' = [extraNeeds EXCEPT ![f] = @ \cup shape]
    /\ UNCHANGED <<runStatus, attempts, version, items, cleared, owed, decideVars>>

Expand(f) ==
    /\ Recorded(Self(f)) /\ Node[f].kind = "fanout"
    /\ \E shape \in items[f] :
          /\ node' = Expanded(f, shape)
          /\ extraNeeds' = [extraNeeds EXCEPT ![f] = shape]
    /\ UNCHANGED <<runStatus, attempts, version, items, cleared, owed, decideVars>>

(* The SchedulerError is raised before the commit of the wave and ends the    *)
(* process; what a source of the same wave recorded is lost as well.          *)
ExpandRaises ==
    /\ phase = "wave" /\ \E f \in Expanding : items[f] = {} \/ Beside(f)
    /\ phase' = "parked"
    /\ wave' = {}
    /\ UNCHANGED <<runStatus, node, graphVars, decideVars, used>>

-------------------------------------------------------------------------------
(* _apply_policy: the consequence of a verdict.  nd and as are the rows and   *)
(* approvals with the attempt and its verdict already in them.                *)

StatusFor(verdict) ==
    IF verdict = "pass" THEN "PASSED" ELSE IF verdict = "fail" THEN "FAILED" ELSE "ERRORED"

ActivatedAlone(nd, target) ==  \* mutant: what follows the target stays skipped
    [id \in DOMAIN nd |->
        IF nd[id] = "SKIPPED" /\ id = Self(target) THEN "PENDING" ELSE nd[id]]

(* _activate: the optional target and the optional work that follows it.      *)
Activated(nd, target) ==
    [id \in DOMAIN nd |->
        IF /\ nd[id] = "SKIPPED" /\ ~IsHandoff(id)
           /\ id[1] \in {target} \cup Downstream[target] /\ Node[id[1]].optional
        THEN "PENDING" ELSE nd[id]]

(* PROCEED, and _check_escalation_condition: signal says escalate_when holds  *)
(* or could not be evaluated.                                                 *)
Proceed(w, nd, as, signal) ==
    /\ node' = IF signal THEN Activated(nd, Node[w].onEscalate) ELSE nd
    /\ approvals' = as
    /\ owed' = {v \in owed : Node[v].fix # w}
    /\ UNCHANGED <<runStatus, extraNeeds>>

RetryNode(w, nd, as) ==
    /\ node' = [nd EXCEPT ![Self(w)] = "PENDING"]
    /\ approvals' = as
    /\ UNCHANGED <<runStatus, extraNeeds, owed>>

InsertFixUnlinked(w, nd, as) ==  \* mutant: the node does not wait for its fix
    /\ node' = WithRow([nd EXCEPT ![Self(w)] = "PENDING"], Self(Node[w].fix))
    /\ owed' = owed \cup {w}
    /\ approvals' = as
    /\ UNCHANGED <<runStatus, extraNeeds>>

(* _insert_repair: w waits for its fix, which is inserted unless it exists.   *)
InsertFix(w, nd, as) ==
    /\ node' = WithRow([nd EXCEPT ![Self(w)] = "PENDING"], Self(Node[w].fix))
    /\ extraNeeds' = [extraNeeds EXCEPT ![w] = @ \cup {Node[w].fix}]
    /\ owed' = owed \cup {w}
    /\ approvals' = as
    /\ UNCHANGED runStatus

(* _insert_escalation: a human node with an open question, and a blocked run. *)
Escalate(w, nd, as, id) ==
    /\ node' = WithRow(nd, id)
    /\ approvals' = Ask(as, id, {})
    /\ runStatus' = "BLOCKED"
    /\ UNCHANGED <<extraNeeds, owed>>

Halt(nd, as, status) ==
    /\ node' = nd
    /\ approvals' = as
    /\ runStatus' = status
    /\ UNCHANGED <<extraNeeds, owed>>

ApplyPolicy(w, verdict, signal, nd, as) ==
    LET attempt == attempts[w] + 1
        action  == RespondTo(verdict, Node[w].policy, attempt)
    IN  \/ action = "proceed"    /\ Proceed(w, nd, as, signal)
        \/ action = "retry"      /\ RetryNode(w, nd, as)
        \/ action = "insert_fix" /\ InsertFix(w, nd, as)
        \/ action = "escalate"   /\ Escalate(w, nd, as, <<w, attempt, verdict>>)
        \/ action = "safe_stop"  /\ Halt(nd, as, "STOPPED")
        \/ action = "rollback"   /\ Halt(nd, as, "ROLLED_BACK")

(* Only a node with an escalate_when and an on_escalate can signal.           *)
Signals(w) == IF Node[w].onEscalate = NoNode THEN {FALSE} ELSE BOOLEAN

-------------------------------------------------------------------------------
(* _record of a node that did work.                                           *)

(* A node without a gate is accepted unless its worker or checks raised; a    *)
(* gate may decide anything, whether or not the worker raised.                *)
WorkVerdicts(w) == IF Node[w].gated THEN Verdicts ELSE {"pass", "error"}

(* _store: a new version, and with it what the fan-outs it feeds will read:   *)
(* one shape, or nothing that parses.                                         *)
Fed(w) == {f \in Work : Node[f].from = w}
Sources(w) == {its \in [Fed(w) -> SUBSET UNION {Node[f].shapes : f \in Fed(w)}] :
                 \A f \in Fed(w) : its[f] \subseteq Node[f].shapes /\ Cardinality(its[f]) <= 1}

Stored(w, produced) ==
    IF produced
    THEN /\ version' = [version EXCEPT ![w] = @ + 1]
         /\ \E its \in Sources(w) :
               items' = [f \in Work |-> IF f \in Fed(w) THEN its[f] ELSE items[f]]
    ELSE UNCHANGED <<version, items>>

(* _invalidate_downstream: from the second version of an output on, green     *)
(* descendants are stale, and approvals of the old version are re-opened.     *)
ReDerived(w, produced) == produced /\ Node[w].qualified /\ version[w] > 0

Staled(nd, D) ==
    [id \in DOMAIN nd |-> IF nd[id] = "PASSED" /\ id \in {Self(d) : d \in D}
                          THEN "STALE" ELSE nd[id]]

RecordWork(w) ==
    /\ Recorded(Self(w)) /\ Node[w].kind = "work"
    /\ \E verdict \in WorkVerdicts(w), signal \in Signals(w),
          produced \in (IF Node[w].outputs THEN BOOLEAN ELSE {FALSE}) :
          LET judged == [node EXCEPT ![Self(w)] = StatusFor(verdict)]
              stale  == StaleApprovals(approvals, [version EXCEPT ![w] = @ + 1])
          IN  /\ Stored(w, produced)
              /\ IF ReDerived(w, produced)
                 THEN ApplyPolicy(w, verdict, signal,
                                  Reopened(Staled(judged, Downstream[w]), approvals, stale),
                                  Reverted(approvals, stale))
                 ELSE ApplyPolicy(w, verdict, signal, judged, approvals)
    /\ attempts' = [attempts EXCEPT ![w] = @ + 1]
    /\ ~Doomed'  \* otherwise the wave was one of ExpandRaises
    /\ UNCHANGED <<cleared, clock>>

-------------------------------------------------------------------------------
(* _emit_evidence: the release gate (gates/predicates.py).                    *)

(* The runtime graph's ancestors: edges grown at runtime count.               *)
RuntimeUpstream(w) ==
    LET planned == Upstream[w] IN planned \cup UNION {extraNeeds[v] : v \in planned \cup {w}}

NoNodeInNonterminalState(nd, w) ==
    \A v \in RuntimeUpstream(w) : Self(v) \in DOMAIN nd => nd[Self(v)] \notin Unfinished

(* Every row of the run is looked at, not only those upstream.                *)
AllUpstreamGatesGreen(nd) == \A id \in DOMAIN nd : nd[id] \notin {"FAILED", "ERRORED", "STALE"}

NoStaleApprovals == StaleApprovals(approvals, version) = {}

Releasable(nd, w) ==
    AllUpstreamGatesGreen(nd) /\ NoNodeInNonterminalState(nd, w) /\ NoStaleApprovals

RecordBundle(w) ==
    /\ Recorded(Self(w)) /\ Node[w].kind = "bundle"
    /\ cleared' = IF Releasable([node EXCEPT ![Self(w)] = "RUNNING"], w)
                  THEN cleared \cup {w} ELSE cleared \ {w}
    /\ \E verdict \in Verdicts, signal \in Signals(w) :
          /\ verdict = "pass" => w \in cleared'
          /\ version' = [version EXCEPT ![w] = IF verdict = "pass" THEN @ + 1 ELSE @]
          /\ ApplyPolicy(w, verdict, signal, [node EXCEPT ![Self(w)] = StatusFor(verdict)], approvals)
    /\ attempts' = [attempts EXCEPT ![w] = @ + 1]
    /\ UNCHANGED <<items, clock>>

-------------------------------------------------------------------------------
(* _settle, once nothing more can be dispatched.                              *)
Unsettled == {id \in Rows : node[id] \in Unfinished}
Waiting   == {id \in Unsettled : Open(approvals, {id}) # {}}

Resting == IF Unsettled = {} THEN "COMPLETED"
           ELSE IF Waiting # {} /\ \A id \in Unsettled \ Waiting : node[id] = "PENDING"
           THEN "BLOCKED" ELSE "FAILED"

SettleWhenDry ==  \* mutant: a blocked run goes round while work is ready
    /\ phase = "loop" /\ Ready = {}
    /\ phase' = "parked"
    /\ runStatus' = IF runStatus = "RUNNING" THEN Resting ELSE runStatus
    /\ UNCHANGED <<node, graphVars, decideVars, wave, used>>

Settle ==
    /\ phase = "loop" /\ (runStatus # "RUNNING" \/ Ready = {})
    /\ phase' = "parked"
    /\ runStatus' = IF runStatus = "RUNNING" THEN Resting ELSE runStatus
    /\ UNCHANGED <<node, graphVars, decideVars, wave, used>>

Driver ==
    \/ Dispatch
    \/ \E id \in wave : BlockForHuman(id)
    \/ \E w \in Work : Expand(w) \/ RecordWork(w) \/ RecordBundle(w)
    \/ ExpandRaises
    \/ Settle
===============================================================================
