------------------------------ MODULE RunConsole ------------------------------
(* A run and the person at its console (cli/main.py): the driver of           *)
(* RunEngine, and the commands an operator gives while no process drives the  *)
(* run.  `ops` counts the commands given, up to MaxOps.                       *)
EXTENDS RunEngine

CONSTANTS MaxOps, Baseline

ASSUME ConsoleAssumption ==
    /\ MaxOps \in Nat
    \* The node plan.rollback.restore_from names, if the plan declares one.
    /\ Baseline \in Plan \cup {NoNode}

VARIABLE ops

vars == <<engineVars, ops>>

Command ==
    /\ phase = "parked" /\ ops < MaxOps
    /\ ops' = ops + 1
    /\ UNCHANGED <<phase, wave, used>>

-------------------------------------------------------------------------------
(* _decide: approve and reject take the first request open on the row.        *)
FirstOpen(id) == {i \in Open(approvals, {id}) : \A j \in Open(approvals, {id}) : i <= j}

ReleasedNothing(nd, id) == nd  \* mutant: the failed node is left as it is

(* _release_escalation: after an ERROR the node re-enters, after a FAIL it is *)
(* waived past; a node that failed no longer is left alone.                   *)
Released(nd, id) ==
    IF IsHandoff(id) /\ nd[Self(id[1])] \in {"FAILED", "ERRORED"}
    THEN [nd EXCEPT ![Self(id[1])] = IF id[3] = "error" THEN "PENDING" ELSE "SKIPPED"]
    ELSE nd

Approve(id) ==
    /\ Command /\ Open(approvals, {id}) # {}
    /\ approvals' = Decide(approvals, FirstOpen(id), "APPROVED")
    /\ clock' = clock + 1
    /\ node' = Released([node EXCEPT ![id] = "PASSED"], id)
    /\ runStatus' = "RUNNING"
    /\ UNCHANGED graphVars

RejectQuestionOnly(id) ==  \* mutant: the checkpoint stays BLOCKED
    /\ Command /\ Open(approvals, {id}) # {}
    /\ approvals' = Decide(approvals, FirstOpen(id), "REJECTED")
    /\ clock' = clock + 1
    /\ runStatus' = "FAILED"
    /\ UNCHANGED <<node, graphVars>>

Reject(id) ==
    /\ Command /\ Open(approvals, {id}) # {}
    /\ approvals' = Decide(approvals, FirstOpen(id), "REJECTED")
    /\ clock' = clock + 1
    /\ node' = [node EXCEPT ![id] = "FAILED"]
    /\ runStatus' = "FAILED"
    /\ UNCHANGED graphVars

(* A decision recorded without a question: the trail of retry and invalidate. *)
Noted(as, id, decision) ==
    Append(as, [node |-> id, bound |-> {}, decision |-> decision, at |-> clock + 1])

Retry(id) ==
    /\ Command /\ node[id] \in {"FAILED", "ERRORED"}
    /\ approvals' = Noted(approvals, id, "APPROVED")
    /\ clock' = clock + 1
    /\ node' = [node EXCEPT ![id] = "PENDING"]
    /\ runStatus' = "RUNNING"
    /\ UNCHANGED graphVars

-------------------------------------------------------------------------------
(* invalidate: the result of n is withdrawn.  The work it acquired at runtime *)
(* is reclaimed, the verdicts built on it are stale, and the questions about  *)
(* any of them are closed.                                                    *)
Reclaimed(n) == {c \in extraNeeds[n] : Self(c) \in Rows /\ node[Self(c)] # "PENDING"}
BuiltOnNothing(n) == {}  \* mutant: only the named result is withdrawn
BuiltOnDirectly(n) ==    \* mutant: only its direct dependents are
    {Self(e) : e \in {d \in Plan : n \in Node[d].needs /\ node[Self(d)] = "PASSED"}}
BuiltOn(n) == {Self(d) : d \in {e \in Downstream[n] :
                  /\ Self(e) \in Rows
                  /\ node[Self(e)] \in {"PASSED", "BLOCKED", "FAILED", "ERRORED"}}}
Moot(n) == {id \in Handoffs({n} \cup Reclaimed(n) \cup Downstream[n]) : node[id] # "SKIPPED"}

Withdrawn(n) ==
    [id \in Rows |->
        IF id = Self(n) THEN "PENDING"
        ELSE IF id \in Moot(n) \cup {Self(c) : c \in Reclaimed(n)} THEN "SKIPPED"
        ELSE IF id \in BuiltOn(n) THEN "STALE"
        ELSE node[id]]

Invalidate(n) ==
    /\ Command
    /\ node' = Withdrawn(n)
    /\ approvals' = Noted(Decide(approvals, Open(approvals, Moot(n) \cup BuiltOn(n)), "REJECTED"),
                          Self(n), "REJECTED")
    /\ clock' = clock + 1
    /\ extraNeeds' = [extraNeeds EXCEPT ![n] = {}]
    \* The verdict that asked for the repair is withdrawn with the rest.
    /\ owed' = owed \ {n}
    /\ runStatus' = "RUNNING"
    /\ UNCHANGED <<attempts, version, items, cleared>>

-------------------------------------------------------------------------------
(* recheck (Scheduler.revalidate): the gate of a node that failed or errored  *)
(* is decided again without its work.                                         *)
Rechecking(w) ==
    /\ Command /\ Node[w].gated /\ Node[w].kind \in {"work", "bundle"}
    /\ Self(w) \in Rows /\ node[Self(w)] \in {"FAILED", "ERRORED"}
    /\ attempts' = [attempts EXCEPT ![w] = @ + 1]
    /\ UNCHANGED <<version, items>>

(* _retire_escalations: a node that passes closes the handoffs it opened.     *)
Retired(nd, H) == [id \in DOMAIN nd |-> IF id \in H THEN "SKIPPED" ELSE nd[id]]

(* Every check of a bundle that FAILED is asked again, while its own row      *)
(* still says FAILED: it is not releasable, and cannot pass.  After an ERROR  *)
(* its checks of the run's rows, which always answer, stand as recorded.      *)
RecheckPasses(w) ==
    /\ Rechecking(w)
    /\ Node[w].kind = "bundle" => node[Self(w)] = "ERRORED" /\ w \in cleared
    /\ \E signal \in Signals(w) :
          LET nd == Retired([node EXCEPT ![Self(w)] = "PASSED"], Handoffs({w}))
          IN  node' = IF signal THEN Activated(nd, Node[w].onEscalate) ELSE nd
    /\ approvals' = Decide(approvals, Open(approvals, Handoffs({w})), "REJECTED")
    /\ clock' = clock + 1
    /\ runStatus' = "RUNNING"
    /\ UNCHANGED <<extraNeeds, cleared, owed>>

RecheckFails(w) ==
    /\ Rechecking(w)
    /\ cleared' = IF node[Self(w)] = "FAILED" THEN cleared \ {w} ELSE cleared
    /\ \E verdict \in {"fail", "error"} :
          ApplyPolicy(w, verdict, FALSE,
                      [node EXCEPT ![Self(w)] = StatusFor(verdict)], approvals)
    /\ UNCHANGED clock

-------------------------------------------------------------------------------
(* stop: what was mid-flight has to run again.                                *)
Stop ==
    /\ Command
    /\ node' = Redo(node)
    /\ runStatus' = "STOPPED"
    /\ UNCHANGED <<graphVars, decideVars>>

(* rollback: the target is restored from the recorded baseline; the rows of   *)
(* the run are history and stay as they are.                                  *)
Rollback ==
    /\ Command /\ Baseline # NoNode /\ version[Baseline] > 0
    /\ runStatus' = "ROLLED_BACK"
    /\ UNCHANGED <<node, graphVars, decideVars>>

Operator ==
    \/ \E id \in Rows : Approve(id) \/ Reject(id) \/ Retry(id)
    \/ \E n \in Plan : Invalidate(n)
    \/ \E w \in Work : RecheckPasses(w) \/ RecheckFails(w)
    \/ Stop
    \/ Rollback

ConsoleInit == Init /\ ops = 0

Next ==
    \/ Driver /\ UNCHANGED ops
    \/ (Resume \/ Crash) /\ UNCHANGED ops
    \/ Operator

(* A process that drives the run keeps driving it; nobody owes a command.     *)
Spec == ConsoleInit /\ [][Next]_vars /\ WF_vars(Driver /\ UNCHANGED ops)
===============================================================================
