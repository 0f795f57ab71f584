------------------------------ MODULE RunReport ------------------------------
(* What a run is reported to have been: the attempts and verdicts the store   *)
(* appends (state/store.py), the metrics read off them (metrics/collect.py)   *)
(* and the evidence bundle a reviewer approves (evidence/).  Both are read in *)
(* a session of their own, at any moment of the run.                          *)
(*                                                                            *)
(*   ledger   per node, the outcome of each attempt in order: what its gate   *)
(*            record says, "red" being FAIL or ERROR, or, without a gate,     *)
(*            whether the attempt carries an error                            *)
EXTENDS RunProperties, FiniteSetsExt

VARIABLE ledger

reportVars == <<vars, ledger>>

Logged ==
    ledger' = [w \in Work |->
                 IF attempts'[w] = attempts[w] THEN ledger[w]
                 ELSE Append(ledger[w], IF node'[Self(w)] = "PASSED" THEN "pass" ELSE "red")]

ReportInit == ConsoleInit /\ ledger = [w \in Work |-> <<>>]
ReportNext == Next /\ Logged
ReportSpec == ReportInit /\ [][ReportNext]_reportVars

Executed == {w \in Work : ledger[w] # <<>>}
Attempts == MapThenSumSet(LAMBDA w : Len(ledger[w]), Work)

-------------------------------------------------------------------------------
(* metrics.  A node has one incident at most: its first red attempt, and the  *)
(* first pass after it.                                                       *)
FirstPasses == {w \in Executed : ledger[w][1] = "pass"}
Incidents   == {w \in Executed : "red" \in Range(ledger[w])}
FailedAt(w) == Min({i \in DOMAIN ledger[w] : ledger[w][i] = "red"})
Recovered   == {w \in Incidents : \E i \in DOMAIN ledger[w] :
                                     i > FailedAt(w) /\ ledger[w][i] = "pass"}
Unrecovered == Incidents \ Recovered

RunMetrics == [executed    |-> Cardinality(Executed),
               attempts    |-> Attempts,
               retries     |-> Attempts - Cardinality(Executed),
               firstPasses |-> Cardinality(FirstPasses),
               incidents   |-> Cardinality(Incidents),
               unrecovered |-> Cardinality(Unrecovered),
               pending     |-> Cardinality(Open(approvals, Rows))]

-------------------------------------------------------------------------------
(* The bundle: the records of rows, approvals and artifacts as they are, and  *)
(* what is still stopping something, the last gate record of each node.       *)
Gates(w) == IF Node[w].gated THEN ledger[w] ELSE <<>>

FirstBlocked(gates) ==  \* mutant: the first verdict of a node is the one that counts
    gates # <<>> /\ gates[1] = "red"
Blocked(gates) == gates # <<>> /\ gates[Len(gates)] = "red"
BlockingGates  == {w \in Work : Blocked(Gates(w))}

StaleRecords == StaleApprovals(approvals, version)

(* Artifacts without an attempt that produced them.                           *)
Orphaned == {w \in Plan : version[w] > 0 /\ ledger[w] = <<>>}

PassedAtAll ==  \* mutant: a retried node counts as passed at the first attempt
    {w \in Executed : Passed(w)}
PassedFirstAttempt == {w \in Executed : Passed(w) /\ Len(ledger[w]) = 1}

Counts == [nodes       |-> Cardinality(Rows),
           attempts    |-> Attempts,
           retries     |-> Attempts - Cardinality(Rows),
           gates       |-> MapThenSumSet(LAMBDA w : Len(Gates(w)), Work),
           blocking    |-> Cardinality(BlockingGates),
           artifacts   |-> MapThenSumSet(LAMBDA w : version[w], Plan),
           stale       |-> Cardinality(StaleRecords),
           passedFirst |-> Cardinality(PassedFirstAttempt)]

IsReleasable ==
    /\ BlockingGates = {} /\ StaleRecords = {} /\ Orphaned = {}
    /\ runStatus = "COMPLETED"

-------------------------------------------------------------------------------
(* "RELEASABLE: every gate held": of a run whose bundle says so, every gated  *)
(* node is green or out of the run for a reason other than a waived failure,  *)
(* whatever was retried, withdrawn, re-checked or waived on the way there.    *)
ReleasableIsGreen ==
    IsReleasable =>
        \A w \in Work : Node[w].gated /\ Self(w) \in Rows =>
            Passed(w) \/ (node[Self(w)] = "SKIPPED" /\ ~Waived(w))

(* The bundle and the metrics, two readings of the same rows printed side by  *)
(* side, do not contradict each other: a node the bundle counts as passed at  *)
(* the first attempt is in the success rate, the gates that block are among   *)
(* the incidents, and an incident never recovered still blocks.               *)
ReportsAgree ==
    /\ PassedFirstAttempt \subseteq FirstPasses
    /\ BlockingGates \subseteq Incidents
    /\ {w \in Unrecovered : Node[w].gated} \subseteq BlockingGates

-------------------------------------------------------------------------------
(* Claims of the repository's text that the reports do not keep.              *)

(* "so that a bundle cannot look healthier than the run it describes": no     *)
(* releasable run holds a node that ended red.                                *)
LooksNoHealthier ==
    IsReleasable => \A id \in Rows : node[id] \notin {"FAILED", "ERRORED"}

(* "Unrecovered incidents are [...] reported separately": a node that failed  *)
(* and did not come back is among them.                                       *)
IncidentsAreReported == \A w \in Work : Judged(w) /\ Broken(w) => w \in Unrecovered

(* The two retry counts of one bundle are the same number.                    *)
RetriesAgree == Counts.retries = RunMetrics.retries
===============================================================================
