----------------------------- MODULE ClickRecorder -----------------------------
(* Recording clicks off the redirect path (target/shortener/analytics): a     *)
(* bounded queue, a daemon thread that drains it in batches, and a lifespan   *)
(* that starts and stops the thread.  A lifespan that stopped without its     *)
(* thread (the join has a timeout) leaves a thread behind; the next lifespan  *)
(* of the same process starts another one on the same queue.                  *)
(*                                                                            *)
(*   life      the lifespan: down, serving, putting the sentinel, joining     *)
(*   queue     _queue: clicks and sentinels                                   *)
(*   worker    _worker                                                        *)
(*   leaving   the thread stop_recorder took from _worker                     *)
(*   at[d]     where the drain d is                                           *)
(*   batch[d]  the clicks it holds                                            *)
(*   rows[c]   the rows of click c in the clicks table                        *)
(* and history:                                                               *)
(*   dropped   the clicks a full queue refused                                *)
(*   lost      the clicks the datastore refused, or a dead process took along *)
(*   overdue   a join of this process timed out                               *)
EXTENDS Naturals, Sequences, FiniteSets

CONSTANTS Clicks,     \* one for each redirect that may be served
          Drains,     \* the threads ever started, numbered: a bound on the lifespans
          NoDrain, Sentinel,
          QueueSize,  \* analytics_queue_maxsize
          BatchSize   \* analytics_batch_size

ASSUME RecorderAssumption ==
    /\ Drains \subseteq Nat /\ NoDrain \notin Drains /\ Sentinel \notin Clicks
    /\ QueueSize \in Nat \ {0} /\ BatchSize \in Nat \ {0}

VARIABLES life, queue, worker, leaving, at, batch, rows, dropped, lost, overdue

lifeVars     == <<life, worker, leaving, overdue>>
drainVars    == <<at, batch, rows>>
recorderVars == <<life, queue, worker, leaving, at, batch, rows, dropped, lost, overdue>>

Lives  == {"down", "serving", "putting", "joining"}
Places == {"unborn", "waiting", "taking", "storing", "closing", "ended"}
Alive  == {d \in Drains : at[d] \notin {"unborn", "ended"}}

(* Where a click may be.                                                      *)
Queued  == {c \in Clicks : \E i \in 1 .. Len(queue) : queue[i] = c}
Held    == {c \in Clicks : \E d \in Drains : c \in batch[d]}
Stored  == {c \in Clicks : rows[c] > 0}
Waiting == Queued \cup Held
Seen    == Waiting \cup Stored \cup dropped \cup lost

-------------------------------------------------------------------------------
(* record_click: put_nowait.                                                  *)
PutNowait(c) ==
    IF Len(queue) < QueueSize
    THEN queue' = Append(queue, c) /\ UNCHANGED dropped
    ELSE dropped' = dropped \cup {c} /\ UNCHANGED queue

RecordClick(c) ==
    /\ c \notin Seen
    /\ PutNowait(c)
    /\ UNCHANGED <<lifeVars, drainVars, lost>>

(* start_recorder: it has no work while a worker is there.                    *)
StartRecorder(d) ==
    /\ life = "down"
    /\ at[d] = "unborn" /\ \A e \in Drains : at[e] = "unborn" => d <= e
    /\ life' = "serving"
    /\ IF worker = NoDrain
       THEN worker' = d /\ at' = [at EXCEPT ![d] = "waiting"]
       ELSE UNCHANGED <<worker, at>>
    /\ UNCHANGED <<queue, leaving, batch, rows, dropped, lost, overdue>>

StopKeepsWorker ==  \* mutant: the worker is not taken away under the lock
    /\ life = "serving" /\ life' = "putting" /\ leaving' = worker
    /\ UNCHANGED <<queue, worker, drainVars, dropped, lost, overdue>>

(* stop_recorder up to the unlock.                                            *)
StopRecorder ==
    /\ life = "serving" /\ life' = "putting"
    /\ leaving' = worker /\ worker' = NoDrain
    /\ UNCHANGED <<queue, drainVars, dropped, lost, overdue>>

PutSentinelFirst ==  \* mutant: the sentinel overtakes the clicks
    /\ life = "putting" /\ Len(queue) < QueueSize
    /\ life' = "joining" /\ queue' = <<Sentinel>> \o queue
    /\ UNCHANGED <<worker, leaving, overdue, drainVars, dropped, lost>>

(* pending.put waits for room, without a timeout.                             *)
PutSentinel ==
    /\ life = "putting" /\ Len(queue) < QueueSize
    /\ life' = "joining" /\ queue' = Append(queue, Sentinel)
    /\ UNCHANGED <<worker, leaving, overdue, drainVars, dropped, lost>>

(* worker.join returns when the thread has ended, or after FRESHNESS_SECONDS. *)
Joined ==
    /\ life = "joining" /\ life' = "down"
    /\ overdue' = (overdue \/ at[leaving] # "ended")
    /\ leaving' = NoDrain
    /\ UNCHANGED <<queue, worker, drainVars, dropped, lost>>

-------------------------------------------------------------------------------
(* pending.get: the first item of a batch is waited for, the others are not.  *)
Take(d) ==
    /\ at[d] \in {"waiting", "taking"} /\ queue # <<>>
    /\ queue' = Tail(queue)
    /\ IF Head(queue) = Sentinel
       THEN /\ at' = [at EXCEPT ![d] = IF batch[d] = {} THEN "ended" ELSE "closing"]
            /\ UNCHANGED batch
       ELSE /\ batch' = [batch EXCEPT ![d] = @ \cup {Head(queue)}]
            /\ at' = [at EXCEPT ![d] =
                        IF Cardinality(batch[d]) + 1 >= BatchSize THEN "storing" ELSE "taking"]
    /\ UNCHANGED <<lifeVars, rows, dropped, lost>>

(* get_nowait found nothing more.                                             *)
Empty(d) ==
    /\ at[d] = "taking" /\ queue = <<>>
    /\ at' = [at EXCEPT ![d] = "storing"]
    /\ UNCHANGED <<lifeVars, queue, batch, rows, dropped, lost>>

NextRoundUnlessLost(d) ==  \* mutant: a refused batch kills the thread
    /\ at' = [at EXCEPT ![d] = IF @ = "closing" \/ rows' = rows THEN "ended" ELSE "waiting"]
    /\ batch' = [batch EXCEPT ![d] = {}]

NextRoundUncleared(d) ==  \* mutant: the batch is made once, before the loop
    /\ at' = [at EXCEPT ![d] = IF @ = "closing" THEN "ended" ELSE "waiting"]
    /\ UNCHANGED batch

(* The batch is forgotten whatever became of it; a drain that met its         *)
(* sentinel returns.                                                          *)
NextRound(d) ==
    /\ at' = [at EXCEPT ![d] = IF @ = "closing" THEN "ended" ELSE "waiting"]
    /\ batch' = [batch EXCEPT ![d] = {}]

(* insert_clicks: the whole batch, in one transaction, or none of it.         *)
InsertClicks(S) ==
    \/ rows' = [c \in Clicks |-> IF c \in S THEN rows[c] + 1 ELSE rows[c]] /\ UNCHANGED lost
    \/ lost' = lost \cup S /\ UNCHANGED rows

Store(d) ==
    /\ at[d] \in {"storing", "closing"}
    /\ InsertClicks(batch[d])
    /\ NextRound(d)
    /\ UNCHANGED <<lifeVars, queue, dropped>>

(* The process ends.  Its daemon threads, its queue and its batches go with   *)
(* it.                                                                        *)
ProcessEnds ==
    /\ life' = "down" /\ worker' = NoDrain /\ leaving' = NoDrain /\ overdue' = FALSE
    /\ lost' = lost \cup Waiting
    /\ queue' = <<>> /\ batch' = [d \in Drains |-> {}]
    /\ at' = [d \in Drains |-> IF d \in Alive THEN "ended" ELSE at[d]]
    /\ UNCHANGED <<rows, dropped>>

-------------------------------------------------------------------------------
RecorderInit ==
    /\ life = "down" /\ queue = <<>> /\ worker = NoDrain /\ leaving = NoDrain
    /\ at = [d \in Drains |-> "unborn"] /\ batch = [d \in Drains |-> {}]
    /\ rows = [c \in Clicks |-> 0]
    /\ dropped = {} /\ lost = {} /\ overdue = FALSE

DrainStep(d) == Take(d) \/ Empty(d) \/ Store(d)

RecorderNext ==
    \/ \E c \in Clicks : RecordClick(c)
    \/ \E d \in Drains : StartRecorder(d) \/ DrainStep(d)
    \/ StopRecorder \/ PutSentinel \/ Joined \/ ProcessEnds

RecorderSpec == RecorderInit /\ [][RecorderNext]_recorderVars

(* A thread that can run does.                                                *)
RecorderFairness ==
    /\ \A d \in Drains : WF_recorderVars(DrainStep(d))
    /\ WF_recorderVars(PutSentinel) /\ WF_recorderVars(Joined)

-------------------------------------------------------------------------------
(* The clicks as ClickLog sees them: a click has one fate.                    *)
FateOf(c) ==
    CASE c \notin Seen -> "unseen"
      [] c \in Waiting /\ rows[c] = 0 /\ c \notin lost \cup dropped -> "waiting"
      [] c \notin Waiting /\ rows[c] = 1 /\ c \notin lost \cup dropped -> "kept"
      [] c \in lost /\ rows[c] = 0 /\ c \notin Waiting \cup dropped -> "lost"
      [] c \in dropped /\ rows[c] = 0 /\ c \notin Waiting \cup lost -> "dropped"
      [] OTHER -> "several"

Log == INSTANCE ClickLog WITH fate <- [c \in Clicks |-> FateOf(c)]
===============================================================================
