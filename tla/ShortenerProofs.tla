---------------------------- MODULE ShortenerProofs ----------------------------
(* What holds of the click recorder, and of the service around it, for any    *)
(* number of requests, codes and lifespans, and any size of queue and batch.  *)
EXTENDS Shortener, TLAPS, FiniteSetTheorems, SequenceTheorems, WellFoundedInduction

RecorderTypes ==
    /\ life \in Lives
    /\ queue \in Seq(Clicks \cup {Sentinel})
    /\ worker \in Drains \cup {NoDrain} /\ leaving \in Drains \cup {NoDrain}
    /\ at \in [Drains -> Places]
    /\ batch \in [Drains -> SUBSET Clicks]
    /\ rows \in [Clicks -> Nat]
    /\ dropped \subseteq Clicks /\ lost \subseteq Clicks
    /\ overdue \in BOOLEAN

(* A click is in one place of the queue or in one batch, or it has ended in   *)
(* one way.                                                                   *)
OnePlace ==
    /\ \A i, j \in 1 .. Len(queue) : queue[i] \in Clicks /\ queue[i] = queue[j] => i = j
    /\ \A d, e \in Drains : d # e => batch[d] \cap batch[e] = {}
    /\ Queued \cap Held = {}
    /\ Waiting \cap (Stored \cup dropped \cup lost) = {}
    /\ Stored \cap (dropped \cup lost) = {} /\ dropped \cap lost = {}
    /\ \A c \in Clicks : rows[c] <= 1

RecorderInv == RecorderTypes /\ OnePlace

-------------------------------------------------------------------------------
(* What the steps of the queue do to the clicks in it.                        *)
LEMMA QueuedAppend ==
    ASSUME RecorderTypes, NEW x \in Clicks \cup {Sentinel}, Sentinel \notin Clicks,
           queue' = Append(queue, x)
    PROVE  Queued' = IF x \in Clicks THEN Queued \cup {x} ELSE Queued
<1>1. /\ Len(queue') = Len(queue) + 1 /\ Len(queue) \in Nat
      /\ \A i \in 1 .. Len(queue) : queue'[i] = queue[i]
      /\ queue'[Len(queue) + 1] = x
  BY DEF RecorderTypes
<1>2. ASSUME NEW c \in Clicks PROVE c \in Queued' <=> (c \in Queued \/ c = x)
  BY <1>1 DEF Queued
<1> QED
  BY <1>2 DEF Queued

LEMMA QueuedTail ==
    ASSUME RecorderTypes, queue # <<>>, queue' = Tail(queue)
    PROVE  /\ Head(queue) \in Clicks \cup {Sentinel}
           /\ Queued = Queued' \cup ({Head(queue)} \cap Clicks)
<1>1. /\ Len(queue) \in Nat \ {0} /\ Len(queue') = Len(queue) - 1
      /\ \A i \in 1 .. Len(queue') : queue'[i] = queue[i + 1]
      /\ Head(queue) = queue[1] /\ queue[1] \in Clicks \cup {Sentinel}
  BY DEF RecorderTypes
<1>2. ASSUME NEW c \in Clicks PROVE c \in Queued <=> (c \in Queued' \/ c = queue[1])
  <2>1. ASSUME c \in Queued, c # queue[1] PROVE c \in Queued'
    <3>1. PICK i \in 1 .. Len(queue) : queue[i] = c
      BY <2>1 DEF Queued
    <3>2. i - 1 \in 1 .. Len(queue') /\ queue'[i - 1] = c
      BY <1>1, <2>1, <3>1
    <3> QED
      BY <3>2 DEF Queued
  <2>2. ASSUME c \in Queued' PROVE c \in Queued
    <3>1. PICK i \in 1 .. Len(queue') : queue'[i] = c
      BY <2>2 DEF Queued
    <3>2. i + 1 \in 1 .. Len(queue) /\ queue[i + 1] = c
      BY <1>1, <3>1
    <3> QED
      BY <3>2 DEF Queued
  <2>3. ASSUME c = queue[1] PROVE c \in Queued
    BY <1>1, <2>3 DEF Queued
  <2> QED
    BY <2>1, <2>2, <2>3
<1> QED
  BY <1>1, <1>2 DEF Queued

-------------------------------------------------------------------------------
(* The invariant, one lemma for each action.                                  *)
Settled == <<rows, dropped, lost>>

LEMMA InitRecorder == ASSUME RecorderAssumption, RecorderInit PROVE RecorderInv
<1>1. RecorderTypes
  <2>1. queue \in Seq(Clicks \cup {Sentinel})
    BY DEF RecorderInit
  <2>2. rows \in [Clicks -> Nat] /\ batch \in [Drains -> SUBSET Clicks] /\ at \in [Drains -> Places]
    BY DEF RecorderInit, Places
  <2> QED
    BY <2>1, <2>2 DEF RecorderInit, RecorderTypes, Lives
<1>2. Queued = {} /\ Held = {} /\ Stored = {}
  BY DEF RecorderInit, Queued, Held, Stored
<1>3. OnePlace
  BY <1>2 DEF RecorderInit, OnePlace, Waiting
<1> QED
  BY <1>1, <1>3 DEF RecorderInv

LEMMA RecordClickInv ==
    ASSUME RecorderAssumption, RecorderInv, NEW c \in Clicks, RecordClick(c)
    PROVE  RecorderInv'
<1> USE DEF RecorderInv
<1>1. Held' = Held /\ Stored' = Stored
  BY DEF RecordClick, drainVars, Held, Stored
<1>2. c \notin Queued \cup Held \cup Stored \cup dropped \cup lost
  BY DEF RecordClick, Seen, Waiting
<1>3. CASE Len(queue) < QueueSize
  <2>1. queue' = Append(queue, c) /\ dropped' = dropped /\ lost' = lost
    BY <1>3 DEF RecordClick, PutNowait
  <2>2. Queued' = Queued \cup {c}
    BY <2>1, QueuedAppend DEF RecorderAssumption
  <2>3. RecorderTypes'
    BY <2>1 DEF RecorderTypes, RecordClick, lifeVars, drainVars
  <2>4. \A i, j \in 1 .. Len(queue') : queue'[i] \in Clicks /\ queue'[i] = queue'[j] => i = j
    <3>1. \A i \in 1 .. Len(queue) : queue[i] # c
      BY <1>2 DEF Queued
    <3> QED
      BY <2>1, <3>1 DEF RecorderTypes, OnePlace
  <2>5. OnePlace'
    BY <1>1, <1>2, <2>1, <2>2, <2>4 DEF OnePlace, Waiting, RecordClick, drainVars
  <2> QED
    BY <2>3, <2>5
<1>4. CASE ~ (Len(queue) < QueueSize)
  <2>1. queue' = queue /\ dropped' = dropped \cup {c} /\ lost' = lost
    BY <1>4 DEF RecordClick, PutNowait
  <2>2. Queued' = Queued
    BY <2>1 DEF Queued
  <2>3. RecorderTypes'
    BY <2>1 DEF RecorderTypes, RecordClick, lifeVars, drainVars
  <2>4. OnePlace'
    BY <1>1, <1>2, <2>1, <2>2 DEF OnePlace, Waiting, RecordClick, drainVars
  <2> QED
    BY <2>3, <2>4
<1> QED
  BY <1>3, <1>4

(* Steps that move no click.                                                  *)
LEMMA StillInv ==
    ASSUME RecorderInv, RecorderTypes', Queued' = Queued, batch' = batch, UNCHANGED Settled,
           \A i, j \in 1 .. Len(queue') : queue'[i] \in Clicks /\ queue'[i] = queue'[j] => i = j
    PROVE  RecorderInv'
<1>1. Held' = Held /\ Stored' = Stored
  BY DEF Held, Stored, Settled
<1> QED
  BY <1>1 DEF RecorderInv, OnePlace, Waiting, Settled

LEMMA LifeInv ==
    ASSUME RecorderAssumption, RecorderInv,
           StopRecorder \/ Joined \/ \E d \in Drains : StartRecorder(d) \/ Empty(d)
    PROVE  RecorderInv' /\ Waiting' = Waiting /\ UNCHANGED Settled
<1>1. queue' = queue /\ batch' = batch /\ UNCHANGED Settled
  BY DEF StopRecorder, Joined, StartRecorder, Empty, drainVars, Settled
<1>2. Queued' = Queued /\ Held' = Held
  BY <1>1 DEF Queued, Held
<1>3. RecorderTypes'
  <2>1. CASE StopRecorder
    BY <2>1 DEF RecorderInv, RecorderTypes, StopRecorder, drainVars, Lives
  <2>2. CASE Joined
    BY <2>2 DEF RecorderInv, RecorderTypes, Joined, drainVars, Lives
  <2>3. ASSUME NEW d \in Drains, StartRecorder(d) PROVE RecorderTypes'
    BY <2>3 DEF RecorderInv, RecorderTypes, StartRecorder, Lives, Places
  <2>4. ASSUME NEW d \in Drains, Empty(d) PROVE RecorderTypes'
    BY <2>4 DEF RecorderInv, RecorderTypes, Empty, lifeVars, Places
  <2> QED
    BY <2>1, <2>2, <2>3, <2>4
<1>4. RecorderInv'
  BY <1>1, <1>2, <1>3, StillInv DEF RecorderInv, OnePlace
<1> QED
  BY <1>1, <1>2, <1>4 DEF Waiting

LEMMA PutSentinelInv ==
    ASSUME RecorderAssumption, RecorderInv, PutSentinel
    PROVE  RecorderInv' /\ Waiting' = Waiting /\ UNCHANGED Settled
<1> USE DEF RecorderInv, RecorderAssumption
<1>1. /\ queue' = Append(queue, Sentinel) /\ batch' = batch /\ UNCHANGED Settled
      /\ at' = at /\ worker' = worker /\ leaving' = leaving /\ overdue' = overdue
      /\ life' = "joining"
  BY DEF PutSentinel, drainVars, Settled
<1>2. Queued' = Queued
  BY <1>1, QueuedAppend
<1>3. RecorderTypes'
  BY <1>1 DEF RecorderTypes, Lives, Settled
<1>4. \A i, j \in 1 .. Len(queue') : queue'[i] \in Clicks /\ queue'[i] = queue'[j] => i = j
  BY <1>1 DEF RecorderTypes, OnePlace
<1>5. RecorderInv'
  BY <1>1, <1>2, <1>3, <1>4, StillInv
<1> QED
  BY <1>1, <1>2, <1>5 DEF Waiting, Held

LEMMA TakeInv ==
    ASSUME RecorderAssumption, RecorderInv, NEW d \in Drains, Take(d)
    PROVE  RecorderInv' /\ Waiting' = Waiting /\ UNCHANGED Settled
<1> USE DEF RecorderInv, RecorderAssumption
<1>1. /\ queue # <<>> /\ queue' = Tail(queue) /\ UNCHANGED <<lifeVars, rows, dropped, lost>>
      /\ UNCHANGED Settled
  BY DEF Take, Settled
<1>2. /\ Head(queue) \in Clicks \cup {Sentinel}
      /\ Queued = Queued' \cup ({Head(queue)} \cap Clicks)
  BY <1>1, QueuedTail
<1>3. \A i, j \in 1 .. Len(queue') : queue'[i] \in Clicks /\ queue'[i] = queue'[j] => i = j
  <2>1. Len(queue) \in Nat \ {0} /\ Len(queue') = Len(queue) - 1
    BY <1>1 DEF RecorderTypes
  <2>2. \A i \in 1 .. Len(queue') : queue'[i] = queue[i + 1] /\ i + 1 \in 1 .. Len(queue)
    BY <1>1, <2>1 DEF RecorderTypes
  <2> SUFFICES ASSUME NEW i \in 1 .. Len(queue'), NEW j \in 1 .. Len(queue'),
                      queue'[i] \in Clicks, queue'[i] = queue'[j]
               PROVE  i = j
    OBVIOUS
  <2>3. i + 1 = j + 1
    BY <2>2 DEF OnePlace
  <2> QED
    BY <2>1, <2>3
<1>4. CASE Head(queue) = Sentinel
  <2>1. batch' = batch /\ at' = [at EXCEPT ![d] = IF batch[d] = {} THEN "ended" ELSE "closing"]
    BY <1>4 DEF Take
  <2>2. Queued' = Queued
    BY <1>2, <1>4
  <2>3. RecorderTypes'
    BY <1>1, <2>1 DEF RecorderTypes, lifeVars, Places
  <2>4. RecorderInv'
    BY <1>1, <1>3, <2>1, <2>2, <2>3, StillInv
  <2> QED
    BY <1>1, <2>1, <2>2, <2>4 DEF Waiting, Held
<1>5. CASE Head(queue) # Sentinel
  <2> DEFINE h == Head(queue)
  <2>1. h \in Clicks /\ h \in Queued /\ h \notin Queued'
    <3>1. h \in Clicks /\ h \in Queued
      BY <1>2, <1>5
    <3>2. h \notin Queued'
      <4> SUFFICES ASSUME NEW i \in 1 .. Len(queue'), queue'[i] = h PROVE FALSE
        BY DEF Queued
      <4>1. Len(queue) \in Nat \ {0} /\ Len(queue') = Len(queue) - 1 /\ h = queue[1]
        BY <1>1 DEF RecorderTypes
      <4>2. queue[i + 1] = h /\ i + 1 \in 1 .. Len(queue) /\ 1 \in 1 .. Len(queue)
        BY <1>1, <4>1 DEF RecorderTypes
      <4>3. i + 1 = 1
        BY <3>1, <4>1, <4>2 DEF OnePlace
      <4> QED
        BY <4>3
    <3> QED
      BY <3>1, <3>2
  <2>2. batch' = [batch EXCEPT ![d] = @ \cup {h}]
    BY <1>5 DEF Take
  <2>3. at' \in [Drains -> Places]
    BY <1>5 DEF Take, RecorderTypes, Places
  <2>4. Held' = Held \cup {h} /\ Stored' = Stored
    BY <1>1, <2>1, <2>2 DEF Held, Stored, RecorderTypes
  <2>5. Waiting' = Waiting
    BY <1>2, <2>1, <2>4 DEF Waiting
  <2>6. RecorderTypes'
    <3>1. queue' \in Seq(Clicks \cup {Sentinel})
      BY <1>1 DEF RecorderTypes
    <3>2. batch' \in [Drains -> SUBSET Clicks]
      BY <2>1, <2>2 DEF RecorderTypes
    <3> QED
      BY <1>1, <2>3, <3>1, <3>2 DEF RecorderTypes, lifeVars
  <2>7. \A e, f \in Drains : e # f => batch'[e] \cap batch'[f] = {}
    <3>1. \A e \in Drains : h \notin batch[e]
      BY <2>1 DEF OnePlace, Held
    <3> QED
      BY <2>2, <3>1 DEF OnePlace, RecorderTypes
  <2>8. Queued' \cap Held' = {}
    BY <1>2, <2>1, <2>4 DEF OnePlace
  <2>9. OnePlace'
    BY <1>1, <1>3, <2>4, <2>5, <2>7, <2>8 DEF OnePlace
  <2> QED
    BY <1>1, <2>5, <2>6, <2>9
<1> QED
  BY <1>4, <1>5

LEMMA StoreInv ==
    ASSUME RecorderAssumption, RecorderInv, NEW d \in Drains, Store(d)
    PROVE  /\ RecorderInv'
           /\ Waiting' = Waiting \ batch[d] /\ batch[d] \subseteq Waiting
           /\ dropped' = dropped
           /\ \/ /\ rows' = [c \in Clicks |-> IF c \in batch[d] THEN rows[c] + 1 ELSE rows[c]]
                 /\ lost' = lost
              \/ rows' = rows /\ lost' = lost \cup batch[d]
<1> USE DEF RecorderInv
<1>1. /\ queue' = queue /\ dropped' = dropped /\ UNCHANGED lifeVars
      /\ batch' = [batch EXCEPT ![d] = {}]
      /\ \/ /\ rows' = [c \in Clicks |-> IF c \in batch[d] THEN rows[c] + 1 ELSE rows[c]]
            /\ lost' = lost
         \/ rows' = rows /\ lost' = lost \cup batch[d]
  BY DEF Store, InsertClicks, NextRound
<1>2. at' \in [Drains -> Places]
  BY DEF Store, InsertClicks, NextRound, RecorderTypes, Places
<1>3. batch[d] \subseteq Held /\ batch[d] \subseteq Clicks
  BY DEF Held, RecorderTypes
<1>4. Queued' = Queued
  BY <1>1 DEF Queued
<1>5. Held' = Held \ batch[d]
  BY <1>1 DEF Held, OnePlace, RecorderTypes
<1>6. Waiting' = Waiting \ batch[d]
  BY <1>3, <1>4, <1>5 DEF Waiting, OnePlace
<1>7. RecorderTypes'
  <2>1. batch' \in [Drains -> SUBSET Clicks]
    BY <1>1 DEF RecorderTypes
  <2>2. rows' \in [Clicks -> Nat] /\ lost' \subseteq Clicks
    BY <1>1, <1>3 DEF RecorderTypes
  <2> QED
    BY <1>1, <1>2, <2>1, <2>2 DEF RecorderTypes, lifeVars
<1>8. \A c \in batch[d] : rows[c] = 0 /\ c \notin dropped \cup lost
  BY <1>3 DEF OnePlace, Waiting, Stored, RecorderTypes
<1>9. Stored' \cup lost' = Stored \cup lost \cup batch[d] /\ Stored' \cap lost' = {}
  <2>1. CASE /\ rows' = [c \in Clicks |-> IF c \in batch[d] THEN rows[c] + 1 ELSE rows[c]]
             /\ lost' = lost
    <3>1. Stored' = Stored \cup batch[d]
      BY <1>3, <1>8, <2>1 DEF Stored, RecorderTypes
    <3> QED
      BY <1>8, <2>1, <3>1 DEF OnePlace
  <2>2. CASE rows' = rows /\ lost' = lost \cup batch[d]
    <3>1. Stored' = Stored
      BY <2>2 DEF Stored
    <3>2. Stored \cap batch[d] = {}
      BY <1>8 DEF Stored
    <3> QED
      BY <2>2, <3>1, <3>2 DEF OnePlace
  <2> QED
    BY <1>1, <2>1, <2>2
<1>10. OnePlace'
  <2>1. \A i, j \in 1 .. Len(queue') : queue'[i] \in Clicks /\ queue'[i] = queue'[j] => i = j
    BY <1>1 DEF OnePlace
  <2>2. \A e, f \in Drains : e # f => batch'[e] \cap batch'[f] = {}
    BY <1>1 DEF OnePlace, RecorderTypes
  <2>3. Queued' \cap Held' = {}
    BY <1>4, <1>5 DEF OnePlace
  <2>4. Waiting' \cap (Stored' \cup dropped' \cup lost') = {}
    BY <1>1, <1>6, <1>9 DEF OnePlace
  <2>5. Stored' \cap (dropped' \cup lost') = {} /\ dropped' \cap lost' = {}
    BY <1>1, <1>8, <1>9 DEF OnePlace
  <2>6. \A c \in Clicks : rows'[c] <= 1
    BY <1>1, <1>8 DEF OnePlace, RecorderTypes
  <2> QED
    BY <2>1, <2>2, <2>3, <2>4, <2>5, <2>6 DEF OnePlace
<1> QED
  BY <1>1, <1>3, <1>6, <1>7, <1>10 DEF Waiting

LEMMA ProcessEndsInv ==
    ASSUME RecorderAssumption, RecorderInv, ProcessEnds
    PROVE  /\ RecorderInv' /\ Waiting' = {}
           /\ lost' = lost \cup Waiting /\ rows' = rows /\ dropped' = dropped
<1> USE DEF RecorderInv
<1>1. /\ queue' = <<>> /\ batch' = [d \in Drains |-> {}] /\ lost' = lost \cup Waiting
      /\ rows' = rows /\ dropped' = dropped
  BY DEF ProcessEnds
<1>2. Queued' = {} /\ Held' = {} /\ Stored' = Stored
  BY <1>1 DEF Queued, Held, Stored
<1>3. Waiting' = {}
  BY <1>2 DEF Waiting
<1>4. RecorderTypes'
  <2>1. queue' \in Seq(Clicks \cup {Sentinel}) /\ batch' \in [Drains -> SUBSET Clicks]
    BY <1>1
  <2>2. at' \in [Drains -> Places]
    BY DEF ProcessEnds, RecorderTypes, Places
  <2>3. Waiting \subseteq Clicks
    BY DEF Waiting, Queued, Held
  <2> QED
    BY <1>1, <2>1, <2>2, <2>3 DEF ProcessEnds, RecorderTypes, Lives
<1>5. OnePlace'
  BY <1>1, <1>2, <1>3 DEF OnePlace
<1> QED
  BY <1>1, <1>3, <1>4, <1>5

-------------------------------------------------------------------------------
(* The refinement: what each step of the recorder is for ClickLog.            *)
Fate == [c \in Clicks |-> FateOf(c)]

LEMMA FateRead ==
    ASSUME RecorderInv, NEW c \in Clicks
    PROVE  FateOf(c) = IF c \in Waiting THEN "waiting" ELSE IF c \in Stored THEN "kept"
                       ELSE IF c \in lost THEN "lost" ELSE IF c \in dropped THEN "dropped"
                       ELSE "unseen"
<1>1. rows[c] \in {0, 1} /\ (c \in Stored <=> rows[c] = 1)
  BY DEF RecorderInv, RecorderTypes, OnePlace, Stored
<1>2. c \in Seen <=> c \in Waiting \/ c \in Stored \/ c \in dropped \/ c \in lost
  BY DEF Seen
<1>3. /\ c \in Waiting => c \notin Stored \cup dropped \cup lost
      /\ c \in Stored => c \notin dropped \cup lost
      /\ c \in dropped => c \notin lost
  BY DEF RecorderInv, OnePlace
<1>4. CASE c \in Waiting
  BY <1>1, <1>2, <1>3, <1>4 DEF FateOf
<1>5. CASE c \notin Waiting /\ c \in Stored
  BY <1>1, <1>2, <1>3, <1>5 DEF FateOf
<1>6. CASE c \notin Waiting /\ c \notin Stored /\ c \in lost
  BY <1>1, <1>2, <1>3, <1>6 DEF FateOf
<1>7. CASE c \notin Waiting /\ c \notin Stored /\ c \notin lost /\ c \in dropped
  BY <1>1, <1>2, <1>3, <1>7 DEF FateOf
<1>8. CASE c \notin Waiting /\ c \notin Stored /\ c \notin lost /\ c \notin dropped
  BY <1>1, <1>2, <1>8 DEF FateOf
<1> QED
  BY <1>4, <1>5, <1>6, <1>7, <1>8

(* The same of the next state.                                                *)
LEMMA FateNext ==
    ASSUME RecorderInv', NEW c \in Clicks
    PROVE  FateOf(c)' = IF c \in Waiting' THEN "waiting" ELSE IF c \in Stored' THEN "kept"
                        ELSE IF c \in lost' THEN "lost" ELSE IF c \in dropped' THEN "dropped"
                        ELSE "unseen"
<1>1. rows'[c] \in {0, 1} /\ (c \in Stored' <=> rows'[c] = 1)
  BY DEF RecorderInv, RecorderTypes, OnePlace, Stored
<1>2. c \in Seen' <=> c \in Waiting' \/ c \in Stored' \/ c \in dropped' \/ c \in lost'
  BY DEF Seen
<1>3. /\ c \in Waiting' => c \notin Stored' \cup dropped' \cup lost'
      /\ c \in Stored' => c \notin dropped' \cup lost'
      /\ c \in dropped' => c \notin lost'
  BY DEF RecorderInv, OnePlace
<1>4. CASE c \in Waiting'
  BY <1>1, <1>2, <1>3, <1>4 DEF FateOf
<1>5. CASE c \notin Waiting' /\ c \in Stored'
  BY <1>1, <1>2, <1>3, <1>5 DEF FateOf
<1>6. CASE c \notin Waiting' /\ c \notin Stored' /\ c \in lost'
  BY <1>1, <1>2, <1>3, <1>6 DEF FateOf
<1>7. CASE c \notin Waiting' /\ c \notin Stored' /\ c \notin lost' /\ c \in dropped'
  BY <1>1, <1>2, <1>3, <1>7 DEF FateOf
<1>8. CASE c \notin Waiting' /\ c \notin Stored' /\ c \notin lost' /\ c \notin dropped'
  BY <1>1, <1>2, <1>8 DEF FateOf
<1> QED
  BY <1>4, <1>5, <1>6, <1>7, <1>8

(* Steps that move no click to another fate.                                  *)
LEMMA FateStays ==
    ASSUME RecorderInv, RecorderInv', Waiting' = Waiting, UNCHANGED Settled
    PROVE  Fate' = Fate
<1>1. Stored' = Stored
  BY DEF Stored, Settled
<1>2. \A c \in Clicks : FateOf(c)' = FateOf(c)
  BY <1>1, FateRead, FateNext DEF Settled
<1> QED
  BY <1>2 DEF Fate

LEMMA RecordClickFate ==
    ASSUME RecorderAssumption, RecorderInv, NEW c \in Clicks, RecordClick(c)
    PROVE  Log!Accept(c) \/ Log!Drop(c)
<1>1. RecorderInv'
  BY RecordClickInv
<1>2. Held' = Held /\ Stored' = Stored /\ lost' = lost
  BY DEF RecordClick, drainVars, Held, Stored
<1>3. c \notin Queued \cup Held \cup Stored \cup dropped \cup lost
  BY DEF RecordClick, Seen, Waiting
<1>4. FateOf(c) = "unseen"
  BY <1>3, FateRead DEF Waiting
<1>5. CASE Len(queue) < QueueSize
  <2>1. queue' = Append(queue, c) /\ dropped' = dropped
    BY <1>5 DEF RecordClick, PutNowait
  <2>2. Waiting' = Waiting \cup {c}
    BY <1>2, <2>1, QueuedAppend DEF RecorderAssumption, RecorderInv, Waiting
  <2>3. \A x \in Clicks : FateOf(x)' = IF x = c THEN "waiting" ELSE FateOf(x)
    BY <1>1, <1>2, <2>1, <2>2, FateRead, FateNext
  <2> QED
    BY <1>4, <2>3 DEF Log!Accept, Log!Become
<1>6. CASE ~ (Len(queue) < QueueSize)
  <2>1. queue' = queue /\ dropped' = dropped \cup {c}
    BY <1>6 DEF RecordClick, PutNowait
  <2>2. Waiting' = Waiting
    BY <1>2, <2>1 DEF Waiting, Queued
  <2>3. \A x \in Clicks : FateOf(x)' = IF x = c THEN "dropped" ELSE FateOf(x)
    BY <1>1, <1>2, <1>3, <2>1, <2>2, FateRead, FateNext DEF Waiting
  <2> QED
    BY <1>4, <2>3 DEF Log!Drop, Log!Become
<1> QED
  BY <1>5, <1>6

LEMMA StoreFate ==
    ASSUME RecorderAssumption, RecorderInv, NEW d \in Drains, Store(d)
    PROVE  Log!Keep(batch[d]) \/ Log!Lose(batch[d])
<1>1. /\ RecorderInv' /\ Waiting' = Waiting \ batch[d] /\ batch[d] \subseteq Waiting
      /\ dropped' = dropped
      /\ \/ /\ rows' = [c \in Clicks |-> IF c \in batch[d] THEN rows[c] + 1 ELSE rows[c]]
            /\ lost' = lost
         \/ rows' = rows /\ lost' = lost \cup batch[d]
  BY StoreInv
<1>2. \A c \in batch[d] : c \in Clicks /\ FateOf(c) = "waiting" /\ c \notin Stored \cup dropped \cup lost
  BY <1>1, FateRead DEF RecorderInv, RecorderTypes, OnePlace
<1>3. CASE /\ rows' = [c \in Clicks |-> IF c \in batch[d] THEN rows[c] + 1 ELSE rows[c]]
           /\ lost' = lost
  <2>1. Stored' = Stored \cup batch[d]
    BY <1>2, <1>3 DEF Stored, RecorderInv, RecorderTypes
  <2>2. \A x \in Clicks : FateOf(x)' = IF x \in batch[d] THEN "kept" ELSE FateOf(x)
    BY <1>1, <1>2, <1>3, <2>1, FateRead, FateNext
  <2> QED
    BY <1>2, <2>2 DEF Log!Keep, Log!Become
<1>4. CASE rows' = rows /\ lost' = lost \cup batch[d]
  <2>1. Stored' = Stored
    BY <1>4 DEF Stored
  <2>2. \A x \in Clicks : FateOf(x)' = IF x \in batch[d] THEN "lost" ELSE FateOf(x)
    BY <1>1, <1>2, <1>4, <2>1, FateRead, FateNext
  <2> QED
    BY <1>2, <2>2 DEF Log!Lose, Log!Become
<1> QED
  BY <1>1, <1>3, <1>4

LEMMA ProcessEndsFate ==
    ASSUME RecorderAssumption, RecorderInv, ProcessEnds PROVE Log!Lose(Waiting)
<1>1. /\ RecorderInv' /\ Waiting' = {}
      /\ lost' = lost \cup Waiting /\ rows' = rows /\ dropped' = dropped
  BY ProcessEndsInv
<1>2. Stored' = Stored
  BY <1>1 DEF Stored
<1>3. \A x \in Clicks : x \in Waiting => x \notin Stored
  BY DEF RecorderInv, OnePlace
<1>4. \A x \in Clicks : FateOf(x)' = IF x \in Waiting THEN "lost" ELSE FateOf(x)
  BY <1>1, <1>2, <1>3, FateRead, FateNext
<1>5. \A c \in Waiting : c \in Clicks /\ FateOf(c) = "waiting"
  BY FateRead DEF Waiting, Queued, Held
<1> QED
  BY <1>4, <1>5 DEF Log!Lose, Log!Become

(* Every step of the recorder keeps its invariant, and is a step of ClickLog  *)
(* or none.                                                                   *)
LEMMA RecorderStep ==
    ASSUME RecorderAssumption, RecorderInv, [RecorderNext]_recorderVars
    PROVE  RecorderInv' /\ (Log!Next \/ Fate' = Fate)
<1>1. ASSUME NEW c \in Clicks, RecordClick(c) PROVE RecorderInv' /\ Log!Next
  BY <1>1, RecordClickInv, RecordClickFate DEF Log!Next
<1>2. CASE StopRecorder \/ Joined \/ \E d \in Drains : StartRecorder(d) \/ Empty(d)
  BY <1>2, LifeInv, FateStays
<1>3. CASE PutSentinel
  BY <1>3, PutSentinelInv, FateStays
<1>4. ASSUME NEW d \in Drains, Take(d) PROVE RecorderInv' /\ Fate' = Fate
  BY <1>4, TakeInv, FateStays
<1>5. ASSUME NEW d \in Drains, Store(d) PROVE RecorderInv' /\ Log!Next
  <2>1. batch[d] \in SUBSET Clicks
    BY DEF RecorderInv, RecorderTypes
  <2> QED
    BY <1>5, <2>1, StoreInv, StoreFate DEF Log!Next
<1>6. CASE ProcessEnds
  <2>1. Waiting \in SUBSET Clicks
    BY DEF Waiting, Queued, Held
  <2> QED
    BY <1>6, <2>1, ProcessEndsInv, ProcessEndsFate DEF Log!Next
<1>7. CASE UNCHANGED recorderVars
  <2>1. RecorderTypes'
    BY <1>7 DEF RecorderInv, RecorderTypes, recorderVars
  <2>2. Queued' = Queued /\ batch' = batch /\ queue' = queue /\ UNCHANGED Settled
    BY <1>7 DEF recorderVars, Queued, Settled
  <2>3. RecorderInv'
    BY <2>1, <2>2, StillInv DEF RecorderInv, OnePlace
  <2>4. Waiting' = Waiting
    BY <2>2 DEF Waiting, Held
  <2> QED
    BY <2>2, <2>3, <2>4, FateStays
<1> QED
  BY <1>1, <1>2, <1>3, <1>4, <1>5, <1>6, <1>7 DEF RecorderNext, DrainStep

-------------------------------------------------------------------------------
(* The service takes only steps of the recorder on the recorder's state, and  *)
(* records clicks only while its lifespan serves: the server stops it once no *)
(* request is in flight.                                                      *)
ServedNext ==
    \/ life = "serving" /\ \E c \in Clicks : RecordClick(c)
    \/ \E d \in Drains : StartRecorder(d) \/ DrainStep(d)
    \/ StopRecorder \/ PutSentinel \/ Joined \/ ProcessEnds

ServiceInv ==
    /\ kind \in Loads
    /\ phase \in [Requests -> Phases]
    /\ InFlight # {} => life = "serving"

LEMMA InitService == ASSUME Init PROVE ServiceInv
BY DEF Init, ServiceInv, InFlight, Phases

(* A request that was in flight takes its next step.                          *)
LEMMA HandleServed ==
    ASSUME ServiceInv, life = "serving", NEW r \in Requests, NEW to \in Phases,
           phase' = [phase EXCEPT ![r] = to], kind' = kind, life' = life
    PROVE  ServiceInv'
BY DEF ServiceInv

LEMMA ServiceStep ==
    ASSUME ShortenerAssumption, ServiceInv, [Next]_vars
    PROVE  [ServedNext]_recorderVars /\ ServiceInv'
<1>1. ASSUME NEW r \in Requests, NEW k \in Codes \cup {NoOne}, Begin(r, k)
      PROVE  UNCHANGED recorderVars /\ ServiceInv'
  <2>1. UNCHANGED recorderVars /\ kind' = kind /\ life = "serving" /\ life' = life
    BY <1>1 DEF Begin, recorderVars
  <2>2. \E to \in Phases : phase' = [phase EXCEPT ![r] = to]
    BY <1>1 DEF Begin, Enter, Phases
  <2> QED
    BY <2>1, <2>2, HandleServed
<1>2. ASSUME NEW r \in Requests, Handle(r) PROVE [ServedNext]_recorderVars /\ ServiceInv'
  <2>1. r \in InFlight /\ life = "serving"
    <3>1. phase[r] \in {"minting", "fetching", "acting"}
      BY <1>2 DEF Handle, Mint, Fetch, Redirect, Delete, ReadLink, Select, StorageFails, InFlight
    <3> QED
      BY <3>1 DEF InFlight, ServiceInv
  <2>2. CASE Redirect(r)
    <3>1. kind[r] = "redirect" /\ kind \in [Requests -> {"create", "redirect", "delete", "read", "analytics"}]
      BY <2>2 DEF Redirect, ServiceInv, ShortenerAssumption
    <3>2. r \in Clicks
      BY <3>1 DEF ShortenerAssumption, ServiceInv
    <3>3. ServedNext
      BY <2>1, <2>2, <3>2 DEF Redirect, ServedNext
    <3>4. phase' = [phase EXCEPT ![r] = "done"] /\ kind' = kind /\ life' = life
      BY <2>2 DEF Redirect, Answer, RecordClick, lifeVars
    <3> QED
      BY <2>1, <3>3, <3>4, HandleServed DEF Phases
  <2>3. CASE ~ Redirect(r)
    <3>1. UNCHANGED recorderVars /\ kind' = kind
      BY <1>2, <2>3 DEF Handle, Mint, Fetch, Delete, ReadLink, Select, StorageFails
    <3>2. \E to \in Phases : phase' = [phase EXCEPT ![r] = to]
      <4>1. CASE \E k \in Codes : Mint(r, k)
        BY <4>1 DEF Mint, Insert, Answer, Enter, Phases
      <4>2. CASE Fetch(r)
        BY <4>2 DEF Fetch, Answer, Enter, Phases
      <4>3. CASE Delete(r) \/ ReadLink(r) \/ StorageFails(r)
        BY <4>3 DEF Delete, ReadLink, StorageFails, Answer, Phases
      <4>4. CASE Select(r)
        BY <4>4 DEF Select, Answer, Enter, Phases
      <4> QED
        BY <1>2, <2>3, <4>1, <4>2, <4>3, <4>4 DEF Handle
    <3>3. life' = life
      BY <3>1 DEF recorderVars
    <3> QED
      BY <2>1, <3>1, <3>2, <3>3, HandleServed
  <2> QED
    BY <2>2, <2>3
<1>3. ASSUME NEW k \in Codes, Expire(k) PROVE UNCHANGED recorderVars /\ ServiceInv'
  BY <1>3 DEF Expire, requestVars, recorderVars, ServiceInv, InFlight
<1>4. CASE (\E d \in Drains : Start(d)) \/ Shutdown \/ (Recorder /\ UNCHANGED untouched)
  <2>1. ServedNext
    BY <1>4 DEF Start, Shutdown, Recorder, ServedNext
  <2>2. kind' = kind /\ phase' = phase
    BY <1>4 DEF Start, Shutdown, untouched, requestVars
  <2>3. InFlight # {} => life' = life \/ life # "serving"
    BY <1>4 DEF Start, Shutdown, Recorder, StartRecorder, DrainStep, Take, Empty, Store, InsertClicks,
                PutSentinel, Joined, lifeVars
  <2> QED
    BY <2>1, <2>2, <2>3 DEF ServiceInv, InFlight
<1>5. CASE ProcessDies
  <2>1. ServedNext /\ kind' = kind
    BY <1>5 DEF ProcessDies, ServedNext
  <2>2. phase' \in [Requests -> Phases] /\ InFlight' = {}
    BY <1>5 DEF ProcessDies, ServiceInv, InFlight, Phases
  <2> QED
    BY <2>1, <2>2 DEF ServiceInv
<1>6. CASE UNCHANGED vars
  BY <1>6 DEF vars, requestVars, recorderVars, ServiceInv, InFlight
<1> QED
  BY <1>1, <1>2, <1>3, <1>4, <1>5, <1>6 DEF Next

LEMMA ServedIsRecorder == ASSUME [ServedNext]_recorderVars PROVE [RecorderNext]_recorderVars
BY DEF ServedNext, RecorderNext

(* Every accepted click is kept once or lost, and none that was refused is    *)
(* counted: the service around the recorder implements ClickLog.              *)
THEOREM RecordsEachClickOnceHolds ==
    ASSUME RecorderAssumption, ShortenerAssumption PROVE Spec => RecordsEachClickOnce
<1> DEFINE Inv == RecorderInv /\ ServiceInv
<1>1. Init => Inv
  BY InitRecorder, InitService DEF Init
<1>2. Inv /\ [Next]_vars => Inv'
  BY ServiceStep, ServedIsRecorder, RecorderStep
<1>3. Init => Log!Init
  <2> SUFFICES ASSUME Init PROVE Log!Init
    OBVIOUS
  <2>1. RecorderInv
    BY <1>1
  <2>2. Waiting = {} /\ Stored = {} /\ lost = {} /\ dropped = {}
    BY DEF Init, RecorderInit, Waiting, Queued, Held, Stored
  <2> QED
    BY <2>1, <2>2, FateRead DEF Log!Init
<1>4. Inv /\ [Next]_vars => [Log!Next]_Fate
  BY ServiceStep, ServedIsRecorder, RecorderStep
<1> HIDE DEF Inv
<1> QED
  BY <1>1, <1>2, <1>3, <1>4, PTL DEF Spec, RecordsEachClickOnce, Log!Spec, Fate

-------------------------------------------------------------------------------
(* The clean stop.  While no join of the process timed out, the thread of the *)
(* lifespan is the only one alive and its sentinel, if there is one, is the   *)
(* last item of the queue; a thread that met it has left the queue empty.     *)
AtWork(d) == d \in Drains /\ Alive = {d} /\ at[d] # "closing"

NoSentinel == \A i \in 1 .. Len(queue) : queue[i] # Sentinel

SentinelLast ==
    /\ Len(queue) > 0 /\ queue[Len(queue)] = Sentinel
    /\ \A i \in 1 .. Len(queue) - 1 : queue[i] # Sentinel

Ordered ==
    /\ life = "down" => Alive = {} /\ queue = <<>>
    /\ life = "serving" => AtWork(worker) /\ NoSentinel
    /\ life = "putting" => AtWork(leaving) /\ NoSentinel
    /\ life = "joining" =>
         \/ AtWork(leaving) /\ SentinelLast
         \/ /\ leaving \in Drains /\ queue = <<>> /\ Alive \subseteq {leaving}
            /\ at[leaving] \in {"closing", "ended"}

StopInv ==
    /\ life # "serving" => worker = NoDrain
    /\ \A d \in Drains : batch[d] # {} => at[d] \in {"taking", "storing", "closing"}
    /\ ~overdue => Ordered

LEMMA StopInvImplies == ASSUME RecorderTypes, StopInv PROVE StopDrains
<1> SUFFICES ASSUME life = "down", ~overdue PROVE Waiting = {}
  BY DEF StopDrains
<1>1. Alive = {} /\ queue = <<>>
  BY DEF StopInv, Ordered
<1>2. \A d \in Drains : batch[d] = {}
  BY <1>1 DEF StopInv, Alive
<1> QED
  BY <1>1, <1>2 DEF Waiting, Queued, Held

LEMMA InitStop == ASSUME RecorderAssumption, RecorderInit PROVE StopInv
BY DEF RecorderInit, StopInv, Ordered, Alive

(* A click is queued only while the service runs, behind no sentinel.         *)
LEMMA RecordClickStop ==
    ASSUME RecorderAssumption, RecorderTypes, StopInv, life = "serving",
           NEW c \in Clicks, RecordClick(c)
    PROVE  StopInv'
<1>1. UNCHANGED <<life, worker, leaving, overdue, at, batch>>
  BY DEF RecordClick, lifeVars, drainVars
<1>2. NoSentinel => NoSentinel'
  <2>1. CASE queue' = queue
    BY <2>1 DEF NoSentinel
  <2>2. CASE queue' = Append(queue, c)
    <3>1. c # Sentinel
      BY DEF RecorderAssumption
    <3>2. /\ Len(queue) \in Nat /\ Len(queue') = Len(queue) + 1
          /\ queue'[Len(queue) + 1] = c
          /\ \A i \in 1 .. Len(queue) : queue'[i] = queue[i]
      BY <2>2 DEF RecorderTypes
    <3> QED
      BY <3>1, <3>2 DEF NoSentinel
  <2> QED
    BY <2>1, <2>2 DEF RecordClick, PutNowait
<1>3. Alive' = Alive
  BY <1>1 DEF Alive
<1> QED
  BY <1>1, <1>2, <1>3 DEF StopInv, Ordered, AtWork

LEMMA StartStop ==
    ASSUME RecorderAssumption, RecorderTypes, StopInv, NEW d \in Drains, StartRecorder(d)
    PROVE  StopInv'
<1>1. life = "down" /\ life' = "serving" /\ worker = NoDrain /\ worker' = d
  BY DEF StartRecorder, StopInv
<1>2. /\ at' = [at EXCEPT ![d] = "waiting"] /\ at[d] = "unborn"
      /\ UNCHANGED <<queue, batch, overdue>>
  BY <1>1 DEF StartRecorder
<1>3. Alive' = Alive \cup {d}
  BY <1>2 DEF Alive, RecorderTypes
<1>4. at'[d] = "waiting" /\ \A e \in Drains \ {d} : at'[e] = at[e]
  BY <1>2 DEF RecorderTypes
<1>5. \A e \in Drains : batch'[e] # {} => at'[e] \in {"taking", "storing", "closing"}
  BY <1>2, <1>4 DEF StopInv
<1>6. ~overdue => AtWork(d)' /\ NoSentinel'
  <2> SUFFICES ASSUME ~overdue PROVE AtWork(d)' /\ NoSentinel'
    OBVIOUS
  <2>1. Alive = {} /\ queue = <<>>
    BY <1>1 DEF StopInv, Ordered
  <2>2. AtWork(d)'
    BY <1>3, <1>4, <2>1 DEF AtWork
  <2> QED
    BY <1>2, <2>1, <2>2 DEF NoSentinel
<1> QED
  BY <1>1, <1>2, <1>5, <1>6 DEF StopInv, Ordered, AtWork

LEMMA StopStop ==
    ASSUME RecorderTypes, StopInv, StopRecorder PROVE StopInv'
<1>1. /\ life = "serving" /\ life' = "putting" /\ leaving' = worker /\ worker' = NoDrain
      /\ UNCHANGED <<queue, at, batch, overdue>>
  BY DEF StopRecorder, drainVars
<1>2. Alive' = Alive /\ (NoSentinel => NoSentinel')
  BY <1>1 DEF Alive, NoSentinel
<1> QED
  BY <1>1, <1>2 DEF StopInv, Ordered, AtWork

LEMMA PutStop ==
    ASSUME RecorderTypes, StopInv, PutSentinel PROVE StopInv'
<1>1. /\ life = "putting" /\ life' = "joining" /\ queue' = Append(queue, Sentinel)
      /\ UNCHANGED <<worker, leaving, overdue, at, batch>>
  BY DEF PutSentinel, drainVars
<1>2. Alive' = Alive
  BY <1>1 DEF Alive
<1>3. NoSentinel => SentinelLast'
  BY SMTT(30), <1>1 DEF NoSentinel, SentinelLast, RecorderTypes
<1> QED
  BY <1>1, <1>2, <1>3 DEF StopInv, Ordered, AtWork

LEMMA JoinedStop ==
    ASSUME RecorderTypes, StopInv, Joined PROVE StopInv'
<1>1. /\ life = "joining" /\ life' = "down" /\ overdue' = (overdue \/ at[leaving] # "ended")
      /\ UNCHANGED <<queue, worker, at, batch>>
  BY DEF Joined, drainVars
<1>2. Alive' = Alive
  BY <1>1 DEF Alive
<1>3. ~overdue' => Alive = {} /\ queue = <<>>
  <2> SUFFICES ASSUME ~overdue, at[leaving] = "ended" PROVE Alive = {} /\ queue = <<>>
    BY <1>1
  <2>1. leaving \notin Alive
    BY DEF Alive
  <2> QED
    BY <1>1, <2>1 DEF StopInv, Ordered, AtWork
<1> QED
  BY <1>1, <1>2, <1>3 DEF StopInv, Ordered

LEMMA OneOfOne == ASSUME NEW n \in Nat, n > 0, 1 \notin 1 .. n - 1 PROVE n = 1
OBVIOUS

(* The drain that takes the last item, its sentinel, leaves nothing queued.   *)
LEMMA TakeStop ==
    ASSUME RecorderAssumption, RecorderTypes, StopInv, NEW d \in Drains, Take(d)
    PROVE  StopInv'
<1>1. /\ at[d] \in {"waiting", "taking"} /\ queue # <<>> /\ queue' = Tail(queue)
      /\ UNCHANGED <<life, worker, leaving, overdue>>
  BY DEF Take, lifeVars
<1>2. \A e \in Drains \ {d} : at'[e] = at[e] /\ batch'[e] = batch[e]
  BY DEF Take, RecorderTypes
<1>3. CASE Head(queue) = Sentinel
  <2>1. at'[d] = (IF batch[d] = {} THEN "ended" ELSE "closing") /\ batch' = batch
    BY <1>3 DEF Take, RecorderTypes
  <2>2. \A e \in Drains : batch'[e] # {} => at'[e] \in {"taking", "storing", "closing"}
    BY <1>2, <2>1 DEF StopInv
  <2>3. ~overdue => Ordered'
    <3> SUFFICES ASSUME ~overdue PROVE Ordered'
      OBVIOUS
    <3>1. ~NoSentinel /\ d \in Alive
      BY <1>1, <1>3 DEF NoSentinel, RecorderTypes, Alive
    <3>2. life = "joining" /\ AtWork(leaving) /\ SentinelLast
      BY <1>1, <3>1 DEF StopInv, Ordered, RecorderTypes, Lives
    <3>3. leaving = d /\ Alive = {d}
      BY <3>1, <3>2 DEF AtWork
    <3>4. queue' = <<>>
      <4>1. queue[1] = Sentinel
        BY <1>1, <1>3 DEF RecorderTypes
      <4>2. Len(queue) \in Nat /\ Len(queue) > 0
        BY <3>2 DEF SentinelLast, RecorderTypes
      <4>3. Len(queue) = 1
        <5>1. \A i \in 1 .. Len(queue) - 1 : queue[i] # Sentinel
          BY <3>2 DEF SentinelLast
        <5>2. 1 \notin 1 .. Len(queue) - 1
          BY <4>1, <5>1, Zenon
        <5> QED
          BY <4>2, <5>2, OneOfOne
      <4> QED
        BY <1>1, <4>3 DEF RecorderTypes
    <3>5. Alive' \subseteq {d}
      BY <1>2, <3>3 DEF Alive
    <3> QED
      BY <1>1, <2>1, <3>2, <3>3, <3>4, <3>5 DEF Ordered
  <2> QED
    BY <1>1, <2>2, <2>3 DEF StopInv
<1>4. CASE Head(queue) # Sentinel
  <2>1. at'[d] \in {"storing", "taking"}
    BY <1>4 DEF Take, RecorderTypes
  <2>2. \A e \in Drains : batch'[e] # {} => at'[e] \in {"taking", "storing", "closing"}
    BY <1>2, <2>1 DEF StopInv
  <2>3. Alive' = Alive /\ d \in Alive
    BY <1>1, <1>2, <2>1 DEF Alive
  <2>4. \A e : AtWork(e) => AtWork(e)'
    BY <1>2, <2>1, <2>3 DEF AtWork
  <2>5. /\ Len(queue) \in Nat \ {0} /\ Len(queue') = Len(queue) - 1
        /\ \A i \in 1 .. Len(queue') : queue'[i] = queue[i + 1]
        /\ queue[1] # Sentinel
    BY <1>1, <1>4 DEF RecorderTypes
  <2>6. NoSentinel => NoSentinel'
    BY <2>5 DEF NoSentinel
  <2>7. SentinelLast => SentinelLast'
    <3> SUFFICES ASSUME SentinelLast PROVE SentinelLast'
      OBVIOUS
    <3>1. Len(queue) # 1
      BY <2>5 DEF SentinelLast
    <3>2. Len(queue') > 0 /\ queue'[Len(queue')] = queue[Len(queue)]
      BY <2>5, <3>1
    <3>3. ASSUME NEW i \in 1 .. Len(queue') - 1 PROVE queue'[i] # Sentinel
      <4>1. i \in 1 .. Len(queue') /\ i + 1 \in 1 .. Len(queue) - 1
        BY <2>5
      <4> QED
        BY <2>5, <4>1 DEF SentinelLast
    <3> QED
      BY <3>2, <3>3 DEF SentinelLast
  <2>8. ~overdue => Ordered'
    <3> SUFFICES ASSUME ~overdue PROVE Ordered'
      OBVIOUS
    <3>1. life # "down"
      BY <2>3 DEF StopInv, Ordered
    <3>2. life = "joining" => AtWork(leaving) /\ SentinelLast
      BY <1>1 DEF StopInv, Ordered
    <3> QED
      BY <1>1, <2>4, <2>6, <2>7, <3>1, <3>2 DEF StopInv, Ordered, AtWork
  <2> QED
    BY <1>1, <2>2, <2>8 DEF StopInv
<1> QED
  BY <1>3, <1>4

LEMMA EmptyStop ==
    ASSUME RecorderTypes, StopInv, NEW d \in Drains, Empty(d) PROVE StopInv'
<1>1. /\ at[d] = "taking" /\ at'[d] = "storing"
      /\ \A e \in Drains \ {d} : at'[e] = at[e]
      /\ UNCHANGED <<life, worker, leaving, overdue, queue, batch>>
  BY DEF Empty, lifeVars, RecorderTypes
<1>2. Alive' = Alive
  BY <1>1 DEF Alive
<1>3. \A e : AtWork(e) => AtWork(e)'
  BY <1>1, <1>2 DEF AtWork
<1>4. \A e \in Drains : batch'[e] # {} => at'[e] \in {"taking", "storing", "closing"}
  BY <1>1 DEF StopInv
<1>5. (NoSentinel => NoSentinel') /\ (SentinelLast => SentinelLast')
  BY <1>1 DEF NoSentinel, SentinelLast
<1>6. at[leaving] \in {"closing", "ended"} => at'[leaving] = at[leaving]
  BY <1>1 DEF Empty
<1> QED
  BY <1>1, <1>2, <1>3, <1>4, <1>5, <1>6 DEF StopInv, Ordered, AtWork

LEMMA StoreStop ==
    ASSUME RecorderTypes, StopInv, NEW d \in Drains, Store(d) PROVE StopInv'
<1>1. /\ at[d] \in {"storing", "closing"}
      /\ at'[d] = (IF at[d] = "closing" THEN "ended" ELSE "waiting") /\ batch'[d] = {}
      /\ \A e \in Drains \ {d} : at'[e] = at[e] /\ batch'[e] = batch[e]
      /\ UNCHANGED <<life, worker, leaving, overdue, queue>>
  BY DEF Store, InsertClicks, NextRound, lifeVars, RecorderTypes
<1>2. Alive' \subseteq Alive /\ d \in Alive
  BY <1>1 DEF Alive
<1>3. \A e : AtWork(e) => AtWork(e)'
  <2> SUFFICES ASSUME NEW e, AtWork(e) PROVE AtWork(e)'
    OBVIOUS
  <2>1. e = d /\ at[d] = "storing"
    BY <1>1, <1>2 DEF AtWork
  <2>2. at'[d] = "waiting"
    BY <1>1, <2>1
  <2>3. Alive' = {d}
    BY <1>2, <2>1, <2>2 DEF AtWork, Alive
  <2> QED
    BY <2>1, <2>2, <2>3 DEF AtWork
<1>4. \A e \in Drains : batch'[e] # {} => at'[e] \in {"taking", "storing", "closing"}
  BY <1>1 DEF StopInv
<1>5. (NoSentinel => NoSentinel') /\ (SentinelLast => SentinelLast')
  BY <1>1 DEF NoSentinel, SentinelLast
<1>6. leaving \in Drains /\ at[leaving] \in {"closing", "ended"}
      => at'[leaving] \in {"closing", "ended"}
  BY <1>1
<1> QED
  BY <1>1, <1>2, <1>3, <1>4, <1>5, <1>6 DEF StopInv, Ordered, AtWork

LEMMA EndsStop ==
    ASSUME RecorderTypes, ProcessEnds PROVE StopInv'
<1>1. Alive' = {}
  BY DEF ProcessEnds, Alive
<1> QED
  BY <1>1 DEF ProcessEnds, StopInv, Ordered

LEMMA RecorderStop ==
    ASSUME RecorderAssumption, RecorderTypes, StopInv, [ServedNext]_recorderVars
    PROVE  StopInv'
<1>1. CASE life = "serving" /\ \E c \in Clicks : RecordClick(c)
  BY <1>1, RecordClickStop
<1>2. ASSUME NEW d \in Drains, StartRecorder(d) \/ DrainStep(d) PROVE StopInv'
  BY <1>2, StartStop, TakeStop, EmptyStop, StoreStop DEF DrainStep
<1>3. CASE StopRecorder \/ PutSentinel \/ Joined \/ ProcessEnds
  BY <1>3, StopStop, PutStop, JoinedStop, EndsStop
<1>4. CASE UNCHANGED recorderVars
  BY <1>4 DEF recorderVars, StopInv, Ordered, AtWork, Alive, NoSentinel, SentinelLast
<1> QED
  BY <1>1, <1>2, <1>3, <1>4 DEF ServedNext

(* Once a lifespan is down, with every thread of the process joined in time,  *)
(* no click waits in the queue or in a batch.                                 *)
THEOREM StopDrainsHolds ==
    ASSUME RecorderAssumption, ShortenerAssumption PROVE Spec => []StopDrains
<1> DEFINE Inv == RecorderInv /\ ServiceInv /\ StopInv
<1>1. Init => Inv
  BY InitRecorder, InitService, InitStop DEF Init
<1>2. Inv /\ [Next]_vars => Inv'
  BY ServiceStep, ServedIsRecorder, RecorderStep, RecorderStop DEF RecorderInv
<1>3. Inv => StopDrains
  BY StopInvImplies DEF RecorderInv
<1> HIDE DEF Inv
<1> QED
  BY <1>1, <1>2, <1>3, PTL DEF Spec

-------------------------------------------------------------------------------
(* A code is issued once, whatever else the service does.                     *)
THEOREM OneLinkPerCodeHolds == Spec => OneLinkPerCode
<1> DEFINE Rowed == DOMAIN owner = Codes
<1>1. ASSUME Rowed, [Next]_vars PROVE Rowed' /\ [\A k \in Codes : owner[k] # NoOne => owner'[k] = owner[k]]_vars
  <2>1. ASSUME NEW r \in Requests, NEW j \in Codes, Mint(r, j)
        PROVE  owner' = owner \/ (owner[j] = NoOne /\ owner' = [owner EXCEPT ![j] = r])
    BY <2>1 DEF Mint, Insert
  <2>2. ASSUME NEW r \in Requests, Handle(r), \A j \in Codes : ~ Mint(r, j) PROVE owner' = owner
    BY <2>2 DEF Handle, Fetch, Redirect, Delete, ReadLink, Select, StorageFails, linkVars
  <2>3. CASE \/ \E r \in Requests, j \in Codes \cup {NoOne} : Begin(r, j)
             \/ \E j \in Codes : Expire(j)
             \/ \E d \in Drains : Start(d)
             \/ Shutdown \/ (Recorder /\ UNCHANGED untouched) \/ ProcessDies \/ UNCHANGED vars
    BY <1>1, <2>3 DEF Begin, Expire, Start, Shutdown, ProcessDies, untouched, linkVars, vars
  <2> QED
    BY <1>1, <2>1, <2>2, <2>3 DEF Next
<1>2. Init => Rowed
  BY DEF Init
<1> HIDE DEF Rowed
<1> QED
  BY <1>1, <1>2, PTL DEF Spec, OneLinkPerCode

-------------------------------------------------------------------------------
(* A link that is gone.  A redirect begun too late waits for its row, and is  *)
(* refused by it: what was retired or has expired stays so.                   *)
LinkTypes ==
    /\ kind \in Loads
    /\ phase \in [Requests -> Phases]
    /\ code \in [Requests -> Codes \cup {NoOne}]
    /\ reply \in [Requests -> {"none", "200", "201", "204", "301", "404", "410", "5xx"}]

LateInv ==
    /\ LinkTypes
    /\ \A r \in Requests : phase[r] = "minting" => kind[r] = "create"
    /\ \A r \in Requests : phase[r] # "done" => reply[r] = "none"
    /\ \A q \in Requests : kind[q] = "delete" /\ reply[q] = "204" => code[q] \in deleted
    /\ \A r \in late : /\ r \in Requests /\ kind[r] = "redirect"
                       /\ code[r] \in deleted \cup expired
                       /\ phase[r] \in {"fetching", "done"} /\ reply[r] # "301"

LEMMA InitLate == ASSUME Init PROVE LateInv
BY DEF Init, LateInv, LinkTypes, Phases

(* A step that answers the requests R, or moves them on, leaves what it does  *)
(* not answer alone, and answers no late redirect with a 301.                 *)
LEMMA AnsweredLate ==
    ASSUME LateInv, NEW R \in SUBSET Requests, LinkTypes',
           UNCHANGED <<kind, code, late>>,
           deleted \subseteq deleted', expired \subseteq expired',
           \A r \in Requests \ R : phase'[r] = phase[r] /\ reply'[r] = reply[r],
           \A r \in R : /\ phase[r] # "done"
                        /\ phase'[r] # "minting" \/ phase'[r] = phase[r]
                        /\ phase'[r] # "done" => reply'[r] = reply[r]
                        /\ reply'[r] = "204" => code[r] \in deleted'
                        /\ r \in late => phase'[r] \in {"fetching", "done"} /\ reply'[r] # "301"
    PROVE  LateInv'
<1>1. ASSUME NEW r \in Requests PROVE phase'[r] = "minting" => kind[r] = "create"
  BY DEF LateInv
<1>2. ASSUME NEW r \in Requests PROVE phase'[r] # "done" => reply'[r] = "none"
  BY DEF LateInv
<1>3. ASSUME NEW q \in Requests, kind[q] = "delete", reply'[q] = "204" PROVE code[q] \in deleted'
  BY <1>3 DEF LateInv
<1>4. ASSUME NEW r \in late
      PROVE  /\ r \in Requests /\ kind[r] = "redirect" /\ code[r] \in deleted' \cup expired'
             /\ phase'[r] \in {"fetching", "done"} /\ reply'[r] # "301"
  BY DEF LateInv
<1> QED
  BY <1>1, <1>2, <1>3, <1>4 DEF LateInv

LEMMA BeginLate ==
    ASSUME LateInv, NEW r \in Requests, NEW k \in Codes \cup {NoOne}, Begin(r, k)
    PROVE  LateInv'
<1>1. /\ phase[r] = "idle" /\ reply' = reply /\ code' = [code EXCEPT ![r] = k]
      /\ UNCHANGED <<kind, deleted, expired>>
      /\ phase' = [phase EXCEPT ![r] = IF kind[r] = "create" THEN "minting" ELSE "fetching"]
  BY DEF Begin, Enter, linkVars
<1>2. LinkTypes'
  BY <1>1 DEF LateInv, LinkTypes, Phases
<1>3. r \notin late /\ reply[r] = "none"
  BY <1>1 DEF LateInv
<1>4. \A q \in Requests \ {r} : code'[q] = code[q] /\ phase'[q] = phase[q]
  BY <1>1 DEF LateInv, LinkTypes
<1>5. code'[r] = k /\ phase'[r] = IF kind[r] = "create" THEN "minting" ELSE "fetching"
  BY <1>1 DEF LateInv, LinkTypes
<1>6. k \in Gone => k \in deleted \cup expired
  BY DEF Gone, Routed, LateInv
<1>7. late' = IF kind[r] = "redirect" /\ k \in Gone THEN late \cup {r} ELSE late
  BY DEF Begin
<1>8. \A q \in late' : /\ q \in Requests /\ kind[q] = "redirect"
                       /\ code'[q] \in deleted \cup expired
                       /\ phase'[q] \in {"fetching", "done"} /\ reply[q] # "301"
  BY <1>3, <1>4, <1>5, <1>6, <1>7 DEF LateInv
<1> QED
  BY <1>1, <1>2, <1>3, <1>4, <1>5, <1>8 DEF LateInv

LEMMA MintLate ==
    ASSUME LateInv, NEW r \in Requests, NEW k \in Codes, Mint(r, k) PROVE LateInv'
<1>1. /\ phase[r] = "minting" /\ kind[r] = "create" /\ r \notin late /\ reply[r] = "none"
      /\ code' = [code EXCEPT ![r] = k] /\ UNCHANGED <<kind, deleted, expired, late>>
  BY DEF Mint, LateInv
<1>2. \/ phase' = [phase EXCEPT ![r] = "minting"] /\ reply' = reply
      \/ \E status \in {"201", "5xx"} : /\ phase' = [phase EXCEPT ![r] = "done"]
                                        /\ reply' = [reply EXCEPT ![r] = status]
  BY DEF Mint, Insert, Answer, Enter
<1>3. LinkTypes'
  BY <1>1, <1>2 DEF LateInv, LinkTypes, Phases
<1>4. /\ \A q \in Requests \ {r} : /\ code'[q] = code[q] /\ phase'[q] = phase[q]
                                   /\ reply'[q] = reply[q]
      /\ phase'[r] \in {"minting", "done"} /\ (phase'[r] # "done" => reply'[r] = "none")
  BY <1>1, <1>2 DEF LateInv, LinkTypes
<1> QED
  BY <1>1, <1>3, <1>4 DEF LateInv

LEMMA FetchLate == ASSUME LateInv, NEW r \in Requests, Fetch(r) PROVE LateInv'
<1>1. phase[r] = "fetching" /\ UNCHANGED <<kind, code, late, deleted, expired>>
  BY DEF Fetch, linkVars
<1>2. \/ /\ phase' = [phase EXCEPT ![r] = "acting"] /\ reply' = reply
         /\ ~ (kind[r] = "redirect" /\ code[r] \in deleted \cup expired)
      \/ \E status \in {"404", "410"} : /\ phase' = [phase EXCEPT ![r] = "done"]
                                        /\ reply' = [reply EXCEPT ![r] = status]
  <2>1. CASE ~ Issued(code[r])
    BY <2>1 DEF Fetch, Answer
  <2>2. CASE Issued(code[r]) /\ kind[r] = "redirect" /\ code[r] \in deleted \cup expired
    BY <2>2 DEF Fetch, Answer
  <2>3. CASE Issued(code[r]) /\ ~ (kind[r] = "redirect" /\ code[r] \in deleted \cup expired)
    BY <2>3 DEF Fetch, Enter
  <2> QED
    BY <2>1, <2>2, <2>3
<1>3. r \in late => ~ (phase' = [phase EXCEPT ![r] = "acting"] /\ reply' = reply
                         /\ ~ (kind[r] = "redirect" /\ code[r] \in deleted \cup expired))
  BY DEF LateInv
<1>4. LinkTypes'
  BY <1>1, <1>2 DEF LateInv, LinkTypes, Phases
<1>5. /\ \A q \in Requests \ {r} : phase'[q] = phase[q] /\ reply'[q] = reply[q]
      /\ phase'[r] \in {"acting", "done"} /\ reply'[r] \notin {"204", "301"}
      /\ (phase'[r] # "done" => reply'[r] = reply[r])
      /\ r \in late => phase'[r] = "done"
  BY <1>1, <1>2, <1>3 DEF LateInv, LinkTypes
<1>6. PICK R \in SUBSET Requests : R = {r}
  OBVIOUS
<1>7. \A q \in Requests \ R : phase'[q] = phase[q] /\ reply'[q] = reply[q]
  BY <1>5, <1>6
<1>8. \A q \in R : /\ phase[q] # "done"
                   /\ phase'[q] # "minting" \/ phase'[q] = phase[q]
                   /\ phase'[q] # "done" => reply'[q] = reply[q]
                   /\ reply'[q] = "204" => code[q] \in deleted'
                   /\ q \in late => phase'[q] \in {"fetching", "done"} /\ reply'[q] # "301"
  BY <1>1, <1>5, <1>6
<1> QED
  BY <1>1, <1>4, <1>7, <1>8, AnsweredLate

(* The routes past their row: no late redirect is among them.                 *)
LEMMA ActLate ==
    ASSUME LateInv, NEW r \in Requests,
           Redirect(r) \/ Delete(r) \/ ReadLink(r) \/ Select(r)
    PROVE  LateInv'
<1>1. phase[r] = "acting" /\ r \notin late /\ reply[r] = "none"
  BY DEF Redirect, Delete, ReadLink, Select, LateInv
<1>2. UNCHANGED <<kind, code, late, expired>> /\ deleted \subseteq deleted'
  BY DEF Redirect, Delete, ReadLink, Select, linkVars, MarkDeleted
<1>3. \/ phase' = [phase EXCEPT ![r] = "acting"] /\ reply' = reply
      \/ \E status \in {"200", "204", "301"} :
            /\ phase' = [phase EXCEPT ![r] = "done"] /\ reply' = [reply EXCEPT ![r] = status]
            /\ status = "204" => code[r] \in deleted'
  BY DEF Redirect, Delete, ReadLink, Select, Answer, Enter, MarkDeleted
<1>4. LinkTypes'
  BY <1>2, <1>3 DEF LateInv, LinkTypes, Phases
<1>5. /\ \A q \in Requests \ {r} : phase'[q] = phase[q] /\ reply'[q] = reply[q]
      /\ phase'[r] \in {"acting", "done"} /\ (reply'[r] = "204" => code[r] \in deleted')
      /\ (phase'[r] # "done" => reply'[r] = reply[r])
  BY <1>1, <1>3 DEF LateInv, LinkTypes
<1>6. PICK R \in SUBSET Requests : R = {r}
  OBVIOUS
<1>7. \A q \in Requests \ R : phase'[q] = phase[q] /\ reply'[q] = reply[q]
  BY <1>5, <1>6
<1>8. \A q \in R : /\ phase[q] # "done"
                   /\ phase'[q] # "minting" \/ phase'[q] = phase[q]
                   /\ phase'[q] # "done" => reply'[q] = reply[q]
                   /\ reply'[q] = "204" => code[q] \in deleted'
                   /\ q \in late => phase'[q] \in {"fetching", "done"} /\ reply'[q] # "301"
  BY <1>1, <1>5, <1>6
<1> QED
  BY <1>2, <1>4, <1>7, <1>8, AnsweredLate

(* A request that fails, and the requests that die with the process.          *)
LEMMA FailsLate ==
    ASSUME LateInv, NEW R \in SUBSET InFlight, UNCHANGED <<kind, code, late, deleted, expired>>,
           phase' = [r \in Requests |-> IF r \in R THEN "done" ELSE phase[r]],
           reply' = [r \in Requests |-> IF r \in R THEN "5xx" ELSE reply[r]]
    PROVE  LateInv'
<1>1. LinkTypes'
  BY DEF LateInv, LinkTypes, Phases
<1>2. R \subseteq Requests /\ \A r \in R : phase[r] # "done"
  BY DEF InFlight
<1> QED
  BY <1>1, <1>2, AnsweredLate

LEMMA LateStep == ASSUME LateInv, [Next]_vars PROVE LateInv'
<1>1. ASSUME NEW r \in Requests, Handle(r) PROVE LateInv'
  <2>1. ASSUME StorageFails(r) PROVE LateInv'
    <3>1. /\ phase' = [phase EXCEPT ![r] = "done"] /\ reply' = [reply EXCEPT ![r] = "5xx"]
          /\ {r} \subseteq InFlight /\ UNCHANGED <<kind, code, late, deleted, expired>>
      BY <2>1 DEF StorageFails, Answer, linkVars
    <3>2. /\ phase' = [q \in Requests |-> IF q \in {r} THEN "done" ELSE phase[q]]
          /\ reply' = [q \in Requests |-> IF q \in {r} THEN "5xx" ELSE reply[q]]
      BY <3>1 DEF LateInv, LinkTypes
    <3> QED
      BY <3>1, <3>2, FailsLate
  <2> QED
    BY <1>1, <2>1, MintLate, FetchLate, ActLate DEF Handle
<1>2. CASE ProcessDies
  BY <1>2, FailsLate DEF ProcessDies, linkVars
<1>3. ASSUME NEW k \in Codes, Expire(k) PROVE LateInv'
  BY <1>3 DEF Expire, requestVars, LateInv, LinkTypes
<1>4. CASE \/ \E d \in Drains : Start(d)
           \/ Shutdown \/ (Recorder /\ UNCHANGED untouched) \/ UNCHANGED vars
  <2>1. UNCHANGED <<kind, phase, code, reply, deleted, expired, late>>
    BY <1>4 DEF Start, Shutdown, untouched, vars, linkVars, requestVars
  <2> QED
    BY <2>1 DEF LateInv, LinkTypes
<1> QED
  BY <1>1, <1>2, <1>3, <1>4, BeginLate DEF Next

(* A redirect begun once its link was gone is never answered with the link.   *)
THEOREM GoneStaysGoneHolds == Spec => []GoneStaysGone
<1>1. LateInv => GoneStaysGone
  BY DEF LateInv, GoneStaysGone
<1> QED
  BY <1>1, InitLate, LateStep, PTL DEF Spec

-------------------------------------------------------------------------------
(* The answer of the analytics route.  The sizes of disjoint parts of a       *)
(* finite set add up to the size of their union: the sizes of the unions      *)
(* satisfy the equation of the fold, and there is no least set on which       *)
(* another solution of it could differ from them.                             *)
LEMMA SumOfUnion ==
    ASSUME NEW D, IsFiniteSet(D), NEW f \in [D -> Nat], NEW S, IsFiniteSet(S),
           NEW part \in [D -> SUBSET S],
           \A i \in D : f[i] = Cardinality(part[i]),
           \A i, j \in D : i # j => part[i] \cap part[j] = {}
    PROVE  SumOf(f) = Cardinality(UNION {part[i] : i \in D})
<1> DEFINE picked(s) == CHOOSE i \in s : TRUE
           round(g, s) == IF s = {} THEN 0 ELSE f[picked(s)] + g[s \ {picked(s)}]
           sizes == [s \in SUBSET D |-> Cardinality(UNION {part[i] : i \in s})]
           sums == CHOOSE g : g = [s \in SUBSET D |-> round(g, s)]
<1>1. SumOf(f) = sums[D]
  BY DEF SumOf, MapThenFoldSet
<1>2. ASSUME NEW s \in SUBSET D PROVE sizes[s] = round(sizes, s)
  <2>1. CASE s = {}
    <3>1. UNION {part[i] : i \in s} = {}
      BY <2>1
    <3> QED
      BY <2>1, <3>1, FS_EmptySet
  <2>2. CASE s # {}
    <3> DEFINE i == picked(s)
               rest == UNION {part[j] : j \in s \ {i}}
    <3>1. i \in s
      BY <2>2
    <3> HIDE DEF i, picked
    <3>2. UNION {part[j] : j \in s} = part[i] \cup rest /\ part[i] \cap rest = {}
      BY <3>1
    <3>3. IsFiniteSet(part[i]) /\ IsFiniteSet(rest)
      BY <3>1, FS_Subset
    <3>4. sizes[s \ {i}] = Cardinality(rest) /\ sizes[s] = Cardinality(part[i] \cup rest)
      BY <3>2
    <3> HIDE DEF rest
    <3>5. Cardinality(part[i] \cup rest) = Cardinality(part[i]) + Cardinality(rest)
      <4>1. Cardinality(part[i] \cap rest) = 0
        BY <3>2, FS_EmptySet
      <4>2. Cardinality(part[i]) \in Nat /\ Cardinality(rest) \in Nat
        BY <3>3, FS_CardinalityType
      <4>3. Cardinality(part[i] \cup rest) =
              Cardinality(part[i]) + Cardinality(rest) - Cardinality(part[i] \cap rest)
        BY <3>3, FS_Union
      <4> QED
        BY <4>1, <4>2, <4>3
    <3> QED
      BY <2>2, <3>1, <3>4, <3>5 DEF i
  <2> QED
    BY <2>1, <2>2
<1>3. sizes = [s \in SUBSET D |-> round(sizes, s)]
  BY <1>2
<1> HIDE DEF sizes
<1>4. sums = [s \in SUBSET D |-> round(sums, s)]
  <2> HIDE DEF round
  <2>1. \E g : g = [s \in SUBSET D |-> round(g, s)]
    BY <1>3, Zenon
  <2> QED
    BY <2>1
<1> HIDE DEF sums
<1>5. sums = sizes
  <2> DEFINE odd == {s \in SUBSET D : sums[s] # sizes[s]}
  <2> SUFFICES ASSUME odd # {} PROVE FALSE
    BY <1>3, <1>4
  <2>1. PICK s \in odd : \A t \in odd : <<t, s>> \notin StrictSubsetOrdering(D)
    <3>1. IsWellFoundedOn(StrictSubsetOrdering(D), SUBSET D)
      BY FS_StrictSubsetOrderingWellFounded, FS_FiniteSubsetsOfFinite
    <3>2. odd \subseteq SUBSET D
      OBVIOUS
    <3> HIDE DEF odd
    <3> QED
      BY <3>1, <3>2, WFMin
  <2>2. s # {}
    BY <1>3, <1>4, <2>1
  <2>3. picked(s) \in s
    BY <2>2
  <2> HIDE DEF picked
  <2>4. s \ {picked(s)} \notin odd
    <3>1. s \in SUBSET D /\ s \ {picked(s)} \in SUBSET D
      OBVIOUS
    <3>2. <<s \ {picked(s)}, s>> \in StrictSubsetOrdering(D)
      BY <2>3, <3>1 DEF StrictSubsetOrdering
    <3> QED
      BY <2>1, <3>2
  <2> QED
    BY <1>3, <1>4, <2>1, <2>2, <2>3, <2>4
<1>6. sizes[D] = Cardinality(UNION {part[i] : i \in D})
  BY DEF sizes
<1> QED
  BY <1>1, <1>5, <1>6

LEMMA SumOfParts ==
    ASSUME NEW D, IsFiniteSet(D), NEW f \in [D -> Nat], NEW S, IsFiniteSet(S),
           NEW part \in [D -> SUBSET S],
           \A i \in D : f[i] = Cardinality(part[i]),
           \A i, j \in D : i # j => part[i] \cap part[j] = {},
           \A c \in S : \E i \in D : c \in part[i]
    PROVE  SumOf(f) = Cardinality(S)
<1>1. SumOf(f) = Cardinality(UNION {part[i] : i \in D})
  BY SumOfUnion
<1>2. UNION {part[i] : i \in D} = S
  OBVIOUS
<1> QED
  BY <1>1, <1>2

(* Whole intervals, and what is left of a span.                               *)
LEMMA Division ==
    ASSUME NEW x \in Nat, NEW s \in Nat \ {0}
    PROVE  x \div s \in Nat /\ x % s \in 0 .. s - 1 /\ x = s * (x \div s) + (x % s)
<1>1. s > 0 /\ x \in Int
  OBVIOUS
<1>2. x \div s \in Int /\ x % s \in 0 .. s - 1 /\ x = s * (x \div s) + (x % s)
  BY <1>1
<1>3. x \div s \in Nat
  OBVIOUS
<1> QED
  BY <1>2, <1>3

LEMMA Quotients ==
    ASSUME NEW s \in Nat \ {0}, NEW p \in Nat, NEW q \in Nat,
           NEW m \in 0 .. s - 1, NEW n \in 0 .. s - 1,
           s * p + m < s * q + n
    PROVE  p < q \/ (p = q /\ m < n)
<1>1. CASE p > q
  <2>1. PICK d \in Nat : p = q + 1 + d
    <3>1. p - q - 1 \in Nat /\ p = q + 1 + (p - q - 1)
      BY <1>1
    <3> QED
      BY <3>1
  <2>2. s * p = s * q + s + s * d
    BY <2>1
  <2>3. s * d >= 0 /\ s * q \in Nat /\ s * d \in Nat
    OBVIOUS
  <2> QED
    BY <2>2, <2>3
<1>2. CASE p = q
  <2>1. s * q \in Nat
    OBVIOUS
  <2> QED
    BY <1>2, <2>1
<1> QED
  BY <1>1, <1>2

(* A moment of the window falls into one of its intervals: the list of counts *)
(* has an entry for it.                                                       *)
LEMMA SlotInRange ==
    ASSUME NEW w \in [start : Int, end : Int, width : Nat \ {0}],
           NEW t \in Int, w.start <= t, t < w.end
    PROVE  Slot(t, w) \in 0 .. Buckets(w) - 1
<1> DEFINE span  == w.end - w.start
           since == t - w.start
           width == w.width
<1>1. Slot(t, w) = since \div width
  BY DEF Slot
<1>2. Buckets(w) = span \div width + (IF span % width = 0 THEN 0 ELSE 1)
  BY DEF Buckets
<1>3. width \in Nat \ {0} /\ span \in Nat /\ since \in Nat /\ since < span
  OBVIOUS
<1> HIDE DEF span, since, width
<1>4. /\ since \div width \in Nat /\ since % width \in 0 .. width - 1
      /\ since = width * (since \div width) + (since % width)
  BY <1>3, Division
<1>5. /\ span \div width \in Nat /\ span % width \in 0 .. width - 1
      /\ span = width * (span \div width) + (span % width)
  BY <1>3, Division
<1> DEFINE p == since \div width
           q == span \div width
           m == since % width
           n == span % width
<1>6. p \in Nat /\ q \in Nat /\ m \in 0 .. width - 1 /\ n \in 0 .. width - 1
  BY <1>4, <1>5
<1>7. width * p + m < width * q + n
  BY <1>3, <1>4, <1>5
<1> HIDE DEF p, q, m, n
<1>8. p < q \/ (p = q /\ m < n)
  BY <1>3, <1>6, <1>7, Quotients
<1>9. Slot(t, w) = p /\ Buckets(w) = q + (IF n = 0 THEN 0 ELSE 1)
  BY <1>1, <1>2 DEF p, q, n
<1> QED
  BY <1>3, <1>6, <1>8, <1>9

(* The series of the clicks of a window counts each of them once.             *)
LEMMA SeriesAccounts ==
    ASSUME NEW w \in [start : Int, end : Int, width : Nat \ {0}], NEW S, IsFiniteSet(S),
           \A c \in S : AtOf[c] \in Int /\ w.start <= AtOf[c] /\ AtOf[c] < w.end
    PROVE  Total(Series(S, w)) = Cardinality(S)
<1> DEFINE slots == 0 .. Buckets(w) - 1
           inSlot == [i \in slots |-> {c \in S : Slot(AtOf[c], w) = i}]
<1>1. ASSUME NEW c \in S PROVE Slot(AtOf[c], w) \in slots
  BY SlotInRange
<1>2. Buckets(w) \in Int
  <2>1. w.end - w.start \in Int /\ w.width \in Nat \ {0}
    OBVIOUS
  <2> QED
    BY <2>1 DEF Buckets
<1>3. IsFiniteSet(slots)
  BY <1>2, FS_Interval
<1>4. inSlot \in [slots -> SUBSET S] /\ \A i, j \in slots : i # j => inSlot[i] \cap inSlot[j] = {}
  OBVIOUS
<1>5. /\ Series(S, w) \in [slots -> Nat]
      /\ \A i \in slots : Series(S, w)[i] = Cardinality(inSlot[i])
  <2>1. \A i \in slots : Series(S, w)[i] = Cardinality(inSlot[i])
    BY DEF Series
  <2>2. \A i \in slots : Cardinality(inSlot[i]) \in Nat
    BY FS_Subset, FS_CardinalityType
  <2> QED
    BY <2>1, <2>2 DEF Series
<1>6. \A c \in S : \E i \in slots : c \in inSlot[i]
  BY <1>1
<1> HIDE DEF slots, inSlot
<1> QED
  BY <1>3, <1>4, <1>5, <1>6, SumOfParts DEF Total

(* A finite set of values can be ranked by their sizes.                       *)
LEMMA LeastSize ==
    ASSUME NEW T, T # {}, NEW size \in [T -> Nat]
    PROVE  \E v \in T : \A u \in T : size[u] >= size[v]
<1> DEFINE sizes == {size[u] : u \in T}
<1>1. sizes \subseteq Nat /\ sizes # {}
  OBVIOUS
<1>2. \E n \in sizes : \A m \in sizes : <<m, n>> \notin OpToRel(<, Nat)
  <2> HIDE DEF sizes
  <2> QED
    BY <1>1, NatLessThanWellFounded, WFMin
<1>3. PICK n \in sizes : \A m \in sizes : <<m, n>> \notin OpToRel(<, Nat)
  BY <1>2
<1>4. \A m \in sizes : m >= n
  <2> SUFFICES ASSUME NEW m \in sizes, m < n PROVE FALSE
    BY <1>1
  <2>1. <<m, n>> \in Nat \X Nat /\ <<m, n>>[1] < <<m, n>>[2]
    BY <1>1
  <2>2. <<m, n>> \in OpToRel(<, Nat)
    BY <2>1 DEF OpToRel
  <2> QED
    BY <1>3, <2>2
<1> QED
  BY <1>4

LEMMA RankingExists ==
    ASSUME NEW V, IsFiniteSet(V), NEW size \in [V -> Nat]
    PROVE  \E s \in [1 .. Cardinality(V) -> V] : \A i, j \in DOMAIN s : i < j =>
               s[i] # s[j] /\ size[s[i]] >= size[s[j]]
<1> DEFINE ranks(s, T) ==
             /\ s \in [1 .. Cardinality(T) -> T]
             /\ \A i, j \in DOMAIN s : i < j => s[i] # s[j] /\ size[s[i]] >= size[s[j]]
           odd == {T \in SUBSET V : ~ \E s : ranks(s, T)}
<1>1. odd = {}
  <2> SUFFICES ASSUME odd # {} PROVE FALSE
    OBVIOUS
  <2>1. PICK T \in odd : \A U \in odd : <<U, T>> \notin StrictSubsetOrdering(V)
    <3>1. IsWellFoundedOn(StrictSubsetOrdering(V), SUBSET V)
      BY FS_StrictSubsetOrderingWellFounded, FS_FiniteSubsetsOfFinite
    <3>2. odd \subseteq SUBSET V
      OBVIOUS
    <3> HIDE DEF odd
    <3> QED
      BY <3>1, <3>2, WFMin
  <2>2. T \in SUBSET V /\ IsFiniteSet(T) /\ ~ \E s : ranks(s, T)
    BY <2>1, FS_Subset
  <2>3. T # {}
    <3> SUFFICES ASSUME T = {} PROVE FALSE
      OBVIOUS
    <3>1. Cardinality(T) = 0
      BY FS_EmptySet
    <3>2. ranks([i \in 1 .. 0 |-> i], T)
      BY <3>1
    <3> HIDE DEF ranks
    <3> QED
      BY <2>2, <3>2
  <2>4. PICK v \in T : \A u \in T : size[u] >= size[v]
    <3>1. [u \in T |-> size[u]] \in [T -> Nat]
      BY <2>2
    <3>2. \E v \in T : \A u \in T : [w \in T |-> size[w]][u] >= [w \in T |-> size[w]][v]
      BY <2>3, <3>1, LeastSize
    <3> QED
      BY <3>2
  <2> DEFINE U == T \ {v}
             n == Cardinality(U)
  <2>5. IsFiniteSet(U) /\ n \in Nat /\ Cardinality(T) = n + 1
    <3>1. IsFiniteSet(U) /\ Cardinality(U) = Cardinality(T) - 1
      BY <2>2, FS_RemoveElement
    <3>2. Cardinality(T) \in Nat /\ Cardinality(U) \in Nat
      BY <2>2, <3>1, FS_CardinalityType
    <3> QED
      BY <3>1, <3>2
  <2>6. PICK s : ranks(s, U)
    <3>1. U \in SUBSET V /\ <<U, T>> \in StrictSubsetOrdering(V)
      BY <2>2 DEF StrictSubsetOrdering
    <3> QED
      BY <2>1, <3>1
  <2> DEFINE longer == [i \in 1 .. n + 1 |-> IF i <= n THEN s[i] ELSE v]
  <2>7. ranks(longer, T)
    <3>1. s \in [1 .. n -> U]
      BY <2>6
    <3> HIDE DEF n
    <3>2. longer \in [1 .. Cardinality(T) -> T]
      BY <2>5, <3>1
    <3>3. ASSUME NEW i \in 1 .. n + 1, NEW j \in 1 .. n + 1, i < j
          PROVE  longer[i] # longer[j] /\ size[longer[i]] >= size[longer[j]]
      <4>1. i \in 1 .. n /\ longer[i] = s[i] /\ s[i] \in U
        BY <2>5, <3>1, <3>3
      <4>2. CASE j <= n
        <5>1. j \in DOMAIN s /\ i \in DOMAIN s /\ longer[j] = s[j]
          BY <2>5, <3>1, <3>3, <4>1, <4>2
        <5> QED
          BY <2>6, <3>3, <4>1, <5>1
      <4>3. CASE ~ (j <= n)
        BY <2>4, <4>1, <4>3
      <4> QED
        BY <4>2, <4>3
    <3> QED
      BY <3>2, <3>3
  <2> HIDE DEF ranks
  <2> QED
    BY <2>2, <2>7
<1>2. V \notin odd
  BY <1>1
<1> QED
  BY <1>2

(* The groups of a breakdown, largest first: every click is in one of them.   *)
LEMMA RankingRanks ==
    ASSUME NEW S, IsFiniteSet(S), NEW column, NEW n, n = Cardinality(ValuesOf(S, column)),
           NEW values, values = Ranking(S, column)
    PROVE  /\ n \in Nat /\ values \in [1 .. n -> ValuesOf(S, column)]
           /\ \A i, j \in 1 .. n : i # j => values[i] # values[j]
           /\ \A c \in S : \E i \in 1 .. n : ValueOf[column][c] = values[i]
<1> DEFINE V == ValuesOf(S, column)
           size == [v \in V |-> Cardinality(Having(S, column, v))]
<1>1. IsFiniteSet(V)
  <2> DEFINE value == [c \in S |-> ValueOf[column][c]]
  <2>1. value \in Surjection(S, V)
    BY DEF Surjection, ValuesOf
  <2> HIDE DEF value, V
  <2> QED
    BY <2>1, FS_Surjection
<1>2. size \in [V -> Nat]
  <2>1. ASSUME NEW v \in V PROVE Cardinality(Having(S, column, v)) \in Nat
    BY FS_Subset, FS_CardinalityType DEF Having
  <2> QED
    BY <2>1
<1>3. n \in Nat
  BY <1>1, FS_CardinalityType
<1>4. \E s \in [1 .. Cardinality(V) -> V] : \A i, j \in DOMAIN s : i < j =>
          s[i] # s[j] /\ size[s[i]] >= size[s[j]]
  <2> HIDE DEF size, V
  <2> QED
    BY <1>1, <1>2, RankingExists
<1>5. \E s \in [1 .. Cardinality(V) -> V] : \A i, j \in DOMAIN s : i < j =>
          /\ s[i] # s[j]
          /\ Cardinality(Having(S, column, s[i])) >= Cardinality(Having(S, column, s[j]))
  BY <1>4
<1>6. /\ values \in [1 .. n -> V]
      /\ \A i, j \in 1 .. n : i < j => values[i] # values[j]
  BY <1>5 DEF Ranking
<1>7. \A i, j \in 1 .. n : i # j => values[i] # values[j]
  <2> SUFFICES ASSUME NEW i \in 1 .. n, NEW j \in 1 .. n, i # j PROVE values[i] # values[j]
    OBVIOUS
  <2>1. i < j \/ j < i
    BY <1>3
  <2> QED
    BY <1>6, <2>1
<1>8. values \in Surjection(1 .. n, V)
  <2>1. values \in Injection(1 .. n, V)
    BY <1>6, <1>7 DEF Injection, IsInjective
  <2>2. Cardinality(1 .. n) = n
    BY <1>3, FS_Interval
  <2> QED
    BY <1>1, <2>1, <2>2, FS_Injection
<1>9. \A v \in V : \E i \in 1 .. n : v = values[i]
  BY <1>8 DEF Surjection
<1> QED
  BY <1>3, <1>6, <1>7, <1>9 DEF ValuesOf

(* Entries that count disjoint parts of a set, all of it, count the set.      *)
LEMMA CountedParts ==
    ASSUME NEW D, IsFiniteSet(D), NEW entries, DOMAIN entries = D, NEW S, IsFiniteSet(S),
           NEW part \in [D -> SUBSET S],
           \A i \in D : entries[i].count = Cardinality(part[i]),
           \A i, j \in D : i # j => part[i] \cap part[j] = {},
           \A c \in S : \E i \in D : c \in part[i]
    PROVE  Counted(entries) = Cardinality(S)
<1> DEFINE counts == [i \in D |-> entries[i].count]
<1>1. \A i \in D : Cardinality(part[i]) \in Nat
  BY FS_Subset, FS_CardinalityType
<1>2. counts \in [D -> Nat] /\ \A i \in D : counts[i] = Cardinality(part[i])
  BY <1>1
<1>3. Counted(entries) = SumOf(counts)
  BY DEF Counted
<1> HIDE DEF counts
<1>4. SumOf(counts) = Cardinality(S)
  BY <1>2, SumOfParts
<1> QED
  BY <1>3, <1>4

(* A breakdown counts each click of the set once, in at most Limit + 1        *)
(* entries: what is below the limit is counted together.                      *)
LEMMA BreakdownAccounts ==
    ASSUME NEW S, IsFiniteSet(S), NEW column, Limit \in Nat \ {0}
    PROVE  /\ Counted(Breakdown(S, column)) = Cardinality(S)
           /\ Len(Breakdown(S, column)) <= Limit + 1
<1> DEFINE values == Ranking(S, column)
           n == Cardinality(ValuesOf(S, column))
           group == [i \in 1 .. n |-> Having(S, column, values[i])]
           entries == Ranked(S, column)
           k == IF n < Limit THEN n ELSE Limit
           below == SubSeq(entries, Limit + 1, Len(entries))
           top == SubSeq(entries, 1, k)
           rest == {c \in S : \E i \in 1 .. n : i > Limit /\ c \in group[i]}
           tail == Counted(below)
<1>1. /\ n \in Nat /\ values \in [1 .. n -> ValuesOf(S, column)]
      /\ \A i, j \in 1 .. n : i # j => values[i] # values[j]
      /\ \A c \in S : \E i \in 1 .. n : ValueOf[column][c] = values[i]
  BY RankingRanks
<1> HIDE DEF n
<1>2. /\ group \in [1 .. n -> SUBSET S]
      /\ \A i, j \in 1 .. n : i # j => group[i] \cap group[j] = {}
      /\ \A c \in S : \E i \in 1 .. n : c \in group[i]
  <2> HIDE DEF values
  <2> QED
    BY <1>1 DEF Having
<1>3. \A i \in 1 .. n : Cardinality(group[i]) \in Nat
  BY <1>2, FS_Subset, FS_CardinalityType
<1>4. entries = [i \in 1 .. n |-> [value |-> values[i], count |-> Cardinality(group[i])]]
  BY <1>1 DEF Ranked
<1> DEFINE E == [value : ValuesOf(S, column), count : Nat]
<1>5. entries \in Seq(E) /\ Len(entries) = n /\ \A i \in 1 .. n : entries[i] \in E
  <2>1. ASSUME NEW i \in 1 .. n PROVE [value |-> values[i], count |-> Cardinality(group[i])] \in E
    BY <1>1, <1>3
  <2> HIDE DEF group, values, E
  <2> QED
    BY <1>1, <1>4, <2>1
<1>6. \A i \in 1 .. n : entries[i].count = Cardinality(group[i])
  BY <1>4
<1>7. Breakdown(S, column) = IF tail = 0 THEN top ELSE Append(top, [value |-> OtherBucket, count |-> tail])
  BY <1>5 DEF Breakdown
<1> HIDE DEF values, group, entries, E
<1>8. /\ top \in Seq(E) /\ Len(top) = k /\ k \in 0 .. n /\ k <= Limit
      /\ \A i \in 1 .. k : top[i] = entries[i]
  <2>1. k \in 0 .. n /\ k <= Limit
    BY <1>1
  <2>2. \A i \in 1 .. k : entries[i] \in E
    BY <1>5, <2>1
  <2> HIDE DEF k
  <2> QED
    BY <1>1, <2>1, <2>2, SubSeqProperties
<1>9. IsFiniteSet(rest) /\ rest \subseteq S
  BY FS_Subset
<1>10. tail = Cardinality(rest)
  <2> DEFINE m == Len(below)
             D == 1 .. m
             part == [i \in D |-> group[Limit + i]]
  <2>1. m = (IF Limit + 1 <= n THEN n - Limit ELSE 0) /\ DOMAIN below = D
        /\ \A i \in 1 .. n - Limit : below[i] = entries[Limit + i]
    <3>1. \A i \in Limit + 1 .. n : entries[i] \in E
      BY <1>1, <1>5
    <3>2. /\ below \in Seq(E) /\ m = (IF Limit + 1 <= n THEN n - (Limit + 1) + 1 ELSE 0)
          /\ \A i \in 1 .. n - (Limit + 1) + 1 : below[i] = entries[(Limit + 1) + i - 1]
      BY <1>1, <1>5, <3>1, SubSeqProperties
    <3> QED
      BY <1>1, <3>2
  <2> HIDE DEF below
  <2>2. \A i \in D : Limit + i \in 1 .. n /\ below[i].count = Cardinality(part[i])
    BY <1>1, <1>6, <2>1
  <2>3. part \in [D -> SUBSET rest]
    <3> SUFFICES ASSUME NEW i \in D PROVE group[Limit + i] \in SUBSET rest
      OBVIOUS
    <3>1. Limit + i \in 1 .. n /\ Limit + i > Limit
      BY <2>2
    <3> QED
      BY <1>2, <3>1
  <2>4. \A i, j \in D : i # j => part[i] \cap part[j] = {}
    BY <1>2, <2>2
  <2>5. \A c \in rest : \E i \in D : c \in part[i]
    <3> SUFFICES ASSUME NEW c \in rest PROVE \E i \in D : c \in part[i]
      OBVIOUS
    <3>1. PICK i \in 1 .. n : i > Limit /\ c \in group[i]
      OBVIOUS
    <3>2. i - Limit \in D /\ Limit + (i - Limit) = i
      BY <1>1, <2>1, <3>1
    <3> QED
      BY <3>1, <3>2
  <2>6. IsFiniteSet(D)
    BY <1>1, <2>1, FS_Interval
  <2>7. DOMAIN below = D /\ \A i \in D : below[i].count = Cardinality(part[i])
    BY <2>1, <2>2
  <2> HIDE DEF D, part, rest
  <2>8. Counted(below) = Cardinality(rest)
    BY <1>9, <2>3, <2>4, <2>5, <2>6, <2>7, CountedParts
  <2> QED
    BY <2>8 DEF below
<1>11. ASSUME NEW c \in S PROVE (\E i \in 1 .. k : c \in group[i]) \/ c \in rest
  <2>1. PICK i \in 1 .. n : c \in group[i]
    BY <1>2
  <2> QED
    BY <1>1, <2>1
<1>12. ASSUME NEW i \in 1 .. k PROVE group[i] \cap rest = {} /\ i \in 1 .. n /\ group[i] \subseteq S
  BY <1>1, <1>2, <1>8
<1> HIDE DEF top, below, tail, k, rest
<1>13. CASE tail = 0
  <2>1. rest = {}
    BY <1>9, <1>10, <1>13, FS_EmptySet
  <2> DEFINE D == 1 .. k
             part == [i \in D |-> group[i]]
  <2>2. DOMAIN top = D /\ IsFiniteSet(D)
    BY <1>8, FS_Interval
  <2>3. part \in [D -> SUBSET S] /\ \A i \in D : top[i].count = Cardinality(part[i])
    BY <1>6, <1>8, <1>12
  <2>4. \A i, j \in D : i # j => part[i] \cap part[j] = {}
    BY <1>2, <1>12
  <2>5. \A c \in S : \E i \in D : c \in part[i]
    BY <1>11, <2>1
  <2> HIDE DEF D, part
  <2>6. Counted(top) = Cardinality(S)
    BY <2>2, <2>3, <2>4, <2>5, CountedParts
  <2> QED
    BY <1>7, <1>8, <1>13, <2>6
<1>14. CASE tail # 0
  <2> DEFINE D == 1 .. k + 1
             part == [i \in D |-> IF i = k + 1 THEN rest ELSE group[i]]
             bounded == Append(top, [value |-> OtherBucket, count |-> tail])
  <2>1. DOMAIN bounded = D
    BY <1>8
  <2>2. Len(bounded) = k + 1
    BY <1>8
  <2>3. IsFiniteSet(D)
    BY <1>8, FS_Interval
  <2>4. \A i \in D : i # k + 1 => i \in 1 .. k
    BY <1>8
  <2>5. part \in [D -> SUBSET S]
    BY <1>9, <1>12, <2>4
  <2>6. \A i \in D : bounded[i].count = Cardinality(part[i])
    <3>1. bounded[k + 1] = [value |-> OtherBucket, count |-> tail] /\ part[k + 1] = rest
      BY <1>8
    <3>2. ASSUME NEW i \in 1 .. k PROVE bounded[i] = entries[i] /\ part[i] = group[i] /\ i \in 1 .. n
      BY <1>8, <1>12
    <3> HIDE DEF bounded, part
    <3> QED
      BY <1>6, <1>10, <2>4, <3>1, <3>2
  <2>7. \A i, j \in D : i # j => part[i] \cap part[j] = {}
    BY <1>2, <1>12, <2>4
  <2>8. \A c \in S : \E i \in D : c \in part[i]
    BY <1>8, <1>11
  <2> HIDE DEF D, part, bounded
  <2>9. Counted(bounded) = Cardinality(S)
    BY <2>1, <2>3, <2>5, <2>6, <2>7, <2>8, CountedParts
  <2> QED
    BY <1>7, <1>8, <1>14, <2>2, <2>9 DEF bounded
<1> QED
  BY <1>13, <1>14

(* What an answer may still come to count is finite: no drain holds more than *)
(* the clicks it took one by one, and no row was stored but from its batch.   *)
FiniteInv == IsFiniteSet(Stored) /\ \A d \in Drains : IsFiniteSet(batch[d])

LEMMA FiniteStep ==
    ASSUME RecorderTypes, FiniteInv, [RecorderNext]_recorderVars PROVE FiniteInv'
<1>1. ASSUME NEW d \in Drains, Store(d) PROVE FiniteInv'
  <2>1. batch' = [batch EXCEPT ![d] = {}]
    BY <1>1 DEF Store, NextRound
  <2>2. Stored' \subseteq Stored \cup batch[d]
    BY <1>1 DEF Store, InsertClicks, Stored, RecorderTypes
  <2>3. IsFiniteSet(Stored \cup batch[d])
    BY FS_Union DEF FiniteInv
  <2>4. IsFiniteSet(Stored')
    BY <2>2, <2>3, FS_Subset
  <2>5. \A e \in Drains : IsFiniteSet(batch'[e])
    BY <2>1, FS_EmptySet DEF FiniteInv, RecorderTypes
  <2> QED
    BY <2>4, <2>5 DEF FiniteInv
<1>2. ASSUME NEW d \in Drains, Take(d) PROVE FiniteInv'
  <2>1. Stored' = Stored
    BY <1>2 DEF Take, Stored
  <2>2. batch' = batch \/ \E c : batch' = [batch EXCEPT ![d] = @ \cup {c}]
    BY <1>2 DEF Take
  <2>3. \A c : IsFiniteSet(batch[d] \cup {c})
    BY FS_AddElement DEF FiniteInv
  <2>4. \A e \in Drains : IsFiniteSet(batch'[e])
    BY <2>2, <2>3 DEF FiniteInv, RecorderTypes
  <2> QED
    BY <2>1, <2>4 DEF FiniteInv
<1>3. CASE ProcessEnds
  <2>1. Stored' = Stored /\ batch' = [d \in Drains |-> {}]
    BY <1>3 DEF ProcessEnds, Stored
  <2> QED
    BY <2>1, FS_EmptySet DEF FiniteInv
<1>4. CASE \/ \E c \in Clicks : RecordClick(c)
           \/ \E d \in Drains : StartRecorder(d) \/ Empty(d)
           \/ StopRecorder \/ PutSentinel \/ Joined \/ UNCHANGED recorderVars
  <2>1. rows' = rows /\ batch' = batch
    BY <1>4 DEF RecordClick, StartRecorder, Empty, StopRecorder, PutSentinel, Joined, drainVars, recorderVars
  <2> QED
    BY <2>1 DEF FiniteInv, Stored
<1> QED
  BY <1>1, <1>2, <1>3, <1>4 DEF RecorderNext, DrainStep

(* An analytics request that was answered has a part for its series and one   *)
(* for each column, each of clicks of the window.                             *)
AnswerInv ==
    /\ DOMAIN answer = Requests
    /\ \A r \in Requests : kind[r] = "analytics" =>
          /\ answer[r] \in Seq(SUBSET InWindow(Clicks, Window))
          /\ \A i \in 1 .. Len(answer[r]) : IsFiniteSet(answer[r][i])
          /\ reply[r] = "200" => Len(answer[r]) = Len(Columns) + 1

LEMMA InitAnswer == ASSUME Init PROVE FiniteInv /\ AnswerInv
<1>1. Stored = {} /\ \A d \in Drains : batch[d] = {}
  BY DEF Init, RecorderInit, Stored
<1>2. FiniteInv
  BY <1>1, FS_EmptySet DEF FiniteInv
<1>3. AnswerInv
  BY DEF Init, AnswerInv
<1> QED
  BY <1>2, <1>3

LEMMA SelectAnswer ==
    ASSUME LateInv, FiniteInv, AnswerInv, NEW r \in Requests, Select(r) PROVE AnswerInv'
<1> DEFINE part == InWindow(ClicksOf(code[r]), Window)
<1>1. kind[r] = "analytics" /\ reply[r] = "none" /\ kind' = kind
  BY DEF Select, LateInv
<1>2. answer' = [answer EXCEPT ![r] = Append(@, part)]
  BY DEF Select
<1>3. part \subseteq InWindow(Clicks, Window) /\ IsFiniteSet(part)
  <2>1. part \subseteq Stored /\ part \subseteq InWindow(Clicks, Window)
    BY DEF InWindow, ClicksOf, Stored
  <2> QED
    BY <2>1, FS_Subset DEF FiniteInv
<1>4. \/ Len(answer[r]) = Len(Columns) /\ reply' = [reply EXCEPT ![r] = "200"]
      \/ reply' = reply
  BY DEF Select, Answer, Enter
<1> HIDE DEF part
<1>5. ASSUME NEW q \in Requests \ {r} PROVE answer'[q] = answer[q] /\ reply'[q] = reply[q]
  BY <1>2, <1>4 DEF AnswerInv, LateInv, LinkTypes
<1>6. /\ answer[r] \in Seq(SUBSET InWindow(Clicks, Window))
      /\ \A i \in 1 .. Len(answer[r]) : IsFiniteSet(answer[r][i])
  BY <1>1 DEF AnswerInv
<1>7. /\ answer'[r] \in Seq(SUBSET InWindow(Clicks, Window)) /\ Len(answer'[r]) = Len(answer[r]) + 1
      /\ \A i \in 1 .. Len(answer'[r]) :
            answer'[r][i] = IF i = Len(answer[r]) + 1 THEN part ELSE answer[r][i]
  BY <1>2, <1>3, <1>6 DEF AnswerInv
<1>8. \A i \in 1 .. Len(answer'[r]) : IsFiniteSet(answer'[r][i])
  <2>1. Len(answer[r]) \in Nat
    BY <1>6
  <2> QED
    BY <1>3, <1>6, <1>7, <2>1
<1>9. reply'[r] = "200" => Len(answer'[r]) = Len(Columns) + 1
  BY <1>1, <1>4, <1>7
<1>10. DOMAIN answer' = Requests
  BY <1>2 DEF AnswerInv
<1> QED
  BY <1>1, <1>5, <1>7, <1>8, <1>9, <1>10 DEF AnswerInv

LEMMA AnswerStep ==
    ASSUME LateInv, FiniteInv, AnswerInv, [Next]_vars PROVE AnswerInv'
<1>1. ASSUME NEW r \in Requests, ReadLink(r) PROVE AnswerInv'
  <2>1. kind[r] = "read" /\ kind' = kind /\ DOMAIN answer' = DOMAIN answer
    BY <1>1 DEF ReadLink
  <2>2. \A q \in Requests \ {r} : answer'[q] = answer[q] /\ reply'[q] = reply[q]
    BY <1>1 DEF ReadLink, Answer, AnswerInv, LateInv, LinkTypes
  <2> QED
    BY <2>1, <2>2 DEF AnswerInv
<1>2. ASSUME UNCHANGED <<kind, answer>>,
             \A q \in Requests : reply'[q] = reply[q] \/ reply'[q] # "200"
      PROVE  AnswerInv'
  BY <1>2 DEF AnswerInv
<1>3. ASSUME NEW r \in Requests, Handle(r) PROVE AnswerInv'
  <2>1. ASSUME UNCHANGED <<kind, answer>>,
               \/ reply' = reply
               \/ \E status \in {"201", "204", "301", "404", "410", "5xx"} :
                     reply' = [reply EXCEPT ![r] = status]
        PROVE  AnswerInv'
    BY <1>2, <2>1 DEF LateInv, LinkTypes
  <2>2. ASSUME NEW k \in Codes, Mint(r, k) PROVE AnswerInv'
    BY <2>1, <2>2 DEF Mint, Insert, Answer, Enter
  <2>3. CASE Fetch(r)
    BY <2>1, <2>3 DEF Fetch, Answer, Enter
  <2>4. CASE Redirect(r) \/ Delete(r) \/ StorageFails(r)
    BY <2>1, <2>4 DEF Redirect, Delete, StorageFails, Answer
  <2> QED
    BY <1>1, <1>3, <2>2, <2>3, <2>4, SelectAnswer DEF Handle
<1>4. ASSUME NEW r \in Requests, NEW k \in Codes \cup {NoOne}, Begin(r, k) PROVE AnswerInv'
  BY <1>2, <1>4 DEF Begin, Enter
<1>5. CASE ProcessDies
  <2>1. UNCHANGED <<kind, answer>> /\ \A q \in Requests : reply'[q] = reply[q] \/ reply'[q] = "5xx"
    BY <1>5 DEF ProcessDies
  <2> QED
    BY <1>2, <2>1
<1>6. CASE \/ \E k \in Codes : Expire(k)
           \/ \E d \in Drains : Start(d)
           \/ Shutdown \/ (Recorder /\ UNCHANGED untouched) \/ UNCHANGED vars
  <2>1. UNCHANGED <<kind, answer, reply>>
    BY <1>6 DEF Expire, Start, Shutdown, untouched, vars, requestVars
  <2> QED
    BY <1>2, <2>1
<1> QED
  BY <1>3, <1>4, <1>5, <1>6 DEF Next

LEMMA AnswerInvImplies ==
    ASSUME AnswerInv, AtOf \in [Clicks -> Int], Limit \in Nat \ {0}, Columns \in Seq(DOMAIN ValueOf),
           Window \in [start : Int, end : Int, width : Nat \ {0}]
    PROVE  AnswersAccount
<1> SUFFICES ASSUME NEW r \in Requests, kind[r] = "analytics", reply[r] = "200"
             PROVE  /\ Total(Series(answer[r][1], Window)) = Cardinality(answer[r][1])
                    /\ \A i \in 1 .. Len(Columns) :
                          LET rowsOf == Breakdown(answer[r][i + 1], Columns[i])
                          IN  /\ Counted(rowsOf) = Cardinality(answer[r][i + 1])
                              /\ Len(rowsOf) <= Limit + 1
  BY DEF AnswersAccount, Routed
<1>1. Len(answer[r]) = Len(Columns) + 1 /\ Len(Columns) \in Nat
  BY DEF AnswerInv
<1>2. ASSUME NEW i \in 1 .. Len(Columns) + 1
      PROVE  IsFiniteSet(answer[r][i]) /\ answer[r][i] \subseteq InWindow(Clicks, Window)
  BY <1>1 DEF AnswerInv
<1>3. 1 \in 1 .. Len(Columns) + 1 /\ \A i \in 1 .. Len(Columns) : i + 1 \in 1 .. Len(Columns) + 1
  BY <1>1
<1>4. Total(Series(answer[r][1], Window)) = Cardinality(answer[r][1])
  <2>1. IsFiniteSet(answer[r][1]) /\ answer[r][1] \subseteq InWindow(Clicks, Window)
    BY <1>2, <1>3
  <2>2. \A c \in answer[r][1] : AtOf[c] \in Int /\ Window.start <= AtOf[c] /\ AtOf[c] < Window.end
    BY <2>1 DEF InWindow
  <2> QED
    BY <2>1, <2>2, SeriesAccounts
<1>5. ASSUME NEW i \in 1 .. Len(Columns)
      PROVE  /\ Counted(Breakdown(answer[r][i + 1], Columns[i])) = Cardinality(answer[r][i + 1])
             /\ Len(Breakdown(answer[r][i + 1], Columns[i])) <= Limit + 1
  <2>1. IsFiniteSet(answer[r][i + 1])
    BY <1>2, <1>3
  <2> QED
    BY <2>1, BreakdownAccounts
<1> QED
  BY <1>4, <1>5

(* An answer of the analytics route accounts for every click its SELECTs      *)
(* found: the series and each breakdown add up to them, and no breakdown has  *)
(* more rows than the limit and one.                                          *)
THEOREM AnswersAccountHolds ==
    ASSUME RecorderAssumption, ShortenerAssumption PROVE Spec => []AnswersAccount
<1> DEFINE Inv == RecorderInv /\ ServiceInv /\ LateInv /\ FiniteInv /\ AnswerInv
<1>1. Init => Inv
  BY InitRecorder, InitService, InitLate, InitAnswer DEF Init
<1>2. Inv /\ [Next]_vars => Inv'
  BY ServiceStep, ServedIsRecorder, RecorderStep, LateStep, FiniteStep, AnswerStep DEF RecorderInv
<1>3. Inv => AnswersAccount
  BY AnswerInvImplies DEF ShortenerAssumption
<1> HIDE DEF Inv
<1> QED
  BY <1>1, <1>2, <1>3, PTL DEF Spec
===============================================================================
