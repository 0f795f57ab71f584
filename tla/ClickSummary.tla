------------------------------ MODULE ClickSummary -----------------------------
(* What summarize_clicks makes of the clicks its SELECTs found                *)
(* (target/shortener/analytics): a series of equal intervals from the start   *)
(* of the window, and breakdowns bounded to the most frequent values.         *)
EXTENDS Integers, Sequences, FiniteSets, Folds

CONSTANTS AtOf,          \* when each click occurred
          ValueOf,       \* column -> click -> the value it was stored with
          OtherBucket,
          Limit,         \* BREAKDOWN_LIMIT
          MaxIntervals

(* Whole intervals, and one more for what is left of the span.                *)
Buckets(w) ==
    LET span == w.end - w.start
    IN  span \div w.width + (IF span % w.width = 0 THEN 0 ELSE 1)

(* A window that is answered; the others are refused with 400.                *)
Served(w) == w.start < w.end /\ Buckets(w) <= MaxIntervals

InWindow(S, w) == {c \in S : w.start <= AtOf[c] /\ AtOf[c] < w.end}

(* Counted from 0, as `counts` is.                                            *)
Slot(t, w) == (t - w.start) \div w.width

Series(S, w) == [i \in 0 .. Buckets(w) - 1 |-> Cardinality({c \in S : Slot(AtOf[c], w) = i})]

SumOf(f) ==
    MapThenFoldSet(LAMBDA m, n : m + n, 0, LAMBDA i : f[i], LAMBDA s : CHOOSE i \in s : TRUE,
                   DOMAIN f)

Counted(entries) == SumOf([i \in DOMAIN entries |-> entries[i].count])

Total(series) == SumOf(series)

(* GROUP BY the column.                                                       *)
ValuesOf(S, column) == {ValueOf[column][c] : c \in S}

Having(S, column, v) == {c \in S : ValueOf[column][c] = v}

(* The largest groups first; groups of one size come in no order the code     *)
(* states.                                                                    *)
Ranking(S, column) ==
    CHOOSE values \in [1 .. Cardinality(ValuesOf(S, column)) -> ValuesOf(S, column)] :
        \A i, j \in DOMAIN values : i < j =>
            /\ values[i] # values[j]
            /\ Cardinality(Having(S, column, values[i])) >=
                   Cardinality(Having(S, column, values[j]))

Ranked(S, column) ==
    LET values == Ranking(S, column)
    IN  [i \in DOMAIN values |->
            [value |-> values[i], count |-> Cardinality(Having(S, column, values[i]))]]

BreakdownCutOff(S, column) ==  \* mutant: the tail is dropped
    LET entries == Ranked(S, column)
    IN  SubSeq(entries, 1, IF Len(entries) < Limit THEN Len(entries) ELSE Limit)

(* _breakdown: what is below the limit goes into one more entry.              *)
Breakdown(S, column) ==
    LET entries == Ranked(S, column)
        top     == SubSeq(entries, 1, IF Len(entries) < Limit THEN Len(entries) ELSE Limit)
        tail    == Counted(SubSeq(entries, Limit + 1, Len(entries)))
    IN  IF tail = 0 THEN top ELSE Append(top, [value |-> OtherBucket, count |-> tail])
===============================================================================
