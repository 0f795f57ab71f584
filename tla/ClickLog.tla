------------------------------- MODULE ClickLog -------------------------------
(* What recording a click promises (analytics, A6): whatever happens to the   *)
(* queue, the drains and the process, a click that was accepted is kept once, *)
(* or lost; one that was refused is never counted.                            *)
(*                                                                            *)
(*   fate[c]  what has become of the click of redirect c                      *)
CONSTANT Clicks

VARIABLE fate

Fates == {"unseen", "waiting", "kept", "lost", "dropped"}

(* The clicks of S come to the same end together.                             *)
Become(S, from, to) ==
    /\ \A c \in S : fate[c] = from
    /\ fate' = [c \in Clicks |-> IF c \in S THEN to ELSE fate[c]]

Init == fate = [c \in Clicks |-> "unseen"]

Accept(c) == Become({c}, "unseen", "waiting")
Drop(c)   == Become({c}, "unseen", "dropped")
Keep(S)   == Become(S, "waiting", "kept")  \* a batch is one transaction
Lose(S)   == Become(S, "waiting", "lost")

Next ==
    \/ \E c \in Clicks : Accept(c) \/ Drop(c)
    \/ \E S \in SUBSET Clicks : Keep(S) \/ Lose(S)

Spec == Init /\ [][Next]_fate

(* Nothing waits for ever.                                                    *)
Settles == \A c \in Clicks : fate[c] = "waiting" ~> fate[c] # "waiting"
===============================================================================
