------------------------------ MODULE MCRateLimit ------------------------------
(* Two callers with a budget of two, two threads, and a sweep as soon as both *)
(* callers are known.                                                         *)
EXTENDS RateLimit, TLC

CONSTANTS a, b, t1, t2

Symmetric == Permutations({a, b}) \cup Permutations({t1, t2})
===============================================================================
