---------------------------- MODULE RateLimitProofs ----------------------------
(* What holds of the rate limiter for any callers, threads, budget, window,   *)
(* size of the sweep and length of a second.                                  *)
EXTENDS RateLimit, TLAPS

TypeOK ==
    /\ clock \in Nat /\ known \subseteq Keys
    /\ level \in [Keys -> Int] /\ stamp \in [Keys -> Nat]
    /\ caller \in [Threads -> Keys \cup {NoKey}] /\ now \in [Threads -> Nat]
    /\ latest \in Nat /\ overtaken \subseteq Keys
    /\ promise \in [Keys -> Nat \cup {NoPromise}]
    /\ full \in [Keys -> Int] /\ since \in [Keys -> Nat]

(* What the bucket of k holds at a reading when nothing is swept.             *)
Level(k, at) == IF k \in known THEN Capped(level[k] + at - stamp[k]) ELSE Window

(* Nobody is ahead of the clock, and no bucket holds more than a window.      *)
Bounded ==
    /\ \A t \in Threads : now[t] <= clock
    /\ latest <= clock
    /\ \A k \in Keys : level[k] <= Window /\ full[k] <= Window

(* A caller that was not overtaken has no debt, and its bucket is the exact   *)
(* one at any reading still to come.                                          *)
InStep ==
    \A k \in Keys \ overtaken :
        /\ since[k] <= latest /\ full[k] >= 0
        /\ k \in known => stamp[k] = since[k] /\ level[k] = full[k]
        /\ k \notin known => full[k] + latest - since[k] >= Window

(* A refused caller will have its token when it was told to come back.        *)
Promised == \A k \in Keys : promise[k] # NoPromise => Level(k, promise[k]) >= Cost

RateInv == TypeOK /\ Bounded /\ InStep /\ Promised

-------------------------------------------------------------------------------
(* Rounding up never tells a caller to come back too early.                   *)
LEMMA RoundedUp == ASSUME NEW n \in Int, NEW s \in Nat \ {0}
                   PROVE  (n + s - 1) \div s \in Int /\ s * ((n + s - 1) \div s) >= n
<1> DEFINE x == n + s - 1
<1>1. x \in Int /\ s > 0
  OBVIOUS
<1>2. x \div s \in Int /\ x % s \in 0 .. s - 1 /\ x = s * (x \div s) + (x % s)
  BY <1>1
<1> QED
  BY <1>2

LEMMA RetryLongEnough ==
    ASSUME RateAssumption, NEW n \in Int
    PROVE  RetryAfter(n) \in Nat /\ Second * RetryAfter(n) >= n /\ Second * RetryAfter(n) \in Nat
<1> DEFINE up == (n + Second - 1) \div Second
<1>1. Second \in Nat \ {0}
  BY DEF RateAssumption
<1>2. up \in Int /\ Second * up >= n
  BY <1>1, RoundedUp
<1>3. RetryAfter(n) = IF 1 < up THEN up ELSE 1
  BY DEF RetryAfter, Larger
<1> HIDE DEF up
<1>4. CASE 1 < up
  BY <1>1, <1>2, <1>3, <1>4
<1>5. CASE ~ (1 < up)
  <2>1. Second * 1 >= Second * up
    BY <1>1, <1>2, <1>5
  <2> QED
    BY <1>1, <1>2, <1>3, <1>5, <2>1
<1> QED
  BY <1>4, <1>5

-------------------------------------------------------------------------------
LEMMA InitInv == ASSUME RateAssumption, Init PROVE RateInv
<1>1. TypeOK
  BY DEF RateAssumption, Init, TypeOK, NoPromise
<1>2. Bounded
  BY DEF RateAssumption, Init, Bounded
<1>3. InStep
  BY DEF RateAssumption, Init, InStep
<1>4. Promised
  BY DEF Init, Promised
<1> QED
  BY <1>1, <1>2, <1>3, <1>4 DEF RateInv

LEMMA TickInv == ASSUME RateAssumption, RateInv, Tick PROVE RateInv'
<1>1. TypeOK'
  BY DEF RateInv, TypeOK, Tick, buckets, ghosts
<1>2. Bounded'
  BY DEF RateInv, TypeOK, Bounded, Tick, buckets, ghosts
<1>3. InStep' /\ Promised'
  BY DEF RateInv, InStep, Promised, Level, Capped, Tick, buckets, ghosts
<1> QED
  BY <1>1, <1>2, <1>3 DEF RateInv

LEMMA ArriveInv ==
    ASSUME RateAssumption, RateInv, NEW t \in Threads, NEW k \in Keys, Arrive(t, k)
    PROVE  RateInv'
<1>1. TypeOK'
  BY DEF RateInv, TypeOK, Arrive, buckets, ghosts
<1>2. Bounded'
  BY DEF RateInv, TypeOK, Bounded, Arrive, buckets, ghosts
<1>3. InStep' /\ Promised'
  BY DEF RateInv, InStep, Promised, Level, Capped, Arrive, buckets, ghosts
<1> QED
  BY <1>1, <1>2, <1>3 DEF RateInv

-------------------------------------------------------------------------------
(* What one charge leaves in the bucket of its caller.                        *)
Left(k, at) == IF Held(k, at) >= Cost THEN Held(k, at) - Cost ELSE Held(k, at)

LEMMA HeldTyped ==
    ASSUME RateAssumption, RateInv, NEW k \in Keys, NEW at \in Nat
    PROVE  /\ Kept(at) \subseteq known
           /\ Held(k, at) \in Int /\ Held(k, at) <= Window
           /\ Left(k, at) \in Int /\ Left(k, at) <= Window
<1>1. Kept(at) \subseteq known
  BY DEF Kept
<1>2. Held(k, at) \in Int /\ Held(k, at) <= Window
  BY DEF RateAssumption, RateInv, TypeOK, Held, Capped
<1> QED
  BY <1>1, <1>2 DEF RateAssumption, Left

LEMMA EnforceInv ==
    ASSUME RateAssumption, RateInv, NEW t \in Threads, Enforce(t)
    PROVE  RateInv'
<1> DEFINE k  == caller[t]
           at == now[t]
<1>1. k \in Keys /\ at \in Nat /\ at <= clock
  BY DEF RateInv, TypeOK, Bounded, Enforce
<1>2. /\ Kept(at) \subseteq known
      /\ Held(k, at) \in Int /\ Held(k, at) <= Window
      /\ Left(k, at) \in Int /\ Left(k, at) <= Window
  BY <1>1, HeldTyped
<1>3. Charge(k, Left(k, at), at)
  BY DEF Enforce, Grant, Refuse, Left
<1>4. /\ Remember(k, at) /\ UNCHANGED clock
      /\ caller' = [caller EXCEPT ![t] = NoKey] /\ now' = [now EXCEPT ![t] = 0]
  BY DEF Enforce
<1>5. \/ Held(k, at) >= Cost /\ promise' = [promise EXCEPT ![k] = NoPromise]
      \/ /\ Held(k, at) < Cost
         /\ \E due \in Nat :
               /\ due >= clock + Cost - Held(k, at)
               /\ promise' = [promise EXCEPT ![k] =
                                IF @ = NoPromise \/ due < @ THEN due ELSE @]
  <2>1. CASE Held(k, at) >= Cost
    BY <2>1 DEF Enforce, Grant
  <2>2. CASE ~ (Held(k, at) >= Cost)
    <3> DEFINE missing == Cost - Held(k, at)
    <3>1. missing \in Int
      BY <1>2 DEF RateAssumption
    <3>2. Second * RetryAfter(missing) >= missing /\ Second * RetryAfter(missing) \in Nat
      BY <3>1, RetryLongEnough
    <3> DEFINE due == clock + Second * RetryAfter(missing)
    <3>3. due \in Nat /\ due >= clock + Cost - Held(k, at)
      BY <1>2, <3>2 DEF RateAssumption, RateInv, TypeOK
    <3>4. promise' = [promise EXCEPT ![k] = IF @ = NoPromise \/ due < @ THEN due ELSE @]
      BY <2>2 DEF Enforce, Refuse
    <3>5. Held(k, at) < Cost
      BY <1>2, <2>2 DEF RateAssumption
    <3> HIDE DEF due
    <3> QED
      BY <3>3, <3>4, <3>5
  <2> QED
    BY <2>1, <2>2
<1> HIDE DEF k, at
<1>6. /\ known' = Kept(at) \cup {k}
      /\ level' = [x \in Keys |-> IF x = k THEN Left(k, at) ELSE IF x \in Kept(at) THEN level[x] ELSE 0]
      /\ stamp' = [x \in Keys |-> IF x = k THEN at ELSE IF x \in Kept(at) THEN stamp[x] ELSE 0]
  BY <1>3 DEF Charge, Rewritten
<1>7. Exact(k, at) \in Int /\ Exact(k, at) <= Window
  BY <1>1 DEF RateAssumption, RateInv, TypeOK, Exact, Capped
<1>8. latest' = (IF latest < at THEN at ELSE latest)
  BY <1>4 DEF Remember, Larger
<1>9. TypeOK'
  <2>1. clock' \in Nat /\ caller' \in [Threads -> Keys \cup {NoKey}] /\ now' \in [Threads -> Nat]
    BY <1>4 DEF RateInv, TypeOK
  <2>2. known' \subseteq Keys /\ level' \in [Keys -> Int] /\ stamp' \in [Keys -> Nat]
    BY <1>1, <1>2, <1>6 DEF RateInv, TypeOK
  <2>3. promise' \in [Keys -> Nat \cup {NoPromise}]
    BY <1>1, <1>5 DEF RateInv, TypeOK, NoPromise
  <2>4. /\ latest' \in Nat /\ overtaken' \subseteq Keys
        /\ full' \in [Keys -> Int] /\ since' \in [Keys -> Nat]
    BY <1>1, <1>2, <1>4, <1>7, <1>8 DEF RateAssumption, RateInv, TypeOK, Remember
  <2> QED
    BY <2>1, <2>2, <2>3, <2>4 DEF TypeOK
<1>10. Bounded'
  <2>1. \A u \in Threads : now'[u] <= clock'
    BY <1>4 DEF RateInv, TypeOK, Bounded
  <2>2. latest' <= clock'
    BY <1>1, <1>4, <1>8 DEF RateInv, TypeOK, Bounded
  <2>3. \A x \in Keys : level'[x] <= Window
    BY <1>2, <1>6 DEF RateAssumption, RateInv, Bounded
  <2>4. \A x \in Keys : full'[x] <= Window
    BY <1>1, <1>2, <1>4, <1>7 DEF RateAssumption, RateInv, TypeOK, Bounded, Remember
  <2> QED
    BY <2>1, <2>2, <2>3, <2>4 DEF Bounded
<1>11. InStep'
  <2> SUFFICES ASSUME NEW x \in Keys, x \notin overtaken'
               PROVE  /\ since'[x] <= latest' /\ full'[x] >= 0
                      /\ x \in known' => stamp'[x] = since'[x] /\ level'[x] = full'[x]
                      /\ x \notin known' => full'[x] + latest' - since'[x] >= Window
    BY DEF InStep
  <2>1. x \notin overtaken
    BY <1>4 DEF Remember
  <2>2. /\ since[x] <= latest /\ full[x] >= 0
        /\ x \in known => stamp[x] = since[x] /\ level[x] = full[x]
        /\ x \notin known => full[x] + latest - since[x] >= Window
    BY <2>1 DEF RateInv, InStep
  <2>3. CASE x = k
    <3>1. at >= latest
      BY <1>1, <1>4, <2>3 DEF Remember
    <3>2. full'[k] = Exact(k, at) - (IF Held(k, at) >= Cost THEN Cost ELSE 0) /\ since'[k] = at
      BY <1>1, <1>4, <2>1, <2>3, <3>1 DEF Remember, RateInv, TypeOK
    <3>3. Held(k, at) = Exact(k, at)
      BY <1>1, <2>2, <2>3, <3>1 DEF RateAssumption, RateInv, TypeOK, Held, Kept, Idle, Exact, Capped
    <3>4. Held(k, at) >= 0
      BY <1>1, <2>2, <2>3, <3>1, <3>3 DEF RateAssumption, RateInv, TypeOK, Exact, Capped
    <3>5. latest' = at
      BY <1>1, <1>8, <3>1 DEF RateInv, TypeOK
    <3>6. k \in known' /\ stamp'[k] = at /\ level'[k] = Left(k, at)
      BY <1>1, <1>6
    <3> QED
      BY <1>1, <1>2, <2>3, <3>2, <3>3, <3>4, <3>5, <3>6 DEF RateAssumption, Left
  <2>4. CASE x # k
    <3>1. full'[x] = full[x] /\ since'[x] = since[x]
      BY <1>4, <2>4 DEF Remember, RateInv, TypeOK
    <3>2. latest' >= latest /\ latest' >= at /\ latest' \in Nat
      BY <1>1, <1>8 DEF RateInv, TypeOK
    <3>3. CASE x \in Kept(at)
      BY <1>2, <1>6, <2>2, <2>4, <3>1, <3>2, <3>3 DEF RateInv, TypeOK
    <3>4. CASE x \notin Kept(at)
      <4>1. x \notin known'
        BY <1>6, <2>4, <3>4
      <4>2. CASE x \in known
        <5>1. at - stamp[x] >= Window
          BY <3>4, <4>2 DEF Kept, Idle
        <5> QED
          BY <1>1, <2>2, <3>1, <3>2, <4>1, <4>2, <5>1 DEF RateAssumption, RateInv, TypeOK
      <4>3. CASE x \notin known
        BY <2>2, <3>1, <3>2, <4>1, <4>3 DEF RateAssumption, RateInv, TypeOK
      <4> QED
        BY <4>2, <4>3
    <3> QED
      BY <3>3, <3>4
  <2> QED
    BY <2>3, <2>4
<1>12. Promised'
  <2> SUFFICES ASSUME NEW x \in Keys, promise'[x] # NoPromise
               PROVE  Level(x, promise[x])' >= Cost
    BY DEF Promised
  <2>1. CASE x = k
    <3>1. /\ Held(k, at) < Cost
          /\ \E due \in Nat : /\ due >= clock + Cost - Held(k, at)
                            /\ promise'[k] = IF promise[k] = NoPromise \/ due < promise[k]
                                             THEN due ELSE promise[k]
      BY <1>1, <1>5, <2>1 DEF RateInv, TypeOK
    <3>2. k \in Kept(at) /\ Held(k, at) = level[k] + at - stamp[k]
      BY <1>1, <1>2, <3>1 DEF RateAssumption, RateInv, TypeOK, Held, Capped
    <3>3. k \in known' /\ level'[k] = Held(k, at) /\ stamp'[k] = at
      BY <1>1, <1>2, <1>6, <3>1 DEF RateAssumption, Left
    <3>4. Held(k, at) + promise'[k] - at >= Cost
      <4>1. CASE promise'[k] = promise[k]
        <5>1. promise[k] # NoPromise
          BY <2>1, <4>1
        <5>2. Level(k, promise[k]) >= Cost
          BY <1>1, <5>1 DEF RateInv, Promised
        <5>3. promise[k] \in Nat
          BY <1>1, <5>1 DEF RateInv, TypeOK
        <5> QED
          BY <1>1, <1>2, <3>2, <4>1, <5>2, <5>3 DEF RateAssumption, RateInv, TypeOK, Level, Capped
      <4>2. CASE promise'[k] # promise[k]
        <5>1. promise'[k] \in Nat /\ promise'[k] >= clock + Cost - Held(k, at)
          BY <3>1, <4>2
        <5> QED
          BY <1>1, <1>2, <5>1 DEF RateAssumption, RateInv, TypeOK
      <4> QED
        BY <4>1, <4>2
    <3>5. promise'[k] \in Nat
      BY <1>1, <1>9, <2>1 DEF TypeOK
    <3> QED
      BY <1>1, <1>2, <2>1, <3>3, <3>4, <3>5 DEF RateAssumption, Level, Capped
  <2>2. CASE x # k
    <3>1. promise'[x] = promise[x]
      BY <1>5, <2>2 DEF RateInv, TypeOK
    <3>2. Level(x, promise[x]) >= Cost
      BY <2>2, <3>1 DEF RateInv, Promised
    <3>3. CASE x \in Kept(at)
      BY <1>2, <1>6, <2>2, <3>1, <3>2, <3>3 DEF Level, Capped
    <3>4. CASE x \notin Kept(at)
      BY <1>6, <2>2, <3>4 DEF RateAssumption, Level
    <3> QED
      BY <3>3, <3>4
  <2> QED
    BY <2>1, <2>2
<1> QED
  BY <1>9, <1>10, <1>11, <1>12 DEF RateInv

LEMMA StutterInv == ASSUME RateInv, UNCHANGED vars PROVE RateInv'
<1>1. TypeOK'
  BY DEF RateInv, TypeOK, vars, buckets, ghosts
<1>2. Bounded' /\ InStep'
  BY DEF RateInv, Bounded, InStep, vars, buckets, ghosts
<1>3. Promised'
  BY DEF RateInv, Promised, Level, Capped, vars, buckets, ghosts
<1> QED
  BY <1>1, <1>2, <1>3 DEF RateInv

(* The invariant the two theorems below are read from.                        *)
THEOREM RateInvHolds == ASSUME RateAssumption PROVE Spec => []RateInv
<1>1. Init => RateInv
  BY InitInv
<1>2. RateInv /\ [Next]_vars => RateInv'
  <2> SUFFICES ASSUME RateInv, [Next]_vars PROVE RateInv'
    OBVIOUS
  <2>1. CASE Tick
    BY <2>1, TickInv
  <2>2. CASE \E t \in Threads, k \in Keys : Arrive(t, k)
    BY <2>2, ArriveInv
  <2>3. CASE \E t \in Threads : Enforce(t)
    BY <2>3, EnforceInv
  <2>4. CASE UNCHANGED vars
    BY <2>4, StutterInv
  <2> QED
    BY <2>1, <2>2, <2>3, <2>4 DEF Next
<1> QED
  BY <1>1, <1>2, PTL DEF Spec

(* Retry-After is a real answer, for any budget, window and clock: a caller   *)
(* that comes back when it was told to has its token.                         *)
THEOREM RetryIsServedHolds == ASSUME RateAssumption PROVE Spec => []RetryIsServed
<1>1. RateInv => RetryIsServed
  <2> SUFFICES ASSUME RateInv, NEW k \in Keys, promise[k] # NoPromise
               PROVE  Held(k, promise[k]) >= Cost
    BY DEF RetryIsServed
  <2>1. Level(k, promise[k]) >= Cost
    BY DEF RateInv, Promised
  <2> QED
    BY <2>1 DEF RateAssumption, Level, Held, Kept
<1> QED
  BY <1>1, RateInvHolds, PTL

(* A caller that was not overtaken is charged as if no bucket were ever       *)
(* forgotten, however many buckets there are and whenever the sweep runs.     *)
THEOREM SweepIsInvisibleHolds == ASSUME RateAssumption PROVE Spec => []SweepIsInvisible
<1>1. RateInv => SweepIsInvisible
  <2> SUFFICES ASSUME RateInv, NEW k \in Keys \ overtaken, NEW at \in latest .. MaxClock
               PROVE  Held(k, at) = Exact(k, at)
    BY DEF SweepIsInvisible
  <2>1. at \in Nat /\ at >= latest
    BY DEF RateInv, TypeOK, RateAssumption
  <2> QED
    BY <2>1 DEF RateAssumption, RateInv, TypeOK, InStep, Held, Kept, Idle, Exact, Capped
<1> QED
  BY <1>1, RateInvHolds, PTL
===============================================================================
