------------------------------- MODULE RateLimit -------------------------------
(* The token bucket of each caller (target/shortener/ratelimit), and the      *)
(* Retry-After main makes of a refusal.  A bucket is measured in time: it     *)
(* fills by one for each tick of the clock, a whole window fills it, and a    *)
(* token is what one window divided by the budget of requests brings.         *)
(*                                                                            *)
(* A request reads the clock before it takes the lock, so one that was        *)
(* overtaken on the way charges its bucket with an older reading.             *)
(*                                                                            *)
(*   clock      time.monotonic()                                              *)
(*   known      the keys of _buckets                                          *)
(*   level, stamp   what each bucket held, and the reading it held it at      *)
(*   caller[t]  the key of the request on thread t, or none                   *)
(*   now[t]     the reading it took                                           *)
(* and history:                                                               *)
(*   latest     the latest reading anybody held the lock with                 *)
(*   overtaken  the keys charged with an older one                            *)
(*   promise[k] the time a refused k was told to come back at, while nothing  *)
(*              was granted to it since                                       *)
(*   full[k], since[k]   a bucket of k that is never swept                    *)
EXTENDS Integers, FiniteSets

CONSTANTS Keys, Threads, NoKey,
          Window,      \* rate_limit_window_seconds
          Cost,        \* Window / rate_limit_requests
          Second,      \* ticks of a second
          SweepAbove,  \* _SWEEP_ABOVE
          MaxClock     \* a bound on the clock

ASSUME RateAssumption ==
    /\ NoKey \notin Keys
    /\ Window \in Nat /\ Cost \in Nat /\ 0 < Cost /\ Cost <= Window
    /\ Second \in Nat \ {0} /\ SweepAbove \in Nat /\ MaxClock \in Nat

VARIABLES clock, known, level, stamp, caller, now,
          latest, overtaken, promise, full, since

buckets == <<known, level, stamp>>
ghosts  == <<latest, overtaken, promise, full, since>>
vars    == <<clock, buckets, caller, now, ghosts>>

NoPromise == -1

Capped(amount) == IF amount < Window THEN amount ELSE Window

Larger(a, b) == IF a < b THEN b ELSE a

-------------------------------------------------------------------------------
IdleSinceCharge(at) == {k \in known : at > stamp[k]}  \* mutant: idle since the last request

(* _forget_refilled_buckets.                                                  *)
Idle(at) == {k \in known : at - stamp[k] >= Window}

(* What the sweep leaves: it runs only above a size.                          *)
Kept(at) == IF Cardinality(known) > SweepAbove THEN known \ Idle(at) ELSE known

(* What the bucket of k holds at a reading, once the sweep has been.          *)
Held(k, at) == IF k \in Kept(at) THEN Capped(level[k] + at - stamp[k]) ELSE Window

Floored(missing) == Larger(1, missing \div Second)  \* mutant: rounded down

(* Whole seconds, rounded up and never zero.                                  *)
RetryAfter(missing) == Larger(1, (missing + Second - 1) \div Second)

(* The bucket as it would be, were no bucket ever forgotten.                  *)
Exact(k, at) == Capped(full[k] + at - since[k])

-------------------------------------------------------------------------------
Tick == clock < MaxClock /\ clock' = clock + 1 /\ UNCHANGED <<buckets, caller, now, ghosts>>

(* enforce_rate_limit up to the lock.                                         *)
Arrive(t, k) ==
    /\ caller[t] = NoKey
    /\ caller' = [caller EXCEPT ![t] = k] /\ now' = [now EXCEPT ![t] = clock]
    /\ UNCHANGED <<clock, buckets, ghosts>>

(* A column of _buckets once the bucket of k is written.                      *)
Rewritten(column, k, kept, value) ==
    [x \in Keys |-> IF x = k THEN value ELSE IF x \in kept THEN column[x] ELSE 0]

ChargeAtFirst(k, left, at) ==  \* mutant: the reading of a known bucket is kept
    /\ known' = Kept(at) \cup {k}
    /\ level' = Rewritten(level, k, Kept(at), left)
    /\ stamp' = Rewritten(stamp, k, Kept(at), IF k \in Kept(at) THEN stamp[k] ELSE at)

(* The bucket is written with what is left of it; what the sweep dropped is   *)
(* gone.                                                                      *)
Charge(k, left, at) ==
    /\ known' = Kept(at) \cup {k}
    /\ level' = Rewritten(level, k, Kept(at), left)
    /\ stamp' = Rewritten(stamp, k, Kept(at), at)

Grant(k, at) ==
    /\ Charge(k, Held(k, at) - Cost, at)
    /\ promise' = [promise EXCEPT ![k] = NoPromise]

Refuse(k, at) ==
    /\ Charge(k, Held(k, at), at)
    /\ LET due == clock + Second * RetryAfter(Cost - Held(k, at))
       IN  promise' = [promise EXCEPT ![k] = IF @ = NoPromise \/ due < @ THEN due ELSE @]

(* The history: the bucket that is never swept is not kept for the overtaken. *)
Remember(k, at) ==
    LET ahead == k \notin overtaken /\ at >= latest
        left  == Exact(k, at) - (IF Held(k, at) >= Cost THEN Cost ELSE 0)
    IN  /\ latest' = Larger(latest, at)
        /\ overtaken' = IF ahead THEN overtaken ELSE overtaken \cup {k}
        /\ full' = [full EXCEPT ![k] = IF ahead THEN left ELSE 0]
        /\ since' = [since EXCEPT ![k] = IF ahead THEN at ELSE 0]

(* What happens under the lock.                                               *)
Enforce(t) ==
    LET k  == caller[t]
        at == now[t]
    IN  /\ k # NoKey
        /\ IF Held(k, at) >= Cost THEN Grant(k, at) ELSE Refuse(k, at)
        /\ Remember(k, at)
        /\ caller' = [caller EXCEPT ![t] = NoKey] /\ now' = [now EXCEPT ![t] = 0]
        /\ UNCHANGED clock

Init ==
    /\ clock = 0 /\ known = {}
    /\ level = [k \in Keys |-> 0] /\ stamp = [k \in Keys |-> 0]
    /\ caller = [t \in Threads |-> NoKey] /\ now = [t \in Threads |-> 0]
    /\ latest = 0 /\ overtaken = {} /\ promise = [k \in Keys |-> NoPromise]
    /\ full = [k \in Keys |-> Window] /\ since = [k \in Keys |-> 0]

Next ==
    \/ Tick
    \/ \E t \in Threads : (\E k \in Keys : Arrive(t, k)) \/ Enforce(t)

Spec == Init /\ [][Next]_vars

-------------------------------------------------------------------------------
(* Properties.                                                                *)

(* Retry-After is a real answer (AC5.4): a refused caller that comes back     *)
(* when it was told to is served, whoever was refused, overtaken or forgotten *)
(* in between, unless something was granted to it already.                    *)
RetryIsServed ==
    \A k \in Keys : promise[k] # NoPromise => Held(k, promise[k]) >= Cost

(* The sweep is invisible: a caller that was not overtaken is charged as if   *)
(* no bucket were ever forgotten, at any reading still to come.               *)
SweepIsInvisible ==
    \A k \in Keys \ overtaken : \A at \in latest .. MaxClock : Held(k, at) = Exact(k, at)

-------------------------------------------------------------------------------
(* A claim of the repository's text that the code does not keep.              *)

(* "A caller silent for a whole window is back at capacity": the buckets the  *)
(* sweep may forget are full, overtaken or not.                               *)
ForgottenIsFull ==
    \A k \in known : \A at \in latest .. MaxClock :
        k \in Idle(at) => level[k] + at - stamp[k] >= Window
===============================================================================
