----------------------------- MODULE RateLimiter -----------------------------
(***************************************************************************)
(* RateLimiter (be/pricesync/ratelimiter.go): a token bucket that starts   *)
(* full and is refilled lazily, by the time since it was last asked.  One  *)
(* token is Interval ticks of refill, so the bucket is counted in ticks.   *)
(* The code's float64 arithmetic is taken to be exact.                     *)
(***************************************************************************)
EXTENDS Integers

CONSTANTS
    Capacity,  \* tokens of a full bucket
    Interval,  \* refillInterval, in ticks of the clock
    MaxTime    \* bounds the clock

ASSUME RateLimiterAssumption ==
    /\ Capacity \in Nat \ {0}
    /\ Interval \in Nat \ {0}
    /\ MaxTime \in Nat

VARIABLES
    now,        \* time.Now()
    tokens,     \* content of the bucket when it was last asked
    lastCheck,  \* that moment
    granted,    \* history: tokens handed out by this process
    before      \* history: how many of them before each tick

limiter == <<now, tokens, lastCheck, granted, before>>

-----------------------------------------------------------------------------

Full == Capacity * Interval

\* The lazy refill, up to the capacity.
Overfilled == tokens + (now - lastCheck)
Refilled == IF Overfilled < Full THEN Overfilled ELSE Full

LimiterInit ==
    /\ now = 0
    /\ tokens = Full
    /\ lastCheck = 0
    /\ granted = 0
    /\ before = [t \in 0..0 |-> 0]

\* TryAcquire returns true.
TokenTaken ==
    /\ Refilled >= Interval
    /\ tokens' = Refilled - Interval
    /\ lastCheck' = now
    /\ granted' = granted + 1
    /\ UNCHANGED <<now, before>>

\* TryAcquire returns false.
TokenRefused ==
    /\ Refilled < Interval
    /\ tokens' = Refilled
    /\ lastCheck' = now
    /\ UNCHANGED <<now, granted, before>>

\* A new process starts with a full bucket.
LimiterRestart ==
    /\ tokens' = Full
    /\ lastCheck' = now
    /\ granted' = 0
    /\ before' = [t \in 0..now |-> 0]
    /\ UNCHANGED now

LimiterTick ==
    /\ now < MaxTime
    /\ now' = now + 1
    /\ before' = [t \in 0..now' |-> IF t = now' THEN granted ELSE before[t]]
    /\ UNCHANGED <<tokens, lastCheck, granted>>

LimiterNext == TokenTaken \/ TokenRefused \/ LimiterRestart \/ LimiterTick

LimiterSpec == LimiterInit /\ [][LimiterNext]_limiter

-----------------------------------------------------------------------------

\* The clock, the bucket and the history hold values of their types.
LimiterTypeOK ==
    /\ now \in Nat
    /\ tokens \in 0..Full
    /\ lastCheck \in 0..now
    /\ granted \in Nat
    /\ before \in [0..now -> Nat]

\* What a token bucket promises: within any stretch of the process's life, from
\* the tick t until now, it hands out no more than a bucketful and what the clock
\* refilled meanwhile, however the calls are spread and however long it was idle.
BucketBound ==
    \A t \in 0..now : Interval * (granted - before[t]) <= Full + (now - t)

=============================================================================
