----------------------------- MODULE RateLimiter -----------------------------
(***************************************************************************)
(* The token bucket of the Solana program (state/peer_config.rs), as       *)
(* functions of the bucket and of the time at which it is used.  Sums and  *)
(* products are those of u64: they saturate.                               *)
(***************************************************************************)
EXTENDS Integers

CONSTANT MaxU64

ASSUME RateLimiterAssumption == MaxU64 \in Nat

U64 == 0..MaxU64

Limiter == [capacity : U64, tokens : U64, refillPerSecond : U64,
            lastRefillTime : Nat]

\* RateLimiter::default, the bucket of a peer that had none.
EmptyLimiter == [capacity |-> 0, tokens |-> 0, refillPerSecond |-> 0,
                 lastRefillTime |-> 0]

AtMost(n, limit) == IF n <= limit THEN n ELSE limit

\* What a refill adds before the capacity cuts it off.
Accrued(limiter, extra, now) ==
    IF now > limiter.lastRefillTime
    THEN AtMost(extra + AtMost((now - limiter.lastRefillTime)
                                  * limiter.refillPerSecond, MaxU64), MaxU64)
    ELSE extra

Refill(limiter, extra, now) ==
    [limiter EXCEPT
        !.tokens = AtMost(AtMost(@ + Accrued(limiter, extra, now), MaxU64),
                          limiter.capacity),
        !.lastRefillTime = now]

\* Mutant: the bucket is not looked at before it is taken from.
AffordsAnything(limiter, amount, now) == TRUE

\* Mutant: what was earned since the last use is not added first.
AffordsUnsettled(limiter, amount, now) == limiter.tokens >= amount

\* try_consume fails when Affords does not hold.
Affords(limiter, amount, now) == Refill(limiter, 0, now).tokens >= amount

Consume(limiter, amount, now) ==
    [Refill(limiter, 0, now) EXCEPT !.tokens = @ - amount]

\* Mutant: what was not settled yet is earned at the new rate.
SetRateUnsettled(limiter, rate, now) ==
    [limiter EXCEPT !.refillPerSecond = rate]

\* What was earned at the old rate is settled first.
SetRate(limiter, rate, now) ==
    [Refill(limiter, 0, now) EXCEPT !.refillPerSecond = rate]

\* A new capacity comes with a full bucket.
SetCapacity(limiter, capacity, now) ==
    [limiter EXCEPT !.capacity = capacity, !.tokens = capacity,
                    !.lastRefillTime = now]
=============================================================================
