---------------------------- MODULE SolanaOFTProofs ----------------------------
(***************************************************************************)
(* For every rate between local and shared units, every fee, transfer fee, *)
(* limit and amount: the Solana program's accounts stay well formed, a     *)
(* bucket never lets more pass than its limit, nothing is lost between the *)
(* chains, and the escrow holds what the peer chain can send back.         *)
(***************************************************************************)
EXTENDS SolanaOFT, Arithmetic

-----------------------------------------------------------------------------
(* The token bucket, for every width, capacity, rate and time.             *)

\* A bucket as the program keeps it: never above its capacity.
Bucket == {l \in Limiter : l.tokens <= l.capacity}

\* The tokens there are at this time, those not settled yet among them.
Settled(limiter, now) == Refill(limiter, 0, now).tokens

\* What time and a gift add is a number, and no more than they are.
LEMMA AccruedBound ==
    ASSUME NEW l \in Limiter, NEW extra \in Nat, NEW now \in Nat
    PROVE  /\ Accrued(l, extra, now) \in Nat
           /\ Accrued(l, extra, now) <= Accrued(l, 0, now) + extra
  <1> USE RateLimiterAssumption DEF Accrued, AtMost, Limiter, U64
  <1>1. CASE now > l.lastRefillTime
    <2>1. (now - l.lastRefillTime) * l.refillPerSecond \in Nat
      BY <1>1
    <2> QED
      BY <1>1, <2>1
  <1>2. CASE ~(now > l.lastRefillTime)
    BY <1>2
  <1> QED
    BY <1>1, <1>2


\* The fields of a bucket after a refill.
LEMMA RefillFields ==
    ASSUME NEW l \in Limiter, NEW extra \in Nat, NEW now \in Nat
    PROVE  Refill(l, extra, now) =
             [capacity |-> l.capacity,
              tokens |-> AtMost(AtMost(l.tokens + Accrued(l, extra, now),
                                       MaxU64), l.capacity),
              refillPerSecond |-> l.refillPerSecond,
              lastRefillTime |-> now]
  <1> DEFINE settled == AtMost(AtMost(l.tokens + Accrued(l, extra, now),
                                      MaxU64), l.capacity)
  <1>1. Refill(l, extra, now) =
           [l EXCEPT !.tokens = settled, !.lastRefillTime = now]
    BY DEF Refill
  <1> DEFINE early == [l EXCEPT !.tokens = settled]
  <1> HIDE DEF settled
  <1>2. [l EXCEPT !.tokens = settled, !.lastRefillTime = now] =
           [early EXCEPT !.lastRefillTime = now]
    BY Zenon
  <1>3. early = [capacity |-> l.capacity, tokens |-> settled,
                 refillPerSecond |-> l.refillPerSecond,
                 lastRefillTime |-> l.lastRefillTime]
    BY DEF Limiter
  <1> HIDE DEF early
  <1>4. [early EXCEPT !.lastRefillTime = now] =
           [capacity |-> l.capacity, tokens |-> settled,
            refillPerSecond |-> l.refillPerSecond, lastRefillTime |-> now]
    BY <1>3
  <1> QED
    BY <1>1, <1>2, <1>4, Zenon DEF settled

\* A refill keeps a bucket, and adds no more than the gift to what time gave.
LEMMA RefillBound ==
    ASSUME NEW l \in Bucket, NEW extra \in Nat, NEW now \in Nat
    PROVE  /\ Refill(l, extra, now) \in Bucket
           /\ Refill(l, extra, now).capacity = l.capacity
           /\ Refill(l, extra, now).refillPerSecond = l.refillPerSecond
           /\ Refill(l, extra, now).lastRefillTime = now
           /\ Refill(l, extra, now).tokens <= Settled(l, now) + extra
           /\ Settled(l, now) \in Nat
  <1> DEFINE added == Accrued(l, extra, now)
             byTime == Accrued(l, 0, now)
             after(x) == AtMost(AtMost(l.tokens + x, MaxU64), l.capacity)
  <1>0. l \in Limiter /\ l.tokens <= l.capacity /\ l.capacity <= MaxU64
        /\ l.tokens \in Nat /\ l.capacity \in Nat /\ MaxU64 \in Nat
    BY RateLimiterAssumption DEF Bucket, Limiter, U64
  <1>1. added \in Nat /\ byTime \in Nat /\ added <= byTime + extra
    BY <1>0, AccruedBound
  <1>2. /\ Refill(l, extra, now) =
              [capacity |-> l.capacity, tokens |-> after(added),
               refillPerSecond |-> l.refillPerSecond, lastRefillTime |-> now]
        /\ Settled(l, now) = after(byTime)
    BY <1>0, RefillFields DEF Settled
  <1> HIDE DEF added, byTime
  <1>3. /\ after(added) \in Nat /\ after(added) <= l.capacity
        /\ after(byTime) \in Nat
        /\ after(added) <= after(byTime) + extra
    BY <1>0, <1>1 DEF AtMost
  <1> HIDE DEF after
  <1> QED
    BY <1>0, <1>2, <1>3 DEF Bucket, Limiter, U64

\* Nothing is earned twice in the same second.
LEMMA SettledOnce ==
    ASSUME NEW l \in Bucket, NEW now \in Nat, l.lastRefillTime = now
    PROVE  Settled(l, now) = l.tokens
  <1>1. Settled(l, now) =
           AtMost(AtMost(l.tokens + Accrued(l, 0, now), MaxU64), l.capacity)
    BY RefillFields DEF Settled, Bucket
  <1>2. Accrued(l, 0, now) = 0
    BY DEF Accrued
  <1> QED
    BY <1>1, <1>2, RateLimiterAssumption DEF AtMost, Bucket, Limiter, U64

\* So a gift is all that it hands out more now.
LEMMA RefillSettled ==
    ASSUME NEW l \in Bucket, NEW extra \in Nat, NEW now \in Nat
    PROVE  /\ Settled(Refill(l, extra, now), now) <= Settled(l, now) + extra
           /\ Settled(Refill(l, extra, now), now) \in Nat
  <1> DEFINE after == Refill(l, extra, now)
  <1>1. /\ after \in Bucket /\ after.lastRefillTime = now
        /\ after.tokens <= Settled(l, now) + extra
    BY RefillBound
  <1> HIDE DEF after
  <1>2. Settled(after, now) = after.tokens
    BY <1>1, SettledOnce
  <1>3. after.tokens \in Nat
    BY <1>1, RateLimiterAssumption DEF Bucket, Limiter, U64
  <1> QED
    BY <1>1, <1>2, <1>3 DEF after

\* Until the next second a bucket earns at most what it earns in a second.
LEMMA SettledTick ==
    ASSUME NEW l \in Bucket, NEW now \in Nat
    PROVE  Settled(l, now + 1) <= Settled(l, now) + l.refillPerSecond
  <1> DEFINE rate == l.refillPerSecond
             last == l.lastRefillTime
             before == Accrued(l, 0, now)
             after == Accrued(l, 0, now + 1)
  <1>0. /\ l \in Limiter /\ rate \in Nat /\ last \in Nat /\ MaxU64 \in Nat
        /\ l.tokens \in Nat /\ l.capacity \in Nat
    BY RateLimiterAssumption DEF Bucket, Limiter, U64
  <1>1. after <= before + rate
    <2>1. CASE now >= last
      <3>1. (now + 1 - last) * rate = (now - last) * rate + rate
        BY <1>0, <2>1
      <3>2. (now - last) * rate \in Nat
        BY <1>0, <2>1
      <3>3. now = last => (now - last) * rate = 0
        BY <1>0
      <3>4. after = AtMost(AtMost((now + 1 - last) * rate, MaxU64), MaxU64)
        BY <1>0, <2>1, <3>2, <3>1 DEF Accrued, AtMost
      <3>5. before = AtMost(AtMost((now - last) * rate, MaxU64), MaxU64)
        BY <1>0, <2>1, <3>2, <3>3 DEF Accrued, AtMost
      <3> HIDE DEF rate, last, before, after
      <3> QED
        BY <1>0, <3>1, <3>2, <3>4, <3>5 DEF AtMost
    <2>2. CASE ~(now >= last)
      BY <1>0, <2>2 DEF Accrued
    <2> QED
      BY <2>1, <2>2
  <1>2. before \in Nat /\ after \in Nat
    <2>1. now + 1 \in Nat /\ 0 \in Nat
      OBVIOUS
    <2> QED
      BY <1>0, <2>1, AccruedBound
  <1>3. /\ Settled(l, now) =
             AtMost(AtMost(l.tokens + before, MaxU64), l.capacity)
        /\ Settled(l, now + 1) =
             AtMost(AtMost(l.tokens + after, MaxU64), l.capacity)
    BY <1>0, RefillFields DEF Settled
  <1> HIDE DEF before, after, rate, last
  <1>4. Settled(l, now + 1) <= Settled(l, now) + rate
    BY <1>0, <1>1, <1>2, <1>3 DEF AtMost
  <1> QED
    BY <1>4 DEF rate

\* What is taken is missing from then on.
LEMMA ConsumeSettled ==
    ASSUME NEW l \in Bucket, NEW amount \in Nat, NEW now \in Nat,
           Affords(l, amount, now)
    PROVE  /\ Consume(l, amount, now) \in Bucket
           /\ Consume(l, amount, now).capacity = l.capacity
           /\ Consume(l, amount, now).refillPerSecond = l.refillPerSecond
           /\ Consume(l, amount, now).lastRefillTime = now
           /\ Settled(Consume(l, amount, now), now) = Settled(l, now) - amount
  <1> DEFINE refilled == Refill(l, 0, now)
             taken == [refilled EXCEPT !.tokens = @ - amount]
  <1>1. /\ refilled \in Bucket
        /\ refilled.capacity = l.capacity
        /\ refilled.refillPerSecond = l.refillPerSecond
    BY RefillBound
  <1>2. refilled.lastRefillTime = now
    BY RefillBound
  <1>3. amount <= refilled.tokens
    BY <1>1 DEF Affords, Bucket, Limiter, U64
  <1>4. Settled(l, now) = refilled.tokens /\ Consume(l, amount, now) = taken
    BY DEF Settled, Consume
  <1> HIDE DEF refilled
  <1>5. /\ taken \in Bucket
        /\ taken.capacity = refilled.capacity
        /\ taken.refillPerSecond = refilled.refillPerSecond
        /\ taken.lastRefillTime = now
        /\ taken.tokens = refilled.tokens - amount
    BY <1>1, <1>2, <1>3, RateLimiterAssumption DEF Bucket, Limiter, U64
  <1>6. Settled(taken, now) = taken.tokens
    BY <1>5, SettledOnce
  <1> QED
    BY <1>1, <1>4, <1>5, <1>6

\* A new rate leaves what is there by now.
LEMMA SetRateSettled ==
    ASSUME NEW l \in Bucket, NEW rate \in U64, NEW now \in Nat
    PROVE  /\ SetRate(l, rate, now) \in Bucket
           /\ SetRate(l, rate, now).capacity = l.capacity
           /\ SetRate(l, rate, now).refillPerSecond = rate
           /\ SetRate(l, rate, now).lastRefillTime = now
           /\ Settled(SetRate(l, rate, now), now) = Settled(l, now)
  <1> DEFINE refilled == Refill(l, 0, now)
             changed == [refilled EXCEPT !.refillPerSecond = rate]
  <1>1. refilled \in Bucket /\ refilled.capacity = l.capacity
    BY RefillBound
  <1>2. refilled.lastRefillTime = now
    BY RefillBound
  <1>3. Settled(l, now) = refilled.tokens /\ SetRate(l, rate, now) = changed
    BY DEF Settled, SetRate
  <1> HIDE DEF refilled
  <1>4. /\ changed \in Bucket
        /\ changed.capacity = refilled.capacity
        /\ changed.refillPerSecond = rate
        /\ changed.lastRefillTime = now
        /\ changed.tokens = refilled.tokens
    BY <1>1, <1>2 DEF Bucket, Limiter
  <1>5. Settled(changed, now) = changed.tokens
    BY <1>4, SettledOnce
  <1> QED
    BY <1>1, <1>3, <1>4, <1>5

\* A new capacity comes with a full bucket.
LEMMA SetCapacityFills ==
    ASSUME NEW l \in Bucket, NEW capacity \in U64, NEW now \in Nat
    PROVE  /\ SetCapacity(l, capacity, now) \in Bucket
           /\ SetCapacity(l, capacity, now).lastRefillTime = now
  <1>1. SetCapacity(l, capacity, now) =
           [capacity |-> capacity, tokens |-> capacity,
            refillPerSecond |-> l.refillPerSecond, lastRefillTime |-> now]
    <2> DEFINE larger == [l EXCEPT !.capacity = capacity]
               full == [larger EXCEPT !.tokens = capacity]
    <2>1. SetCapacity(l, capacity, now) = [full EXCEPT !.lastRefillTime = now]
      BY Zenon DEF SetCapacity
    <2>2. larger = [capacity |-> capacity, tokens |-> l.tokens,
                    refillPerSecond |-> l.refillPerSecond,
                    lastRefillTime |-> l.lastRefillTime]
      BY DEF Bucket, Limiter
    <2> HIDE DEF larger
    <2>3. full = [capacity |-> capacity, tokens |-> capacity,
                  refillPerSecond |-> l.refillPerSecond,
                  lastRefillTime |-> l.lastRefillTime]
      BY <2>2
    <2> HIDE DEF full
    <2> QED
      BY <2>1, <2>3
  <1> QED
    BY <1>1, RateLimiterAssumption DEF Bucket, Limiter, U64

\* The bucket of a peer that had none.
LEMMA EmptyIsBucket == EmptyLimiter \in Bucket
  BY RateLimiterAssumption DEF EmptyLimiter, Bucket, Limiter, U64

\* No bucket hands out more than it holds.
LEMMA SettledInCapacity ==
    ASSUME NEW l \in Bucket, NEW now \in Nat
    PROVE  Settled(l, now) \in Nat /\ Settled(l, now) <= l.capacity
  <1>1. /\ Refill(l, 0, now) \in Bucket
        /\ Refill(l, 0, now).capacity = l.capacity
    BY RefillBound
  <1> QED
    BY <1>1 DEF Settled, Bucket, Limiter, U64

\* A bucket that has had the time to earn an amount affords it, unless it does
\* not hold that much.
LEMMA AffordsAfterWait ==
    ASSUME NEW l \in Bucket, NEW amount \in Nat, NEW now \in Nat,
           NEW wait \in Nat, l.lastRefillTime <= now,
           amount <= wait * l.refillPerSecond
    PROVE  Affords(l, amount, now + wait) <=> amount <= l.capacity
  <1> DEFINE rate == l.refillPerSecond
             elapsed == (now + wait) - l.lastRefillTime
             earned == Accrued(l, 0, now + wait)
  <1>0. /\ rate \in Nat /\ l.lastRefillTime \in Nat /\ l.tokens \in Nat
        /\ l.capacity \in Nat /\ l.capacity <= MaxU64 /\ MaxU64 \in Nat
        /\ l \in Limiter
    BY RateLimiterAssumption DEF Bucket, Limiter, U64
  <1>1. elapsed \in Nat /\ wait <= elapsed
    BY <1>0
  <1>2. amount <= elapsed * rate
    <2>1. wait * rate <= elapsed * rate
      BY <1>0, <1>1, ProductMonotone
    <2>2. wait * rate \in Nat /\ elapsed * rate \in Nat
      BY <1>0, <1>1
    <2> HIDE DEF elapsed
    <2> QED
      BY <2>1, <2>2
  <1>3. earned \in Nat
    <2>1. now + wait \in Nat /\ 0 \in Nat
      OBVIOUS
    <2> QED
      BY <1>0, <2>1, AccruedBound
  <1>4. amount <= l.capacity => amount <= earned
    <2>1. CASE elapsed = 0
      <3>1. elapsed * rate = 0
        BY <1>0, <2>1
      <3> HIDE DEF elapsed, earned
      <3> QED
        BY <1>2, <1>3, <3>1
    <2>2. CASE elapsed # 0
      <3>1. now + wait > l.lastRefillTime
        BY <1>0, <1>1, <2>2
      <3>2. elapsed * rate \in Nat
        BY <1>0, <1>1
      <3>3. earned =
              AtMost(0 + AtMost(elapsed * rate, MaxU64), MaxU64)
        BY <3>1 DEF Accrued
      <3> HIDE DEF elapsed, earned
      <3> QED
        BY <1>0, <1>2, <3>2, <3>3 DEF AtMost
    <2> QED
      BY <2>1, <2>2
  <1>5. Refill(l, 0, now + wait).tokens =
          AtMost(AtMost(l.tokens + earned, MaxU64), l.capacity)
    BY <1>0, RefillFields
  <1> HIDE DEF earned, rate, elapsed
  <1> QED
    BY <1>0, <1>3, <1>4, <1>5 DEF Affords, AtMost

-----------------------------------------------------------------------------
(* Fees.                                                                   *)

\* A quotient rounded up is the least number that times the divisor reaches
\* the dividend.
LEMMA CeilDivLeast ==
    ASSUME NEW x \in Nat, NEW y \in Nat \ {0}
    PROVE  /\ CeilDiv(x, y) \in Nat
           /\ x <= y * CeilDiv(x, y)
           /\ \A k \in Nat : x <= y * k => CeilDiv(x, y) <= k
  BY QuotientUp DEF CeilDiv

\* The transfer fee is part of what is transferred.
LEMMA FeeOnTransferBound ==
    ASSUME TypeOK, NEW amount \in Nat
    PROVE  /\ FeeOnTransfer(amount) \in Nat
           /\ FeeOnTransfer(amount) <= amount
           /\ PostFeeAmount(amount) \in Nat
  <1> DEFINE bps == transferFee.bps
             most == transferFee.maximum
  <1>1. bps \in Nat /\ bps <= OneInBps /\ most \in Nat
        /\ OneInBps \in Nat \ {0}
    BY SolanaOFTAssumption, RateLimiterAssumption DEF TypeOK, U64
  <1>2. amount * bps \in Nat /\ amount * bps <= OneInBps * amount
    <2>1. bps * amount <= OneInBps * amount
      BY <1>1, ProductMonotone
    <2> HIDE DEF bps
    <2> QED
      BY <1>1, <2>1
  <1>3. /\ CeilDiv(amount * bps, OneInBps) \in Nat
        /\ CeilDiv(amount * bps, OneInBps) <= amount
    BY <1>1, <1>2, CeilDivLeast
  <1> QED
    BY <1>1, <1>3 DEF FeeOnTransfer, PostFeeAmount, AtMost

\* What is sent for an amount to arrive is enough for it to arrive.
LEMMA PreFeeAmountSuffices ==
    ASSUME TypeOK, NEW x \in Nat
    PROVE  /\ PreFeeAmount(x) \in Nat
           /\ PostFeeAmount(PreFeeAmount(x)) >= x
  <1> DEFINE bps == transferFee.bps
             most == transferFee.maximum
             gross == CeilDiv(x * OneInBps, OneInBps - bps)
  <1>1. bps \in Nat /\ bps <= OneInBps /\ most \in Nat
        /\ OneInBps \in Nat \ {0}
    BY SolanaOFTAssumption, RateLimiterAssumption DEF TypeOK, U64
  <1>2. CASE bps = 0 \/ x = 0
    <2>1. x * bps = 0
      BY <1>1, <1>2
    <2>2. CeilDiv(0, OneInBps) <= 0 /\ CeilDiv(0, OneInBps) \in Nat
      BY <1>1, CeilDivLeast
    <2> QED
      BY <1>1, <1>2, <2>1, <2>2 DEF PreFeeAmount, PostFeeAmount, FeeOnTransfer, AtMost
  <1>3. CASE ~(bps = 0 \/ x = 0) /\ bps = OneInBps
    <2>1. PreFeeAmount(x) = x + most
      BY <1>3 DEF PreFeeAmount
    <2>2. FeeOnTransfer(x + most) <= most /\ FeeOnTransfer(x + most) \in Nat
      <3>1. FeeOnTransfer(x + most) \in Nat
        BY <1>1, FeeOnTransferBound
      <3>2. CeilDiv((x + most) * bps, OneInBps) \in Int
        <4>1. (x + most) * bps \in Nat
          BY <1>1
        <4> QED
          BY <1>1, <4>1, CeilDivLeast
      <3> QED
        BY <1>1, <3>1, <3>2 DEF FeeOnTransfer, AtMost
    <2> QED
      BY <1>1, <2>1, <2>2 DEF PostFeeAmount
  <1>4. CASE ~(bps = 0 \/ x = 0) /\ bps # OneInBps
    <2>0. OneInBps - bps \in Nat \ {0} /\ x * OneInBps \in Nat
      BY <1>1, <1>4
    <2>1. gross \in Nat /\ x * OneInBps <= (OneInBps - bps) * gross
      BY <2>0, CeilDivLeast
    <2>2. (OneInBps - bps) * gross = OneInBps * gross - gross * bps
      BY <1>1, <2>1
    <2>3. gross >= x
      <3>1. gross * bps \in Nat
        BY <1>1, <2>1
      <3>2. x * OneInBps <= gross * OneInBps
        BY <1>1, <2>1, <2>2, <3>1
      <3> QED
        BY <1>1, <2>1, <3>2, ProductCancel
    <2>4. PreFeeAmount(x) = x + AtMost(gross - x, most)
      BY <1>4 DEF PreFeeAmount
    <2> DEFINE y == x + AtMost(gross - x, most)
    <2>5. y \in Nat
      BY <1>1, <2>1, <2>3 DEF AtMost
    <2>6. y * bps \in Nat /\ CeilDiv(y * bps, OneInBps) \in Nat
      BY <1>1, <2>5, CeilDivLeast
    <2>7. FeeOnTransfer(y) = AtMost(CeilDiv(y * bps, OneInBps), most)
      BY DEF FeeOnTransfer
    <2>8. CASE gross - x <= most
      <3>1. y = gross
        BY <2>1, <2>8 DEF AtMost
      <3>2. gross * bps <= OneInBps * (gross - x)
        BY <1>1, <2>1, <2>2
      <3>3. gross * bps \in Nat /\ gross - x \in Nat
        BY <1>1, <2>1, <2>3
      <3>4. CeilDiv(gross * bps, OneInBps) <= gross - x
        BY <1>1, <3>2, <3>3, CeilDivLeast
      <3> HIDE DEF y, gross
      <3> QED
        BY <1>1, <2>1, <2>4, <2>5, <2>6, <2>7, <3>1, <3>4
           DEF PostFeeAmount, AtMost, y
    <2>9. CASE ~(gross - x <= most)
      <3>1. y = x + most
        BY <2>9 DEF AtMost
      <3> HIDE DEF y, gross
      <3> QED
        BY <1>1, <2>1, <2>4, <2>5, <2>6, <2>7, <3>1
           DEF PostFeeAmount, AtMost, y
    <2> QED
      BY <2>8, <2>9
  <1> QED
    BY <1>2, <1>3, <1>4

\* And no smaller amount is: whatever lets this much arrive is as large.
LEMMA PreFeeAmountLeast ==
    ASSUME TypeOK, NEW x \in Nat, NEW amount \in Nat,
           PostFeeAmount(amount) >= x
    PROVE  PreFeeAmount(x) <= amount
  <1> DEFINE bps == transferFee.bps
             most == transferFee.maximum
             gross == CeilDiv(x * OneInBps, OneInBps - bps)
             exact == CeilDiv(amount * bps, OneInBps)
  <1>1. bps \in Nat /\ bps <= OneInBps /\ most \in Nat
        /\ OneInBps \in Nat \ {0}
    BY SolanaOFTAssumption, RateLimiterAssumption DEF TypeOK, U64
  <1>2. /\ FeeOnTransfer(amount) \in Nat
        /\ amount >= x + FeeOnTransfer(amount)
    BY FeeOnTransferBound DEF PostFeeAmount
  <1>3. amount * bps \in Nat /\ exact \in Nat
        /\ amount * bps <= OneInBps * exact
    BY <1>1, CeilDivLeast
  <1>4. FeeOnTransfer(amount) = AtMost(exact, most)
    BY DEF FeeOnTransfer
  <1>5. CASE bps = 0 \/ x = 0
    BY <1>2, <1>5 DEF PreFeeAmount
  <1>6. CASE ~(bps = 0 \/ x = 0) /\ bps = OneInBps
    <2>1. PreFeeAmount(x) = x + most
      BY <1>6 DEF PreFeeAmount
    <2>2. amount <= exact
      <3>1. amount * OneInBps <= exact * OneInBps
        <4> HIDE DEF exact
        <4> QED
          BY <1>1, <1>3, <1>6
      <3> HIDE DEF exact
      <3> QED
        BY <1>1, <1>3, <3>1, ProductCancel
    <2> HIDE DEF exact
    <2> QED
      BY <1>1, <1>2, <1>3, <1>4, <1>6, <2>1, <2>2 DEF AtMost
  <1>7. CASE ~(bps = 0 \/ x = 0) /\ bps # OneInBps
    <2>0. OneInBps - bps \in Nat \ {0} /\ x * OneInBps \in Nat
      BY <1>1, <1>7
    <2>1. gross \in Nat
      BY <2>0, CeilDivLeast
    <2>2. PreFeeAmount(x) = x + AtMost(gross - x, most)
      BY <1>7 DEF PreFeeAmount
    <2>3. CASE exact <= most
      <3>1. x + exact <= amount
        BY <1>2, <1>4, <2>3 DEF AtMost
      <3> HIDE DEF exact
      <3>2. (x + exact) * OneInBps <= amount * OneInBps
        BY <1>1, <1>3, <3>1, ProductMonotone
      <3>3. (x + exact) * OneInBps = x * OneInBps + OneInBps * exact
        BY <1>1, <1>3
      <3>4. (OneInBps - bps) * amount = amount * OneInBps - amount * bps
        BY <1>1
      <3>5. x * OneInBps <= (OneInBps - bps) * amount
        <4> DEFINE a == x * OneInBps
                   b == OneInBps * exact
                   c == amount * OneInBps
                   d == amount * bps
        <4>1. a \in Nat /\ b \in Nat /\ c \in Nat /\ d \in Nat
          BY <1>1, <1>3
        <4>2. a + b <= c /\ d <= b
          BY <1>3, <3>2, <3>3
        <4> HIDE DEF a, b, c, d
        <4>3. a <= c - d
          BY <4>1, <4>2
        <4> QED
          BY <3>4, <4>3 DEF a, c, d
      <3>6. gross <= amount
        BY <2>0, <3>5, CeilDivLeast
      <3> HIDE DEF gross
      <3> QED
        BY <1>1, <2>1, <2>2, <3>6 DEF AtMost
    <2>4. CASE ~(exact <= most)
      <3>1. x + most <= amount
        BY <1>2, <1>4, <2>4 DEF AtMost
      <3> HIDE DEF gross
      <3> QED
        BY <1>1, <2>1, <2>2, <3>1 DEF AtMost
    <2> QED
      BY <2>3, <2>4
  <1> QED
    BY <1>5, <1>6, <1>7

\* Dust is part of an amount.
LEMMA RemoveDustBound ==
    ASSUME NEW amount \in Nat
    PROVE  RemoveDust(amount) \in Nat /\ RemoveDust(amount) <= amount
  BY SolanaOFTAssumption, DivNat, DivMod DEF RemoveDust

\* What has no dust is the same on either side.
LEMMA DustFree ==
    ASSUME NEW amount \in Nat
    PROVE  RemoveDust(amount) = Sd2Ld(Ld2Sd(amount))
  <1> DEFINE rate == Ld2SdRate
  <1>1. rate \in Nat \ {0}
    BY SolanaOFTAssumption
  <1>2. /\ amount \div rate \in Int /\ amount % rate \in Int
        /\ amount = rate * (amount \div rate) + (amount % rate)
    BY <1>1, DivMod
  <1> HIDE DEF rate
  <1>3. amount - (amount % rate) = (amount \div rate) * rate
    BY <1>1, <1>2
  <1> QED
    BY <1>3 DEF RemoveDust, Sd2Ld, Ld2Sd, rate

\* The OFT fee is part of what it is taken of.
LEMMA CalculateFeeBound ==
    ASSUME TypeOK, NEW amount \in Nat
    PROVE  CalculateFee(amount) \in Nat /\ CalculateFee(amount) <= amount
  <1>1. FeeBps \in Nat /\ FeeBps <= OneInBps /\ OneInBps \in Nat \ {0}
    BY SolanaOFTAssumption DEF TypeOK, FeeBps, OFTStore, PeerConfig
  <1> DEFINE bps == FeeBps
  <1> HIDE DEF bps
  <1>2. amount * bps \in Nat /\ amount * bps <= amount * OneInBps
    <2>1. bps * amount <= OneInBps * amount
      BY <1>1, ProductMonotone DEF bps
    <2> QED
      BY <1>1, <2>1 DEF bps
  <1> DEFINE fee == (amount * bps) \div OneInBps
  <1>3. fee \in Nat
    BY <1>1, <1>2, DivNat
  <1>4. OneInBps * fee <= amount * bps
    BY <1>1, <1>2, DivMod
  <1> HIDE DEF fee
  <1>5. fee * OneInBps <= amount * OneInBps
    BY <1>1, <1>2, <1>3, <1>4
  <1>6. fee <= amount
    BY <1>1, <1>3, <1>5, ProductCancel
  <1> QED
    BY <1>3, <1>6 DEF CalculateFee, fee, bps

\* A quote is made of amounts; it debits no more than was asked for, what
\* reaches the escrow pays for what is bridged and for the fee, and what is
\* bridged can be said in shared units.  A Native OFT debits just that.
LEMMA QuoteCovers ==
    ASSUME TypeOK, NEW amount \in Nat
    PROVE  /\ Quote(amount).sent \in Nat
           /\ Quote(amount).sent <= amount
           /\ Quote(amount).received \in Nat
           /\ Quote(amount).fee \in Nat
           /\ Quote(amount).received + Quote(amount).fee <=
                 IF OFTType = "Adapter" THEN PostFeeAmount(Quote(amount).sent)
                                        ELSE Quote(amount).sent
           /\ OFTType # "Adapter" =>
                 Quote(amount).received + Quote(amount).fee = Quote(amount).sent
           /\ Sd2Ld(Ld2Sd(Quote(amount).received)) = Quote(amount).received
  <1> DEFINE adapter == OFTType = "Adapter"
             offered == IF adapter THEN PostFeeAmount(amount) ELSE amount
             arrived == RemoveDust(offered)
             fee == RemoveDust(CalculateFee(arrived))
  <1>1. /\ offered \in Nat /\ offered <= amount
        /\ arrived \in Nat /\ arrived <= offered
    <2>1. offered \in Nat /\ offered <= amount
      BY FeeOnTransferBound DEF PostFeeAmount
    <2> HIDE DEF offered
    <2> QED
      BY <2>1, RemoveDustBound
  <1>2. fee \in Nat /\ fee <= arrived
    <2>1. CalculateFee(arrived) \in Nat /\ CalculateFee(arrived) <= arrived
      BY <1>1, CalculateFeeBound
    <2> HIDE DEF arrived
    <2> QED
      BY <1>1, <2>1, RemoveDustBound
  <1>3. /\ PreFeeAmount(arrived) \in Nat
        /\ PostFeeAmount(PreFeeAmount(arrived)) >= arrived
    BY <1>1, PreFeeAmountSuffices
  <1>4. adapter => PreFeeAmount(arrived) <= amount
    BY <1>1, PreFeeAmountLeast
  <1>5. RemoveDust(arrived - fee) = arrived - fee
    <2> DEFINE whole == Ld2Sd(offered)
               part == Ld2Sd(CalculateFee(arrived))
    <2>1. CalculateFee(arrived) \in Nat
      BY <1>1, CalculateFeeBound
    <2>2. arrived = whole * Ld2SdRate /\ fee = part * Ld2SdRate
      <3>1. arrived = Sd2Ld(Ld2Sd(offered))
        BY <1>1, DustFree
      <3>2. fee = Sd2Ld(Ld2Sd(CalculateFee(arrived)))
        BY <2>1, DustFree
      <3> QED
        BY <3>1, <3>2 DEF Sd2Ld
    <2>3. whole \in Nat /\ part \in Nat /\ Ld2SdRate \in Nat \ {0}
      BY <1>1, <2>1, SolanaOFTAssumption, DivNat DEF Ld2Sd
    <2> HIDE DEF whole, part, arrived, fee
    <2>4. arrived - fee = (whole - part) * Ld2SdRate
      BY <2>2, <2>3
    <2>5. (arrived - fee) % Ld2SdRate = 0
      BY <2>3, <2>4, MultipleMod
    <2> QED
      BY <1>1, <1>2, <2>5 DEF RemoveDust
  <1>6. Quote(amount) =
          [sent     |-> IF adapter THEN PreFeeAmount(arrived) ELSE arrived,
           received |-> arrived - fee,
           fee      |-> fee]
    BY DEF Quote
  <1> HIDE DEF arrived, fee, offered
  <1>7. Sd2Ld(Ld2Sd(arrived - fee)) = arrived - fee
    BY <1>1, <1>2, <1>5, DustFree
  <1> QED
    BY <1>1, <1>2, <1>3, <1>4, <1>6, <1>7

-----------------------------------------------------------------------------
(* The inductive invariant.                                                *)

BucketsOK ==
    \A d \in Directions :
        /\ peer[d] \in Bucket \union {None}
        /\ peer[d] # None => peer[d].lastRefillTime <= clock

\* What a watched bucket let pass and what it would hand out now.
WindowOK ==
    window # None =>
        /\ peer[window.bucket] # None
        /\ window.since <= clock
        /\ window.net + Settled(peer[window.bucket], clock)
             <= peer[window.bucket].capacity
                  + peer[window.bucket].refillPerSecond
                      * (clock - window.since)

IInv == TypeOK /\ BucketsOK /\ WindowOK /\ EscrowHoldsTvl

\* It is more than the limit asks for.
LEMMA WindowLimits == IInv => RateLimitHolds
  <1> SUFFICES ASSUME IInv, window # None
               PROVE  window.net <= peer[window.bucket].capacity
                        + peer[window.bucket].refillPerSecond
                            * (clock - window.since)
    BY DEF RateLimitHolds
  <1> DEFINE l == peer[window.bucket]
  <1>1. window.bucket \in Directions /\ window.since \in Nat
        /\ window.net \in Int /\ clock \in Nat
    BY SolanaOFTAssumption DEF IInv, TypeOK, Window
  <1>2. l \in Bucket
    BY <1>1 DEF IInv, BucketsOK, WindowOK
  <1>3. Settled(l, clock) \in Nat
    BY <1>1, <1>2, SettledInCapacity
  <1>4. l.capacity \in Nat /\ l.refillPerSecond \in Nat
    BY <1>2, RateLimiterAssumption DEF Bucket, Limiter, U64
  <1>5. /\ window.since <= clock
        /\ window.net + Settled(l, clock)
             <= l.capacity + l.refillPerSecond * (clock - window.since)
    BY DEF IInv, WindowOK
  <1> HIDE DEF l
  <1>6. l.refillPerSecond * (clock - window.since) \in Nat
    BY <1>1, <1>4, <1>5
  <1> QED
    BY <1>1, <1>3, <1>4, <1>5, <1>6 DEF l

\* The initial states.
LEMMA InitIInv == Init => IInv
  <1> SUFFICES ASSUME Init PROVE IInv
    OBVIOUS
  <1> USE SolanaOFTAssumption, RateLimiterAssumption
  <1>1. oftStore \in OFTStore /\ EscrowHoldsTvl
    BY DEF Init, OFTStore, EscrowHoldsTvl, U64
  <1>2. peer \in PeerConfig /\ BucketsOK
    BY DEF Init, PeerConfig, BucketsOK, Directions
  <1>3. TypeOK
    BY <1>1, <1>2 DEF Init, TypeOK
  <1> QED
    BY <1>1, <1>2, <1>3 DEF Init, IInv, WindowOK

-----------------------------------------------------------------------------
(* The buckets.                                                            *)

\* What a transfer leaves in the two buckets.
LEMMA TakeAndGiveFields ==
    ASSUME peer \in PeerConfig, NEW direction \in Directions, NEW amount,
           TakeAndGive(direction, amount)
    PROVE  LET back == Opposite(direction)
           IN  /\ back \in Directions /\ back # direction
               /\ peer'[direction] = IF peer[direction] = None THEN None
                                     ELSE Consume(peer[direction], amount,
                                                  clock)
               /\ peer'[back] = IF peer[back] = None THEN None
                                ELSE Refill(peer[back], amount, clock)
               /\ peer' = [peer EXCEPT ![direction] = peer'[direction],
                                       ![back] = peer'[back]]
  <1> DEFINE back == Opposite(direction)
             taken == IF peer[direction] = None THEN None
                      ELSE Consume(peer[direction], amount, clock)
             given == IF peer[back] = None THEN None
                      ELSE Refill(peer[back], amount, clock)
             half == [peer EXCEPT ![direction] = taken]
  <1>1. /\ back \in Directions /\ back # direction
        /\ direction \in DOMAIN peer /\ back \in DOMAIN peer
    BY DEF Opposite, Directions, PeerConfig
  <1>2. peer' = [peer EXCEPT ![direction] = taken, ![back] = given]
    BY Zenon DEF TakeAndGive
  <1> HIDE DEF back, taken, given
  <1>3. peer' = [half EXCEPT ![back] = given]
    BY <1>2, Zenon
  <1>4. DOMAIN half = DOMAIN peer /\ half[direction] = taken
    BY <1>1
  <1> HIDE DEF half
  <1>5. peer'[back] = given /\ peer'[direction] = taken
    BY <1>1, <1>3, <1>4
  <1>6. peer' = [peer EXCEPT ![direction] = peer'[direction],
                             ![back] = peer'[back]]
    BY <1>2, <1>5, Zenon
  <1> QED
    BY <1>1, <1>5, <1>6, Zenon DEF back, taken, given

\* A transfer that the buckets let pass keeps them, and a watched one within
\* its limit.
LEMMA TakeAndGiveKeeps ==
    ASSUME IInv, NEW direction \in Directions, NEW amount \in Nat,
           Passes(direction, amount), TakeAndGive(direction, amount),
           clock' = clock
    PROVE  /\ peer' \in PeerConfig /\ BucketsOK'
           /\ window' \in Window \union {None} /\ WindowOK'
           /\ peer'.wired = peer.wired
  <1> DEFINE back == Opposite(direction)
             old(d) == peer[d]
             new(d) == peer'[d]
  <1>0. clock \in Nat /\ peer \in PeerConfig
        /\ window \in Window \union {None}
    BY SolanaOFTAssumption DEF IInv, TypeOK
  <1>1. /\ back \in Directions /\ back # direction
        /\ new(direction) = IF old(direction) = None THEN None
                            ELSE Consume(old(direction), amount, clock)
        /\ new(back) = IF old(back) = None THEN None
                       ELSE Refill(old(back), amount, clock)
        /\ peer' = [peer EXCEPT ![direction] = new(direction),
                                ![back] = new(back)]
    BY <1>0, TakeAndGiveFields
  <1>2. old(direction) \in Bucket \union {None}
        /\ old(back) \in Bucket \union {None}
    BY <1>1 DEF IInv, BucketsOK
  <1>3. old(direction) # None =>
           /\ new(direction) \in Bucket
           /\ new(direction).capacity = old(direction).capacity
           /\ new(direction).refillPerSecond = old(direction).refillPerSecond
           /\ new(direction).lastRefillTime = clock
           /\ Settled(new(direction), clock) =
                 Settled(old(direction), clock) - amount
           /\ Settled(old(direction), clock) \in Nat
    <2> DEFINE l == old(direction)
               c == Consume(l, amount, clock)
    <2>1. SUFFICES ASSUME l # None
                   PROVE  /\ c \in Bucket
                          /\ c.capacity = l.capacity
                          /\ c.refillPerSecond = l.refillPerSecond
                          /\ c.lastRefillTime = clock
                          /\ Settled(c, clock) = Settled(l, clock) - amount
                          /\ Settled(l, clock) \in Nat
      BY <1>1
    <2>2. l \in Bucket /\ Affords(l, amount, clock)
      BY <1>2, <2>1 DEF Passes
    <2> HIDE DEF l
    <2> QED
      BY <1>0, <2>2, ConsumeSettled, SettledInCapacity
  <1>4. old(back) # None =>
           /\ new(back) \in Bucket
           /\ new(back).capacity = old(back).capacity
           /\ new(back).refillPerSecond = old(back).refillPerSecond
           /\ new(back).lastRefillTime = clock
           /\ Settled(new(back), clock) <= Settled(old(back), clock) + amount
           /\ Settled(old(back), clock) \in Nat
           /\ Settled(new(back), clock) \in Nat
           /\ old(back).capacity \in Nat
           /\ old(back).refillPerSecond \in Nat
    <2> DEFINE l == old(back)
               r == Refill(l, amount, clock)
    <2>1. SUFFICES ASSUME l # None
                   PROVE  /\ r \in Bucket
                          /\ r.capacity = l.capacity
                          /\ r.refillPerSecond = l.refillPerSecond
                          /\ r.lastRefillTime = clock
                          /\ Settled(r, clock) <= Settled(l, clock) + amount
                          /\ Settled(l, clock) \in Nat
                          /\ Settled(r, clock) \in Nat
                          /\ l.capacity \in Nat
                          /\ l.refillPerSecond \in Nat
      BY <1>1
    <2>2. l \in Bucket
      BY <1>2, <2>1
    <2> HIDE DEF l
    <2>3. /\ r \in Bucket
          /\ r.capacity = l.capacity
          /\ r.refillPerSecond = l.refillPerSecond
          /\ r.lastRefillTime = clock
          /\ Settled(l, clock) \in Nat
      BY <1>0, <2>2, RefillBound
    <2>4. /\ Settled(r, clock) <= Settled(l, clock) + amount
          /\ Settled(r, clock) \in Nat
      BY <1>0, <2>2, RefillSettled
    <2>5. l.capacity \in Nat /\ l.refillPerSecond \in Nat
      BY <2>2, RateLimiterAssumption DEF Bucket, Limiter, U64
    <2> QED
      BY <2>3, <2>4, <2>5
  <1>5. Directions = {direction, back}
    BY <1>1 DEF Directions
  <1>6. None \notin Bucket
    BY SolanaOFTAssumption DEF Bucket
  <1>7. BucketsOK'
    <2>1. /\ new(direction) \in Bucket \union {None}
          /\ new(direction) # None => new(direction).lastRefillTime <= clock
          /\ new(back) \in Bucket \union {None}
          /\ new(back) # None => new(back).lastRefillTime <= clock
      BY <1>0, <1>1, <1>3, <1>4
    <2> QED
      BY <1>5, <2>1 DEF BucketsOK
  <1>8. peer' \in PeerConfig /\ peer'.wired = peer.wired
    <2>1. /\ new(direction) \in Limiter \union {None}
          /\ new(back) \in Limiter \union {None}
      BY <1>1, <1>3, <1>4 DEF Bucket
    <2> DEFINE half == [peer EXCEPT ![direction] = new(direction)]
    <2>2. half \in PeerConfig /\ half.wired = peer.wired
      BY <1>0, <2>1 DEF PeerConfig, Directions
    <2>3. peer' = [half EXCEPT ![back] = new(back)]
      BY <1>1, Zenon
    <2> HIDE DEF half
    <2> QED
      BY <1>1, <2>1, <2>2, <2>3 DEF PeerConfig, Directions
  <1>9. window' \in Window \union {None}
    BY <1>0 DEF TakeAndGive, Window
  <1>10. ASSUME window' # None
         PROVE  /\ peer'[window'.bucket] # None
                /\ window'.since <= clock
                /\ window'.net + Settled(peer'[window'.bucket], clock)
                     <= peer'[window'.bucket].capacity
                          + peer'[window'.bucket].refillPerSecond
                              * (clock - window'.since)
    <2>1. window # None /\ window \in Window
      BY <1>0, <1>10 DEF TakeAndGive
    <2>2. /\ old(window.bucket) # None
          /\ window.since <= clock
          /\ window.net + Settled(old(window.bucket), clock)
               <= old(window.bucket).capacity
                    + old(window.bucket).refillPerSecond
                        * (clock - window.since)
      BY <2>1 DEF IInv, WindowOK
    <2>3. window.net \in Int /\ window.since \in Nat
          /\ window.bucket \in Directions
      BY <2>1 DEF Window
    <2>4. CASE window.bucket = direction
      <3>1. /\ window'.bucket = direction /\ window'.since = window.since
            /\ window'.net = window.net + amount
        BY <2>1, <2>4 DEF TakeAndGive, Window
      <3> HIDE DEF old, new, back
      <3> QED
        BY <1>0, <1>3, <1>6, <2>2, <2>3, <2>4, <3>1, SMT DEF new
    <2>5. CASE window.bucket = back
      <3>1. /\ window'.bucket = back /\ window'.since = window.since
            /\ window'.net = window.net - amount
        BY <1>1, <2>1, <2>5 DEF TakeAndGive, Window
      <3> HIDE DEF old, new, back
      <3> QED
        BY <1>0, <1>4, <1>6, <2>2, <2>3, <2>5, <3>1, SMT DEF new
    <2> QED
      BY <1>5, <2>3, <2>4, <2>5
  <1> QED
    BY <1>7, <1>8, <1>9, <1>10 DEF WindowOK

\* A reconfigured bucket is one, and at a new rate it has what it had.
LEMMA ReconfiguredKeeps ==
    ASSUME NEW limiter \in Bucket \union {None}, NEW choice \in LimitChoices,
           clock \in Nat,
           limiter # None => limiter.lastRefillTime <= clock
    PROVE  /\ Reconfigured(limiter, choice) \in Bucket
           /\ Reconfigured(limiter, choice).lastRefillTime <= clock
           /\ (choice.capacity = None /\ limiter # None) =>
                 /\ Reconfigured(limiter, choice).capacity = limiter.capacity
                 /\ Settled(Reconfigured(limiter, choice), clock) =
                       Settled(limiter, clock)
  <1> DEFINE old == IF limiter = None THEN EmptyLimiter ELSE limiter
             resized == IF choice.capacity = None THEN old
                        ELSE SetCapacity(old, choice.capacity, clock)
  <1>1. choice.capacity \in U64 \union {None}
        /\ choice.rate \in U64 \union {None}
    BY SolanaOFTAssumption
  <1>2. old \in Bucket /\ old.lastRefillTime <= clock
    BY EmptyIsBucket DEF EmptyLimiter
  <1>3. resized \in Bucket /\ resized.lastRefillTime <= clock
    BY <1>1, <1>2, SetCapacityFills
  <1>4. Reconfigured(limiter, choice) =
           IF choice.rate = None THEN resized
           ELSE SetRate(resized, choice.rate, clock)
    BY DEF Reconfigured
  <1>5. (choice.capacity = None /\ limiter # None) => resized = limiter
    OBVIOUS
  <1> HIDE DEF old, resized
  <1> QED
    BY <1>1, <1>3, <1>4, <1>5, SetRateSettled

\* Setting one field keeps a store, and what it has locked.
LEMMA ThenKeeps ==
    ASSUME NEW tvl, NEW store, NEW signer, NEW request \in ConfigRequests,
           NEW i \in 1..5, store # None => store \in OFTStore /\ store.tvl = tvl
    PROVE  LET after == Then(store, signer, request, i)
           IN  after # None => after \in OFTStore /\ after.tvl = tvl
  <1> DEFINE field == ConfigOrder[i]
             after == Then(store, signer, request, i)
  <1>1. field \in {"defaultFeeBps", "paused", "pauser", "unpauser", "admin"}
    BY DEF ConfigOrder
  <1> HIDE DEF field
  <1> SUFFICES ASSUME after # None
               PROVE  after \in OFTStore /\ after.tvl = tvl
    OBVIOUS
  <1>2. CASE field \notin DOMAIN request
    BY <1>2 DEF Then, field
  <1>3. CASE field \in DOMAIN request
    <2> DEFINE value == request[field]
    <2>1. after = Configured(store, signer, field, value)
      BY <1>3 DEF Then, field
    <2>2. /\ store \in OFTStore /\ store.tvl = tvl
          /\ after = [store EXCEPT ![field] = value]
          /\ field = "defaultFeeBps" => value < OneInBps
      BY <2>1 DEF Configured
    <2>3. \/ field = "defaultFeeBps" /\ value \in 0..(OneInBps - 1)
          \/ field = "paused" /\ value \in BOOLEAN
          \/ field \in {"pauser", "unpauser"} /\ value \in Signers \union {None}
          \/ field = "admin" /\ value \in Signers
      BY <1>3, <2>2, SolanaOFTAssumption
    <2> HIDE DEF after, value
    <2> QED
      BY <2>2, <2>3 DEF OFTStore
  <1> QED
    BY <1>2, <1>3

\* So does a transaction of set-config that succeeds.
LEMMA AfterConfigKeeps ==
    ASSUME oftStore \in OFTStore, NEW signer, NEW request \in ConfigRequests,
           AfterConfig(signer, request) # None
    PROVE  /\ AfterConfig(signer, request) \in OFTStore
           /\ AfterConfig(signer, request).tvl = oftStore.tvl
  <1> DEFINE After(store, i) == Then(store, signer, request, i)
             Good(store) == store # None =>
                              store \in OFTStore /\ store.tvl = oftStore.tvl
  <1>1. \A store : \A i \in 1..5 : Good(store) => Good(After(store, i))
    BY ThenKeeps
  <1>2. Good(oftStore)
    OBVIOUS
  <1> HIDE DEF After, Good
  <1>3. Good(After(After(After(After(After(oftStore, 1), 2), 3), 4), 5))
    BY <1>1, <1>2
  <1> QED
    BY <1>3 DEF AfterConfig, After, Good

-----------------------------------------------------------------------------
(* The steps.                                                              *)

\* What touches neither the buckets nor the time leaves them right.
LEMMA BucketsUntouched ==
    ASSUME BucketsOK, WindowOK, peer' = peer, window' = window, clock' = clock
    PROVE  BucketsOK' /\ WindowOK'
  BY DEF BucketsOK, WindowOK

\* A send, by anybody and by the task.
LEMMA SendKeeps ==
    ASSUME IInv, NEW amount \in Nat, NEW minAmount \in Nat,
           Send(amount, minAmount), order' \in Orders \union {None}
    PROVE  IInv'
  <1> DEFINE quote == Quote(amount)
  <1>1. /\ quote.sent \in Nat /\ quote.received \in Nat /\ quote.fee \in Nat
        /\ OFTType = "Adapter" =>
              quote.received + quote.fee <= PostFeeAmount(quote.sent)
    BY QuoteCovers DEF IInv
  <1>2. /\ FeeOnTransfer(quote.sent) \in Nat
        /\ PostFeeAmount(quote.sent) \in Nat
    BY <1>1, FeeOnTransferBound DEF IInv
  <1>3. /\ peer' \in PeerConfig /\ BucketsOK'
        /\ window' \in Window \union {None} /\ WindowOK'
    <2>1. /\ Passes("outbound", quote.received)
          /\ TakeAndGive("outbound", quote.received)
          /\ clock' = clock
      BY DEF Send
    <2> HIDE DEF quote
    <2> QED
      BY <1>1, <2>1, TakeAndGiveKeeps DEF Directions
  <1>4. Ld2Sd(quote.received) \in Nat
    BY <1>1, SolanaOFTAssumption, DivNat DEF Ld2Sd
  <1>5. /\ wallets' = wallets - quote.sent /\ wallets >= quote.sent
        /\ remote' = remote + Ld2Sd(quote.received)
        /\ UNCHANGED <<transferFee, pending, clock>>
    BY DEF Send
  <1>6. \/ /\ OFTType = "Adapter"
           /\ oftStore.tvl + quote.received <= MaxU64
           /\ oftStore' = [oftStore EXCEPT !.tvl = @ + quote.received]
           /\ escrow' = escrow + PostFeeAmount(quote.sent)
           /\ withheld' = withheld + FeeOnTransfer(quote.sent)
        \/ /\ escrow' = escrow + quote.fee
           /\ UNCHANGED <<oftStore, withheld>>
    BY DEF Send
  <1> HIDE DEF quote
  <1>7. oftStore \in OFTStore /\ oftStore.tvl \in Nat /\ escrow \in Nat
        /\ withheld \in Nat /\ wallets \in Nat /\ remote \in Nat
        /\ escrow >= oftStore.tvl
    BY RateLimiterAssumption
       DEF IInv, TypeOK, OFTStore, U64, EscrowHoldsTvl
  <1>8. /\ oftStore' \in OFTStore /\ escrow' \in Nat /\ withheld' \in Nat
        /\ escrow' >= oftStore'.tvl
    BY <1>1, <1>2, <1>6, <1>7, RateLimiterAssumption DEF OFTStore, U64
  <1>9. wallets' \in Nat /\ remote' \in Nat
    BY <1>1, <1>4, <1>5, <1>7
  <1>10. TypeOK'
    BY <1>3, <1>5, <1>8, <1>9 DEF IInv, TypeOK
  <1> QED
    BY <1>3, <1>8, <1>10 DEF IInv, EscrowHoldsTvl

\* So does whatever else leaves the peer alone and the escrow large enough.
LEMMA LedgerKeeps ==
    ASSUME IInv, UNCHANGED <<peer, window, clock>>,
           oftStore' \in OFTStore, escrow' \in Nat, escrow' >= oftStore'.tvl,
           wallets' \in Nat, withheld' \in Nat, transferFee' \in TransferFees,
           remote' \in Nat, pending' \subseteq Message,
           order' \in Orders \union {None}
    PROVE  IInv'
  <1>1. BucketsOK' /\ WindowOK'
    BY BucketsUntouched DEF IInv
  <1> QED
    BY <1>1 DEF IInv, TypeOK, EscrowHoldsTvl

\* And whatever leaves all but the peer and the window alone.
LEMMA PeerKeeps ==
    ASSUME IInv, UNCHANGED <<oftStore, tokenVars, remoteVars, clock>>,
           peer' \in PeerConfig, BucketsOK',
           window' \in Window \union {None}, WindowOK',
           order' \in Orders \union {None}
    PROVE  IInv'
  BY DEF IInv, TypeOK, EscrowHoldsTvl, tokenVars, remoteVars

\* The values that a step starts from.
LEMMA Values ==
    ASSUME IInv
    PROVE  /\ oftStore \in OFTStore /\ oftStore.tvl \in Nat
           /\ escrow \in Nat /\ escrow >= oftStore.tvl
           /\ wallets \in Nat /\ withheld \in Nat
           /\ transferFee \in TransferFees
           /\ remote \in Nat /\ pending \subseteq Message
           /\ order \in Orders \union {None}
           /\ clock \in Nat /\ MaxTime \in Nat
           /\ peer \in PeerConfig /\ window \in Window \union {None}
  BY SolanaOFTAssumption, RateLimiterAssumption
     DEF IInv, TypeOK, OFTStore, U64, EscrowHoldsTvl

\* A receipt.
LEMMA LzReceiveKeeps ==
    ASSUME IInv, NEW message \in pending, LzReceive(message), order' = order
    PROVE  IInv'
  <1> DEFINE amount == Sd2Ld(message.amount)
  <1>1. amount \in Nat
    BY Values, SolanaOFTAssumption DEF Sd2Ld, Message
  <1>2. /\ Passes("inbound", amount) /\ TakeAndGive("inbound", amount)
        /\ pending' = pending \ {message}
        /\ UNCHANGED <<transferFee, remote, clock>>
        /\ \/ /\ oftStore.tvl >= amount /\ escrow >= amount
              /\ oftStore' = [oftStore EXCEPT !.tvl = @ - amount]
              /\ escrow' = escrow - amount
              /\ wallets' = wallets + PostFeeAmount(amount)
              /\ withheld' = withheld + FeeOnTransfer(amount)
           \/ /\ wallets' = wallets + amount
              /\ UNCHANGED <<oftStore, escrow, withheld>>
    BY DEF LzReceive
  <1> HIDE DEF amount
  <1>3. FeeOnTransfer(amount) \in Nat /\ PostFeeAmount(amount) \in Nat
    BY <1>1, FeeOnTransferBound DEF IInv
  <1>4. /\ peer' \in PeerConfig /\ BucketsOK'
        /\ window' \in Window \union {None} /\ WindowOK'
    BY <1>1, <1>2, TakeAndGiveKeeps DEF Directions
  <1>5. /\ oftStore' \in OFTStore /\ escrow' \in Nat
        /\ escrow' >= oftStore'.tvl
        /\ wallets' \in Nat /\ withheld' \in Nat
    BY <1>1, <1>2, <1>3, Values, RateLimiterAssumption DEF OFTStore, U64
  <1>6. pending' \subseteq Message
    BY <1>2, Values
  <1> QED
    BY <1>2, <1>4, <1>5, <1>6 DEF IInv, TypeOK, EscrowHoldsTvl

\* set-config, whatever fields it sets.
LEMMA SetOFTConfigKeeps ==
    ASSUME IInv, NEW signer \in Signers, NEW request \in ConfigRequests,
           SetOFTConfig(signer, request), order' = order
    PROVE  IInv'
  <1>1. oftStore' \in OFTStore /\ oftStore'.tvl = oftStore.tvl
    BY Values, AfterConfigKeeps DEF SetOFTConfig
  <1>2. UNCHANGED <<peer, window, clock, escrow, wallets, withheld,
                    transferFee, remote, pending>>
    BY DEF SetOFTConfig, ConfigOnly, tokenVars, remoteVars
  <1> QED
    BY <1>1, <1>2, Values, LedgerKeeps

\* set_pause.
LEMMA SetPauseKeeps ==
    ASSUME IInv, NEW signer \in Signers, NEW paused \in BOOLEAN,
           SetPause(signer, paused), order' = order
    PROVE  IInv'
  <1>1. oftStore' \in OFTStore /\ oftStore'.tvl = oftStore.tvl
    BY Values DEF SetPause, OFTStore
  <1>2. UNCHANGED <<peer, window, clock, escrow, wallets, withheld,
                    transferFee, remote, pending>>
    BY DEF SetPause, ConfigOnly, tokenVars, remoteVars
  <1> QED
    BY <1>1, <1>2, Values, LedgerKeeps

\* One bucket of the peer is dropped or configured anew.
LEMMA BucketSetKeeps ==
    ASSUME IInv, NEW direction \in Directions, NEW bucket \in Bucket \union {None},
           bucket # None => bucket.lastRefillTime <= clock,
           peer' = [peer EXCEPT ![direction] = bucket], clock' = clock,
           window' \in Window \union {None},
           window' # None =>
              \/ window' = window /\ ~Watched(direction)
              \/ /\ window'.bucket = direction /\ bucket # None
                 /\ window'.since <= clock
                 /\ window'.net + Settled(bucket, clock)
                      <= bucket.capacity
                           + bucket.refillPerSecond * (clock - window'.since)
    PROVE  peer' \in PeerConfig /\ BucketsOK' /\ WindowOK'
  <1>1. /\ peer' \in PeerConfig /\ peer'[direction] = bucket
        /\ \A d \in Directions \ {direction} : peer'[d] = peer[d]
    BY Values DEF PeerConfig, Bucket, Directions
  <1>2. BucketsOK'
    BY <1>1 DEF BucketsOK, IInv
  <1>3. CASE window' = None
    BY <1>1, <1>2, <1>3 DEF WindowOK
  <1>4. CASE window' # None /\ window' = window /\ ~Watched(direction)
    <2>1. window.bucket \in Directions \ {direction}
      BY <1>4, Values DEF Window, Watched
    <2>2. peer'[window.bucket] = peer[window.bucket]
      BY <1>1, <2>1
    <2>3. WindowOK'
      BY <1>4, <2>2 DEF WindowOK, IInv
    <2> QED
      BY <1>1, <1>2, <2>3
  <1>5. CASE /\ window' # None /\ window'.bucket = direction /\ bucket # None
             /\ window'.since <= clock
             /\ window'.net + Settled(bucket, clock)
                  <= bucket.capacity
                       + bucket.refillPerSecond * (clock - window'.since)
    BY <1>1, <1>2, <1>5 DEF WindowOK
  <1> QED
    BY <1>3, <1>4, <1>5

\* What a watched bucket at a new rate has let pass.
LEMMA RewatchedFields ==
    ASSUME NEW choice, choice.capacity = None, window \in Window
    PROVE  Rewatched(choice) =
             [bucket |-> window.bucket, since |-> clock,
              net |-> window.net - peer[window.bucket].refillPerSecond
                                     * (clock - window.since)]
  <1> DEFINE left == window.net - peer[window.bucket].refillPerSecond
                                    * (clock - window.since)
             half == [window EXCEPT !.net = left]
  <1>1. Rewatched(choice) = [window EXCEPT !.net = left, !.since = clock]
    BY DEF Rewatched
  <1> HIDE DEF left
  <1>2. Rewatched(choice) = [half EXCEPT !.since = clock]
    BY <1>1, Zenon
  <1>3. half = [bucket |-> window.bucket, since |-> window.since,
                net |-> left]
    BY DEF Window
  <1> HIDE DEF half
  <1>4. Rewatched(choice) =
          [bucket |-> window.bucket, since |-> clock, net |-> left]
    BY <1>2, <1>3
  <1> QED
    BY <1>4 DEF left

\* set_peer_config.
LEMMA SetPeerConfigKeeps ==
    ASSUME IInv, NEW signer \in Signers, SetPeerConfig(signer), order' = order
    PROVE  IInv'
  <1>0. UNCHANGED <<oftStore, tokenVars, remoteVars, clock>>
    BY DEF SetPeerConfig, ConfigOnly
  <1>00. clock' = clock /\ None \notin Bucket
    BY <1>0, SolanaOFTAssumption DEF Bucket
  <1> SUFFICES /\ peer' \in PeerConfig /\ BucketsOK'
               /\ window' \in Window \union {None} /\ WindowOK'
    BY <1>0, Values, PeerKeeps
  <1>1. ASSUME UNCHANGED window,
               \/ \E wired \in BOOLEAN : peer' = [peer EXCEPT !.wired = wired]
               \/ \E bps \in FeeChoices \union {None} :
                     peer' = [peer EXCEPT !.feeBps = bps]
        PROVE  /\ peer' \in PeerConfig /\ BucketsOK'
               /\ window' \in Window \union {None} /\ WindowOK'
    <2>1. peer' \in PeerConfig
          /\ \A d \in Directions : peer'[d] = peer[d]
      BY <1>1, Values, SolanaOFTAssumption DEF PeerConfig, Directions
    <2>2. BucketsOK'
      BY <1>00, <2>1 DEF BucketsOK, IInv
    <2>3. WindowOK'
      <3> SUFFICES ASSUME window # None PROVE WindowOK'
        BY <1>1 DEF WindowOK
      <3>1. window.bucket \in Directions
        BY Values DEF Window
      <3> QED
        BY <1>1, <1>00, <2>1, <3>1 DEF WindowOK, IInv
    <2> QED
      BY <1>1, <2>1, <2>2, <2>3, Values
  <1>2. ASSUME NEW direction \in Directions,
               peer' = [peer EXCEPT ![direction] = None],
               window' = IF Watched(direction) THEN None ELSE window
        PROVE  /\ peer' \in PeerConfig /\ BucketsOK'
               /\ window' \in Window \union {None} /\ WindowOK'
    <2>1. window' \in Window \union {None}
          /\ (window' # None => window' = window /\ ~Watched(direction))
      BY <1>2, Values
    <2> QED
      BY <1>00, <1>2, <2>1, BucketSetKeeps
  <1>3. ASSUME NEW direction \in Directions, NEW choice \in LimitChoices,
               peer' = [peer EXCEPT ![direction] = Reconfigured(@, choice)],
               window' = IF Watched(direction) THEN Rewatched(choice)
                                               ELSE window
        PROVE  /\ peer' \in PeerConfig /\ BucketsOK'
               /\ window' \in Window \union {None} /\ WindowOK'
    <2> DEFINE old == peer[direction]
               new == Reconfigured(old, choice)
    <2>1. /\ old \in Bucket \union {None}
          /\ old # None => old.lastRefillTime <= clock
      BY DEF IInv, BucketsOK
    <2>2. /\ new \in Bucket /\ new.lastRefillTime <= clock
          /\ (choice.capacity = None /\ old # None) =>
                /\ new.capacity = old.capacity
                /\ Settled(new, clock) = Settled(old, clock)
      BY <2>1, Values, ReconfiguredKeeps
    <2>3. peer' = [peer EXCEPT ![direction] = new]
      BY <1>3
    <2>4. CASE ~Watched(direction)
      <3>1. window' = window
        BY <1>3, <2>4
      <3> HIDE DEF new
      <3> QED
        BY <1>00, <2>2, <2>3, <2>4, <3>1, Values, BucketSetKeeps
    <2>5. CASE Watched(direction) /\ choice.capacity # None
      <3>1. window' = None
        BY <1>3, <2>5 DEF Rewatched
      <3> HIDE DEF new
      <3> QED
        BY <1>00, <2>2, <2>3, <3>1, BucketSetKeeps
    <2>6. CASE Watched(direction) /\ choice.capacity = None
      <3>1. window \in Window /\ window.bucket = direction /\ window # None
        BY <2>6, Values DEF Watched
      <3>2. /\ old # None /\ window.since <= clock
            /\ window.net + Settled(old, clock)
                 <= old.capacity
                      + old.refillPerSecond * (clock - window.since)
        BY <3>1 DEF IInv, WindowOK
      <3>3. window' = [bucket |-> direction, since |-> clock,
                       net |-> window.net - old.refillPerSecond
                                              * (clock - window.since)]
        BY <1>3, <2>6, <3>1, RewatchedFields
      <3>4. /\ window.net \in Int /\ window.since \in Nat /\ clock \in Nat
        BY <3>1, Values DEF Window
      <3>5. /\ old.capacity \in Nat /\ old.refillPerSecond \in Nat
            /\ Settled(old, clock) \in Nat /\ new.refillPerSecond \in Nat
        BY <2>1, <2>2, <3>2, <3>4, SettledInCapacity, RateLimiterAssumption
           DEF Bucket, Limiter, U64
      <3> HIDE DEF old, new
      <3>6. old.refillPerSecond * (clock - window.since) \in Int
        BY <3>4, <3>5
      <3>7. /\ window' \in Window
            /\ window'.bucket = direction /\ window'.since = clock
            /\ window'.net = window.net - old.refillPerSecond
                                            * (clock - window.since)
        BY <3>3, <3>4, <3>6 DEF Window
      <3>8. new.refillPerSecond * (clock - window'.since) = 0
        BY <3>4, <3>5, <3>7
      <3>9. /\ new.capacity = old.capacity
            /\ Settled(new, clock) = Settled(old, clock)
        BY <2>2, <2>6, <3>2
      <3>10. window'.net + Settled(new, clock)
               <= new.capacity
                    + new.refillPerSecond * (clock - window'.since)
        BY <3>2, <3>4, <3>5, <3>6, <3>7, <3>8, <3>9
      <3>11. new # None /\ window'.since <= clock
        BY <1>00, <2>2, <3>4, <3>7
      <3> QED
        BY <1>00, <2>2, <2>3, <3>7, <3>10, <3>11, BucketSetKeeps
    <2> QED
      BY <2>4, <2>5, <2>6
  <1> QED
    BY <1>1, <1>2, <1>3, Zenon DEF SetPeerConfig

\* withdraw_fee leaves what is locked.
LEMMA WithdrawFeeKeeps ==
    ASSUME IInv, NEW signer \in Signers, NEW fee \in Amounts,
           WithdrawFee(signer, fee), order' = order
    PROVE  IInv'
  <1>1. fee \in Nat
    BY SolanaOFTAssumption, RateLimiterAssumption DEF U64
  <1>2. FeeOnTransfer(fee) \in Nat /\ PostFeeAmount(fee) \in Nat
    BY <1>1, FeeOnTransferBound DEF IInv
  <1>3. /\ UNCHANGED <<oftStore, peer, window, clock, transferFee, remote,
                       pending>>
        /\ escrow - oftStore.tvl >= fee /\ escrow' = escrow - fee
        /\ wallets' = wallets + PostFeeAmount(fee)
        /\ withheld' = withheld + FeeOnTransfer(fee)
    BY DEF WithdrawFee, remoteVars
  <1>4. /\ escrow' \in Nat /\ escrow' >= oftStore'.tvl
        /\ wallets' \in Nat /\ withheld' \in Nat
    BY <1>1, <1>2, <1>3, Values
  <1> QED
    BY <1>3, <1>4, Values, LedgerKeeps

\* What others do on the peer chain, with their tokens and with the mint.
LEMMA OtherKeeps ==
    ASSUME IInv, order' = order,
           \/ \E id \in 1..2, amount \in 1..(Total + RemoteTotal) :
                 RemoteSend(id, amount)
           \/ \E amount \in Amounts : Donate(amount)
           \/ NextEpoch
    PROVE  IInv'
  <1>1. ASSUME NEW id \in 1..2, NEW amount \in 1..(Total + RemoteTotal),
               RemoteSend(id, amount)
        PROVE  IInv'
    <2>1. UNCHANGED <<oftStore, peer, window, clock, escrow, wallets,
                      withheld, transferFee>>
      BY <1>1 DEF RemoteSend, tokenVars
    <2>2. amount \in Nat
      BY SolanaOFTAssumption
    <2>3. remote' \in Nat /\ pending' \subseteq Message
      BY <1>1, <2>2, Values DEF RemoteSend, Message
    <2> QED
      BY <2>1, <2>3, Values, LedgerKeeps
  <1>2. ASSUME NEW amount \in Amounts, Donate(amount)
        PROVE  IInv'
    <2>1. amount \in Nat
      BY SolanaOFTAssumption, RateLimiterAssumption DEF U64
    <2>2. FeeOnTransfer(amount) \in Nat /\ PostFeeAmount(amount) \in Nat
      BY <2>1, FeeOnTransferBound DEF IInv
    <2>3. /\ UNCHANGED <<oftStore, peer, window, clock, transferFee, remote,
                         pending>>
          /\ amount <= wallets /\ wallets' = wallets - amount
          /\ escrow' = escrow + PostFeeAmount(amount)
          /\ withheld' = withheld + FeeOnTransfer(amount)
      BY <1>2 DEF Donate, remoteVars
    <2>4. /\ escrow' \in Nat /\ escrow' >= oftStore'.tvl
          /\ wallets' \in Nat /\ withheld' \in Nat
      BY <2>1, <2>2, <2>3, Values
    <2> QED
      BY <2>3, <2>4, Values, LedgerKeeps
  <1>3. ASSUME NextEpoch PROVE IInv'
    <2>1. /\ UNCHANGED <<oftStore, peer, window, clock, escrow, wallets,
                         withheld, remote, pending>>
          /\ transferFee' \in TransferFees
      BY <1>3 DEF NextEpoch, remoteVars
    <2> QED
      BY <2>1, Values, LedgerKeeps
  <1> QED
    BY <1>1, <1>2, <1>3

\* The next second.
LEMMA TickKeeps ==
    ASSUME IInv, Tick, order' = order
    PROVE  IInv'
  <1>1. /\ UNCHANGED <<oftStore, peer, window, escrow, wallets, withheld,
                       transferFee, remote, pending>>
        /\ clock < MaxTime /\ clock' = clock + 1
    BY DEF Tick, tokenVars, remoteVars
  <1>2. clock' \in 0..MaxTime
    BY <1>1, Values
  <1>3. TypeOK' /\ BucketsOK' /\ EscrowHoldsTvl'
    <2>1. TypeOK' /\ EscrowHoldsTvl'
      BY <1>1, <1>2 DEF IInv, TypeOK, EscrowHoldsTvl
    <2>2. ASSUME NEW d \in Directions
          PROVE  /\ peer[d] \in Bucket \union {None}
                 /\ peer[d] # None => peer[d].lastRefillTime <= clock + 1
      BY Values DEF IInv, BucketsOK, Bucket, Limiter
    <2> QED
      BY <1>1, <2>1, <2>2 DEF BucketsOK
  <1>4. WindowOK'
    <2> DEFINE l == peer[window.bucket]
    <2>0. peer' = peer /\ window' = window /\ clock' = clock + 1
      BY <1>1
    <2> SUFFICES ASSUME window # None
                 PROVE  /\ l # None
                        /\ window.since <= clock + 1
                        /\ window.net + Settled(l, clock + 1)
                             <= l.capacity + l.refillPerSecond
                                               * ((clock + 1) - window.since)
      BY <2>0, Zenon DEF WindowOK
    <2>1. /\ window.bucket \in Directions /\ window.since \in Nat
          /\ window.net \in Int /\ clock \in Nat
      BY Values DEF Window
    <2>2. /\ l # None /\ window.since <= clock
          /\ window.net + Settled(l, clock)
               <= l.capacity + l.refillPerSecond * (clock - window.since)
      BY DEF IInv, WindowOK
    <2>3. l \in Bucket
      BY <2>1, <2>2 DEF IInv, BucketsOK
    <2>4. l.capacity \in Nat /\ l.refillPerSecond \in Nat
      BY <2>3, RateLimiterAssumption DEF Bucket, Limiter, U64
    <2>5. Settled(l, clock + 1) <= Settled(l, clock) + l.refillPerSecond
      BY <2>1, <2>3, SettledTick
    <2>6. Settled(l, clock) \in Nat /\ Settled(l, clock + 1) \in Nat
      <3>1. clock + 1 \in Nat
        BY <2>1
      <3> QED
        BY <2>1, <2>3, <3>1, SettledInCapacity
    <2> HIDE DEF l
    <2> DEFINE rate == l.refillPerSecond
               past == clock - window.since
    <2>7. past \in Int /\ rate \in Nat /\ (clock + 1) - window.since = past + 1
      BY <2>1, <2>4
    <2>8. /\ window.net + Settled(l, clock) <= l.capacity + rate * past
          /\ Settled(l, clock + 1) <= Settled(l, clock) + rate
      BY <2>2, <2>5
    <2>9. window.since <= clock + 1
      BY <2>1, <2>2
    <2> HIDE DEF past, rate
    <2>10. rate * (past + 1) = rate * past + rate /\ rate * past \in Int
      BY <2>7
    <2>11. window.net + Settled(l, clock + 1) <= l.capacity + rate * (past + 1)
      BY <2>1, <2>4, <2>6, <2>7, <2>8, <2>10
    <2> QED
      BY <2>2, <2>7, <2>9, <2>11 DEF rate
  <1> QED
    BY <1>3, <1>4 DEF IInv

\* A bucket hands out no more than its capacity when it is first watched.
LEMMA WatchKeeps ==
    ASSUME IInv, NEW direction \in Directions, Watch(direction), order' = order
    PROVE  IInv'
  <1> DEFINE l == peer[direction]
  <1>1. /\ UNCHANGED <<oftStore, peer, tokenVars, remoteVars, clock>>
        /\ peer[direction] # None
        /\ window' = [bucket |-> direction, since |-> clock, net |-> 0]
    BY DEF Watch
  <1>2. l \in Bucket
    BY <1>1 DEF IInv, BucketsOK
  <1>3. /\ Settled(l, clock) \in Nat /\ Settled(l, clock) <= l.capacity
        /\ l.capacity \in Nat /\ l.refillPerSecond \in Nat /\ clock \in Nat
    BY <1>2, Values, SettledInCapacity, RateLimiterAssumption
       DEF Bucket, Limiter, U64
  <1>4. l.refillPerSecond * (clock - clock) = 0
    BY <1>3
  <1>5. peer' = peer /\ clock' = clock
    BY <1>1
  <1> HIDE DEF l
  <1>6. 0 + Settled(l, clock)
          <= l.capacity + l.refillPerSecond * (clock - clock)
    BY <1>3, <1>4
  <1>7. WindowOK'
    BY <1>1, <1>3, <1>5, <1>6 DEF WindowOK, l
  <1>8. window' \in Window
    BY <1>1, <1>3 DEF Window
  <1>9. BucketsOK'
    BY <1>5 DEF IInv, BucketsOK
  <1> QED
    BY <1>1, <1>5, <1>7, <1>8, <1>9, Values, PeerKeeps

\* The send task.
LEMMA SendTaskKeeps ==
    ASSUME IInv, SendTaskStep
    PROVE  IInv'
  <1> USE SolanaOFTAssumption, RateLimiterAssumption
  <1>1. ASSUME NEW amount \in Orders, QuoteOrder(amount) PROVE IInv'
    <2>1. /\ UNCHANGED <<oftStore, peer, window, clock, escrow, wallets,
                         withheld, transferFee, remote, pending>>
          /\ order' = amount
      BY <1>1 DEF QuoteOrder, tokenVars, remoteVars
    <2> QED
      BY <2>1, Values, LedgerKeeps
  <1>2. ASSUME SendOrder PROVE IInv'
    <2>1. order \in Nat /\ order' = None
      <3>1. order # None /\ order' = None
        BY <1>2 DEF SendOrder
      <3>2. order \in Orders
        BY <3>1, Values
      <3>3. Orders \subseteq Nat
        BY DEF U64
      <3> QED
        BY <3>1, <3>2, <3>3
    <2>2. LeastReceived(order) \in Nat
      <3>1. order * 9 \in Nat
        BY <2>1
      <3> QED
        BY <3>1, DivNat DEF LeastReceived
    <2> QED
      BY <1>2, <2>1, <2>2, SendKeeps DEF SendOrder
  <1>3. ASSUME DropOrder PROVE IInv'
    <2>1. /\ UNCHANGED <<oftStore, peer, window, clock, escrow, wallets,
                         withheld, transferFee, remote, pending>>
          /\ order' = None
      BY <1>3 DEF DropOrder, tokenVars, remoteVars
    <2> QED
      BY <2>1, Values, LedgerKeeps
  <1> QED
    BY <1>1, <1>2, <1>3 DEF SendTaskStep

\* Every step keeps the invariant.
LEMMA NextIInv == IInv /\ [Next]_vars => IInv'
  <1> SUFFICES ASSUME IInv, [Next]_vars PROVE IInv'
    OBVIOUS
  <1>1. ASSUME BridgeStep, order' = order PROVE IInv'
    <2>1. ASSUME NEW amount \in Amounts, NEW minAmount \in Amounts,
                 Send(amount, minAmount)
          PROVE  IInv'
      <3>1. amount \in Nat /\ minAmount \in Nat
        BY SolanaOFTAssumption, RateLimiterAssumption DEF U64
      <3> QED
        BY <1>1, <2>1, <3>1, Values, SendKeeps
    <2>2. ASSUME NEW message \in pending, LzReceive(message) PROVE IInv'
      BY <1>1, <2>2, LzReceiveKeeps
    <2> QED
      BY <1>1, <2>1, <2>2 DEF BridgeStep
  <1>2. ASSUME AdminStep, order' = order PROVE IInv'
    BY <1>2, SetOFTConfigKeeps, SetPauseKeeps, SetPeerConfigKeeps,
       WithdrawFeeKeeps DEF AdminStep
  <1>3. ASSUME OtherStep, order' = order PROVE IInv'
    BY <1>3, OtherKeeps, TickKeeps, WatchKeeps DEF OtherStep
  <1>4. CASE SendTaskStep
    BY <1>4, SendTaskKeeps
  <1>5. CASE UNCHANGED vars
    <2>1. UNCHANGED <<oftStore, peer, window, clock, escrow, wallets,
                      withheld, transferFee, remote, pending, order>>
      BY <1>5 DEF vars, tokenVars, remoteVars
    <2> QED
      BY <2>1, Values, LedgerKeeps
  <1> QED
    BY <1>1, <1>2, <1>3, <1>4, <1>5 DEF Next

\* So it holds in every state that can be reached.
LEMMA Invariant == Spec => []IInv
  <1>1. Init => IInv
    BY InitIInv
  <1>2. IInv /\ [Next]_vars => IInv'
    BY NextIInv
  <1> QED
    BY <1>1, <1>2, PTL DEF Spec

-----------------------------------------------------------------------------
(* The ledger.                                                             *)

AmountOf == [m \in Message |-> m.amount]

\* What the messages carry is a sum, to which the facts about sums apply.
LEMMA CarriedIsSum ==
    ASSUME NEW S, S \subseteq Message, IsFiniteSet(S)
    PROVE  /\ Carried(S) = SumFunctionOnSet(AmountOf, S)
           /\ Carried(S) \in Nat
  <1> DEFINE G(g) == g = [s \in SUBSET S |->
                            IF s = {} THEN 0
                            ELSE Pick(s).amount + g[Rest(s)]]
             sum == CHOOSE g : G(g)
  <1>1. Carried(S) = sum[S]
    BY DEF Carried, MapThenSumSet, MapThenFoldSet, Pick, Rest
  <1>2. \A s \in SUBSET S : s # {} => Pick(s).amount = AmountOf[Pick(s)]
    BY RestSmaller DEF AmountOf
  <1>3. \A g : G(g) <=> IsSum(g, AmountOf, S)
    BY <1>2 DEF IsSum
  <1>4. IsSum(SumFn(AmountOf, S), AmountOf, S)
    BY SumExists
  <1>5. G(sum)
    BY <1>3, <1>4
  <1>6. IsSum(sum, AmountOf, S)
    BY <1>3, <1>5
  <1> HIDE DEF sum
  <1>7. sum[S] = SumFn(AmountOf, S)[S]
    BY <1>4, <1>6, SumUnique
  <1>8. \A x \in S : AmountOf[x] \in Nat
    BY DEF AmountOf, Message
  <1> QED
    BY <1>1, <1>7, <1>8, SumOnSetDef, SumNat

Held == wallets + escrow + withheld

\* Nothing is lost, and what is locked is what the peer chain can send back.
Books ==
    /\ IsFiniteSet(pending)
    /\ NothingLost
    /\ oftStore.tvl = IF OFTType = "Adapter" THEN Abroad ELSE 0

\* A step that changes what is abroad by d, and what is held here, or locked,
\* to match, keeps the books.
LEMMA BooksMove ==
    ASSUME IInv, IInv', Books, NEW d \in Int, IsFiniteSet(pending'),
           remote' + Carried(pending') = remote + Carried(pending) + d,
           IF OFTType = "Adapter"
           THEN Held' = Held /\ oftStore'.tvl = oftStore.tvl + Sd2Ld(d)
           ELSE Held' + Sd2Ld(d) = Held /\ oftStore'.tvl = oftStore.tvl
    PROVE  Books'
  <1> DEFINE a == remote + Carried(pending)
             b == remote' + Carried(pending')
  <1>1. /\ remote \in Nat /\ pending \subseteq Message
        /\ remote' \in Nat /\ pending' \subseteq Message
        /\ wallets \in Nat /\ escrow \in Nat /\ withheld \in Nat
        /\ wallets' \in Nat /\ escrow' \in Nat /\ withheld' \in Nat
        /\ oftStore.tvl \in Nat /\ OFTType \in {"Native", "Adapter"}
        /\ Ld2SdRate \in Nat
    BY SolanaOFTAssumption, RateLimiterAssumption
       DEF IInv, TypeOK, OFTStore, U64
  <1>2. Carried(pending) \in Nat /\ Carried(pending') \in Nat
    BY <1>1, CarriedIsSum DEF Books
  <1>3. Abroad = Sd2Ld(a) /\ Abroad' = Sd2Ld(b)
    BY DEF Abroad
  <1>4. a \in Nat /\ b = a + d
    BY <1>1, <1>2
  <1> HIDE DEF a, b
  <1>5. Sd2Ld(a) \in Nat /\ Sd2Ld(b) = Sd2Ld(a) + Sd2Ld(d) /\ Sd2Ld(d) \in Int
    BY <1>1, <1>4 DEF Sd2Ld
  <1>6. /\ wallets + escrow + withheld
              + (IF OFTType = "Native" THEN Abroad ELSE 0)
            = Total + Sd2Ld(RemoteTotal)
        /\ oftStore.tvl = IF OFTType = "Adapter" THEN Abroad ELSE 0
    BY DEF Books, NothingLost
  <1>7. /\ Held = wallets + escrow + withheld
        /\ Held' = wallets' + escrow' + withheld'
        /\ Held \in Nat /\ Held' \in Nat
    <2>1. Held = wallets + escrow + withheld
      BY DEF Held
    <2>2. Held' = wallets' + escrow' + withheld'
      BY DEF Held
    <2>3. \A x, y, z \in Nat : x + y + z \in Nat
      OBVIOUS
    <2>4. /\ wallets + escrow + withheld \in Nat
          /\ wallets' + escrow' + withheld' \in Nat
      BY <1>1, <2>3, Zenon
    <2> QED
      BY <2>1, <2>2, <2>4, Zenon
  <1> DEFINE all == Total + Sd2Ld(RemoteTotal)
             x == Sd2Ld(a)
             y == Sd2Ld(d)
  <1>8. all' = all
    OBVIOUS
  <1> HIDE DEF all, x, y
  <1>9. CASE OFTType = "Adapter"
    <2>1. Held = all /\ oftStore.tvl = x
      BY <1>1, <1>3, <1>6, <1>7, <1>9 DEF all, x
    <2>2. Held' = all /\ oftStore'.tvl = x + y
      BY <1>9, <2>1 DEF y
    <2> QED
      BY <1>1, <1>3, <1>5, <1>7, <1>9, <2>2 DEF Books, NothingLost, all, x, y
  <1>10. CASE OFTType = "Native"
    <2>1. Held + x = all /\ oftStore.tvl = 0
      BY <1>1, <1>3, <1>6, <1>7, <1>10 DEF all, x
    <2>2. Held' + y = Held /\ oftStore'.tvl = 0
      BY <1>10, <2>1 DEF y
    <2>3. x \in Nat /\ y \in Int /\ Abroad' = x + y
      BY <1>3, <1>5 DEF x, y
    <2>4. Held' + Abroad' = all
      BY <1>7, <2>1, <2>2, <2>3
    <2> QED
      BY <1>7, <1>8, <1>10, <2>2, <2>4 DEF Books, NothingLost, all
  <1> QED
    BY <1>1, <1>9, <1>10

\* So does one that moves nothing between the chains.
LEMMA BooksStay ==
    ASSUME IInv, IInv', Books, UNCHANGED <<remote, pending>>, Held' = Held,
           oftStore'.tvl = oftStore.tvl
    PROVE  Books'
  <1>1. Carried(pending) \in Nat /\ remote \in Nat
    BY Values, CarriedIsSum DEF Books
  <1>2. /\ IsFiniteSet(pending')
        /\ remote' + Carried(pending') = remote + Carried(pending) + 0
    BY <1>1 DEF Books
  <1>3. Held \in Nat /\ oftStore.tvl \in Nat
    BY Values DEF Held
  <1>4. Sd2Ld(0) = 0
    BY SolanaOFTAssumption DEF Sd2Ld
  <1> QED
    BY <1>2, <1>3, <1>4, BooksMove

\* Nothing is abroad at first.
LEMMA InitBooks == Init => Books
  <1> SUFFICES ASSUME Init PROVE Books
    OBVIOUS
  <1>1. pending = {} /\ IsFiniteSet(pending) /\ pending \subseteq Message
    BY FS_EmptySet DEF Init
  <1>2. Carried(pending) = 0
    <2>1. Carried(pending) = SumFunctionOnSet(AmountOf, pending)
      BY <1>1, CarriedIsSum
    <2> QED
      BY <1>1, <2>1, SumZero
  <1>3. Abroad = Sd2Ld(RemoteTotal)
    <2>1. Abroad = Sd2Ld(remote + Carried(pending)) /\ remote = RemoteTotal
      BY DEF Abroad, Init
    <2>2. RemoteTotal + 0 = RemoteTotal
      BY SolanaOFTAssumption
    <2> QED
      BY <1>2, <2>1, <2>2
  <1>4. OFTType = "Adapter" => Sd2Ld(RemoteTotal) = 0
    BY SolanaOFTAssumption DEF Sd2Ld
  <1>5. Sd2Ld(RemoteTotal) \in Nat /\ Total \in Nat
    BY SolanaOFTAssumption DEF Sd2Ld
  <1>6. /\ wallets = Total /\ escrow = 0 /\ withheld = 0 /\ oftStore.tvl = 0
    BY DEF Init
  <1>7. NothingLost
    BY <1>3, <1>4, <1>5, <1>6, SolanaOFTAssumption DEF NothingLost
  <1> QED
    BY <1>1, <1>3, <1>4, <1>6, <1>7 DEF Books

\* A transfer of the token keeps what is held, its fee included.
LEMMA TransferKeepsHeld ==
    ASSUME TypeOK, NEW amount \in Nat
    PROVE  /\ FeeOnTransfer(amount) \in Nat /\ PostFeeAmount(amount) \in Nat
           /\ PostFeeAmount(amount) + FeeOnTransfer(amount) = amount
  BY FeeOnTransferBound DEF PostFeeAmount

\* A send takes from what is held here, or locks, what it adds abroad.
LEMMA SendBooks ==
    ASSUME IInv, IInv', Books, NEW amount \in Nat, NEW minAmount \in Nat,
           Send(amount, minAmount)
    PROVE  Books'
  <1> DEFINE quote == Quote(amount)
             d == Ld2Sd(quote.received)
  <1>1. /\ quote.sent \in Nat /\ quote.received \in Nat /\ quote.fee \in Nat
        /\ OFTType # "Adapter" =>
              quote.received + quote.fee = quote.sent
        /\ Sd2Ld(d) = quote.received
    BY QuoteCovers DEF IInv
  <1>2. d \in Nat
    BY <1>1, SolanaOFTAssumption, DivNat DEF Ld2Sd
  <1>3. /\ FeeOnTransfer(quote.sent) \in Nat
        /\ PostFeeAmount(quote.sent) \in Nat
        /\ PostFeeAmount(quote.sent) + FeeOnTransfer(quote.sent) = quote.sent
    BY <1>1, TransferKeepsHeld DEF IInv
  <1>4. /\ wallets' = wallets - quote.sent
        /\ remote' = remote + d /\ pending' = pending
        /\ IF OFTType = "Adapter"
           THEN /\ oftStore' = [oftStore EXCEPT !.tvl = @ + quote.received]
                /\ escrow' = escrow + PostFeeAmount(quote.sent)
                /\ withheld' = withheld + FeeOnTransfer(quote.sent)
           ELSE /\ escrow' = escrow + quote.fee
                /\ UNCHANGED <<oftStore, withheld>>
    BY DEF Send
  <1>5. Carried(pending) \in Nat
    BY Values, CarriedIsSum DEF Books
  <1> HIDE DEF quote, d
  <1>6. /\ IsFiniteSet(pending')
        /\ remote' + Carried(pending') = remote + Carried(pending) + d
    BY <1>2, <1>4, <1>5, Values DEF Books
  <1>7. CASE OFTType = "Adapter"
    <2>1. oftStore'.tvl = oftStore.tvl + Sd2Ld(d)
      BY <1>1, <1>4, <1>7, Values DEF OFTStore
    <2>2. Held' = Held
      <3>1. Held = wallets + escrow + withheld
        BY DEF Held
      <3>2. Held' = wallets' + escrow' + withheld'
        BY DEF Held
      <3>3. wallets' + escrow' + withheld' = wallets + escrow + withheld
        BY <1>1, <1>3, <1>4, <1>7, Values
      <3> QED
        BY <3>1, <3>2, <3>3, Zenon
    <2> QED
      BY <1>2, <1>6, <1>7, <2>1, <2>2, BooksMove
  <1>8. CASE OFTType # "Adapter"
    <2>1. oftStore'.tvl = oftStore.tvl
      BY <1>4, <1>8
    <2>2. Held' + Sd2Ld(d) = Held
      <3>1. Held = wallets + escrow + withheld
        BY DEF Held
      <3>2. Held' = wallets' + escrow' + withheld'
        BY DEF Held
      <3>3. (wallets' + escrow' + withheld') + quote.received
               = wallets + escrow + withheld
        BY <1>1, <1>4, <1>8, Values
      <3> QED
        BY <1>1, <3>1, <3>2, <3>3, Zenon
    <2> QED
      BY <1>2, <1>6, <1>8, <2>1, <2>2, BooksMove
  <1> QED
    BY <1>7, <1>8

\* A receipt is the reverse, for what its message carried.
LEMMA LzReceiveBooks ==
    ASSUME IInv, IInv', Books, NEW message \in pending, LzReceive(message)
    PROVE  Books'
  <1> DEFINE amount == Sd2Ld(message.amount)
             d == -message.amount
  <1>1. /\ message \in Message /\ message.amount \in Nat
        /\ AmountOf[message] = message.amount
    BY Values DEF Message, AmountOf
  <1>2. amount \in Nat /\ d \in Int /\ Sd2Ld(d) = -amount
    BY <1>1, SolanaOFTAssumption DEF Sd2Ld
  <1>3. /\ pending' = pending \ {message} /\ remote' = remote
        /\ IF OFTType = "Adapter"
           THEN /\ oftStore' = [oftStore EXCEPT !.tvl = @ - amount]
                /\ escrow' = escrow - amount
                /\ wallets' = wallets + PostFeeAmount(amount)
                /\ withheld' = withheld + FeeOnTransfer(amount)
           ELSE /\ wallets' = wallets + amount
                /\ UNCHANGED <<oftStore, escrow, withheld>>
    BY DEF LzReceive
  <1>4. /\ IsFiniteSet(pending) /\ IsFiniteSet(pending \ {message})
        /\ pending \subseteq Message /\ pending \ {message} \subseteq Message
    BY Values, FS_RemoveElement DEF Books
  <1>5. /\ Carried(pending) = message.amount + Carried(pending \ {message})
        /\ Carried(pending \ {message}) \in Nat
    <2>1. \A m \in pending : AmountOf[m] \in Nat
      BY <1>4 DEF AmountOf, Message
    <2>2. SumFunctionOnSet(AmountOf, pending) =
             AmountOf[message]
                + SumFunctionOnSet(AmountOf, pending \ {message})
      BY <1>4, <2>1, SumRemove
    <2> QED
      BY <1>1, <1>4, <2>2, CarriedIsSum
  <1>6. /\ FeeOnTransfer(amount) \in Nat /\ PostFeeAmount(amount) \in Nat
        /\ PostFeeAmount(amount) + FeeOnTransfer(amount) = amount
    BY <1>2, TransferKeepsHeld DEF IInv
  <1>7. remote' + Carried(pending') = remote + Carried(pending) + d
    BY <1>1, <1>3, <1>5, Values
  <1> HIDE DEF amount, d
  <1>8. CASE OFTType = "Adapter"
    <2>1. oftStore'.tvl = oftStore.tvl + Sd2Ld(d)
      BY <1>2, <1>3, <1>8, Values DEF OFTStore
    <2>2. Held' = Held
      <3>1. Held = wallets + escrow + withheld
        BY DEF Held
      <3>2. Held' = wallets' + escrow' + withheld'
        BY DEF Held
      <3>3. wallets' + escrow' + withheld' = wallets + escrow + withheld
        BY <1>2, <1>3, <1>6, <1>8, Values
      <3> QED
        BY <3>1, <3>2, <3>3, Zenon
    <2> QED
      BY <1>2, <1>3, <1>4, <1>7, <1>8, <2>1, <2>2, BooksMove
  <1>9. CASE OFTType # "Adapter"
    <2>1. oftStore'.tvl = oftStore.tvl
      BY <1>3, <1>9
    <2>2. Held' + Sd2Ld(d) = Held
      <3>1. Held = wallets + escrow + withheld
        BY DEF Held
      <3>2. Held' = wallets' + escrow' + withheld'
        BY DEF Held
      <3>3. (wallets' + escrow' + withheld') + Sd2Ld(d)
               = wallets + escrow + withheld
        BY <1>2, <1>3, <1>9, Values
      <3> QED
        BY <3>1, <3>2, <3>3, Zenon
    <2> QED
      BY <1>2, <1>3, <1>4, <1>7, <1>9, <2>1, <2>2, BooksMove
  <1> QED
    BY <1>8, <1>9

\* What the peer chain sends is abroad all the same.
LEMMA RemoteSendBooks ==
    ASSUME IInv, IInv', Books, NEW id \in 1..2,
           NEW amount \in 1..(Total + RemoteTotal), RemoteSend(id, amount)
    PROVE  Books'
  <1> DEFINE new == [id |-> id, amount |-> amount]
  <1>1. amount \in Nat /\ new \in Message /\ AmountOf[new] = amount
    BY SolanaOFTAssumption DEF Message, AmountOf
  <1>2. /\ remote' = remote - amount /\ new \notin pending
        /\ pending' = pending \union {new}
        /\ UNCHANGED <<oftStore, wallets, escrow, withheld>>
    BY DEF RemoteSend, tokenVars
  <1> HIDE DEF new
  <1>3. /\ IsFiniteSet(pending) /\ IsFiniteSet(pending')
        /\ pending \subseteq Message /\ pending' \subseteq Message
    BY <1>1, <1>2, Values, FS_AddElement DEF Books
  <1>4. Carried(pending') = amount + Carried(pending)
        /\ Carried(pending) \in Nat
    <2>1. \A m \in pending' : AmountOf[m] \in Nat
      BY <1>3 DEF AmountOf, Message
    <2>2. new \in pending' /\ pending' \ {new} = pending
      BY <1>2
    <2>3. SumFunctionOnSet(AmountOf, pending') =
             AmountOf[new] + SumFunctionOnSet(AmountOf, pending)
      BY <1>3, <2>1, <2>2, SumRemove
    <2> QED
      BY <1>1, <1>3, <2>3, CarriedIsSum
  <1>5. remote' + Carried(pending') = remote + Carried(pending) + 0
    BY <1>1, <1>2, <1>4, Values
  <1>6. Held' = Held
    BY <1>2 DEF Held
  <1>7. Held \in Nat /\ oftStore.tvl \in Nat
    BY Values DEF Held
  <1>8. Sd2Ld(0) = 0
    BY SolanaOFTAssumption DEF Sd2Ld
  <1> QED
    BY <1>2, <1>3, <1>5, <1>6, <1>7, <1>8, BooksMove

\* Every step keeps the books.
LEMMA NextBooks == IInv /\ Books /\ [Next]_vars => Books'
  <1> SUFFICES ASSUME IInv, Books, [Next]_vars PROVE Books'
    OBVIOUS
  <1>0. IInv'
    BY NextIInv
  <1>1. ASSUME UNCHANGED <<remote, pending, wallets, escrow, withheld>>,
               oftStore'.tvl = oftStore.tvl
        PROVE  Books'
    <2>1. Held' = Held
      BY <1>1 DEF Held
    <2> QED
      BY <1>0, <1>1, <2>1, BooksStay
  <1>2. ASSUME NEW amount \in Nat, UNCHANGED <<remote, pending, oftStore>>,
               withheld' = withheld + FeeOnTransfer(amount),
               \/ /\ escrow' = escrow - amount
                  /\ wallets' = wallets + PostFeeAmount(amount)
               \/ /\ wallets' = wallets - amount
                  /\ escrow' = escrow + PostFeeAmount(amount)
        PROVE  Books'
    <2>1. /\ FeeOnTransfer(amount) \in Nat /\ PostFeeAmount(amount) \in Nat
          /\ PostFeeAmount(amount) + FeeOnTransfer(amount) = amount
      BY <1>2, TransferKeepsHeld DEF IInv
    <2>2. Held' = Held
      <3>1. Held = wallets + escrow + withheld
        BY DEF Held
      <3>2. Held' = wallets' + escrow' + withheld'
        BY DEF Held
      <3>3. wallets' + escrow' + withheld' = wallets + escrow + withheld
        BY <1>2, <2>1, Values
      <3> QED
        BY <3>1, <3>2, <3>3, Zenon
    <2> QED
      BY <1>0, <1>2, <2>2, BooksStay
  <1>3. Amounts \subseteq Nat /\ Orders \subseteq Nat
    BY SolanaOFTAssumption, RateLimiterAssumption DEF U64
  <1>4. CASE BridgeStep
    <2>1. ASSUME NEW amount \in Amounts, NEW minAmount \in Amounts,
                 Send(amount, minAmount)
          PROVE  Books'
      BY <1>0, <1>3, <2>1, SendBooks
    <2>2. ASSUME NEW message \in pending, LzReceive(message) PROVE Books'
      BY <1>0, <2>2, LzReceiveBooks
    <2> QED
      BY <1>4, <2>1, <2>2 DEF BridgeStep
  <1>5. CASE AdminStep
    <2> SUFFICES ASSUME NEW signer \in Signers,
                        \/ \E request \in ConfigRequests :
                              SetOFTConfig(signer, request)
                        \/ \E paused \in BOOLEAN : SetPause(signer, paused)
                        \/ SetPeerConfig(signer)
                        \/ \E fee \in Amounts : WithdrawFee(signer, fee)
                 PROVE  Books'
      BY <1>5 DEF AdminStep
    <2>1. ASSUME NEW request \in ConfigRequests, SetOFTConfig(signer, request)
          PROVE  Books'
      <3>1. oftStore'.tvl = oftStore.tvl
        BY <2>1, Values, AfterConfigKeeps DEF SetOFTConfig
      <3> QED
        BY <1>1, <2>1, <3>1
           DEF SetOFTConfig, ConfigOnly, tokenVars, remoteVars
    <2>2. ASSUME NEW paused \in BOOLEAN, SetPause(signer, paused)
          PROVE  Books'
      <3>1. oftStore'.tvl = oftStore.tvl
        BY <2>2, Values DEF SetPause, OFTStore
      <3> QED
        BY <1>1, <2>2, <3>1 DEF SetPause, ConfigOnly, tokenVars, remoteVars
    <2>3. CASE SetPeerConfig(signer)
      <3>1. UNCHANGED <<oftStore, tokenVars, remoteVars, clock>>
        BY <2>3 DEF SetPeerConfig, ConfigOnly
      <3> QED
        BY <1>1, <3>1 DEF tokenVars, remoteVars
    <2>4. ASSUME NEW fee \in Amounts, WithdrawFee(signer, fee) PROVE Books'
      BY <1>2, <1>3, <2>4 DEF WithdrawFee, remoteVars
    <2> QED
      BY <2>1, <2>2, <2>3, <2>4
  <1>6. CASE OtherStep
    <2>1. ASSUME NEW id \in 1..2, NEW amount \in 1..(Total + RemoteTotal),
                 RemoteSend(id, amount)
          PROVE  Books'
      BY <1>0, <2>1, RemoteSendBooks
    <2>2. ASSUME NEW amount \in Amounts, Donate(amount) PROVE Books'
      BY <1>2, <1>3, <2>2 DEF Donate, remoteVars
    <2>3. CASE NextEpoch
      BY <1>1, <2>3 DEF NextEpoch, remoteVars
    <2>4. CASE Tick
      BY <1>1, <2>4 DEF Tick, tokenVars, remoteVars
    <2>5. ASSUME NEW direction \in Directions, Watch(direction) PROVE Books'
      BY <1>1, <2>5 DEF Watch, tokenVars, remoteVars
    <2> QED
      BY <1>6, <2>1, <2>2, <2>3, <2>4, <2>5 DEF OtherStep
  <1>7. CASE SendTaskStep
    <2>1. ASSUME NEW amount \in Orders, QuoteOrder(amount) PROVE Books'
      BY <1>1, <2>1 DEF QuoteOrder, tokenVars, remoteVars
    <2>2. CASE SendOrder
      <3>1. order \in Orders
        BY <2>2, Values DEF SendOrder
      <3>2. order \in Nat /\ LeastReceived(order) \in Nat
        <4>1. order \in Nat /\ order * 9 \in Nat
          BY <1>3, <3>1
        <4> QED
          BY <4>1, DivNat DEF LeastReceived
      <3> QED
        BY <1>0, <2>2, <3>2, SendBooks DEF SendOrder
    <2>3. CASE DropOrder
      BY <1>1, <2>3 DEF DropOrder, tokenVars, remoteVars
    <2> QED
      BY <1>7, <2>1, <2>2, <2>3 DEF SendTaskStep
  <1>8. CASE UNCHANGED vars
    BY <1>1, <1>8 DEF vars, tokenVars, remoteVars
  <1> QED
    BY <1>4, <1>5, <1>6, <1>7, <1>8 DEF Next

-----------------------------------------------------------------------------
(* The theorems.                                                           *)

\* The accounts, the balances and the buckets keep their types: no amount or
\* fee is ever negative, tvl_ld and the buckets stay within 64 bits, and
\* neither set_oft_config nor a fee is ever a whole.
THEOREM SolanaTypeCorrect == Spec => []TypeOK
  <1>1. IInv => TypeOK
    BY DEF IInv
  <1> QED
    BY <1>1, Invariant, PTL

\* Over any stretch of time in which a bucket's capacity is not set, what
\* passes it, less what comes back, is at most its capacity and what it
\* earned, for every capacity, rate, amount and interleaving.
THEOREM SolanaRateLimit == Spec => []RateLimitHolds
  <1>1. IInv => RateLimitHolds
    BY WindowLimits
  <1> QED
    BY <1>1, Invariant, PTL

\* The escrow account holds at least tvl_ld, for every transfer fee, dust and
\* OFT fee: withdraw_fee never underflows and never takes principal.
THEOREM SolanaEscrow == Spec => []EscrowHoldsTvl
  <1>1. IInv => EscrowHoldsTvl
    BY DEF IInv
  <1> QED
    BY <1>1, Invariant, PTL

\* The ledger adds up in every state that can be reached.
LEMMA LedgerInvariant == Spec => []Books
  <1>1. Init => Books
    BY InitBooks
  <1>2. IInv /\ Books /\ [Next]_vars => Books'
    BY NextBooks
  <1> QED
    BY <1>1, <1>2, Invariant, PTL DEF Spec

\* Nothing is lost between the chains, for every amount, fee, rate and order
\* of the messages: what is held here and, of a Native OFT, what the peer
\* chain has or has sent, add up to what there was at the start.
THEOREM SolanaNothingLost == Spec => []NothingLost
  <1>1. Books => NothingLost
    BY DEF Books
  <1> QED
    BY <1>1, LedgerInvariant, PTL

\* What an Adapter has locked is in the escrow and is all that the peer chain
\* can send back: no receipt ever finds the escrow or tvl_ld too small.
THEOREM SolanaEscrowCovers == Spec => []EscrowCoversTvl
  <1>1. IInv /\ Books => EscrowCoversTvl
    BY DEF IInv, Books, EscrowCoversTvl
  <1> QED
    BY <1>1, Invariant, LedgerInvariant, PTL

\* Whatever the fees of the mint and of the OFT, a sender is never debited
\* more than it asked to send, and what reaches the escrow pays for what is
\* bridged and for the OFT fee.
THEOREM SolanaQuote == Spec => []QuoteIsFair
  <1>1. IInv => QuoteIsFair
    <2> SUFFICES ASSUME IInv, NEW amount \in Amounts
                 PROVE  /\ Quote(amount).sent <= amount
                        /\ Quote(amount).received + Quote(amount).fee <=
                              IF OFTType = "Adapter"
                              THEN PostFeeAmount(Quote(amount).sent)
                              ELSE Quote(amount).sent
      BY DEF QuoteIsFair
    <2>1. amount \in Nat
      BY SolanaOFTAssumption, RateLimiterAssumption DEF U64
    <2> QED
      BY <2>1, QuoteCovers DEF IInv
  <1> QED
    BY <1>1, Invariant, PTL

\* A message that the inbound bucket refuses waits no longer than the bucket
\* takes to earn its amount, unless the amount is above its capacity: for
\* every bucket and message.
THEOREM SolanaReceivable == Spec => []ReceivableUnlessTooLarge
  <1>1. IInv => ReceivableUnlessTooLarge
    <2> DEFINE l == peer.inbound
    <2> SUFFICES ASSUME IInv, NEW m \in pending, l # None,
                        l.refillPerSecond # 0
                 PROVE  Affords(l, Sd2Ld(m.amount), clock
                                 + CeilDiv(Sd2Ld(m.amount), l.refillPerSecond))
                          <=> Sd2Ld(m.amount) <= l.capacity
      BY DEF ReceivableUnlessTooLarge
    <2> DEFINE amount == Sd2Ld(m.amount)
               wait == CeilDiv(amount, l.refillPerSecond)
    <2>1. amount \in Nat /\ clock \in Nat
      BY Values, SolanaOFTAssumption DEF Sd2Ld, Message
    <2>2. l \in Bucket /\ l.lastRefillTime <= clock
      BY DEF IInv, BucketsOK, Directions
    <2>3. l.refillPerSecond \in Nat \ {0}
      BY <2>2, RateLimiterAssumption DEF Bucket, Limiter, U64
    <2>4. wait \in Nat /\ amount <= l.refillPerSecond * wait
      BY <2>1, <2>3, CeilDivLeast
    <2> HIDE DEF l, amount, wait
    <2>5. amount <= wait * l.refillPerSecond
      BY <2>3, <2>4
    <2>6. Affords(l, amount, clock + wait) <=> amount <= l.capacity
      BY <2>1, <2>2, <2>4, <2>5, AffordsAfterWait
    <2> QED
      BY <2>6 DEF amount, wait
  <1> QED
    BY <1>1, Invariant, PTL

\* The program has a fee be less than the whole.
FeeAccepted(request) ==
    "defaultFeeBps" \in DOMAIN request => request["defaultFeeBps"] < OneInBps

\* What a field is after the i-th instruction of set-config.
FieldAfter(before, i, request, field) ==
    IF field = ConfigOrder[i] /\ field \in DOMAIN request
    THEN request[field] ELSE before[field]

\* A store in which the rest is as it was.
SetsOnly(before, i, request, after) ==
    /\ after \in OFTStore
    /\ \A field \in DOMAIN before :
          after[field] = FieldAfter(before, i, request, field)

\* One instruction of set-config, signed by the administrator, is accepted
\* and sets its field alone.
LEMMA ThenSets ==
    ASSUME NEW store \in OFTStore, NEW request \in ConfigRequests,
           NEW i \in 1..5, FeeAccepted(request)
    PROVE  SetsOnly(store, i, request, Then(store, store.admin, request, i))
  <1> DEFINE field == ConfigOrder[i]
             after == Then(store, store.admin, request, i)
             value == request[field]
  <1>1. field \in {"defaultFeeBps", "paused", "pauser", "unpauser", "admin"}
    BY DEF ConfigOrder
  <1> HIDE DEF field
  <1>2. CASE field \notin DOMAIN request
    BY <1>2 DEF Then, field, SetsOnly, FieldAfter
  <1>3. CASE field \in DOMAIN request
    <2>1. store # None /\ (field = "defaultFeeBps" => value < OneInBps)
      BY <1>3, SolanaOFTAssumption DEF FeeAccepted
    <2>2. after = [store EXCEPT ![field] = value]
      BY <1>3, <2>1 DEF Then, Configured, field
    <2>3. \/ field = "defaultFeeBps" /\ value \in 0..(OneInBps - 1)
          \/ field = "paused" /\ value \in BOOLEAN
          \/ field \in {"pauser", "unpauser"} /\ value \in Signers \union {None}
          \/ field = "admin" /\ value \in Signers
      BY <1>3, <2>1, SolanaOFTAssumption
    <2> HIDE DEF after, value
    <2>4. after \in OFTStore
      BY <2>2, <2>3 DEF OFTStore
    <2>5. \A f \in DOMAIN store :
             after[f] = IF f = field THEN value ELSE store[f]
      BY <2>2
    <2> QED
      BY <1>3, <2>4, <2>5 DEF after, value, field, SetsOnly, FieldAfter
  <1> QED
    BY <1>2, <1>3

\* The administrator goes last: set-config is accepted whole, whatever it is
\* asked for.
THEOREM SolanaConfigWhole == Spec => []ConfigAcceptedWhole
  <1>1. IInv => ConfigAcceptedWhole
    <2> SUFFICES ASSUME IInv, NEW request \in ConfigRequests,
                        FeeAccepted(request)
                 PROVE  LET store == AfterConfig(oftStore.admin, request)
                        IN  /\ store # None
                            /\ \A field \in DOMAIN oftStore :
                                  store[field] = IF field \in DOMAIN request
                                                 THEN request[field]
                                                 ELSE oftStore[field]
      BY DEF ConfigAcceptedWhole, FeeAccepted
    <2> DEFINE Fields == {"defaultFeeBps", "paused", "pauser", "unpauser",
                          "admin", "tvl"}
               Value(store, field) == store[field]
               Asked(field) == request[field]
               After(store, i) == Then(store, oftStore.admin, request, i)
               Sets(before, i, after) ==
                  /\ after \in OFTStore
                  /\ \A field \in Fields :
                        /\ field = ConfigOrder[i] /\ field \in DOMAIN request
                           => Value(after, field) = Asked(field)
                        /\ field # ConfigOrder[i] \/ field \notin DOMAIN request
                           => Value(after, field) = Value(before, field)
               s1 == After(oftStore, 1)
               s2 == After(s1, 2)
               s3 == After(s2, 3)
               s4 == After(s3, 4)
               s5 == After(s4, 5)
    <2>1. ASSUME NEW store \in OFTStore,
                 Value(store, "admin") = Value(oftStore, "admin"),
                 NEW i \in 1..5
          PROVE  Sets(store, i, After(store, i))
      <3> DEFINE after == Then(store, store.admin, request, i)
      <3>1. SetsOnly(store, i, request, after)
        BY ThenSets
      <3>2. After(store, i) = after
        BY <2>1
      <3>3. DOMAIN store = Fields
        BY DEF OFTStore
      <3> HIDE DEF after, After, Fields
      <3> QED
        BY <3>1, <3>2, <3>3 DEF SetsOnly, FieldAfter
    <2>2. /\ ConfigOrder[1] = "defaultFeeBps" /\ ConfigOrder[2] = "paused"
          /\ ConfigOrder[3] = "pauser" /\ ConfigOrder[4] = "unpauser"
          /\ ConfigOrder[5] = "admin"
      BY DEF ConfigOrder
    <2>3. oftStore \in OFTStore /\ DOMAIN oftStore = Fields
      BY Values DEF OFTStore
    <2> HIDE DEF After, Value, Asked
    <2>4. Sets(oftStore, 1, s1)
      BY <2>1, <2>3
    <2> HIDE DEF s1
    <2>5. Value(s1, "admin") = Value(oftStore, "admin")
      BY <2>2, <2>4
    <2>6. Sets(s1, 2, s2)
      BY <2>1, <2>4, <2>5
    <2> HIDE DEF s2
    <2>7. Value(s2, "admin") = Value(oftStore, "admin")
      BY <2>2, <2>5, <2>6
    <2>8. Sets(s2, 3, s3)
      BY <2>1, <2>6, <2>7
    <2> HIDE DEF s3
    <2>9. Value(s3, "admin") = Value(oftStore, "admin")
      BY <2>2, <2>7, <2>8
    <2>10. Sets(s3, 4, s4)
      BY <2>1, <2>8, <2>9
    <2> HIDE DEF s4
    <2>11. Value(s4, "admin") = Value(oftStore, "admin")
      BY <2>2, <2>9, <2>10
    <2>12. Sets(s4, 5, s5)
      BY <2>1, <2>10, <2>11
    <2> HIDE DEF s5
    <2>13. ASSUME NEW field \in Fields
           PROVE  Value(s5, field) = IF field \in DOMAIN request
                                     THEN Asked(field)
                                     ELSE Value(oftStore, field)
      <3>1. "tvl" \notin DOMAIN request
        BY SolanaOFTAssumption
      <3>2. CASE field \notin DOMAIN request
        BY <2>4, <2>6, <2>8, <2>10, <2>12, <3>2
      <3>3. CASE field = "defaultFeeBps" /\ field \in DOMAIN request
        BY <2>2, <2>4, <2>6, <2>8, <2>10, <2>12, <3>3
      <3>4. CASE field = "paused" /\ field \in DOMAIN request
        BY <2>2, <2>6, <2>8, <2>10, <2>12, <3>4
      <3>5. CASE field = "pauser" /\ field \in DOMAIN request
        BY <2>2, <2>8, <2>10, <2>12, <3>5
      <3>6. CASE field = "unpauser" /\ field \in DOMAIN request
        BY <2>2, <2>10, <2>12, <3>6
      <3>7. CASE field = "admin" /\ field \in DOMAIN request
        BY <2>2, <2>12, <3>7
      <3> QED
        BY <3>1, <3>2, <3>3, <3>4, <3>5, <3>6, <3>7
    <2>14. AfterConfig(oftStore.admin, request) = s5
      BY DEF AfterConfig, After, s1, s2, s3, s4, s5
    <2>15. s5 # None
      BY <2>12, SolanaOFTAssumption
    <2> QED
      BY <2>3, <2>13, <2>14, <2>15 DEF Value, Asked
  <1> QED
    BY <1>1, Invariant, PTL

\* Nine tenths, rounded down, leave no more than a tenth rounded up.
LEMMA LeastReceivedBound ==
    ASSUME NEW amount \in Nat
    PROVE  /\ LeastReceived(amount) \in Nat
           /\ amount - LeastReceived(amount) <= CeilDiv(amount, 10)
  <1>1. /\ CeilDiv(amount, 10) \in Nat
        /\ amount <= 10 * CeilDiv(amount, 10)
    BY CeilDivLeast
  <1> DEFINE least == (amount * 9) \div 10
  <1>2. /\ least \in Nat /\ (amount * 9) % 10 \in Int
        /\ amount * 9 = 10 * least + ((amount * 9) % 10)
        /\ 0 <= (amount * 9) % 10 /\ (amount * 9) % 10 < 10
    <2>1. amount * 9 \in Nat
      OBVIOUS
    <2> QED
      BY <2>1, DivMod, DivNat
  <1> HIDE DEF least
  <1>3. amount - least <= CeilDiv(amount, 10)
    BY <1>1, <1>2
  <1> QED
    BY <1>2, <1>3 DEF LeastReceived, least

\* Whatever happens between the quote of the send task and its transaction,
\* the sender pays no more than it asked to send, and all but a tenth of that
\* reaches the peer chain.
THEOREM SolanaSlippage == Spec => SlippageBounded
  <1> DEFINE Sent == order # None /\ remote' > remote /\ order' = None
             Bounded == /\ wallets - wallets' <= order
                        /\ order - Sd2Ld(remote' - remote)
                             <= CeilDiv(order, 10)
  <1>1. IInv /\ [Next]_vars => [Sent => Bounded]_vars
    <2> SUFFICES ASSUME IInv, Next, Sent PROVE Bounded
      OBVIOUS
    <2>1. SendOrder
      <3>1. ~UNCHANGED order
        OBVIOUS
      <3>2. ~DropOrder
        <4> SUFFICES ASSUME DropOrder PROVE FALSE
          OBVIOUS
        <4>1. remote' = remote
          BY DEF DropOrder, remoteVars
        <4> QED
          BY <4>1, Values
      <3>3. \A amount \in Orders : ~QuoteOrder(amount)
        BY DEF QuoteOrder
      <3> QED
        BY <3>1, <3>2, <3>3 DEF Next, SendTaskStep
    <2>2. order \in Nat
      <3>1. order \in Orders
        BY Values
      <3> QED
        BY <3>1, SolanaOFTAssumption, RateLimiterAssumption DEF U64
    <2> DEFINE quote == Quote(order)
               carried == Ld2Sd(quote.received)
    <2>3. /\ quote.received >= LeastReceived(order)
          /\ wallets' = wallets - quote.sent
          /\ remote' = remote + carried
      BY <2>1 DEF SendOrder, Send
    <2>4. /\ quote.sent \in Nat /\ quote.sent <= order
          /\ quote.received \in Nat /\ Sd2Ld(carried) = quote.received
      BY <2>2, QuoteCovers DEF IInv
    <2>5. carried \in Nat
      BY <2>4, SolanaOFTAssumption, DivNat DEF Ld2Sd
    <2>6. /\ LeastReceived(order) \in Nat
          /\ order - LeastReceived(order) <= CeilDiv(order, 10)
          /\ CeilDiv(order, 10) \in Nat
      BY <2>2, LeastReceivedBound, CeilDivLeast
    <2> HIDE DEF quote, carried
    <2>7. remote' - remote = carried
      BY <2>3, <2>5, Values
    <2>8. wallets - wallets' = quote.sent
      BY <2>3, <2>4, Values
    <2> QED
      BY <2>2, <2>3, <2>4, <2>6, <2>7, <2>8
  <1> QED
    BY <1>1, Invariant, PTL DEF Spec, SlippageBounded
=============================================================================
