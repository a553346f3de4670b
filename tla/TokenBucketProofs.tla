--------------------------- MODULE TokenBucketProofs ---------------------------
(***************************************************************************)
(* Proofs about TokenBucket, for every configured rate, burst and split,   *)
(* and every set of costs.                                                 *)
(***************************************************************************)
EXTENDS TokenBucket, TLAPS

\* Division by the period: the quotient counts whole periods.
LEMMA DivFacts ==
  ASSUME NEW e \in Nat, NEW p \in Nat, p > 0
  PROVE  /\ (e \div p) \in Nat
         /\ (e \div p) * p <= e
         /\ e < (e \div p) * p + p
BY SMT

\* A share of the configured rate: positive, and the shares add up to no more
\* than the rate, or than one each.
LEMMA ShareFacts ==
  ASSUME NEW amount \in Nat, amount > 0, NEW shares \in Nat, shares > 0
  PROVE  /\ Share(amount, shares) \in Nat
         /\ Share(amount, shares) > 0
         /\ Share(amount, shares) * shares
              <= (IF amount >= shares THEN amount ELSE shares)
<1> DEFINE q == amount \div shares
<1>1. q \in Nat /\ q * shares <= amount /\ amount < q * shares + shares
  BY DivFacts
<1>2. Share(amount, shares) = IF q = 0 THEN 1 ELSE q
  BY DEF Share
<1> HIDE DEF q
<1>3. CASE q = 0
  BY <1>1, <1>2, <1>3, SMT
<1>4. CASE q > 0
  <2>1. q * shares >= shares
    BY <1>1, <1>4, SMT
  <2> QED
    BY <1>1, <1>2, <1>4, <2>1, SMT
<1> QED
  BY <1>1, <1>3, <1>4, SMT

\* The period is positive: the share of the rate is at most one per nanosecond.
LEMMA PeriodPositive == Period \in Nat \ {0}
<1> DEFINE r == Share(Rate, Shares)
<1>1. r \in Nat /\ r > 0 /\ r <= Unit /\ Unit \in Nat
  BY RateAssumption, ShareFacts
<1>2. Period = Unit \div r
  BY <1>1, SMT DEF Period, PeriodOf
<1> HIDE DEF r
<1>3. Unit \div r \in Nat /\ Unit < (Unit \div r) * r + r
  BY <1>1, DivFacts
<1>4. Unit \div r # 0
  <2> SUFFICES ASSUME Unit \div r = 0 PROVE FALSE
    OBVIOUS
  <2> QED
    BY <1>1, <1>3, SMT
<1> QED
  BY <1>2, <1>3, <1>4

LEMMA BurstNat == Burst \in Nat
<1>1. Allowed \div Shares \in Nat
  BY RateAssumption, AllowedAssumption, DivFacts
<1> QED
  BY <1>1 DEF Burst, Share

\* What Refill, Level and Drain compute for a bucket that is not ahead of the
\* clock: the time credited lies within one period of the clock, and the level
\* is capped by the burst.
LEMMA RefillFacts ==
  ASSUME NEW b \in Bucket, NEW t \in Nat, b.last <= t,
         NEW p \in Nat, p > 0, NEW burst \in Nat
  PROVE  /\ Refill(b, t, p) \in Nat
         /\ Refill(b, t, p) * p \in Nat
         /\ b.last + Refill(b, t, p) * p <= t
         /\ t < b.last + Refill(b, t, p) * p + p
         /\ Level(b, t, p, burst) \in Nat
         /\ Level(b, t, p, burst) <= burst
         /\ Level(b, t, p, burst) <= b.tokens + Refill(b, t, p)
<1> DEFINE e == t - b.last
           q == e \div p
<1>1. b.tokens \in Nat /\ b.last \in Nat
  BY DEF Bucket
<1>2. e \in Nat
  BY <1>1, SMT
<1>3. q \in Nat /\ q * p <= e /\ e < q * p + p
  BY <1>2, DivFacts
<1>4. Refill(b, t, p) = q
  BY DEF Refill
<1>5. q * p \in Nat
  BY <1>3, SMT
<1> HIDE DEF q
<1>6. /\ b.last + q * p <= t
      /\ t < b.last + q * p + p
  BY <1>1, <1>3, <1>5, SMT
<1>7. /\ Level(b, t, p, burst) \in Nat
      /\ Level(b, t, p, burst) <= burst
      /\ Level(b, t, p, burst) <= b.tokens + q
  BY <1>1, <1>3, <1>4, SMT DEF Level
<1> QED
  BY <1>3, <1>4, <1>5, <1>6, <1>7

\* The inductive invariant holds initially.
LEMMA InitIInv == Init => IInv
BY PeriodPositive, BurstNat, CostAssumption, SMT
   DEF Init, IInv, TypeOK, BucketSane, WindowInv, Bucket, ZeroBucket

LEMMA DepthFacts == Depth \in Nat /\ Burst <= Depth /\ MaxCost <= Depth
BY BurstNat, CostAssumption, SMT DEF Depth

\* ... and every step preserves it.
LEMMA NextIInv == IInv /\ [Next]_vars => IInv'
<1> SUFFICES ASSUME IInv, [Next]_vars PROVE IInv'
  OBVIOUS
<1> USE DEF IInv
<1>d. Depth' = Depth /\ Period' = Period /\ Burst' = Burst
  BY DEF Depth, Period, Burst, Share, PeriodOf
<1>1. ASSUME NEW cost \in Costs, First(cost) PROVE IInv'
  <2>1. cost \in 1..MaxCost
    BY CostAssumption
  <2> DEFINE nb == FirstBucket(now, Burst, cost)
  <2>2. /\ nb \in Bucket
        /\ nb.last = now
        /\ nb.tokens <= Burst
        /\ cost + nb.tokens <= Depth
        /\ nb.tokens \in Nat
    BY <2>1, BurstNat, CostAssumption, DepthFacts, SMT
    DEF FirstBucket, Bucket, TypeOK
  <2>3. taken = 0
    BY <1>1, SMT DEF First, WindowInv, TypeOK
  <2> HIDE DEF nb
  <2>4. bucket' = nb /\ taken' = cost /\ start' = start /\ now' = now
        /\ known' = TRUE /\ granted' = now
    BY <1>1, <2>1, <2>3, CostAssumption, SMT DEF First, nb
  <2>5. (cost + nb.tokens - Depth) * Period <= 0
    BY <2>1, <2>2, DepthFacts, PeriodPositive, CostAssumption, SMT
  <2>6. WindowInv'
    <3>1. (taken' + bucket'.tokens - Depth') * Period <= 0
      BY <1>d, <2>4, <2>5
    <3>2. 0 < (bucket'.last - start') + Period
      BY <2>2, <2>4, PeriodPositive, SMT DEF TypeOK
    <3>3. (taken' + bucket'.tokens - Depth') * Period \in Int
      BY <1>d, <2>1, <2>2, <2>4, DepthFacts, PeriodPositive, SMT
    <3>4. (bucket'.last - start') + Period \in Int
      BY <2>2, <2>4, PeriodPositive, SMT DEF TypeOK
    <3> DEFINE x == (taken' + bucket'.tokens - Depth') * Period
               y == (bucket'.last - start') + Period
    <3> HIDE DEF x, y
    <3>5. x < y
      BY <3>1, <3>2, <3>3, <3>4, SMT DEF x, y
    <3> QED
      BY <2>4, <3>5 DEF WindowInv, x, y
  <2>7. TypeOK' /\ BucketSane' /\ (start <= now)'
    BY <2>1, <2>2, <2>4, CostAssumption, SMT DEF TypeOK, BucketSane
  <2> QED
    BY <2>6, <2>7
<1>2. ASSUME NEW cost \in Costs, Grant(cost) PROVE IInv'
  <2> DEFINE r == Refill(bucket, now, Period)
             lv == Level(bucket, now, Period, Burst)
  <2>1. cost \in 1..MaxCost /\ cost \in Nat
    BY CostAssumption, SMT
  <2>2. bucket \in Bucket /\ bucket.last <= now /\ now \in Nat
        /\ bucket.last \in Nat /\ bucket.tokens \in Nat
    BY SMT DEF TypeOK, BucketSane, Bucket
  <2>3. /\ r \in Nat /\ r * Period \in Nat
        /\ bucket.last + r * Period <= now
        /\ now < bucket.last + r * Period + Period
        /\ lv \in Nat /\ lv <= Burst /\ lv <= bucket.tokens + r
    BY <2>2, RefillFacts, PeriodPositive, BurstNat
  <2>4. lv >= cost
    BY <1>2 DEF Grant, CanTake
  <2>5. /\ bucket' = [tokens |-> lv - cost, last |-> bucket.last + r * Period]
        /\ taken' = taken + cost /\ granted' = now
        /\ UNCHANGED <<now, known, start>> /\ known = TRUE
    BY <1>2 DEF Grant, Drain, TypeOK
  <2> HIDE DEF r, lv
  <2>6. bucket'.tokens = lv - cost /\ bucket'.last = bucket.last + r * Period
    BY <2>5
  <2>7. bucket' \in Bucket /\ lv - cost \in Nat
    BY <2>1, <2>2, <2>3, <2>4, <2>5, SMT DEF Bucket
  <2>8. TypeOK' /\ BucketSane' /\ (start <= now)'
    BY <2>1, <2>3, <2>5, <2>6, <2>7, BurstNat, SMT DEF TypeOK, BucketSane
  <2>9. WindowInv'
    <3>1. CASE taken = 0
      <4>1. (taken' + bucket'.tokens - Depth) * Period <= 0
        <5>1. taken' + bucket'.tokens - Depth \in Int
              /\ taken' + bucket'.tokens - Depth <= 0
          BY <3>1, <2>1, <2>3, <2>5, <2>6, BurstNat, DepthFacts, SMT
        <5> QED
          BY <5>1, PeriodPositive, SMT
      <4>2. bucket'.last - start' + Period > 0
        BY <2>2, <2>3, <2>5, <2>6, PeriodPositive, SMT DEF TypeOK
      <4> QED
        <5> DEFINE x == (taken' + bucket'.tokens - Depth) * Period
                   y == (bucket'.last - start') + Period
        <5>1. x \in Int /\ y \in Int
          BY <2>1, <2>2, <2>3, <2>5, <2>6, DepthFacts, PeriodPositive, SMT
          DEF TypeOK
        <5> HIDE DEF x, y
        <5>2. x < y
          BY <4>1, <4>2, <5>1, SMT DEF x, y
        <5> QED
          BY <1>d, <2>5, <5>2 DEF WindowInv, x, y
    <3>2. CASE taken > 0
      <4> DEFINE a == taken + bucket.tokens - Depth
                 a2 == taken' + bucket'.tokens - Depth
      <4>1. a \in Int /\ a2 \in Int /\ a2 <= a + r
        BY <2>1, <2>2, <2>3, <2>5, <2>6, DepthFacts, SMT DEF TypeOK
      <4>2. a * Period < (bucket.last - start) + Period
        BY <3>2 DEF WindowInv
      <4> HIDE DEF a, a2
      <4>3. a2 * Period <= a * Period + r * Period
        BY <4>1, <2>3, PeriodPositive, SMT
      <4>4. a2 * Period < (bucket'.last - start) + Period
        <5>1. a * Period \in Int /\ a2 * Period \in Int
          BY <4>1, PeriodPositive, SMT
        <5> QED
          BY <4>2, <4>3, <5>1, <2>2, <2>3, <2>6, PeriodPositive, SMT DEF TypeOK
      <4> QED
        BY <1>d, <4>4, <2>5 DEF WindowInv, a2
    <3> QED
      BY <3>1, <3>2, SMT DEF TypeOK
  <2> QED
    BY <2>8, <2>9
<1>3. ASSUME NEW cost \in Costs, Refuse(cost) PROVE IInv'
  BY <1>3 DEF Refuse, vars, TypeOK, BucketSane, WindowInv, Depth
<1>4. CASE Tick
  BY <1>4, SMT DEF Tick, TypeOK, BucketSane, WindowInv, Depth
<1>5. CASE OpenWindow
  BY <1>5, SMT DEF OpenWindow, TypeOK, BucketSane, WindowInv, Depth
<1>6. CASE UNCHANGED vars
  BY <1>6 DEF vars, TypeOK, BucketSane, WindowInv, Depth
<1> QED
  BY <1>1, <1>2, <1>3, <1>4, <1>5, <1>6 DEF Next

\* The inductive invariant of the bucket.
THEOREM InductiveInvariant == Spec => []IInv
BY InitIInv, NextIInv, PTL DEF Spec

\* The strengthening itself: tokens still held count as taken, and time counts up
\* to the last refill only.
THEOREM WindowStrengthening == Spec => []WindowInv
<1>1. IInv => WindowInv
  BY DEF IInv
<1> QED
  BY InductiveInvariant, <1>1, PTL

\* Every variable keeps its type: ratelimit_take leaves no negative count behind.
THEOREM TypeCorrect == Spec => []TypeOK
<1>1. IInv => TypeOK
  BY DEF IInv
<1> QED
  BY InductiveInvariant, <1>1, PTL

\* Every variable keeps its type and, as long as its calls do not overlap, the bucket
\* never runs ahead of the clock (the u64 subtraction in ratelimit_take does not
\* wrap) and never exceeds its burst.
THEOREM Sanity == Spec => [](TypeOK /\ BucketSane)
<1>1. IInv => TypeOK /\ BucketSane
  BY DEF IInv
<1> QED
  BY InductiveInvariant, <1>1, PTL

\* The limiter's promise, for every period, burst and packet cost: no window of
\* time lets through more than the burst plus what the window refills.
THEOREM RateIsBounded == Spec => []WindowBound
<1>1. IInv => WindowBound
  <2> SUFFICES ASSUME IInv, taken > 0
               PROVE  (taken - Depth) * Period < (now - start) + Period
    BY DEF WindowBound
  <2>1. /\ now \in Nat /\ start \in Nat /\ taken \in Nat
        /\ bucket.tokens \in Nat /\ bucket.last \in Nat /\ bucket.last <= now
    BY SMT DEF IInv, TypeOK, BucketSane, Bucket
  <2> DEFINE a == taken + bucket.tokens - Depth
             b == taken - Depth
  <2>2. a \in Int /\ b \in Int /\ b <= a
    BY <2>1, DepthFacts, SMT
  <2>3. a * Period < (bucket.last - start) + Period
    BY DEF IInv, WindowInv
  <2> HIDE DEF a, b
  <2>4. a * Period \in Int /\ b * Period \in Int /\ b * Period <= a * Period
    BY <2>2, PeriodPositive, SMT
  <2>5. b * Period < (now - start) + Period
    BY <2>1, <2>3, <2>4, PeriodPositive, SMT
  <2> QED
    BY <2>5 DEF b
<1> QED
  BY InductiveInvariant, <1>1, PTL

\* What the operator configured is what a window passes: with the period rounded
\* down and the rate split over the CPUs, each token comes at most one nanosecond
\* early, for every rate, split and burst.
THEOREM RateAsConfigured == Spec => []ConfiguredRate
<1> DEFINE r == Share(Rate, Shares)
           rate == IF Rate >= Shares THEN Rate ELSE Shares
<1>1. /\ Unit \in Nat /\ Rate \in Nat /\ Shares \in Nat /\ Shares > 0
      /\ r \in Nat /\ r > 0 /\ r * Shares <= rate /\ rate \in Nat
  BY RateAssumption, ShareFacts
<1>2. Unit < Period * r + r
  <2>1. Period = Unit \div r
    BY <1>1, SMT DEF Period, PeriodOf
  <2> QED
    BY <1>1, <2>1, DivFacts
<1>3. Period \in Nat
  BY PeriodPositive
<1>4. IInv => (taken \in Nat /\ now - start \in Nat)
  BY SMT DEF IInv, TypeOK
<1> HIDE DEF r, rate
<1>5. WindowBound /\ IInv => ConfiguredRate
  <2> DEFINE x == taken - Depth - 1
             d == now - start
  <2> SUFFICES ASSUME WindowBound, IInv, x > 0
               PROVE  x * Unit * Shares < (d + x) * rate
    BY DEF ConfiguredRate, rate
  <2>1. x \in Nat /\ d \in Nat /\ taken > 0
    BY <1>4, DepthFacts, SMT
  <2>2. (x + 1) * Period < d + Period
    BY <2>1, <1>4, DepthFacts, <1>3, SMT DEF WindowBound
  <2> HIDE DEF x, d
  <2>3. x * Period <= d /\ x * Period \in Nat
    BY <2>1, <2>2, <1>3, SMT
  <2>4. x * Unit < x * (Period * r + r)
    <3>1. Period * r + r \in Nat
      BY <1>1, <1>3, SMT
    <3> QED
      BY <1>1, <1>2, <2>1, <3>1, SMT
  <2>5. x * (Period * r + r) = (x * Period + x) * r
    BY <1>1, <1>3, <2>1, SMT
  <2>6. (x * Period + x) * r <= (d + x) * r
    BY <1>1, <2>1, <2>3, SMT
  <2>7. /\ x * Unit \in Nat /\ (d + x) * r \in Nat
        /\ x * (Period * r + r) \in Nat /\ (x * Period + x) * r \in Nat
    BY <1>1, <1>3, <2>1, <2>3, SMT
  <2>8. x * Unit < (d + x) * r
    <3> DEFINE a == x * Unit
               b == x * (Period * r + r)
               c == (x * Period + x) * r
               e == (d + x) * r
    <3> HIDE DEF a, b, c, e
    <3>1. a < b /\ b = c /\ c <= e /\ a \in Nat /\ b \in Nat /\ c \in Nat /\ e \in Nat
      BY <2>4, <2>5, <2>6, <2>7 DEF a, b, c, e
    <3>2. a < e
      BY <3>1, SMT
    <3> QED
      BY <3>2 DEF a, e
  <2>9. (x * Unit) * Shares < ((d + x) * r) * Shares
    <3> DEFINE a == x * Unit
               e == (d + x) * r
    <3>1. a \in Nat /\ e \in Nat /\ a < e
      BY <2>7, <2>8
    <3> HIDE DEF a, e
    <3>2. a * Shares < e * Shares
      BY <3>1, <1>1, SMT
    <3> QED
      BY <3>2 DEF a, e
  <2>10. ((d + x) * r) * Shares = (d + x) * (r * Shares)
    BY <1>1, <2>1, SMT
  <2>11. (d + x) * (r * Shares) <= (d + x) * rate
    <3>1. r * Shares \in Nat /\ d + x \in Nat
      BY <1>1, <2>1, SMT
    <3> QED
      BY <1>1, <3>1, SMT
  <2> QED
    <3> DEFINE a == (x * Unit) * Shares
               b == ((d + x) * r) * Shares
               c == (d + x) * (r * Shares)
               e == (d + x) * rate
    <3>1. a \in Nat /\ b \in Nat /\ c \in Nat /\ e \in Nat
      BY <1>1, <2>1, <2>7, SMT
    <3>2. a < b /\ b = c /\ c <= e
      BY <2>9, <2>10, <2>11
    <3> HIDE DEF a, b, c, e
    <3>3. a < e
      BY <3>1, <3>2, SMT
    <3> QED
      BY <3>3 DEF a, e
<1> QED
  BY InductiveInvariant, RateIsBounded, <1>5, PTL

\* Whole periods elapsed only grow with the time they are counted from.
LEMMA DivMonotone ==
  ASSUME NEW d \in Nat, NEW e \in Nat, d <= e, NEW p \in Nat, p > 0
  PROVE  d \div p <= e \div p
<1> DEFINE x == d \div p
           y == e \div p
<1>1. /\ x \in Nat /\ x * p <= d /\ d < x * p + p
      /\ y \in Nat /\ y * p <= e /\ e < y * p + p
  BY DivFacts
<1> HIDE DEF x, y
<1>2. SUFFICES ASSUME x >= y + 1 PROVE FALSE
  BY <1>1, SMT DEF x, y
<1>3. x * p >= y * p + p
  BY <1>1, <1>2, SMT
<1> QED
  BY <1>1, <1>3, SMT

\* Refused packets never postpone the next grant.
THEOREM RefusalsDoNotStarve == Spec => []NoStarvation
<1>1. IInv => NoStarvation
  <2> SUFFICES ASSUME IInv, known PROVE NoStarvation
    BY DEF NoStarvation
  <2> DEFINE whole == (now - granted) \div Period
             r == (now - bucket.last) \div Period
  <2>1. /\ now \in Nat /\ granted \in Nat
        /\ bucket.tokens \in Nat /\ bucket.last \in Nat
        /\ bucket.last <= granted /\ granted <= now
    BY SMT DEF IInv, TypeOK, BucketSane, Bucket
  <2>2. now - granted \in Nat /\ now - bucket.last \in Nat
        /\ now - granted <= now - bucket.last
    BY <2>1, SMT
  <2>3. whole \in Nat /\ r \in Nat /\ whole <= r
    BY <2>2, DivFacts, DivMonotone, PeriodPositive
  <2>4. Refill(bucket, now, Period) = r
    BY PeriodPositive, SMT DEF Refill
  <2> HIDE DEF whole, r
  <2>5. Level(bucket, now, Period, Burst)
          >= (IF whole > Burst THEN Burst ELSE whole)
    BY <2>1, <2>3, <2>4, BurstNat, SMT DEF Level
  <2> QED
    BY <2>5 DEF NoStarvation, whole
<1> QED
  BY InductiveInvariant, <1>1, PTL
================================================================================
