------------------------------ MODULE TokenBucket ------------------------------
(***************************************************************************)
(* One token bucket over time.  Packets of the costs in Costs arrive at    *)
(* arbitrary moments; a measurement window may be opened at any moment.    *)
(* The per-IP status, login and SYN buckets and the packet bucket have     *)
(* Costs = {1}; the byte bucket spends ip->tot_len.  The bucket is set up  *)
(* from a configured rate and burst, of which it gets one of Shares shares *)
(* (the possible CPUs for the global breaker, otherwise 1).                *)
(*                                                                         *)
(* History variables: `start` and `taken` are when the current window was  *)
(* opened and what has been granted since, `granted` is the time of the    *)
(* last grant.                                                             *)
(***************************************************************************)
EXTENDS RateLimit, Tunables

CONSTANTS Unit,     \* nanoseconds in the unit of the rate
          Rate,     \* configured rate per unit
          Allowed,  \* configured burst
          Shares,   \* buckets the rate and the burst are split over
          Costs,    \* what one packet may cost
          MaxCost,  \* no packet costs more
          MaxTime   \* bound on the clock

\* The limit is on, and the rate of a bucket is not above one per nanosecond.
ASSUME RateAssumption ==
    /\ Unit \in Nat /\ Rate \in Nat \ {0} /\ Shares \in Nat \ {0}
    /\ Share(Rate, Shares) <= Unit
ASSUME AllowedAssumption == Allowed \in Nat
ASSUME CostAssumption ==
    /\ MaxCost \in Nat
    /\ Costs \subseteq 1..MaxCost

Period == PeriodOf(Unit, Share(Rate, Shares))    \* *_period_ns
Burst == Share(Allowed, Shares)                  \* *_burst

VARIABLES now,      \* bpf_ktime_get_boot_ns()
          known,    \* does the map hold a bucket for this source?
          bucket,   \* its value, meaningful when known
          start, taken, granted

vars == <<now, known, bucket, start, taken, granted>>

\* A hash map starts without the source; the per-CPU array of the global
\* breaker starts with a zeroed bucket.
Init ==
    /\ now = 0
    /\ known \in BOOLEAN
    /\ bucket = ZeroBucket
    /\ start = now
    /\ taken = 0
    /\ granted = 0

\* The source has no bucket yet: insert one and let the packet through.
First(cost) ==
    /\ ~known
    /\ known' = TRUE
    /\ bucket' = FirstBucket(now, Burst, cost)
    /\ taken' = taken + cost
    /\ granted' = now
    /\ UNCHANGED <<now, start>>

\* Mutant: the level is not compared with the cost.
GrantUnchecked(cost) ==
    /\ known
    /\ bucket' = Drain(bucket, now, Period, Burst, cost)
    /\ taken' = taken + cost
    /\ granted' = now
    /\ UNCHANGED <<now, known, start>>

Grant(cost) ==
    /\ known
    /\ CanTake(bucket, now, Period, Burst, cost)
    /\ bucket' = Drain(bucket, now, Period, Burst, cost)
    /\ taken' = taken + cost
    /\ granted' = now
    /\ UNCHANGED <<now, known, start>>

\* Mutant: a refused packet restarts the refill.
RefuseRestarts(cost) ==
    /\ known
    /\ ~CanTake(bucket, now, Period, Burst, cost)
    /\ bucket' = [bucket EXCEPT !.last = now]
    /\ UNCHANGED <<now, known, start, taken, granted>>

\* A refused packet writes nothing: neither tokens nor last_refill_ns.
Refuse(cost) ==
    /\ known
    /\ ~CanTake(bucket, now, Period, Burst, cost)
    /\ UNCHANGED vars

Tick ==
    /\ now < MaxTime
    /\ now' = now + 1
    /\ UNCHANGED <<known, bucket, start, taken, granted>>

\* Start measuring here.
OpenWindow ==
    /\ start' = now
    /\ taken' = 0
    /\ UNCHANGED <<now, known, bucket, granted>>

Next ==
    \/ \E cost \in Costs : First(cost) \/ Grant(cost) \/ Refuse(cost)
    \/ Tick
    \/ OpenWindow

Spec == Init /\ [][Next]_vars
--------------------------------------------------------------------------------
TypeOK ==
    /\ now \in Nat
    /\ known \in BOOLEAN
    /\ bucket \in Bucket
    /\ start \in Nat
    /\ taken \in Nat
    /\ granted \in Nat

\* What a window may pass before refills count: the burst, or the first packet
\* if it alone is larger (a source without a bucket is never refused).
Depth == IF Burst > MaxCost THEN Burst ELSE MaxCost

\* The promise of every limiter: in ANY window, however it lies relative to the
\* refills, no more than the burst plus one cost unit per elapsed period (the
\* period in progress included) is let through.  Stated without division.
WindowBound ==
    taken > 0 => (taken - Depth) * Period < (now - start) + Period

\* What the operator configured: beyond the burst, a window passes its share of
\* the configured rate.  Rounding the period down lets each token be at most one
\* nanosecond early, and a rate below the number of CPUs is raised to one per CPU.
ConfiguredRate ==
    LET extra == taken - Depth - 1
        rate == IF Rate >= Shares THEN Rate ELSE Shares
    IN  extra > 0 => extra * Unit * Shares < (now - start + extra) * rate

\* No starvation: refused packets never push the refill back.  Whatever was
\* asked for and refused since the last grant at `granted`, the level is at
\* least one token per whole period elapsed since then, up to the burst.
NoStarvation ==
    known =>
      LET whole == (now - granted) \div Period
      IN  Level(bucket, now, Period, Burst)
            >= (IF whole > Burst THEN Burst ELSE whole)

\* While the calls of a bucket do not overlap it never reads ahead of the clock (so
\* the code's unsigned subtraction does not wrap) and never holds more than its
\* burst.  BucketSmp is about calls that do.
BucketSane ==
    /\ bucket.last <= granted
    /\ granted <= now
    /\ bucket.tokens <= Burst

\* The strengthening that makes WindowBound inductive: tokens still in the
\* bucket count as already taken, and time counts only up to the last refill.
WindowInv ==
    taken > 0 =>
      /\ known
      /\ (taken + bucket.tokens - Depth) * Period < (bucket.last - start) + Period

IInv == TypeOK /\ BucketSane /\ start <= now /\ WindowInv
================================================================================
