------------------------------- MODULE RateLimit -------------------------------
(***************************************************************************)
(* The token bucket arithmetic of bpf/minecraft_xdp.bpf.c, as operators.   *)
(* ratelimit_take, tcp_global_ratelimit_take and both halves of            *)
(* conn_ratelimit_take are the same computation: add one token per whole   *)
(* refill period elapsed, cap at the burst, refuse without writing when    *)
(* the level is below the cost, otherwise spend the cost and advance       *)
(* last_refill_ns by whole periods only, so that the remainder is kept.    *)
(*                                                                         *)
(* Times and tokens are naturals, and a call is one step.  On one CPU the  *)
(* code's u64 subtraction `now - last_refill_ns` does not wrap, because    *)
(* last <= now (TokenBucket).  Calls that overlap on several CPUs can make *)
(* it wrap: BucketSmp, with the machine's arithmetic, is about those.      *)
(***************************************************************************)
EXTENDS Integers

\* struct ratelimit
Bucket == [tokens : Nat, last : Nat]

\* A PERCPU_ARRAY slot starts zeroed.
ZeroBucket == [tokens |-> 0, last |-> 0]

\* Whole periods elapsed since the last refill; a zero period never refills.
Refill(b, t, period) ==
    IF period > 0 THEN (t - b.last) \div period ELSE 0

\* Tokens available at time t.
Level(b, t, period, burst) ==
    LET n == b.tokens + Refill(b, t, period)
    IN  IF n > burst THEN burst ELSE n

\* The call returns true.
CanTake(b, t, period, burst, cost) == Level(b, t, period, burst) >= cost

\* Mutant: the refill is not capped at the burst when spent.
DrainUncapped(b, t, period, burst, cost) ==
    [tokens |-> b.tokens + Refill(b, t, period) - cost,
     last   |-> b.last + Refill(b, t, period) * period]

\* Mutant: last_refill_ns is not advanced, so a refill is credited again.
DrainKeepsLast(b, t, period, burst, cost) ==
    [tokens |-> Level(b, t, period, burst) - cost,
     last   |-> b.last]

\* The bucket a successful call leaves behind.
Drain(b, t, period, burst, cost) ==
    [tokens |-> Level(b, t, period, burst) - cost,
     last   |-> b.last + Refill(b, t, period) * period]

\* The bucket inserted for a source that has none: the first packet always
\* passes, and spends what the burst holds of its cost.
FirstBucket(t, burst, cost) ==
    [tokens |-> IF burst > cost THEN burst - cost ELSE 0, last |-> t]
================================================================================
