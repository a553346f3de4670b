-------------------------------- MODULE Tunables --------------------------------
(***************************************************************************)
(* How loadXDP of internal/loader/loader.go turns the flags of cmdRun into *)
(* the constants of the XDP program: a rate per second or per minute       *)
(* becomes a refill period in nanoseconds, and the global SYN breaker,     *)
(* whose buckets are per CPU, is split over the possible CPUs.             *)
(***************************************************************************)
EXTENDS Integers

\* Refill period of a rate per unit (60 * 10^9 for status and login, 10^9 for
\* the others).  Rate 0 switches the limit off; a rate above the unit gives
\* period 0 as well.
PeriodOf(unit, rate) == IF rate > 0 THEN unit \div rate ELSE 0

\* Mutant: the rate is not split.
ShareWhole(amount, shares) == amount

\* One CPU's share of the configured rate or burst: at least 1 unless it is 0.
\* The per-IP limits are not split: one share.
Share(amount, shares) ==
    IF amount > 0 /\ amount \div shares = 0 THEN 1 ELSE amount \div shares
================================================================================
