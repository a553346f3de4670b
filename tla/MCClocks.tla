-------------------------------- MODULE MCClocks --------------------------------
(***************************************************************************)
(* Where the filter measures time, for TLC: a token bucket whose calls do  *)
(* not overlap (TokenBucket), one that CPUs race for (BucketSmp), and the  *)
(* time of a whitelist entry that CPUs race for (TrustSmp).  None reads    *)
(* what another writes, so each is explored on its own: `what` says which, *)
(* and the others rest.                                                    *)
(***************************************************************************)
EXTENDS TokenBucket, TLC

CONSTANTS Procs, p1, p2,                             \* CPUs
          Word,                                      \* 2^64
          RacePeriod, RaceBurst, RaceTime, MaxTakes, \* for BucketSmp
          Ttl, TrustTime, Elems, e1, e2, e3          \* for TrustSmp

VARIABLES what,
          bNow, bElem, bTokens, bLast, bRun, bGranted, bRaced,
          tNow, tElem, tStamp, tRun

Race == INSTANCE BucketSmp WITH
    Period <- RacePeriod, Burst <- RaceBurst, MaxTime <- RaceTime,
    now <- bNow, elem <- bElem, tokens <- bTokens, last <- bLast, run <- bRun,
    granted <- bGranted, raced <- bRaced

Trust == INSTANCE TrustSmp WITH
    MaxTime <- TrustTime, now <- tNow, elem <- tElem, stamp <- tStamp, run <- tRun

ASSUME ClocksAssumption == Race!BucketBounds /\ Trust!TrustBounds

raceVars == <<bNow, bElem, bTokens, bLast, bRun, bGranted, bRaced>>
trustVars == <<tNow, tElem, tStamp, tRun>>
allVars == <<what, vars, raceVars, trustVars>>

ClocksInit ==
    /\ what \in {"bucket", "race", "trust"}
    /\ Init /\ (what # "bucket" => known)    \* one resting bucket is enough
    /\ Race!Init /\ Trust!Init

BucketStep == what = "bucket" /\ Next /\ UNCHANGED <<what, raceVars, trustVars>>
RaceStep == what = "race" /\ Race!Next /\ UNCHANGED <<what, vars, trustVars>>
TrustStep == what = "trust" /\ Trust!Next /\ UNCHANGED <<what, vars, raceVars>>

ClocksNext == BucketStep \/ RaceStep \/ TrustStep

ClocksSpec == ClocksInit /\ [][ClocksNext]_allVars

\* BucketSmp: a run of ratelimit_take that another CPU writes into costs at most two
\* bursts beyond what one CPU alone would let through.
RaceCost == Race!RaceCost

\* BucketSmp: a take no other CPU writes into brings last_refill_ns back to within
\* one period of the clock, whatever a race left there.
SoloHeals == Race!SoloHeals

\* TrustSmp: trust not older than whitelist_ttl_ns runs out only in a run of
\* minecraft_xdp that another CPU has written into.
FreshTrustKept == Trust!FreshTrustKept

\* CPUs and elements are alike.
Perms == Permutations(Procs) \cup Permutations(Elems)
================================================================================
