------------------------------- MODULE BucketSmp --------------------------------
(***************************************************************************)
(* ratelimit_take of bpf/minecraft_xdp.bpf.c on several CPUs at once, for  *)
(* one source address: one action per access to shared memory.  Nothing    *)
(* orders the runs: the clock is read before the bucket, the bucket is     *)
(* loaded and stored field by field, and an insertion replaces the element *)
(* other CPUs may still point to.                                          *)
(*                                                                         *)
(* Times and tokens are 64-bit, here modulo Word.  A CPU inserts at most   *)
(* once while the source stays in the map, so the element it inserts is    *)
(* named after it.                                                         *)
(***************************************************************************)
EXTENDS Integers, FiniteSets

CONSTANTS Procs,    \* CPUs
          Period,   \* refill_period_ns
          Burst,    \* burst
          Word,     \* 2^64
          MaxTime,  \* bound on the clock
          MaxTakes  \* bound on the packets let through: no run begins after

\* What the constants are assumed to be: Word leaves room for what a run adds.
BucketBounds ==
    /\ IsFiniteSet(Procs) /\ Period \in Nat \ {0} /\ Burst \in Nat \ {0}
    /\ MaxTime \in Nat /\ MaxTakes \in Nat
    /\ Word \in Nat /\ Word > Burst + 2 * MaxTime

None == "none"

VARIABLES now,      \* bpf_ktime_get_boot_ns()
          elem,     \* the source's element in the map, or None
          tokens, last,   \* the fields of every element
          run,      \* per CPU: the run of ratelimit_take it is in
          granted,  \* history: packets let through
          raced     \* history: runs into which another CPU has written

vars == <<now, elem, tokens, last, run, granted, raced>>

\* at: the next access; b: the element looked up; now: the clock read; base:
\* last_refill_ns as loaded; refill, t: as in the code; raced: history, has
\* another CPU written to the bucket or the map since the lookup?
Idle == [at |-> "idle", b |-> None, now |-> 0, base |-> 0, refill |-> 0, t |-> 0,
         raced |-> FALSE]

Init ==
    /\ now = 0 /\ elem = None
    /\ tokens = [e \in Procs |-> 0] /\ last = [e \in Procs |-> 0]
    /\ run = [p \in Procs |-> Idle]
    /\ granted = 0 /\ raced = 0

\* CPU p goes on as r; a write gets in the way of every other run.
Goes(p, r) == run' = [run EXCEPT ![p] = r] /\ UNCHANGED raced
Writes(p, r) ==
    LET hit == {q \in Procs \ {p} : run[q] # Idle}
    IN  /\ run' = [q \in Procs |-> IF q = p THEN r
                                   ELSE [run[q] EXCEPT !.raced = @ \/ q \in hit]]
        /\ raced' = raced + Cardinality({q \in hit : ~run[q].raced})

Lookup(p) ==
    /\ run[p].at = "idle" /\ granted < MaxTakes
    /\ Goes(p, [Idle EXCEPT !.at = "clock", !.b = elem])
    /\ UNCHANGED <<now, elem, tokens, last, granted>>

ReadClock(p) ==
    /\ run[p].at = "clock"
    /\ Goes(p, [run[p] EXCEPT !.at = IF run[p].b = None THEN "insert" ELSE "load_last",
                              !.now = now])
    /\ UNCHANGED <<now, elem, tokens, last, granted>>

\* BPF_ANY: an element inserted meanwhile is replaced.
Insert(p) ==
    /\ run[p].at = "insert"
    /\ elem' = p
    /\ tokens' = [tokens EXCEPT ![p] = Burst - 1]
    /\ last' = [last EXCEPT ![p] = run[p].now]
    /\ granted' = granted + 1
    /\ Writes(p, Idle)
    /\ UNCHANGED now

\* elapsed and refill
LoadLast(p) ==
    /\ run[p].at = "load_last"
    /\ LET base == last[run[p].b]
       IN  Goes(p, [run[p] EXCEPT !.at = "load_tokens", !.base = base,
                      !.refill = ((run[p].now - base) % Word) \div Period])
    /\ UNCHANGED <<now, elem, tokens, last, granted>>

\* Mutant: the refill is not capped at the burst.
LevelUncapped(n) == n

Level(n) == IF n > Burst THEN Burst ELSE n

\* t is 0: refused, nothing is written.
LoadTokens(p) ==
    /\ run[p].at = "load_tokens"
    /\ LET t == Level((tokens[run[p].b] + run[p].refill) % Word)
       IN  Goes(p, IF t = 0 THEN Idle ELSE [run[p] EXCEPT !.at = "store_tokens", !.t = t])
    /\ UNCHANGED <<now, elem, tokens, last, granted>>

StoreTokens(p) ==
    /\ run[p].at = "store_tokens"
    /\ tokens' = [tokens EXCEPT ![run[p].b] = run[p].t - 1]
    /\ Writes(p, [run[p] EXCEPT !.at = "store_last"])
    /\ UNCHANGED <<now, elem, last, granted>>

\* The += may add to the value loaded before or load it again.
Reload(p) ==
    /\ run[p].at = "store_last"
    /\ run[p].base # last[run[p].b]
    /\ Goes(p, [run[p] EXCEPT !.base = last[run[p].b]])
    /\ UNCHANGED <<now, elem, tokens, last, granted>>

\* Mutant: last_refill_ns is not advanced.
StoreLastKept(p) ==
    /\ run[p].at = "store_last"
    /\ granted' = granted + 1
    /\ Writes(p, Idle)
    /\ UNCHANGED <<now, elem, tokens, last>>

StoreLast(p) ==
    /\ run[p].at = "store_last"
    /\ last' = [last EXCEPT ![run[p].b] = (run[p].base + run[p].refill * Period) % Word]
    /\ granted' = granted + 1
    /\ Writes(p, Idle)
    /\ UNCHANGED <<now, elem, tokens>>

Tick ==
    /\ now < MaxTime
    /\ now' = now + 1
    /\ UNCHANGED <<elem, tokens, last, run, granted, raced>>

Next ==
    \/ \E p \in Procs :
         \/ Lookup(p) \/ ReadClock(p) \/ Insert(p) \/ LoadLast(p) \/ LoadTokens(p)
         \/ StoreTokens(p) \/ Reload(p) \/ StoreLast(p)
    \/ Tick

Spec == Init /\ [][Next]_vars
--------------------------------------------------------------------------------
\* What races can cost.  A run that another CPU writes into may store a count and
\* a time that are both out of date, or move last_refill_ns past the clock, so that
\* the next subtraction wraps and the bucket is refilled: each such run is worth at
\* most two bursts beyond what one CPU alone would let through, never more.
RaceCost == granted <= Burst + now \div Period + 2 * Burst * raced

\* Damage does not last: a take that no other CPU writes into leaves the time of the
\* last refill less than one period behind the clock it read, whatever it found
\* there, a time ahead of the clock included.
SoloHeals ==
    [][\A p \in Procs :
         run[p].at = "store_last" /\ run'[p].at = "idle" /\ ~run[p].raced =>
           (run[p].now - last'[run[p].b]) % Word < Period]_vars
================================================================================
