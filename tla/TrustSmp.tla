-------------------------------- MODULE TrustSmp --------------------------------
(***************************************************************************)
(* The time of a tcp_whitelist entry on several CPUs, for one source:      *)
(* minecraft_xdp looks the entry up, reads the clock, compares, and stores *)
(* the clock through the pointer it holds; promotion and the socket        *)
(* programs replace and delete the entry meanwhile.  One action per access *)
(* to shared memory; times are 64-bit, here modulo Word.                   *)
(*                                                                         *)
(* The map is an LRU hash: an update takes a free element, which another   *)
(* CPU may still point to, and a store through such a pointer lands in     *)
(* whatever the element is by then.                                        *)
(***************************************************************************)
EXTENDS Integers

CONSTANTS Procs,    \* CPUs
          Elems,    \* elements of the map
          Ttl,      \* whitelist_ttl_ns
          Word,     \* 2^64
          MaxTime   \* bound on the clock

\* What the constants are assumed to be.
TrustBounds ==
    Ttl \in Nat \ {0} /\ MaxTime \in Nat /\ Word \in Nat /\ Word > MaxTime + Ttl

None == "none"

VARIABLES now,      \* bpf_ktime_get_boot_ns()
          elem,     \* the source's element of tcp_whitelist, or None
          stamp,    \* the value of every element
          run       \* per CPU: the run of minecraft_xdp it is in

vars == <<now, elem, stamp, run>>

\* at: the next access; wl: the pointer looked up; now: the clock read; raced:
\* history, has another CPU written the time or changed the entry since the lookup?
Idle == [at |-> "idle", wl |-> None, now |-> 0, raced |-> FALSE]

Init ==
    /\ now = 0 /\ elem = None
    /\ stamp = [e \in Elems |-> 0]
    /\ run = [p \in Procs |-> Idle]

Goes(p, r) == run' = [run EXCEPT ![p] = r]
Writes(p, r) ==
    run' = [q \in Procs |-> IF q = p THEN r
                            ELSE [run[q] EXCEPT !.raced = @ \/ run[q] # Idle]]

\* A segment of a trusted source; a segment that is not trusted matters here only
\* if it is a login that will be promoted.
Lookup(p) ==
    /\ run[p].at = "idle"
    /\ Goes(p, [Idle EXCEPT !.at = IF elem = None THEN "promote_clock" ELSE "clock",
                            !.wl = elem])
    /\ UNCHANGED <<now, elem, stamp>>

ReadClock(p) ==
    /\ run[p].at = "clock"
    /\ Goes(p, [run[p] EXCEPT !.at = "compare", !.now = now])
    /\ UNCHANGED <<now, elem, stamp>>

\* Mutant: trust ends when its time is up, not after it.
ExpiredAtOnce(elapsed) == elapsed >= Ttl

Expired(elapsed) == elapsed > Ttl

Compare(p) ==
    /\ run[p].at = "compare"
    /\ LET elapsed == (run[p].now - stamp[run[p].wl]) % Word
       IN  Goes(p, [run[p] EXCEPT !.at = IF Expired(elapsed) THEN "expire" ELSE "capped"])
    /\ UNCHANGED <<now, elem, stamp>>

\* The segment goes on as untrusted; it may be a login that is promoted again.
Expire(p) ==
    /\ run[p].at = "expire"
    /\ elem' = None
    /\ \E r \in {Idle, [run[p] EXCEPT !.at = "promote_clock"]} : Writes(p, r)
    /\ UNCHANGED <<now, stamp>>

\* Over the rate or the open cap: dropped, and possibly banned.
Capped(p) ==
    /\ run[p].at = "capped"
    /\ \/ Goes(p, Idle) /\ UNCHANGED elem
       \/ Writes(p, Idle) /\ elem' = None
    /\ UNCHANGED <<now, stamp>>

\* *wl = now
Refresh(p) ==
    /\ run[p].at = "capped"
    /\ stamp' = [stamp EXCEPT ![run[p].wl] = run[p].now]
    /\ Writes(p, Idle)
    /\ UNCHANGED <<now, elem>>

PromoteClock(p) ==
    /\ run[p].at = "promote_clock"
    /\ Goes(p, [run[p] EXCEPT !.at = "promote", !.now = now])
    /\ UNCHANGED <<now, elem, stamp>>

\* BPF_ANY: an entry made meanwhile is replaced.
Promote(p) ==
    /\ run[p].at = "promote"
    /\ \E e \in Elems \ {elem} : elem' = e /\ stamp' = [stamp EXCEPT ![e] = run[p].now]
    /\ Writes(p, Idle)
    /\ UNCHANGED now

\* The last connection closes: the socket program deletes the entry.
Close ==
    /\ elem # None /\ elem' = None
    /\ run' = [q \in Procs |-> [run[q] EXCEPT !.raced = @ \/ run[q] # Idle]]
    /\ UNCHANGED <<now, stamp>>

Tick ==
    /\ now < MaxTime
    /\ now' = now + 1
    /\ UNCHANGED <<elem, stamp, run>>

Next ==
    \/ \E p \in Procs :
         \/ Lookup(p) \/ ReadClock(p) \/ Compare(p) \/ Expire(p) \/ Capped(p)
         \/ Refresh(p) \/ PromoteClock(p) \/ Promote(p)
    \/ Close
    \/ Tick

Spec == Init /\ [][Next]_vars
--------------------------------------------------------------------------------
\* The trust of a source runs out in this step.
RunsOut(p) == run[p].at = "expire" /\ run'[p].at # "expire" /\ elem # None

\* Trust that is not older than whitelist_ttl_ns runs out only on a CPU whose run
\* another CPU has written into: the unsigned subtraction at line 341 wraps only
\* there, and only there is an entry deleted that was refreshed after the comparison.
FreshTrustKept ==
    [][\A p \in Procs :
         RunsOut(p) /\ now - stamp[elem] <= Ttl => run[p].raced]_vars
================================================================================
