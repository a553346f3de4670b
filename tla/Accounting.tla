------------------------------- MODULE Accounting -------------------------------
(***************************************************************************)
(* The counters kept beside the verdicts, on several CPUs at once:         *)
(* stat_bump into the stats array and record_drop into ip_drop_history.    *)
(*                                                                         *)
(* A run of minecraft_xdp is one of its ways out (Filter says which one is *)
(* taken when); here it is the sequence of the calls it makes to           *)
(* record_drop and stat_bump, in their order, and the verdict.  A call of  *)
(* record_drop is one action per access to the clock and to the map.       *)
(*                                                                         *)
(* ip_drop_history is a preallocated LRU hash map: an insertion takes an   *)
(* element that is free or evicts one, links it, and frees the element it  *)
(* replaces.  An element may be reused while another CPU still points to   *)
(* it.  stats is the sum over CPUs, as all readers of the map compute it.  *)
(***************************************************************************)
EXTENDS Integers, Sequences, FiniteSets, Functions

CONSTANTS Procs,     \* CPUs
          Src,       \* source addresses
          Elems,     \* elements of ip_drop_history: 100000 in the code
          MaxRuns,   \* bound on program runs
          MaxTime    \* bound on the clock

None == "none"

ASSUME AccountingAssumption ==
    /\ IsFiniteSet(Procs) /\ IsFiniteSet(Elems) /\ None \notin Src
    /\ MaxRuns \in Nat /\ MaxTime \in Nat

Reasons == {"bad_flags", "unhealthy", "no_syn", "too_many_open", "conn_rate",
            "global_ratelimit", "status_ratelimit", "login_ratelimit",
            "malformed_handshake", "conn_ratelimit"}
Slots == Reasons \cup {"pass_tcp", "l7_promoted", "l7_match_no_est",
                       "status_seen", "login_seen"}
--------------------------------------------------------------------------------
(* The ways out of minecraft_xdp. *)

Record(r) == <<"record", r>>
Bump(x) == <<"bump", x>>
DROP == <<"return", "DROP">>
PASS == <<"return", "PASS">>

BadFlagsPath == <<Record("bad_flags"), Bump("bad_flags"), DROP>>
UnhealthyPath == <<Record("unhealthy"), Bump("unhealthy"), DROP>>
TrustedOverRatePath == <<Record("conn_ratelimit"), Bump("conn_ratelimit"), DROP>>
TrustedTooManyOpenPath == <<Record("too_many_open"), Bump("too_many_open"), DROP>>
TrustedPassPath == <<Bump("pass_tcp"), PASS>>

\* Mutant: the drop is recorded under one reason and counted under another.
NoSynPathMixed == <<Record("no_syn"), Bump("conn_rate"), DROP>>

NoSynPath == <<Record("no_syn"), Bump("no_syn"), DROP>>
SynTooManyOpenPath == <<Record("too_many_open"), Bump("too_many_open"), DROP>>
SynConnRatePath == <<Record("conn_rate"), Bump("conn_rate"), DROP>>
SynGlobalRatePath == <<Record("global_ratelimit"), Bump("global_ratelimit"), DROP>>
BadHeaderPath == <<PASS>>
NoPayloadPath == <<Bump("pass_tcp"), PASS>>
StreamOverRatePath ==
    <<Bump("pass_tcp"), Record("conn_ratelimit"), Bump("conn_ratelimit"), DROP>>
StreamPassPath == <<Bump("pass_tcp"), PASS>>
MalformedPath == <<Bump("pass_tcp"), Bump("malformed_handshake"), DROP>>
StatusNoEstPath ==
    <<Bump("pass_tcp"), Bump("status_seen"), Bump("l7_match_no_est"), PASS>>

\* Mutant: the drop is counted twice.
StatusLimitedPathTwice ==
    <<Bump("pass_tcp"), Bump("status_seen"), Bump("status_ratelimit"),
      Record("status_ratelimit"), Bump("status_ratelimit"), DROP>>

StatusLimitedPath ==
    <<Bump("pass_tcp"), Bump("status_seen"),
      Record("status_ratelimit"), Bump("status_ratelimit"), DROP>>
StatusPassPath == <<Bump("pass_tcp"), Bump("status_seen"), PASS>>
LoginNoEstPath ==
    <<Bump("pass_tcp"), Bump("login_seen"), Bump("l7_match_no_est"), PASS>>
LoginLimitedPath ==
    <<Bump("pass_tcp"), Bump("login_seen"),
      Record("login_ratelimit"), Bump("login_ratelimit"), DROP>>
LoginPromotePath ==
    <<Bump("pass_tcp"), Bump("login_seen"), Bump("l7_promoted"), PASS>>

Paths ==
    {BadFlagsPath, UnhealthyPath, TrustedOverRatePath, TrustedTooManyOpenPath,
     TrustedPassPath, NoSynPath, SynTooManyOpenPath, SynConnRatePath,
     SynGlobalRatePath, BadHeaderPath, NoPayloadPath, StreamOverRatePath,
     StreamPassPath, MalformedPath, StatusNoEstPath, StatusLimitedPath,
     StatusPassPath, LoginNoEstPath, LoginLimitedPath, LoginPromotePath}
--------------------------------------------------------------------------------
VARIABLES now,
          stats,       \* slot -> count
          owner,       \* element -> the source it is linked under, or None
          first, last, \* element -> first_drop_ns, last_drop_ns
          counts,      \* element -> reason -> count
          path, src,   \* per CPU: the run under way (<<>> if none), its source
          at,          \* per CPU: index of its next call
          sub,         \* per CPU: next access of record_drop, "call" outside
          t, ptr,      \* per CPU: the time read, the element looked up
          runs,        \* runs so far
          dropped,     \* history: XDP_DROP verdicts
          disturbed    \* history: was an element evicted, replaced or deleted?

history == <<owner, first, last, counts>>
frame == <<sub, t, ptr>>
vars == <<now, stats, history, path, src, at, frame, runs, dropped, disturbed>>

Init ==
    /\ now = 0
    /\ stats = [x \in Slots |-> 0]
    /\ owner = [e \in Elems |-> None]
    /\ first = [e \in Elems |-> 0] /\ last = [e \in Elems |-> 0]
    /\ counts = [e \in Elems |-> [r \in Reasons |-> 0]]
    /\ path = [p \in Procs |-> <<>>] /\ src = [p \in Procs |-> None]
    /\ at = [p \in Procs |-> 1]
    /\ sub = [p \in Procs |-> "call"]
    /\ t = [p \in Procs |-> 0] /\ ptr = [p \in Procs |-> None]
    /\ runs = 0 /\ dropped = 0 /\ disturbed = FALSE

Busy == {p \in Procs : path[p] # <<>>}
Call(p) == path[p][at[p]]
Reason(p) == Call(p)[2]

\* p's call returns.
Advance(p) == at' = [at EXCEPT ![p] = @ + 1]

Begin(p) ==
    /\ p \notin Busy /\ runs < MaxRuns
    /\ \E way \in Paths, s \in Src :
          path' = [path EXCEPT ![p] = way] /\ src' = [src EXCEPT ![p] = s]
    /\ runs' = runs + 1
    /\ UNCHANGED <<now, stats, history, at, frame, dropped, disturbed>>

stat_bump(p) ==
    /\ p \in Busy /\ Call(p)[1] = "bump"
    /\ stats' = [stats EXCEPT ![Call(p)[2]] = @ + 1]
    /\ Advance(p)
    /\ UNCHANGED <<now, history, path, src, frame, runs, dropped, disturbed>>

Return(p) ==
    /\ p \in Busy /\ Call(p)[1] = "return"
    /\ dropped' = IF Call(p) = DROP THEN dropped + 1 ELSE dropped
    /\ path' = [path EXCEPT ![p] = <<>>] /\ src' = [src EXCEPT ![p] = None]
    /\ at' = [at EXCEPT ![p] = 1]
    /\ UNCHANGED <<now, stats, history, frame, runs, disturbed>>

(* record_drop *)

RecordClock(p) ==
    /\ p \in Busy /\ Call(p)[1] = "record" /\ sub[p] = "call"
    /\ t' = [t EXCEPT ![p] = now]
    /\ sub' = [sub EXCEPT ![p] = "lookup"]
    /\ UNCHANGED <<now, stats, history, path, src, at, ptr, runs, dropped, disturbed>>

RecordLookup(p) ==
    /\ sub[p] = "lookup"
    /\ \/ /\ \A e \in Elems : owner[e] # src[p]
          /\ sub' = [sub EXCEPT ![p] = "insert"]
          /\ UNCHANGED ptr
       \/ \E e \in Elems :
            /\ owner[e] = src[p]
            /\ ptr' = [ptr EXCEPT ![p] = e]
            /\ sub' = [sub EXCEPT ![p] = "store"]
    /\ UNCHANGED <<now, stats, history, path, src, at, t, runs, dropped, disturbed>>

\* Mutant: the first drop of a source is inserted with a zero count.
InitCountsZero(reason) == [r \in Reasons |-> 0]

\* struct ip_drop_history init
InitCounts(reason) == [r \in Reasons |-> IF r = reason THEN 1 ELSE 0]

\* bpf_map_update_elem(BPF_ANY) into element e: whatever e held is evicted, the
\* element another CPU may have inserted since the lookup is replaced.
RecordInsert(p) ==
    /\ sub[p] = "insert"
    /\ \E e \in Elems :
          /\ owner' = [d \in Elems |-> IF d = e THEN src[p]
                                       ELSE IF owner[d] = src[p] THEN None ELSE owner[d]]
          /\ first' = [first EXCEPT ![e] = t[p]]
          /\ last' = [last EXCEPT ![e] = t[p]]
          /\ counts' = [counts EXCEPT ![e] = InitCounts(Reason(p))]
          /\ disturbed' = (disturbed \/ owner[e] # None
                              \/ \E d \in Elems : owner[d] = src[p])
    /\ sub' = [sub EXCEPT ![p] = "call"]
    /\ t' = [t EXCEPT ![p] = 0]
    /\ Advance(p)
    /\ UNCHANGED <<now, stats, path, src, ptr, runs, dropped>>

\* h->last_drop_ns = now, in an element that may have another owner by now.
RecordStore(p) ==
    /\ sub[p] = "store"
    /\ last' = [last EXCEPT ![ptr[p]] = t[p]]
    /\ sub' = [sub EXCEPT ![p] = "add"]
    /\ t' = [t EXCEPT ![p] = 0]
    /\ UNCHANGED <<now, stats, owner, first, counts, path, src, at, ptr, runs,
                   dropped, disturbed>>

RecordAdd(p) ==
    /\ sub[p] = "add"
    /\ counts' = [counts EXCEPT ![ptr[p]][Reason(p)] = @ + 1]
    /\ sub' = [sub EXCEPT ![p] = "call"]
    /\ ptr' = [ptr EXCEPT ![p] = None]
    /\ Advance(p)
    /\ UNCHANGED <<now, stats, owner, first, last, path, src, t, runs, dropped,
                   disturbed>>

\* minecraft-ebpf clear deletes the entry of a source.
Clear(s) ==
    /\ \E e \in Elems : owner[e] = s
    /\ owner' = [e \in Elems |-> IF owner[e] = s THEN None ELSE owner[e]]
    /\ disturbed' = TRUE
    /\ UNCHANGED <<now, stats, first, last, counts, path, src, at, frame, runs, dropped>>

Tick ==
    /\ now < MaxTime
    /\ now' = now + 1
    /\ UNCHANGED <<stats, history, path, src, at, frame, runs, dropped, disturbed>>

record_drop(p) ==
    RecordClock(p) \/ RecordLookup(p) \/ RecordInsert(p) \/ RecordStore(p) \/ RecordAdd(p)

Next ==
    \/ \E p \in Procs : Begin(p) \/ stat_bump(p) \/ record_drop(p) \/ Return(p)
    \/ \E s \in Src : Clear(s)
    \/ Tick

Spec == Init /\ [][Next]_vars
--------------------------------------------------------------------------------
\* Drops of one reason, over the entries of all sources.
Linked == {e \in Elems : owner[e] # None}
Recorded(r) == SumFunctionOnSet([e \in Elems |-> counts[e][r]], Linked)

\* Every dropped segment is counted under exactly one reason: between two runs the
\* drop counters add up to the XDP_DROP verdicts, whatever the runs did in between.
DropsCountedOnce ==
    Busy = {} => SumFunctionOnSet(stats, Reasons) = dropped

\* The history never tells more than the counters: between two runs the entries of
\* all sources hold at most the drops counted for a reason, whatever insertions,
\* evictions and stale pointers do; malformed handshakes are counted, never recorded.
HistoryNeverOvercounts ==
    Busy = {} => \A r \in Reasons :
        Recorded(r) <= (IF r = "malformed_handshake" THEN 0 ELSE stats[r])

\* And it tells no less, as long as no entry was evicted, deleted, or replaced by a
\* CPU that had looked it up too early.
HistoryMatchesStats ==
    Busy = {} /\ ~disturbed => \A r \in Reasons :
        Recorded(r) = (IF r = "malformed_handshake" THEN 0 ELSE stats[r])
================================================================================
