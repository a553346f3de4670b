------------------------------- MODULE SockopsSmp -------------------------------
(***************************************************************************)
(* The socket callbacks of bpf/minecraft_sockops.bpf.c and the promotion   *)
(* of minecraft_xdp on several CPUs at once, for one source address: one   *)
(* action per access to a shared map.  Two connections of a source are     *)
(* handled on different CPUs, and a close by the server runs in process    *)
(* context while segments arrive in softirq.                               *)
(*                                                                         *)
(* A socket's own callbacks are ordered: STATE_CB is requested at the end  *)
(* of the established callback.  Entries of tcp_open_count are never       *)
(* deleted by the programs, so lookup and atomic add are one step.  The    *)
(* login bucket is not refilled: a run is shorter than login_period_ns.    *)
(***************************************************************************)
EXTENDS Integers, FiniteSets

CONSTANTS Procs,      \* execution contexts (CPUs)
          MaxCount,   \* bound on the count: no socket opens beyond it
          Tries,      \* attempts at the compare-and-swap: 8 in the code
          LoginBurst, \* login_burst
          MaxLogins   \* bound on logins: none begins after so many

ASSUME SmpAssumption ==
    IsFiniteSet(Procs) /\ MaxCount \in Nat /\ Tries \in Nat \ {0}
    /\ LoginBurst \in Nat \ {0} /\ MaxLogins \in Nat

Absent == -1

VARIABLES count,      \* tcp_open_count of the source, or Absent
          est, wl, fd,\* is it in tcp_established, tcp_whitelist, tcp_first_data?
          tokens,     \* its login bucket, or Absent
          live,       \* sockets established and not yet closing
          pc, cur, tries,  \* per context: next access, value loaded, failed
                      \* attempts (both 0 once they have been used)
          lost,       \* history: closes that gave up, never counted down
          hits,       \* history, per context: changes of the count by others
                      \* since its close began, up to Tries
          granted,    \* history: logins the bucket has let through
          overlaps,   \* history: writes to the bucket over a value not seen
          overtaken,  \* history: promotions under way when trust was deleted
          ghost       \* history: was trust last written by one of these?

maps == <<count, est, wl, fd>>
sock == <<live, tries, lost, hits>>
ledger == <<tokens, granted, overlaps>>
vars == <<maps, sock, ledger, pc, cur, overtaken, ghost>>

Init ==
    /\ count = Absent /\ est = FALSE /\ wl = FALSE /\ fd = FALSE
    /\ live = 0 /\ lost = 0
    /\ pc = [p \in Procs |-> "idle"]
    /\ cur = [p \in Procs |-> 0] /\ tries = [p \in Procs |-> 0]
    /\ hits = [p \in Procs |-> 0]
    /\ tokens = Absent /\ granted = 0 /\ overlaps = 0
    /\ overtaken = {} /\ ghost = FALSE

At(places) == {p \in Procs : pc[p] \in places}
Goto(p, from, to) == pc[p] = from /\ pc' = [pc EXCEPT ![p] = to]

Opens == {"est_update", "inc_noexist", "inc_add"}
Closes == {"dec_load", "dec_cas"}
Value == IF count = Absent THEN 0 ELSE count

\* p has changed the count under the closes of the others.
HitsOthers(p) ==
    hits' = [q \in Procs |-> IF q = p THEN 0
                             ELSE IF pc[q] \in Closes /\ hits[q] < Tries
                                  THEN hits[q] + 1 ELSE hits[q]]

(* BPF_SOCK_OPS_PASSIVE_ESTABLISHED_CB *)

EstBegin(p) ==
    /\ Goto(p, "idle", "est_update")
    /\ Value + Cardinality(At(Opens)) < MaxCount
    /\ UNCHANGED <<maps, sock, cur, ledger, overtaken, ghost>>

EstUpdate(p) ==
    /\ Goto(p, "est_update", "inc_noexist")
    /\ est' = TRUE
    /\ UNCHANGED <<count, wl, fd, sock, cur, ledger, overtaken, ghost>>

IncNoExist(p) ==
    /\ Goto(p, "inc_noexist", "inc_add")
    /\ count' = IF count = Absent THEN 0 ELSE count
    /\ UNCHANGED <<est, wl, fd, sock, cur, ledger, overtaken, ghost>>

IncAdd(p) ==
    /\ Goto(p, "inc_add", "idle")
    /\ count' = count + 1
    /\ live' = live + 1
    /\ HitsOthers(p)
    /\ UNCHANGED <<est, wl, fd, tries, lost, cur, ledger, overtaken, ghost>>

(* BPF_SOCK_OPS_STATE_CB into TCP_CLOSE: open_count_dec *)

\* Mutant: sockets that were never counted (closed in SYN_RECV) count down too.
DecBeginUncounted(p) ==
    /\ Goto(p, "idle", "dec_load")
    /\ live' = live - 1
    /\ UNCHANGED <<maps, tries, lost, hits, cur, ledger, overtaken, ghost>>

DecBegin(p) ==
    /\ Goto(p, "idle", "dec_load")
    /\ live > 0
    /\ live' = live - 1
    /\ UNCHANGED <<maps, tries, lost, hits, cur, ledger, overtaken, ghost>>

DecLoad(p) ==
    /\ Goto(p, "dec_load", IF count \in {Absent, 0} THEN "idle" ELSE "dec_cas")
    /\ cur' = [cur EXCEPT ![p] = IF count = Absent THEN 0 ELSE count]
    /\ UNCHANGED <<maps, sock, ledger, overtaken, ghost>>

\* Mutant: the decrement is a plain store of the loaded value less one.
DecCasStore(p) ==
    /\ Goto(p, "dec_cas", IF cur[p] = 1 THEN "del_est" ELSE "idle")
    /\ count' = cur[p] - 1
    /\ cur' = [cur EXCEPT ![p] = 0]
    /\ HitsOthers(p)
    /\ UNCHANGED <<est, wl, fd, live, tries, lost, ledger, overtaken, ghost>>

\* Mutant: the loop ends one attempt early.
DecCasEarly(p) ==
    /\ pc[p] = "dec_cas"
    /\ cur' = [cur EXCEPT ![p] = 0]
    /\ \/ /\ count = cur[p]
          /\ Goto(p, "dec_cas", IF cur[p] = 1 THEN "del_est" ELSE "idle")
          /\ count' = count - 1
          /\ tries' = [tries EXCEPT ![p] = 0] /\ HitsOthers(p)
          /\ UNCHANGED lost
       \/ /\ count # cur[p] /\ tries[p] + 2 < Tries
          /\ Goto(p, "dec_cas", "dec_load")
          /\ tries' = [tries EXCEPT ![p] = @ + 1]
          /\ UNCHANGED <<count, lost, hits>>
       \/ /\ count # cur[p] /\ tries[p] + 2 >= Tries
          /\ Goto(p, "dec_cas", "idle")
          /\ tries' = [tries EXCEPT ![p] = 0] /\ hits' = [hits EXCEPT ![p] = 0]
          /\ lost' = lost + 1
          /\ UNCHANGED count
    /\ UNCHANGED <<est, wl, fd, live, ledger, overtaken, ghost>>

\* The compare-and-swap succeeds; fails and is tried again; or fails for the last
\* time, and the close is not counted.
DecCas(p) ==
    /\ pc[p] = "dec_cas"
    /\ cur' = [cur EXCEPT ![p] = 0]
    /\ \/ /\ count = cur[p]
          /\ Goto(p, "dec_cas", IF cur[p] = 1 THEN "del_est" ELSE "idle")
          /\ count' = count - 1
          /\ tries' = [tries EXCEPT ![p] = 0] /\ HitsOthers(p)
          /\ UNCHANGED lost
       \/ /\ count # cur[p] /\ tries[p] + 1 < Tries
          /\ Goto(p, "dec_cas", "dec_load")
          /\ tries' = [tries EXCEPT ![p] = @ + 1]
          /\ UNCHANGED <<count, lost, hits>>
       \/ /\ count # cur[p] /\ tries[p] + 1 = Tries
          /\ Goto(p, "dec_cas", "idle")
          /\ tries' = [tries EXCEPT ![p] = 0] /\ hits' = [hits EXCEPT ![p] = 0]
          /\ lost' = lost + 1
          /\ UNCHANGED count
    /\ UNCHANGED <<est, wl, fd, live, ledger, overtaken, ghost>>

\* Mutant: the deletions start before tcp_established is dealt with.
DelEstSkipped(p) ==
    /\ Goto(p, "del_est", "del_wl")
    /\ UNCHANGED <<maps, sock, cur, ledger, overtaken, ghost>>

DelEst(p) ==
    /\ Goto(p, "del_est", "del_wl")
    /\ est' = FALSE
    /\ UNCHANGED <<count, wl, fd, sock, cur, ledger, overtaken, ghost>>

\* Promotions under way are overtaken.
Overtakes ==
    /\ overtaken' = At({"xdp_first", "xdp_mark", "xdp_count",
                           "xdp_load", "xdp_take", "xdp_promote"})
    /\ ghost' = FALSE

\* Mutant: trust is not taken back.
DelWlForgotten(p) ==
    /\ Goto(p, "del_wl", "del_fd")
    /\ Overtakes
    /\ UNCHANGED <<maps, sock, ledger, cur>>

DelWl(p) ==
    /\ Goto(p, "del_wl", "del_fd")
    /\ wl' = FALSE /\ Overtakes
    /\ UNCHANGED <<count, est, fd, sock, ledger, cur>>

DelFd(p) ==
    /\ Goto(p, "del_fd", "idle")
    /\ fd' = FALSE
    /\ UNCHANGED <<count, est, wl, sock, cur, ledger, overtaken, ghost>>

(* minecraft_xdp on a Login handshake of the source, of an open connection, *)
(* late or forged.                                                           *)

\* A trusted source takes another path.
XdpBegin(p) ==
    /\ Goto(p, "idle", "xdp_est")
    /\ ~wl
    /\ granted < MaxLogins
    /\ UNCHANGED <<maps, sock, ledger, cur, overtaken, ghost>>

\* Not established: the handshake passes and nothing is written.
XdpEst(p) ==
    /\ Goto(p, "xdp_est", IF est THEN "xdp_first" ELSE "idle")
    /\ UNCHANGED <<maps, sock, ledger, cur, overtaken, ghost>>

XdpFirst(p) ==
    /\ Goto(p, "xdp_first", IF fd THEN "xdp_count" ELSE "xdp_mark")
    /\ UNCHANGED <<maps, sock, ledger, cur, overtaken, ghost>>

XdpMark(p) ==
    /\ Goto(p, "xdp_mark", "xdp_load")
    /\ fd' = TRUE
    /\ UNCHANGED <<count, est, wl, sock, ledger, cur, overtaken, ghost>>

\* A later segment of the only connection is not looked at.
XdpCount(p) ==
    /\ Goto(p, "xdp_count", IF count > 1 THEN "xdp_load" ELSE "idle")
    /\ overtaken' = IF count > 1 THEN overtaken ELSE overtaken \ {p}
    /\ UNCHANGED <<maps, sock, ledger, cur, ghost>>

\* ratelimit_take reads the bucket; an empty one refuses the login.
XdpLoad(p) ==
    /\ Goto(p, "xdp_load", IF tokens = 0 THEN "idle" ELSE "xdp_take")
    /\ cur' = [cur EXCEPT ![p] = tokens]
    /\ overtaken' = IF tokens = 0 THEN overtaken \ {p} ELSE overtaken
    /\ UNCHANGED <<maps, sock, ledger, ghost>>

\* Mutant: the first login of a source is not charged.
XdpTakeFirstFree(p) ==
    /\ Goto(p, "xdp_take", "xdp_promote")
    /\ tokens' = IF cur[p] = Absent THEN LoginBurst ELSE cur[p] - 1
    /\ granted' = granted + 1
    /\ overlaps' = IF tokens = cur[p] THEN overlaps ELSE overlaps + 1
    /\ cur' = [cur EXCEPT ![p] = 0]
    /\ UNCHANGED <<maps, sock, overtaken, ghost>>

\* ... and writes it, whatever others have written since.
XdpTake(p) ==
    /\ Goto(p, "xdp_take", "xdp_promote")
    /\ tokens' = (IF cur[p] = Absent THEN LoginBurst ELSE cur[p]) - 1
    /\ granted' = granted + 1
    /\ overlaps' = IF tokens = cur[p] THEN overlaps ELSE overlaps + 1
    /\ cur' = [cur EXCEPT ![p] = 0]
    /\ UNCHANGED <<maps, sock, overtaken, ghost>>

XdpPromote(p) ==
    /\ Goto(p, "xdp_promote", "idle")
    /\ wl' = TRUE
    /\ ghost' = (p \in overtaken)
    /\ overtaken' = overtaken \ {p}
    /\ UNCHANGED <<count, est, fd, sock, ledger, cur>>

Begin(p) == EstBegin(p) \/ DecBegin(p) \/ XdpBegin(p)

Step(p) ==
    \/ EstUpdate(p) \/ IncNoExist(p) \/ IncAdd(p)
    \/ DecLoad(p) \/ DecCas(p) \/ DelEst(p) \/ DelWl(p) \/ DelFd(p)
    \/ XdpEst(p) \/ XdpFirst(p) \/ XdpMark(p) \/ XdpCount(p)
    \/ XdpLoad(p) \/ XdpTake(p) \/ XdpPromote(p)

Next == \E p \in Procs : Begin(p) \/ Step(p)

Spec == Init /\ [][Next]_vars
--------------------------------------------------------------------------------
TypeOK ==
    /\ count \in Nat \cup {Absent}
    /\ est \in BOOLEAN /\ wl \in BOOLEAN /\ fd \in BOOLEAN
    /\ live \in Nat /\ lost \in Nat
    /\ pc \in [Procs -> {"idle", "est_update", "inc_noexist", "inc_add",
                         "dec_load", "dec_cas", "del_est", "del_wl", "del_fd",
                         "xdp_est", "xdp_first", "xdp_mark", "xdp_count",
                         "xdp_load", "xdp_take", "xdp_promote"}]
    /\ cur \in [Procs -> Nat \cup {Absent}] /\ tries \in [Procs -> 0..(Tries - 1)]
    /\ hits \in [Procs -> 0..Tries]
    /\ tokens \in 0..LoginBurst \cup {Absent}
    /\ granted \in Nat /\ overlaps \in 0..granted
    /\ overtaken \subseteq Procs /\ ghost \in BOOLEAN

Quiescent == At({"idle"}) = Procs

\* Whatever the interleaving, the count is the number of open sockets, plus the
\* closes that have not yet counted, plus the closes that ran out of attempts: an
\* increment is never lost, and a decrement only by giving up.
CountExact == Value = live + Cardinality(At(Closes)) + lost

\* A close gives up only if others changed the count at every one of its attempts:
\* one that has the count to itself, or meets fewer changes, is counted.
GivesUpOvertaken ==
    [][lost' # lost => \E p \in Procs : /\ pc[p] = "dec_cas" /\ pc'[p] = "idle"
                                        /\ hits[p] = Tries]_vars

\* A source without connections does not stay in tcp_established, unless one of its
\* closes was given up.
NoGhostSession == Quiescent /\ est => live + lost > 0

\* A source without connections does not stay trusted either, with one more
\* exception: a promotion that had looked up tcp_established before the last close
\* and wrote after its deletes.  The next close of a last connection takes that back.
TrustEnds == Quiescent /\ wl /\ ~ghost => live + lost > 0

\* Buckets are read and written without atomics.  What that costs: a login handled
\* while another CPU spends from the same bucket may put back what the other took,
\* a burst at most; logins that do not overlap are all paid for.
LoginsMetered == granted <= LoginBurst * (1 + overlaps)

\* sockops_test.go: the entries must not be "cleared while a connection from
\* the source is still open".
EstablishedWhileOpen == Quiescent /\ live > 0 => est
================================================================================
