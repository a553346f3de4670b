------------------------------- MODULE Collector -------------------------------
(***************************************************************************)
(* The statistics as their readers see them: Collect of                    *)
(* internal/metrics/collector.go, run by the HTTP server for each scrape,  *)
(* and readStatsMap of cmd/minecraft-ebpf/stats.go, behind /api/stats,     *)
(* /api/info and the stats and info commands.  Both sum the per-CPU array  *)
(* slot by slot while the programs bump it.  cmdRun shuts the server down  *)
(* before it closes the maps.  stats is pinned and survives the daemon.    *)
(***************************************************************************)
EXTENDS Integers, FiniteSets, Sequences

CONSTANTS CPUs,        \* naturals: the kernel copies a slot in their order
          Slots,       \* the statistics looked at, of 0..15
          MaxEvents    \* bound on segments and readings

ASSUME CollectorAssumption ==
    /\ CPUs \subseteq Nat /\ IsFiniteSet(CPUs)
    /\ {2, 3, 4, 5} \subseteq Slots /\ Slots \subseteq 0..15
    /\ MaxEvents \in Nat

VARIABLES job,       \* what the reader does, fixed for a behaviour
          stats,     \* per-CPU array: CPU -> slot -> count
          run,       \* per CPU: bumps its current run has still to make
          events,    \* events so far
          phase,     \* of cmdRun: down, serving, draining or closed
          busy,      \* is a request being served?
          late,      \* history: it has outlived the 5 s of Shutdown
          reads,     \* values still to copy
          sums,      \* slot -> sum so far
          emitted    \* slot -> last answer

program == <<stats, run>>
daemon == <<phase, busy, late>>
scrape == <<reads, sums, emitted>>
cvars == <<job, program, events, daemon, scrape>>

Zero == [x \in Slots |-> 0]

CInit ==
    /\ stats = [c \in CPUs |-> Zero]
    /\ run = [c \in CPUs |-> <<>>]
    /\ events = 0
    /\ phase = "serving" /\ busy = FALSE /\ late = FALSE
    /\ reads = {} /\ sums = Zero /\ emitted = Zero

Event(bound) == events < bound /\ events' = events + 1
--------------------------------------------------------------------------------
(* The readers.  handle says through which descriptor the map is read: the   *)
(* daemon's own, which l.Close closes, or one opened from the pin.  partial: *)
(* a slot that cannot be looked up is reported as zero.                      *)

Collect == [does |-> "sum", handle |-> "daemon", partial |-> TRUE]
readStatsMap(handle) == [does |-> "sum", handle |-> handle, partial |-> FALSE]

readCounters == readStatsMap("daemon")
cmdStats == readStatsMap("pinned")

ReadsStats == job.does = "sum"
Unreadable == job.handle = "daemon" /\ phase \in {"closed", "down"}
--------------------------------------------------------------------------------
(* The programs. *)

\* The bumps of a segment that holds a handshake, in program order: PASS_TCP,
\* then STATUS_SEEN or LOGIN_SEEN, then the outcome: none, MATCH_NO_EST, a
\* refusal, or PROMOTED.
Paths == {<<0, 4>>, <<0, 4, 3>>, <<0, 4, 9>>,
          <<0, 5, 3>>, <<0, 5, 10>>, <<0, 5, 2>>}

\* A segment arrives while XDP is attached.
Arrives(c) ==
    /\ ReadsStats /\ phase \in {"serving", "draining"}
    /\ run[c] = <<>>
    /\ Event(MaxEvents)
    /\ \E path \in Paths : run' = [run EXCEPT ![c] = path]
    /\ UNCHANGED <<job, stats, daemon, scrape>>

stat_bump(c) ==
    /\ run[c] # <<>>
    /\ stats' = [stats EXCEPT ![c] =
                    [x \in Slots |-> IF x = Head(run[c]) THEN @[x] + 1 ELSE @[x]]]
    /\ run' = [run EXCEPT ![c] = Tail(@)]
    /\ UNCHANGED <<job, events, daemon, scrape>>
--------------------------------------------------------------------------------
(* A reading. *)

SumBegin ==
    /\ ReadsStats /\ ~busy
    /\ job.handle = "daemon" => phase = "serving"
    /\ Event(MaxEvents)
    /\ busy' = TRUE
    /\ reads' = Slots \X CPUs
    /\ UNCHANGED <<job, program, phase, late, sums, emitted>>

\* Mutant: the slots are taken from the last to the first.
BeforeBackwards(a, b) == a[1] > b[1] \/ (a[1] = b[1] /\ a[2] < b[2])

\* Slots in ascending order; within a slot the kernel copies CPU by CPU.
Before(a, b) == a[1] < b[1] \/ (a[1] = b[1] /\ a[2] < b[2])

\* The value to copy next, and the slot it belongs to.
NextRead == CHOOSE r \in reads : \A q \in reads \ {r} : Before(r, q)
SlotOf(r) == {r[1]} \X CPUs

\* One value is copied.  A lookup that has begun completes.
SumRead ==
    /\ reads # {} /\ ~(Unreadable /\ SlotOf(NextRead) \subseteq reads)
    /\ reads' = reads \ {NextRead}
    /\ sums' = [sums EXCEPT ![NextRead[1]] = @ + stats[NextRead[2]][NextRead[1]]]
    /\ UNCHANGED <<job, program, events, daemon, emitted>>

\* A lookup that begins after the map was closed fails: Collect goes on with
\* the next slot, readStatsMap returns the error and nothing is answered.
SumReadFails ==
    /\ reads # {} /\ Unreadable /\ SlotOf(NextRead) \subseteq reads
    /\ \/ /\ job.partial
          /\ reads' = reads \ SlotOf(NextRead)
          /\ UNCHANGED <<sums, busy, late>>
       \/ /\ ~job.partial
          /\ reads' = {} /\ sums' = Zero /\ busy' = FALSE /\ late' = FALSE
    /\ UNCHANGED <<job, program, events, phase, emitted>>

SumEmit ==
    /\ ReadsStats /\ busy /\ reads = {}
    /\ busy' = FALSE /\ late' = FALSE
    /\ emitted' = sums /\ sums' = Zero
    /\ UNCHANGED <<job, program, events, phase, reads>>
--------------------------------------------------------------------------------
(* cmdRun. *)

\* Load has succeeded and the server listens.
Start ==
    /\ ReadsStats /\ phase = "down" /\ phase' = "serving"
    /\ UNCHANGED <<job, program, events, busy, late, scrape>>

\* SIGINT or SIGTERM: srv.Shutdown admits no new request.
Shutdown ==
    /\ phase = "serving" /\ phase' = "draining"
    /\ UNCHANGED <<job, program, events, busy, late, scrape>>

\* Mutant: the maps are closed before the server is shut down.
DrainedEarly ==
    /\ phase = "draining" /\ phase' = "closed"
    /\ UNCHANGED <<job, program, events, busy, late, scrape>>

\* Is a request of the server running?  A command is a process of its own.
Serving == busy /\ job.handle = "daemon"

\* Shutdown returns when no request is left; the deferred l.Close follows.
Drained ==
    /\ phase = "draining" /\ ~Serving
    /\ phase' = "closed"
    /\ UNCHANGED <<job, program, events, busy, late, scrape>>

\* Or after 5 s, with requests still running.
DrainTimeout ==
    /\ phase = "draining" /\ Serving
    /\ phase' = "closed" /\ late' = TRUE
    /\ UNCHANGED <<job, program, events, busy, scrape>>

\* The process ends, after Close or by a crash: unanswered requests are lost.
Exit ==
    /\ ReadsStats
    /\ phase # "down" /\ phase' = "down"
    /\ IF Serving
       THEN /\ busy' = FALSE /\ late' = FALSE
            /\ reads' = {} /\ sums' = Zero
       ELSE UNCHANGED <<busy, late, reads, sums>>
    /\ UNCHANGED <<job, program, events, emitted>>

cmdRun == Start \/ Shutdown \/ Drained \/ DrainTimeout \/ Exit
Summing == SumBegin \/ SumRead \/ SumReadFails \/ SumEmit
Counting == \E c \in CPUs : Arrives(c) \/ stat_bump(c)
--------------------------------------------------------------------------------
\* What Prometheus requires of a counter: from one answer to the next no value
\* falls, although each is summed over CPUs that keep counting, and although the
\* daemon restarts in between.  The exception is a scrape that outlived the 5 s
\* of Shutdown: its lookups fail on closed maps and are reported as zero.
CountersNeverRegress ==
    [][~late => \A x \in Slots : emitted'[x] >= emitted[x]]_cvars

\* An answer is no snapshot, but it never shows more outcomes than handshakes:
\* Promoted and MatchNoEst are read before StatusSeen and LoginSeen, while the
\* filter bumps them after.
OutcomesWereSeen ==
    [][~late /\ emitted' # emitted =>
         emitted'[2] + emitted'[3] <= emitted'[4] + emitted'[5]]_cvars
================================================================================
