--------------------------------- MODULE Daemon ---------------------------------
(***************************************************************************)
(* The life of the daemon around the filter: loader.Load and Close in      *)
(* internal/loader/loader.go, a crash, the wipe of deploy/install.sh,      *)
(* `minecraft-ebpf clear` and the eviction of elements from full LRU maps. *)
(* The maps are pinned and outlive the process;                            *)
(* the two attachments are links held by it and do not.  While a program   *)
(* is not attached its half of the filter does not run: segments pass      *)
(* unseen, connections open and close without a callback.                  *)
(***************************************************************************)
EXTENDS Filter, Sequences

CONSTANTS Clears,   \* target lists `clear` may be called with
          MayWipe,  \* may install.sh replace the pinned maps?
          Evictable, \* maps that may get full and evict
          MaxCount  \* bound on tcp_open_count, which lost closes let grow for ever

ASSUME DaemonAssumption == MayWipe \in BOOLEAN /\ MaxCount \in Nat

VARIABLES phase,      \* "down", "xdp_loaded", "xdp_attached", "running", "closing", "dying"
          xdp,        \* is minecraft_xdp attached (in either mode)?
          sockops,    \* is minecraft_sockops attached?
          tracked,    \* source -> open sockets with BPF_SOCK_OPS_STATE_CB_FLAG
          clearing,   \* what a running `clear` has yet to delete, map by map
          orphaned    \* history: sources with a tracked socket whose count or
                      \* established entry was wiped, cleared or evicted

life == <<phase, xdp, sockops>>
fvars == <<now, trust, limiters, gate, stack, out>>
dvars == <<fvars, life, tracked, clearing, orphaned>>

\* Neither program runs in this step.
FilterIdle ==
    /\ out' = Quiet
    /\ UNCHANGED <<now, trust, limiters, gate, stack>>
--------------------------------------------------------------------------------
(* loader.Load.  Each step may fail; what was attached is then detached. *)

\* Mutant: the link is not closed on the error path.
LoadFailsAttached ==
    /\ phase' = "down" /\ UNCHANGED <<xdp, sockops>>

\* An error return of Load; log.Fatalf ends the process.
LoadFails ==
    /\ phase' = "down" /\ xdp' = FALSE /\ sockops' = FALSE

\* The interface is looked up, the pin directory made and the program loaded;
\* maps whose pins exist are reused.  systemd starts the unit again after a
\* failure, the operator after a stop.
loadXDP ==
    /\ phase = "down"
    /\ \/ phase' = "xdp_loaded" /\ UNCHANGED <<xdp, sockops>>
       \/ LoadFails
    /\ FilterIdle /\ UNCHANGED <<tracked, clearing, orphaned>>

\* Driver mode first, generic mode if that fails; Load fails if both do.
attachXDP ==
    /\ phase = "xdp_loaded"
    /\ \/ phase' = "xdp_attached" /\ xdp' = TRUE /\ UNCHANGED sockops
       \/ LoadFails
    /\ FilterIdle /\ UNCHANGED <<tracked, clearing, orphaned>>

\* loadSockops and link.AttachCgroup; if either fails the XDP link is closed.
loadSockops ==
    /\ phase = "xdp_attached"
    /\ \/ phase' = "running" /\ sockops' = TRUE /\ UNCHANGED xdp
       \/ LoadFails
    /\ FilterIdle /\ UNCHANGED <<tracked, clearing, orphaned>>

\* SIGINT or SIGTERM: Close detaches sockops, then XDP.
Shutdown ==
    /\ phase = "running"
    /\ phase' = "closing" /\ sockops' = FALSE
    /\ FilterIdle /\ UNCHANGED <<xdp, tracked, clearing, orphaned>>

CloseXDP ==
    /\ phase = "closing"
    /\ phase' = "down" /\ xdp' = FALSE
    /\ FilterIdle /\ UNCHANGED <<sockops, tracked, clearing, orphaned>>

\* The process dies; the kernel drops its links one at a time.
Crash ==
    /\ phase \notin {"down", "dying"}
    /\ phase' = "dying"
    /\ FilterIdle /\ UNCHANGED <<xdp, sockops, tracked, clearing, orphaned>>

LinkDropped ==
    /\ phase = "dying"
    /\ \/ xdp /\ xdp' = FALSE /\ UNCHANGED <<phase, sockops>>
       \/ sockops /\ sockops' = FALSE /\ UNCHANGED <<phase, xdp>>
       \/ ~xdp /\ ~sockops /\ phase' = "down" /\ UNCHANGED <<xdp, sockops>>
    /\ FilterIdle /\ UNCHANGED <<tracked, clearing, orphaned>>
--------------------------------------------------------------------------------
(* The operator. *)

\* Of these sources, the ones with sockets the filter gets callbacks for.
Connected(sources) == {s \in sources : tracked[s] > 0}

EmptyMaps ==
    /\ tcp_established' = {} /\ tcp_syn_seen' = {} /\ tcp_first_data' = {}
    /\ tcp_whitelist' = EmptyMap /\ tcp_open_count' = EmptyMap
    /\ status_ratelimit' = EmptyMap /\ login_ratelimit' = EmptyMap
    /\ syn_ratelimit' = EmptyMap /\ conn_ratelimit' = EmptyMap
    /\ tcp_global_ratelimit' = [c \in CPUs |-> ZeroBucket]
    /\ health' = EmptyMap

\* install.sh, the service stopped: rm -rf of the pin directory.
Wipe ==
    /\ MayWipe /\ phase = "down"
    /\ EmptyMaps
    /\ orphaned' = Connected(Src)
    /\ out' = Quiet
    /\ UNCHANGED <<now, stack, life, tracked, clearing>>

\* The elements of `gone` leave the map called name.  Sessions hang on the count
\* and on the established mark.
Remove(name, gone) ==
    LET Left(n, m) == IF n = name THEN [s \in DOMAIN m \ gone |-> m[s]] ELSE m
        LeftOf(n, set) == IF n = name THEN set \ gone ELSE set
    IN  /\ tcp_whitelist' = Left("tcp_whitelist", tcp_whitelist)
        /\ tcp_established' = LeftOf("tcp_established", tcp_established)
        /\ tcp_syn_seen' = LeftOf("tcp_syn_seen", tcp_syn_seen)
        /\ tcp_first_data' = LeftOf("tcp_first_data", tcp_first_data)
        /\ tcp_open_count' = Left("tcp_open_count", tcp_open_count)
        /\ status_ratelimit' = Left("status_ratelimit", status_ratelimit)
        /\ login_ratelimit' = Left("login_ratelimit", login_ratelimit)
        /\ syn_ratelimit' = Left("syn_ratelimit", syn_ratelimit)
        /\ conn_ratelimit' = Left("conn_ratelimit", conn_ratelimit)
        /\ health' = Left("health", health)
        /\ orphaned' = IF name \in {"tcp_established", "tcp_open_count"}
                       THEN orphaned \cup Connected(gone) ELSE orphaned
        /\ out' = Quiet
        /\ UNCHANGED <<now, tcp_global_ratelimit, stack, life, tracked>>

\* What clear --map all empties, in order (ip_drop_history is not modelled here).
ClearAll == <<"tcp_whitelist", "tcp_established", "tcp_syn_seen", "tcp_open_count",
              "status_ratelimit", "login_ratelimit", "syn_ratelimit",
              "conn_ratelimit", "health">>

\* The whole of each target, or with --ip one source of each.
cmdClear ==
    /\ clearing = <<>>
    /\ \E targets \in Clears, sources \in {Src} \cup {{s} : s \in Src} :
         clearing' = [i \in DOMAIN targets |-> [map |-> targets[i], of |-> sources]]
    /\ FilterIdle /\ UNCHANGED <<life, tracked, orphaned>>

\* clearMap or clearMapKey of the next target.
clearMap ==
    /\ clearing # <<>>
    /\ clearing' = Tail(clearing)
    /\ Remove(Head(clearing).map, Head(clearing).of)

\* A full map drops its least recently used element: any, since traffic of other
\* sources decides.
Evict(s) ==
    /\ \E name \in Evictable : Remove(name, {s})
    /\ UNCHANGED clearing
--------------------------------------------------------------------------------
(* Traffic, with and without the programs. *)

Filtered(p) ==
    /\ xdp
    /\ minecraft_xdp(p)
    /\ UNCHANGED <<life, tracked, clearing, orphaned>>

Unfiltered(p) ==
    /\ ~xdp
    /\ Arrives(p)
    /\ Pass(p, "none")
    /\ UNCHANGED <<now, trust, limiters, gate, life, tracked, clearing, orphaned>>

\* The callback also asks for the STATE_CB of this socket.
TrackedOpen(s) ==
    /\ sockops /\ OpenCount(s) < MaxCount
    /\ Established(s)
    /\ tracked' = [tracked EXCEPT ![s] = @ + 1]
    /\ UNCHANGED <<life, clearing, orphaned>>

UntrackedOpen(s) ==
    /\ ~sockops
    /\ half[s] > 0 /\ socks[s] < MaxSocks
    /\ half' = [half EXCEPT ![s] = @ - 1]
    /\ socks' = [socks EXCEPT ![s] = @ + 1]
    /\ fresh' = [fresh EXCEPT ![s] = @ + 1]
    /\ out' = Quiet
    /\ UNCHANGED <<now, trust, limiters, gate, life, tracked, clearing, orphaned>>

TrackedClose(s) ==
    /\ sockops /\ tracked[s] > 0
    /\ Closed(s)
    /\ tracked' = [tracked EXCEPT ![s] = @ - 1]
    /\ orphaned' = {o \in orphaned : tracked'[o] > 0}
    /\ UNCHANGED <<life, clearing>>

\* A close nobody hears of: no program is attached, or the socket was opened
\* without one and never asked for the callback.
UnseenClose(s) ==
    /\ socks[s] > 0
    /\ \/ ~sockops /\ tracked[s] > 0 /\ tracked' = [tracked EXCEPT ![s] = @ - 1]
       \/ socks[s] > tracked[s] /\ UNCHANGED tracked
    /\ orphaned' = {o \in orphaned : tracked'[o] > 0}
    /\ socks' = [socks EXCEPT ![s] = @ - 1]
    /\ \E f \in {fresh[s], fresh[s] - 1} :
          /\ f >= 0 /\ f < socks[s]
          /\ fresh' = [fresh EXCEPT ![s] = f]
    /\ out' = Quiet
    /\ UNCHANGED <<now, trust, limiters, gate, half, life, clearing>>

HalfOpenLost(s) == Abandoned(s) /\ UNCHANGED <<life, tracked, clearing, orphaned>>

TimePasses == Tick /\ UNCHANGED <<life, tracked, clearing, orphaned>>

DInit ==
    /\ Init
    /\ phase = "down" /\ xdp = FALSE /\ sockops = FALSE
    /\ tracked = [s \in Src |-> 0]
    /\ clearing = <<>>
    /\ orphaned = {}

DNext ==
    \/ loadXDP \/ attachXDP \/ loadSockops
    \/ Shutdown \/ CloseXDP \/ Crash \/ LinkDropped
    \/ Wipe \/ cmdClear \/ clearMap
    \/ \E p \in Segment : Filtered(p) \/ Unfiltered(p)
    \/ \E s \in Src : \/ TrackedOpen(s) \/ UntrackedOpen(s)
                      \/ TrackedClose(s) \/ UnseenClose(s) \/ HalfOpenLost(s)
                      \/ Evict(s)
    \/ TimePasses

DSpec == DInit /\ [][DNext]_dvars
--------------------------------------------------------------------------------
(* Properties. *)

\* Load is all or nothing: when it has returned an error, and after a shutdown
\* or a crash, neither program is attached; when it has succeeded, both are.
AllOrNothing ==
    /\ phase = "down" => ~xdp /\ ~sockops
    /\ phase = "running" => xdp /\ sockops

\* Restarts and crashes can only make the filter overcount: every socket it still
\* gets a callback for is counted, and its source is established, so that closing
\* one connection never strands another.  A wipe, a clear or an eviction of a count
\* or an established mark breaks this for the sources connected at the time, and
\* only until they have closed all of the sockets they then held or have opened
\* since; other maps may lose their elements at any time.
RestartSafe ==
    \A s \in Src \ orphaned :
        /\ tracked[s] <= OpenCount(s)
        /\ tracked[s] > 0 => s \in tcp_established

\* A player whose connection the filter has seen open is never dropped for want
\* of a SYN, whatever the daemon does meanwhile, unless the count or the mark of
\* its source was deleted by the operator or evicted.
PlayersKeepFlowing ==
    [][out'.reason = "no_syn" =>
          tracked[out'.src] = 0 \/ out'.src \in orphaned]_dvars

\* The flag's help: "drop new SYNs from any IP that already holds this many open
\* TCP sockets": a SYN refused as too_many_open comes from such a source.
CapMeansOpen == out.reason = "too_many_open" => socks[out.src] >= MaxOpen
================================================================================
