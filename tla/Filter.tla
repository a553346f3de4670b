--------------------------------- MODULE Filter ---------------------------------
(***************************************************************************)
(* The packet filter of minecraft-ebpf: bpf/minecraft_xdp.bpf.c (one run   *)
(* per ingress segment) and bpf/minecraft_sockops.bpf.c (one run per       *)
(* connection established or closed), over the maps of bpf/shared/maps.h.  *)
(*                                                                         *)
(* Each program run is one atomic step here; interleavings inside the      *)
(* socket callbacks are the subject of SockopsSmp.  There is one action    *)
(* per way out of minecraft_xdp.  The TCP stack behind the filter is       *)
(* external: per source it has half-open connections, open sockets, and    *)
(* among those the ones that have not sent data yet.                       *)
(*                                                                         *)
(* Only presence in tcp_established, tcp_syn_seen and tcp_first_data is    *)
(* ever tested, so these maps are sets of sources.                         *)
(***************************************************************************)
EXTENDS RateLimit, BpfMaps, FiniteSets

CONSTANTS Src,        \* source addresses
          CPUs,       \* CPUs, one slot each of the PERCPU_ARRAY
          FlagSets,   \* TCP flag combinations that arrive
          Sizes,      \* values of ip->tot_len
          Payloads,   \* payload kinds that arrive
          Stray       \* may data of no open connection arrive (forged, late)?

\* The `volatile const` tunables the loader sets; 0 disables where the code says so.
CONSTANTS Ttl, StatusPeriod, StatusBurst, LoginPeriod, LoginBurst,
          GlobalPeriod, GlobalBurst, MaxOpen,
          HealthWindow, HealthThreshold, HealthBlacklist,
          PktPeriod, PktBurst, BytePeriod, ByteBurst, NewPeriod, NewBurst

\* Bounds of the environment.
CONSTANTS MaxTime,    \* clock
          Backlog,    \* half-open connections per source (the SYN backlog)
          MaxSocks    \* open sockets per source

TcpFlags == {"syn", "ack", "fin", "rst", "psh", "urg"}
HsClass == {"NONE", "STATUS", "LOGIN", "MALFORMED"}

ASSUME InputAssumption ==
    /\ FlagSets \subseteq SUBSET TcpFlags
    /\ Sizes \subseteq Nat \ {0}
    /\ Payloads \subseteq HsClass \cup {"BAD_HEADER", "EMPTY"}
    /\ Stray \in BOOLEAN

ASSUME TunableAssumption ==
    /\ Ttl \in Nat /\ MaxOpen \in Nat
    /\ StatusPeriod \in Nat /\ StatusBurst \in Nat
    /\ LoginPeriod \in Nat /\ LoginBurst \in Nat
    /\ GlobalPeriod \in Nat /\ GlobalBurst \in Nat
    /\ HealthWindow \in Nat /\ HealthThreshold \in Nat /\ HealthBlacklist \in Nat
    /\ PktPeriod \in Nat /\ PktBurst \in Nat
    /\ BytePeriod \in Nat /\ ByteBurst \in Nat
    /\ NewPeriod \in Nat /\ NewBurst \in Nat

ASSUME BoundAssumption == MaxTime \in Nat /\ Backlog \in Nat /\ MaxSocks \in Nat

VARIABLES
    now,                  \* bpf_ktime_get_boot_ns()
    tcp_established, tcp_syn_seen, tcp_first_data,
    tcp_whitelist,        \* source -> time last refreshed
    tcp_open_count,       \* source -> count
    status_ratelimit, login_ratelimit, syn_ratelimit,   \* source -> Bucket
    tcp_global_ratelimit, \* CPU -> Bucket
    conn_ratelimit,       \* source -> [pkt, byte : Bucket]
    health,               \* source -> [anomalies, start, until]
    half, socks, fresh,   \* the TCP stack, per source
    out                   \* what the last program run reported

trust == <<tcp_established, tcp_first_data, tcp_whitelist, tcp_open_count>>
limiters == <<status_ratelimit, login_ratelimit, conn_ratelimit, health>>
gate == <<tcp_syn_seen, syn_ratelimit, tcp_global_ratelimit>>
stack == <<half, socks, fresh>>
vars == <<now, trust, limiters, gate, stack, out>>
--------------------------------------------------------------------------------
(* Segments and what a run reports about one. *)

\* A segment.  `first` marks the first data segment of an open connection, the
\* one that carries the handshake.
Segment ==
    {p \in [src : Src, cpu : CPUs, flags : FlagSets, size : Sizes,
            payload : Payloads, first : BOOLEAN] :
        p.first => p.payload \in HsClass /\ "syn" \notin p.flags}

tcp_flags_bogus(f) ==
    \/ f = {}
    \/ {"syn", "fin"} \subseteq f
    \/ {"syn", "rst"} \subseteq f
    \/ {"fin", "rst"} \subseteq f
    \/ {"fin", "psh", "urg"} \subseteq f /\ "ack" \notin f

IsSyn(p) == "syn" \in p.flags

Quiet == [src |-> "none", first |-> FALSE, payload |-> "none",
          verdict |-> "none", reason |-> "none", metered |-> "none"]

\* The verdict, why a segment is dropped, and as which handshake one is metered.
\* What a run counts and records on its way is the subject of Accounting.
Report(p, verdict, reason, metered) ==
    out' = [src |-> p.src, first |-> p.first, payload |-> p.payload,
            verdict |-> verdict, reason |-> reason, metered |-> metered]

\* XDP_DROP: the stack never sees the segment.
Drop(p, reason) ==
    /\ Report(p, "DROP", reason, "none")
    /\ UNCHANGED stack

\* XDP_PASS: a SYN opens a half-open connection if the backlog has room, and
\* a connection's first data segment has now been delivered.
Pass(p, metered) ==
    /\ Report(p, "PASS", "none", metered)
    /\ half' = IF IsSyn(p) /\ "ack" \notin p.flags /\ p.payload # "BAD_HEADER"
                  /\ half[p.src] < Backlog
               THEN [half EXCEPT ![p.src] = @ + 1] ELSE half
    /\ fresh' = IF p.first THEN [fresh EXCEPT ![p.src] = @ - 1] ELSE fresh
    /\ UNCHANGED socks
--------------------------------------------------------------------------------
(* The helpers of minecraft_xdp.bpf.c. *)

\* ratelimit_take returns true ...
RatelimitOk(m, s, period, burst) ==
    s \in DOMAIN m => CanTake(m[s], now, period, burst, 1)

\* ... and the map it then leaves.
RatelimitTaken(m, s, period, burst) ==
    Put(m, s, IF s \in DOMAIN m THEN Drain(m[s], now, period, burst, 1)
                                ELSE FirstBucket(now, burst, 1))

PktOn == PktPeriod > 0 /\ PktBurst > 0
ByteOn == BytePeriod > 0 /\ ByteBurst > 0
NewOn == NewPeriod > 0 /\ NewBurst > 0
GlobalOn == GlobalPeriod > 0 /\ GlobalBurst > 0

PktOk(s) == PktOn => CanTake(conn_ratelimit[s].pkt, now, PktPeriod, PktBurst, 1)
ByteOk(s, n) ==
    ByteOn => CanTake(conn_ratelimit[s].byte, now, BytePeriod, ByteBurst, n)

\* conn_ratelimit_take returns true ...
ConnOk(s, n) ==
    (PktOn \/ ByteOn) /\ s \in DOMAIN conn_ratelimit => PktOk(s) /\ ByteOk(s, n)

FirstConn(n) ==
    [pkt  |-> FirstBucket(now, PktBurst, 1),
     byte |-> FirstBucket(now, ByteBurst, IF ByteOn THEN n ELSE 0)]

\* ... and the entry it leaves, whichever way it returns: a packet token is
\* spent even when the byte bucket then refuses the segment.
ConnCharged(s, n) ==
    LET b == conn_ratelimit[s]
    IN  [pkt  |-> IF PktOn /\ PktOk(s)
                  THEN Drain(b.pkt, now, PktPeriod, PktBurst, 1) ELSE b.pkt,
         byte |-> IF ByteOn /\ PktOk(s) /\ ByteOk(s, n)
                  THEN Drain(b.byte, now, BytePeriod, ByteBurst, n) ELSE b.byte]

conn_ratelimit_take(s, n) ==
    conn_ratelimit' =
        IF ~PktOn /\ ~ByteOn THEN conn_ratelimit
        ELSE Put(conn_ratelimit, s,
                 IF s \in DOMAIN conn_ratelimit THEN ConnCharged(s, n)
                                                ELSE FirstConn(n))

\* Mutant: the anomaly window is never restarted.
AnomalyNoWindow(s) ==
    IF s \notin DOMAIN health
    THEN [anomalies |-> 1, start |-> now, until |-> 0]
    ELSE LET n == health[s].anomalies + 1
         IN  [anomalies |-> n, start |-> health[s].start,
              until |-> IF n >= HealthThreshold THEN now + HealthBlacklist
                                                ELSE health[s].until]

\* Mutant: the ban comes one anomaly late.
AnomalyLate(s) ==
    IF s \notin DOMAIN health
    THEN [anomalies |-> 1, start |-> now, until |-> 0]
    ELSE LET h == health[s]
             stale == now - h.start > HealthWindow
             n == (IF stale THEN 0 ELSE h.anomalies) + 1
         IN  [anomalies |-> n,
              start |-> IF stale THEN now ELSE h.start,
              until |-> IF n > HealthThreshold THEN now + HealthBlacklist
                                               ELSE h.until]

\* The health entry after one more anomaly.
Anomaly(s) ==
    IF s \notin DOMAIN health
    THEN [anomalies |-> 1, start |-> now, until |-> 0]
    ELSE LET h == health[s]
             stale == now - h.start > HealthWindow
             n == (IF stale THEN 0 ELSE h.anomalies) + 1
         IN  [anomalies |-> n,
              start |-> IF stale THEN now ELSE h.start,
              until |-> IF n >= HealthThreshold THEN now + HealthBlacklist
                                                ELSE h.until]

health_record_anomaly(s) == health' = Put(health, s, Anomaly(s))

health_is_blacklisted(s) == s \in DOMAIN health /\ health[s].until > now

\* Mutant: the cap compares with > instead of >=.
TooManyOpenOffByOne(s) ==
    MaxOpen > 0 /\ s \in DOMAIN tcp_open_count /\ tcp_open_count[s] > MaxOpen

TooManyOpen(s) ==
    /\ MaxOpen > 0
    /\ s \in DOMAIN tcp_open_count
    /\ tcp_open_count[s] >= MaxOpen
--------------------------------------------------------------------------------
(* minecraft_xdp: the checks in front of the trusted path. *)

BadFlags(p) ==
    /\ tcp_flags_bogus(p.flags)
    /\ Drop(p, "bad_flags")
    /\ UNCHANGED <<now, trust, limiters, gate>>

Unhealthy(p) ==
    /\ ~tcp_flags_bogus(p.flags)
    /\ health_is_blacklisted(p.src)
    /\ Drop(p, "unhealthy")
    /\ UNCHANGED <<now, trust, limiters, gate>>

Admitted(p) == ~tcp_flags_bogus(p.flags) /\ ~health_is_blacklisted(p.src)

\* A whitelist entry older than the TTL is deleted and no longer counts.
Whitelisted(s) ==
    /\ s \in DOMAIN tcp_whitelist
    /\ ~(Ttl > 0 /\ now - tcp_whitelist[s] > Ttl)

(* The trusted path. *)

\* Mutant: a source that gets itself blacklisted keeps its whitelist entry.
TrustedOverRateKeepsTrust(p) ==
    /\ Admitted(p) /\ Whitelisted(p.src)
    /\ ~ConnOk(p.src, p.size)
    /\ conn_ratelimit_take(p.src, p.size)
    /\ health_record_anomaly(p.src)
    /\ Drop(p, "conn_ratelimit")
    /\ UNCHANGED <<now, trust, status_ratelimit, login_ratelimit, gate>>

TrustedOverRate(p) ==
    /\ Admitted(p) /\ Whitelisted(p.src)
    /\ ~ConnOk(p.src, p.size)
    /\ conn_ratelimit_take(p.src, p.size)
    /\ health_record_anomaly(p.src)
    /\ tcp_whitelist' = IF Anomaly(p.src).until > now
                        THEN Del(tcp_whitelist, p.src) ELSE tcp_whitelist
    /\ Drop(p, "conn_ratelimit")
    /\ UNCHANGED <<now, tcp_established, tcp_first_data, tcp_open_count,
                   status_ratelimit, login_ratelimit, gate>>

TrustedTooManyOpen(p) ==
    /\ Admitted(p) /\ Whitelisted(p.src)
    /\ ConnOk(p.src, p.size)
    /\ IsSyn(p) /\ TooManyOpen(p.src)
    /\ conn_ratelimit_take(p.src, p.size)
    /\ Drop(p, "too_many_open")
    /\ UNCHANGED <<now, trust, status_ratelimit, login_ratelimit, health, gate>>

TrustedPass(p) ==
    /\ Admitted(p) /\ Whitelisted(p.src)
    /\ ConnOk(p.src, p.size)
    /\ ~(IsSyn(p) /\ TooManyOpen(p.src))
    /\ conn_ratelimit_take(p.src, p.size)
    /\ tcp_whitelist' = Put(tcp_whitelist, p.src, now)
    /\ Pass(p, "none")
    /\ UNCHANGED <<now, tcp_established, tcp_first_data, tcp_open_count,
                   status_ratelimit, login_ratelimit, health, gate>>
--------------------------------------------------------------------------------
(* The untrusted path: the SYN gate.  An expired whitelist entry goes here. *)

Untrusted(p) == Admitted(p) /\ ~Whitelisted(p.src)

ExpireTrust(p) == tcp_whitelist' = Del(tcp_whitelist, p.src)

\* Mutant: the established lookup is forgotten.
NoSynIgnoresEstablished(p) ==
    /\ Untrusted(p) /\ ~IsSyn(p)
    /\ p.src \notin tcp_syn_seen
    /\ ExpireTrust(p)
    /\ Drop(p, "no_syn")
    /\ UNCHANGED <<now, tcp_established, tcp_first_data, tcp_open_count,
                   limiters, gate>>

NoSyn(p) ==
    /\ Untrusted(p) /\ ~IsSyn(p)
    /\ p.src \notin tcp_syn_seen \cup tcp_established
    /\ ExpireTrust(p)
    /\ Drop(p, "no_syn")
    /\ UNCHANGED <<now, tcp_established, tcp_first_data, tcp_open_count,
                   limiters, gate>>

SynTooManyOpen(p) ==
    /\ Untrusted(p) /\ IsSyn(p) /\ TooManyOpen(p.src)
    /\ ExpireTrust(p)
    /\ Drop(p, "too_many_open")
    /\ UNCHANGED <<now, tcp_established, tcp_first_data, tcp_open_count,
                   limiters, gate>>

NewOk(s) == NewOn => RatelimitOk(syn_ratelimit, s, NewPeriod, NewBurst)

syn_ratelimit_take(s) ==
    syn_ratelimit' = IF NewOn THEN RatelimitTaken(syn_ratelimit, s, NewPeriod, NewBurst)
                              ELSE syn_ratelimit

SynConnRate(p) ==
    /\ Untrusted(p) /\ IsSyn(p) /\ ~TooManyOpen(p.src)
    /\ ~NewOk(p.src)
    /\ ExpireTrust(p)
    /\ Drop(p, "conn_rate")
    /\ UNCHANGED <<now, tcp_established, tcp_first_data, tcp_open_count,
                   limiters, gate>>

GlobalOk(c) ==
    GlobalOn => CanTake(tcp_global_ratelimit[c], now, GlobalPeriod, GlobalBurst, 1)

\* Mutant: the breaker is charged before it is consulted.
SynGlobalRateCharges(p) ==
    /\ Untrusted(p) /\ IsSyn(p) /\ ~TooManyOpen(p.src)
    /\ NewOk(p.src) /\ ~GlobalOk(p.cpu)
    /\ syn_ratelimit_take(p.src)
    /\ tcp_global_ratelimit' = [tcp_global_ratelimit EXCEPT ![p.cpu].last = now]
    /\ ExpireTrust(p)
    /\ Drop(p, "global_ratelimit")
    /\ UNCHANGED <<now, tcp_established, tcp_first_data, tcp_open_count,
                   limiters, tcp_syn_seen>>

\* The per-IP token is already spent when the global breaker refuses.
SynGlobalRate(p) ==
    /\ Untrusted(p) /\ IsSyn(p) /\ ~TooManyOpen(p.src)
    /\ NewOk(p.src) /\ ~GlobalOk(p.cpu)
    /\ syn_ratelimit_take(p.src)
    /\ ExpireTrust(p)
    /\ Drop(p, "global_ratelimit")
    /\ UNCHANGED <<now, tcp_established, tcp_first_data, tcp_open_count,
                   limiters, tcp_syn_seen, tcp_global_ratelimit>>

tcp_global_ratelimit_take(c) ==
    tcp_global_ratelimit' =
        IF GlobalOn
        THEN [tcp_global_ratelimit EXCEPT
                 ![c] = Drain(@, now, GlobalPeriod, GlobalBurst, 1)]
        ELSE tcp_global_ratelimit

\* The segment gets past the SYN gate, to the payload checks below.
GatePassed(p) ==
    /\ Untrusted(p)
    /\ \/ /\ ~IsSyn(p)
          /\ p.src \in tcp_syn_seen \cup tcp_established
          /\ UNCHANGED gate
       \/ /\ IsSyn(p) /\ ~TooManyOpen(p.src)
          /\ NewOk(p.src) /\ GlobalOk(p.cpu)
          /\ syn_ratelimit_take(p.src)
          /\ tcp_global_ratelimit_take(p.cpu)
          /\ tcp_syn_seen' = tcp_syn_seen \cup {p.src}
    /\ UNCHANGED <<now, tcp_established, tcp_open_count>>
--------------------------------------------------------------------------------
(* The payload. *)

\* Bad data offset, or a header that runs past the frame: passed, not counted.
BadHeader(p) ==
    /\ p.payload = "BAD_HEADER"
    /\ GatePassed(p)
    /\ ExpireTrust(p)
    /\ Pass(p, "none")
    /\ UNCHANGED <<tcp_first_data, limiters>>

NoPayload(p) ==
    /\ p.payload = "EMPTY"
    /\ GatePassed(p)
    /\ ExpireTrust(p)
    /\ Pass(p, "none")
    /\ UNCHANGED <<tcp_first_data, limiters>>

\* Is the payload looked at?  Once a source is marked in tcp_first_data, only
\* while it has more than one connection open.
FirstSegment(s) ==
    s \in tcp_established /\ s \in tcp_first_data =>
        s \in DOMAIN tcp_open_count /\ tcp_open_count[s] > 1

\* The class acted on.  Established sources are never dropped as malformed.
Class(p) ==
    LET c == IF FirstSegment(p.src) THEN p.payload ELSE "NONE"
    IN  IF c = "MALFORMED" /\ p.src \in tcp_established THEN "NONE" ELSE c

\* A segment with payload reaches the classifier, which marks an established
\* source in tcp_first_data.
Inspected(p, class) ==
    /\ p.payload \in HsClass
    /\ Class(p) = class
    /\ GatePassed(p)
    /\ tcp_first_data' = IF p.src \in tcp_established
                         THEN tcp_first_data \cup {p.src} ELSE tcp_first_data

StreamOverRate(p) ==
    /\ Inspected(p, "NONE")
    /\ p.src \in tcp_established
    /\ ~ConnOk(p.src, p.size)
    /\ conn_ratelimit_take(p.src, p.size)
    /\ health_record_anomaly(p.src)
    /\ ExpireTrust(p)
    /\ Drop(p, "conn_ratelimit")
    /\ UNCHANGED <<status_ratelimit, login_ratelimit>>

\* Mutant: data is charged to sources without an established socket.
StreamPassChargesAll(p) ==
    /\ Inspected(p, "NONE")
    /\ ConnOk(p.src, p.size)
    /\ conn_ratelimit_take(p.src, p.size)
    /\ ExpireTrust(p)
    /\ Pass(p, "none")
    /\ UNCHANGED <<status_ratelimit, login_ratelimit, health>>

StreamPass(p) ==
    /\ Inspected(p, "NONE")
    /\ p.src \in tcp_established => ConnOk(p.src, p.size)
    /\ IF p.src \in tcp_established THEN conn_ratelimit_take(p.src, p.size)
                                    ELSE UNCHANGED conn_ratelimit
    /\ ExpireTrust(p)
    /\ Pass(p, "none")
    /\ UNCHANGED <<status_ratelimit, login_ratelimit, health>>

\* Only a source that is not established gets here.  health_record_anomaly is not
\* called.
Malformed(p) ==
    /\ Inspected(p, "MALFORMED")
    /\ ExpireTrust(p)
    /\ Drop(p, "malformed_handshake")
    /\ UNCHANGED limiters

\* A handshake without an established socket passes: nothing is metered.
HandshakeNoEst(p) ==
    /\ Inspected(p, "STATUS") \/ Inspected(p, "LOGIN")
    /\ p.src \notin tcp_established
    /\ ExpireTrust(p)
    /\ Pass(p, "none")
    /\ UNCHANGED limiters

StatusLimited(p) ==
    /\ Inspected(p, "STATUS")
    /\ p.src \in tcp_established
    /\ ~RatelimitOk(status_ratelimit, p.src, StatusPeriod, StatusBurst)
    /\ ExpireTrust(p)
    /\ Drop(p, "status_ratelimit")
    /\ UNCHANGED limiters

StatusPass(p) ==
    /\ Inspected(p, "STATUS")
    /\ p.src \in tcp_established
    /\ RatelimitOk(status_ratelimit, p.src, StatusPeriod, StatusBurst)
    /\ status_ratelimit' =
          RatelimitTaken(status_ratelimit, p.src, StatusPeriod, StatusBurst)
    /\ ExpireTrust(p)
    /\ Pass(p, "STATUS")
    /\ UNCHANGED <<login_ratelimit, conn_ratelimit, health>>

LoginLimited(p) ==
    /\ Inspected(p, "LOGIN")
    /\ p.src \in tcp_established
    /\ ~RatelimitOk(login_ratelimit, p.src, LoginPeriod, LoginBurst)
    /\ ExpireTrust(p)
    /\ Drop(p, "login_ratelimit")
    /\ UNCHANGED limiters

\* Mutant: the login bucket is not consulted.
LoginPromoteUnmetered(p) ==
    /\ Inspected(p, "LOGIN")
    /\ p.src \in tcp_established
    /\ login_ratelimit' =
          RatelimitTaken(login_ratelimit, p.src, LoginPeriod, LoginBurst)
    /\ tcp_whitelist' = Put(tcp_whitelist, p.src, now)
    /\ Pass(p, "LOGIN")
    /\ UNCHANGED <<status_ratelimit, conn_ratelimit, health>>

\* Mutant: promotion does not ask for an established socket.
LoginPromoteSpoofed(p) ==
    /\ Inspected(p, "LOGIN")
    /\ RatelimitOk(login_ratelimit, p.src, LoginPeriod, LoginBurst)
    /\ login_ratelimit' =
          RatelimitTaken(login_ratelimit, p.src, LoginPeriod, LoginBurst)
    /\ tcp_whitelist' = Put(tcp_whitelist, p.src, now)
    /\ Pass(p, "LOGIN")
    /\ UNCHANGED <<status_ratelimit, conn_ratelimit, health>>

\* A metered Login over an established socket: the source becomes trusted.
LoginPromote(p) ==
    /\ Inspected(p, "LOGIN")
    /\ p.src \in tcp_established
    /\ RatelimitOk(login_ratelimit, p.src, LoginPeriod, LoginBurst)
    /\ login_ratelimit' =
          RatelimitTaken(login_ratelimit, p.src, LoginPeriod, LoginBurst)
    /\ tcp_whitelist' = Put(tcp_whitelist, p.src, now)
    /\ Pass(p, "LOGIN")
    /\ UNCHANGED <<status_ratelimit, conn_ratelimit, health>>

\* The segment can arrive: a first data segment needs a connection that has
\* sent none, later data one that has.
Arrives(p) ==
    CASE p.payload \notin HsClass -> TRUE
      [] p.first -> fresh[p.src] > 0
      [] OTHER -> Stray \/ fresh[p.src] < socks[p.src]

minecraft_xdp(p) ==
    /\ Arrives(p)
    /\ \/ BadFlags(p) \/ Unhealthy(p)
       \/ TrustedOverRate(p) \/ TrustedTooManyOpen(p) \/ TrustedPass(p)
       \/ NoSyn(p) \/ SynTooManyOpen(p) \/ SynConnRate(p) \/ SynGlobalRate(p)
       \/ BadHeader(p) \/ NoPayload(p)
       \/ StreamOverRate(p) \/ StreamPass(p) \/ Malformed(p)
       \/ HandshakeNoEst(p) \/ StatusLimited(p) \/ StatusPass(p)
       \/ LoginLimited(p) \/ LoginPromote(p)
--------------------------------------------------------------------------------
(* minecraft_sockops. *)

\* BPF_SOCK_OPS_PASSIVE_ESTABLISHED_CB
Established(s) ==
    /\ half[s] > 0 /\ socks[s] < MaxSocks
    /\ half' = [half EXCEPT ![s] = @ - 1]
    /\ socks' = [socks EXCEPT ![s] = @ + 1]
    /\ fresh' = [fresh EXCEPT ![s] = @ + 1]
    /\ tcp_established' = tcp_established \cup {s}
    /\ tcp_open_count' =
          Put(tcp_open_count, s,
              IF s \in DOMAIN tcp_open_count THEN tcp_open_count[s] + 1 ELSE 1)
    /\ out' = Quiet
    /\ UNCHANGED <<now, tcp_first_data, tcp_whitelist, limiters, gate>>

\* Mutant: the first-data mark survives the session.
open_count_decKeepsMark(s) ==
    IF s \in DOMAIN tcp_open_count /\ tcp_open_count[s] > 0
    THEN /\ tcp_open_count' = [tcp_open_count EXCEPT ![s] = @ - 1]
         /\ IF tcp_open_count[s] = 1
            THEN /\ tcp_established' = tcp_established \ {s}
                 /\ tcp_whitelist' = Del(tcp_whitelist, s)
            ELSE UNCHANGED <<tcp_established, tcp_whitelist>>
         /\ UNCHANGED tcp_first_data
    ELSE UNCHANGED trust

\* Mutant: every close ends the session.
open_count_decEager(s) ==
    IF s \in DOMAIN tcp_open_count /\ tcp_open_count[s] > 0
    THEN /\ tcp_open_count' = [tcp_open_count EXCEPT ![s] = @ - 1]
         /\ tcp_established' = tcp_established \ {s}
         /\ tcp_whitelist' = Del(tcp_whitelist, s)
         /\ tcp_first_data' = tcp_first_data \ {s}
    ELSE UNCHANGED trust

\* open_count_dec: the last connection takes the session's state with it.
open_count_dec(s) ==
    IF s \in DOMAIN tcp_open_count /\ tcp_open_count[s] > 0
    THEN /\ tcp_open_count' = [tcp_open_count EXCEPT ![s] = @ - 1]
         /\ IF tcp_open_count[s] = 1
            THEN /\ tcp_established' = tcp_established \ {s}
                 /\ tcp_whitelist' = Del(tcp_whitelist, s)
                 /\ tcp_first_data' = tcp_first_data \ {s}
            ELSE UNCHANGED <<tcp_established, tcp_whitelist, tcp_first_data>>
    ELSE UNCHANGED trust

\* BPF_SOCK_OPS_STATE_CB into TCP_CLOSE, of a connection that has or has not
\* sent data.
Closed(s) ==
    /\ socks[s] > 0
    /\ socks' = [socks EXCEPT ![s] = @ - 1]
    /\ \E f \in {fresh[s], fresh[s] - 1} :
          /\ f >= 0 /\ f < socks[s]
          /\ fresh' = [fresh EXCEPT ![s] = f]
    /\ open_count_dec(s)
    /\ out' = Quiet
    /\ UNCHANGED <<now, limiters, gate, half>>
--------------------------------------------------------------------------------
(* The environment. *)

\* A half-open connection times out in the stack; no callback runs.
Abandoned(s) ==
    /\ half[s] > 0
    /\ half' = [half EXCEPT ![s] = @ - 1]
    /\ out' = Quiet
    /\ UNCHANGED <<now, trust, limiters, gate, socks, fresh>>

Tick ==
    /\ now < MaxTime
    /\ now' = now + 1
    /\ out' = Quiet
    /\ UNCHANGED <<trust, limiters, gate, stack>>

Init ==
    /\ now = 0
    /\ tcp_established = {} /\ tcp_syn_seen = {} /\ tcp_first_data = {}
    /\ tcp_whitelist = EmptyMap /\ tcp_open_count = EmptyMap
    /\ status_ratelimit = EmptyMap /\ login_ratelimit = EmptyMap
    /\ syn_ratelimit = EmptyMap /\ conn_ratelimit = EmptyMap
    /\ tcp_global_ratelimit = [c \in CPUs |-> ZeroBucket]
    /\ health = EmptyMap
    /\ half = [s \in Src |-> 0] /\ socks = [s \in Src |-> 0]
    /\ fresh = [s \in Src |-> 0]
    /\ out = Quiet

Next ==
    \/ \E p \in Segment : minecraft_xdp(p)
    \/ \E s \in Src : Established(s) \/ Closed(s) \/ Abandoned(s)
    \/ Tick

Spec == Init /\ [][Next]_vars
--------------------------------------------------------------------------------
(* Properties. *)

Reasons == {"bad_flags", "unhealthy", "no_syn", "too_many_open", "conn_rate",
            "global_ratelimit", "status_ratelimit", "login_ratelimit",
            "malformed_handshake", "conn_ratelimit"}

ConnLimit == [pkt : Bucket, byte : Bucket]
Health == [anomalies : Nat, start : Nat, until : Nat]

MapsOK ==
    /\ tcp_established \subseteq Src /\ tcp_syn_seen \subseteq Src
    /\ tcp_first_data \subseteq Src
    /\ IsMap(tcp_whitelist, Src, Nat) /\ IsMap(tcp_open_count, Src, Nat)
    /\ IsMap(status_ratelimit, Src, Bucket) /\ IsMap(login_ratelimit, Src, Bucket)
    /\ IsMap(syn_ratelimit, Src, Bucket)
    /\ tcp_global_ratelimit \in [CPUs -> Bucket]
    /\ IsMap(conn_ratelimit, Src, ConnLimit)
    /\ IsMap(health, Src, Health)

StackOK ==
    /\ half \in [Src -> Nat] /\ socks \in [Src -> Nat] /\ fresh \in [Src -> Nat]

OutOK ==
    out \in [src : Src \cup {"none"}, first : BOOLEAN,
             payload : Payloads \cup {"none"},
             verdict : {"none", "PASS", "DROP"},
             reason : Reasons \cup {"none"}, metered : {"none", "STATUS", "LOGIN"}]

TypeOK == now \in Nat /\ MapsOK /\ StackOK /\ OutOK

\* Connections the filter believes s has open.
OpenCount(s) == IF s \in DOMAIN tcp_open_count THEN tcp_open_count[s] ELSE 0

\* The session bookkeeping follows the TCP stack: tcp_open_count is the number
\* of open sockets, a source is in tcp_established exactly while it has one, and
\* trust and the first-data mark never outlive the last connection.
SessionTracked ==
    \A s \in Src :
        /\ OpenCount(s) = socks[s]
        /\ s \in tcp_established <=> socks[s] > 0
        /\ s \in DOMAIN tcp_whitelist \cup tcp_first_data => socks[s] > 0

\* What the per-IP open-connection cap really bounds: connections that were
\* half-open when the cap was reached still complete, so a source may hold up
\* to a backlog more than MaxOpen - 1.
OpenBounded ==
    MaxOpen > 0 =>
        \A s \in Src : socks[s] + half[s] <= MaxOpen - 1 + Backlog

\* A blacklisted source is never on the whitelist as well.
BannedNotTrusted ==
    \A s \in DOMAIN health : health_is_blacklisted(s) => s \notin DOMAIN tcp_whitelist

\* A ban is earned: it was imposed on at least HealthThreshold anomalies that all
\* fell into one HealthWindow.
BanEarned ==
    \A s \in DOMAIN health : health_is_blacklisted(s) =>
        /\ health[s].anomalies >= HealthThreshold
        /\ health[s].until - HealthBlacklist - health[s].start <= HealthWindow

\* And it is imposed: a source that has collected HealthThreshold anomalies since
\* its window began has been blacklisted since then.  deploy/config.example: "an IP
\* that accumulates HEALTH_THRESHOLD anomalies within HEALTH_WINDOW is blacklisted
\* for HEALTH_BLACKLIST".
BanDelivered ==
    \A s \in DOMAIN health : health[s].anomalies >= HealthThreshold =>
        health[s].until >= health[s].start + HealthBlacklist

\* What the maps hold of a source: its status, login and packet budgets and its
\* anomalies.
Entry(m, s) == IF s \in DOMAIN m THEN <<m[s]>> ELSE <<>>
Account(s) == <<Entry(status_ratelimit, s), Entry(login_ratelimit, s),
                Entry(conn_ratelimit, s), Entry(health, s)>>

\* "a source with no tcp_established entry wrote ...; a spoofed packet would charge
\* the victim" (xdp_datapath_test.go): an account changes only on a segment of that
\* source and while it holds an open connection.  An address that is forged while
\* its owner is away is charged nothing here and cannot be banned.  The SYN budget
\* is no part of this: it is charged for every SYN, forged or not.  And while the
\* owner is connected, forged data is his.
OnlyConnectedCharged ==
    [][\A s \in Src : Account(s)' # Account(s) => out'.src = s /\ socks[s] > 0]_vars

\* A handshake in the first data segment of a connection reaches its bucket
\* unless the source is trusted.
FirstHandshakeSeen ==
    out.first /\ out.verdict = "PASS" /\ out.payload \in {"STATUS", "LOGIN"} =>
        out.metered = out.payload
FirstHandshakeMetered ==
    [][Whitelisted(out'.src) \/ FirstHandshakeSeen']_vars

\* A SYN refused in front of the payload checks, for whatever reason, costs the
\* global breaker nothing: a source over its own limits (open connections, SYN
\* rate, ban) cannot spend the budget of the others, nor push its refill back.
BreakerSparesRefused ==
    [][out'.reason \in {"bad_flags", "unhealthy", "no_syn", "too_many_open",
                        "conn_rate", "global_ratelimit"}
         => UNCHANGED tcp_global_ratelimit]_vars

\* The filter implements the abstract trust lifecycle.
Abstract == INSTANCE Trust WITH
    conns   <- socks,
    trusted <- DOMAIN tcp_whitelist,
    banned  <- {s \in Src : health_is_blacklisted(s)}
TrustLifecycle == Abstract!Spec
================================================================================
