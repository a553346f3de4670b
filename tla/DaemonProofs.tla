------------------------------ MODULE DaemonProofs ------------------------------
(***************************************************************************)
(* The filter under its daemon, for any sources, tunables, clears and      *)
(* evictions: Load and Close are all or nothing, the maps stay sane across *)
(* restarts, and the sockets a program still hears of stay counted.        *)
(***************************************************************************)
EXTENDS Daemon, FilterProofs

\* What is attached in each phase of loader.Load and Close.  Only a dying process
\* may hold any combination.
Attached ==
    /\ phase \in {"down", "xdp_loaded", "xdp_attached", "running", "closing", "dying"}
    /\ xdp \in BOOLEAN /\ sockops \in BOOLEAN
    /\ phase \in {"down", "xdp_loaded"} => xdp = FALSE /\ sockops = FALSE
    /\ phase \in {"xdp_attached", "closing"} => xdp = TRUE /\ sockops = FALSE
    /\ phase = "running" => xdp = TRUE /\ sockops = TRUE

\* Traffic, operators and evictions attach and detach nothing.
LEMMA OthersKeepLife ==
  ASSUME DNext
  PROVE  \/ loadXDP \/ attachXDP \/ loadSockops
         \/ Shutdown \/ CloseXDP \/ Crash \/ LinkDropped
         \/ UNCHANGED life
<1>1. CASE Wipe
  BY <1>1 DEF Wipe
<1>2. CASE cmdClear
  BY <1>2 DEF cmdClear
<1>3. CASE clearMap
  BY <1>3 DEF clearMap, Remove
<1>4. ASSUME NEW p \in Segment, Filtered(p) \/ Unfiltered(p) PROVE UNCHANGED life
  BY <1>4 DEF Filtered, Unfiltered
<1>5. ASSUME NEW s \in Src,
             \/ TrackedOpen(s) \/ UntrackedOpen(s) \/ TrackedClose(s)
             \/ UnseenClose(s) \/ HalfOpenLost(s) \/ Evict(s)
      PROVE  UNCHANGED life
  BY <1>5 DEF TrackedOpen, UntrackedOpen, TrackedClose, UnseenClose, HalfOpenLost,
              Evict, Remove
<1>6. CASE TimePasses
  BY <1>6 DEF TimePasses
<1> QED
  BY <1>1, <1>2, <1>3, <1>4, <1>5, <1>6 DEF DNext

\* Every step of Load and Close keeps phase and attachments in step.
LEMMA NextAttached == Attached /\ [DNext]_dvars => Attached'
<1> SUFFICES ASSUME Attached, [DNext]_dvars PROVE Attached'
  OBVIOUS
<1>1. CASE loadXDP
  BY <1>1 DEF loadXDP, LoadFails, Attached
<1>2. CASE attachXDP
  BY <1>2 DEF attachXDP, LoadFails, Attached
<1>3. CASE loadSockops
  BY <1>3 DEF loadSockops, LoadFails, Attached
<1>4. CASE Shutdown
  BY <1>4 DEF Shutdown, Attached
<1>5. CASE CloseXDP
  BY <1>5 DEF CloseXDP, Attached
<1>6. CASE Crash
  BY <1>6 DEF Crash, Attached
<1>7. CASE LinkDropped
  <2>1. CASE phase' = "dying"
    <3>1. xdp' \in {xdp, FALSE} /\ sockops' \in {sockops, FALSE}
      BY <1>7, Zenon DEF LinkDropped
    <3>2. xdp' \in BOOLEAN /\ sockops' \in BOOLEAN
      BY <3>1, Zenon DEF Attached
    <3> QED
      BY <2>1, <3>2, SMT DEF Attached
  <2>2. CASE phase' # "dying"
    <3>1. phase' = "down" /\ ~xdp /\ ~sockops /\ xdp' = xdp /\ sockops' = sockops
      BY <1>7, <2>2 DEF LinkDropped
    <3>2. xdp = FALSE /\ sockops = FALSE
      BY <3>1, Zenon DEF Attached
    <3> QED
      BY <3>1, <3>2, SMT DEF Attached
  <2> QED
    BY <2>1, <2>2
<1>8. CASE UNCHANGED life
  BY <1>8 DEF life, Attached
<1>9. CASE UNCHANGED dvars
  BY <1>8, <1>9 DEF dvars
<1> QED
  BY <1>1, <1>2, <1>3, <1>4, <1>5, <1>6, <1>7, <1>8, <1>9, OthersKeepLife

\* Whatever step of Load fails and whenever the process dies, the host is never
\* left with half a filter: none when it is down, both programs when it runs.
THEOREM LoadIsAtomic == DSpec => []AllOrNothing
<1>1. DInit => Attached
  BY DEF DInit, Attached
<1>2. Attached => AllOrNothing
  BY DEF Attached, AllOrNothing
<1> QED
  BY <1>1, <1>2, NextAttached, PTL DEF DSpec
--------------------------------------------------------------------------------
(* The maps across restarts, wipes, clears and evictions. *)

\* What clearMap, clearMapKey or an eviction leaves of a map.
Without(m, gone) == [s \in DOMAIN m \ gone |-> m[s]]

MayLose(m, m2, gone) == m2 \in {m, Without(m, gone)}

LEMMA LeftFacts ==
  ASSUME NEW m, NEW m2, NEW gone, MayLose(m, m2, gone)
  PROVE  /\ \A s \in DOMAIN m2 : s \in DOMAIN m /\ m2[s] = m[s]
         /\ \A K, V : IsMap(m, K, V) => IsMap(m2, K, V)
         /\ SaneBuckets(m) => SaneBuckets(m2)
<1>1. \A s \in DOMAIN m2 : s \in DOMAIN m /\ m2[s] = m[s]
  BY DEF MayLose, Without
<1>2. ASSUME NEW K, NEW V, IsMap(m, K, V) PROVE IsMap(m2, K, V)
  <2>1. IsMap(Without(m, gone), K, V)
    BY <1>2 DEF IsMap, Without
  <2> QED
    BY <1>2, <2>1 DEF MayLose
<1> QED
  BY <1>1, <1>2 DEF SaneBuckets

\* Remove takes elements away and touches nothing else of the filter.
Removed(gone) ==
    /\ MayLose(tcp_whitelist, tcp_whitelist', gone)
    /\ MayLose(tcp_open_count, tcp_open_count', gone)
    /\ MayLose(status_ratelimit, status_ratelimit', gone)
    /\ MayLose(login_ratelimit, login_ratelimit', gone)
    /\ MayLose(syn_ratelimit, syn_ratelimit', gone)
    /\ MayLose(conn_ratelimit, conn_ratelimit', gone)
    /\ MayLose(health, health', gone)
    /\ tcp_established' \in {tcp_established, tcp_established \ gone}
    /\ tcp_syn_seen' \subseteq tcp_syn_seen
    /\ tcp_first_data' \subseteq tcp_first_data
    /\ \/ UNCHANGED <<tcp_open_count, tcp_established, orphaned>>
       \/ orphaned' = orphaned \cup Connected(gone)
    /\ out' = Quiet
    /\ UNCHANGED <<now, tcp_global_ratelimit, stack, tracked>>

LEMMA RemoveEffect ==
  ASSUME NEW name, NEW gone, Remove(name, gone)
  PROVE  Removed(gone)
<1>2. /\ tcp_whitelist' = IF "tcp_whitelist" = name
                          THEN Without(tcp_whitelist, gone) ELSE tcp_whitelist
      /\ tcp_open_count' = IF "tcp_open_count" = name
                           THEN Without(tcp_open_count, gone) ELSE tcp_open_count
      /\ status_ratelimit' = IF "status_ratelimit" = name
                             THEN Without(status_ratelimit, gone) ELSE status_ratelimit
      /\ login_ratelimit' = IF "login_ratelimit" = name
                            THEN Without(login_ratelimit, gone) ELSE login_ratelimit
      /\ syn_ratelimit' = IF "syn_ratelimit" = name
                          THEN Without(syn_ratelimit, gone) ELSE syn_ratelimit
      /\ conn_ratelimit' = IF "conn_ratelimit" = name
                           THEN Without(conn_ratelimit, gone) ELSE conn_ratelimit
      /\ health' = IF "health" = name THEN Without(health, gone) ELSE health
  BY DEF Remove, Without
<1>3. /\ tcp_established' = IF "tcp_established" = name
                            THEN tcp_established \ gone ELSE tcp_established
      /\ tcp_syn_seen' \subseteq tcp_syn_seen
      /\ tcp_first_data' \subseteq tcp_first_data
      /\ orphaned' = IF name \in {"tcp_established", "tcp_open_count"}
                     THEN orphaned \cup Connected(gone) ELSE orphaned
      /\ out' = Quiet
      /\ UNCHANGED <<now, tcp_global_ratelimit, stack, tracked>>
  BY DEF Remove
<1> QED
  BY <1>2, <1>3 DEF Removed, MayLose

DTyped == Typed /\ tracked \in [Src -> Nat]

LEMMA RemoveTyped ==
  ASSUME DTyped, NEW name, NEW gone, Remove(name, gone)
  PROVE  DTyped'
<1>r. Removed(gone)
  BY RemoveEffect
<1>1. OutOK'
  BY <1>r, QuietOK DEF Removed
<1>2. /\ IsMap(tcp_whitelist', Src, Nat)
      /\ \A s \in DOMAIN tcp_whitelist' :
            s \in DOMAIN tcp_whitelist /\ tcp_whitelist'[s] = tcp_whitelist[s]
  <2>1. MayLose(tcp_whitelist, tcp_whitelist', gone)
    BY <1>r DEF Removed
  <2> QED
    BY <2>1, LeftFacts DEF DTyped, Typed
<1>3. IsMap(tcp_open_count', Src, Nat)
  <2>1. MayLose(tcp_open_count, tcp_open_count', gone)
    BY <1>r DEF Removed
  <2> QED
    BY <2>1, LeftFacts DEF DTyped, Typed
<1>4. /\ IsMap(conn_ratelimit', Src, ConnLimit)
      /\ \A s \in DOMAIN conn_ratelimit' :
            s \in DOMAIN conn_ratelimit /\ conn_ratelimit'[s] = conn_ratelimit[s]
  <2>1. MayLose(conn_ratelimit, conn_ratelimit', gone)
    BY <1>r DEF Removed
  <2> QED
    BY <2>1, LeftFacts DEF DTyped, Typed
<1>5. /\ IsMap(health', Src, Health)
      /\ \A s \in DOMAIN health' : s \in DOMAIN health /\ health'[s] = health[s]
  <2>1. MayLose(health, health', gone)
    BY <1>r DEF Removed
  <2> QED
    BY <2>1, LeftFacts DEF DTyped, Typed
<1>6. SaneBuckets(status_ratelimit') /\ SaneBuckets(login_ratelimit')
      /\ SaneBuckets(syn_ratelimit')
  <2>1. /\ MayLose(status_ratelimit, status_ratelimit', gone)
        /\ MayLose(login_ratelimit, login_ratelimit', gone)
        /\ MayLose(syn_ratelimit, syn_ratelimit', gone)
    BY <1>r DEF Removed
  <2> QED
    BY <2>1, LeftFacts DEF DTyped, Typed
<1>7. /\ now' = now /\ tcp_global_ratelimit' = tcp_global_ratelimit
      /\ tracked' = tracked /\ stack' = stack
      /\ tcp_established' \subseteq tcp_established
      /\ tcp_syn_seen' \subseteq tcp_syn_seen /\ tcp_first_data' \subseteq tcp_first_data
  BY <1>r DEF Removed
<1> QED
  BY <1>1, <1>2, <1>3, <1>4, <1>5, <1>6, <1>7
  DEF DTyped, Typed, SaneBuckets, StackOK, stack

LEMMA WipeTyped ==
  ASSUME DTyped, Wipe
  PROVE  DTyped'
<1>1. DOMAIN EmptyMap = {}
  BY DEF EmptyMap
<1>2. \A V : IsMap(EmptyMap, Src, V)
  BY DEF EmptyMap, IsMap
<1>3. ZeroBucket \in Bucket /\ ZeroBucket.last = 0
  BY DEF ZeroBucket, Bucket
<1>4. OutOK'
  BY QuietOK DEF Wipe
<1>5. now' = now /\ tracked' = tracked /\ stack' = stack /\ EmptyMaps
  BY DEF Wipe
<1> QED
  BY <1>1, <1>2, <1>3, <1>4, <1>5
  DEF EmptyMaps, DTyped, Typed, SaneBuckets, StackOK, stack

\* Steps of Load, Close and clear in which neither program runs.
LEMMA IdleTyped ==
  ASSUME DTyped, FilterIdle, tracked' = tracked
  PROVE  DTyped'
<1>1. OutOK'
  BY QuietOK DEF FilterIdle
<1> QED
  BY <1>1 DEF FilterIdle, DTyped, Typed, SaneBuckets, StackOK, trust, limiters, gate, stack

LEMMA UnfilteredTyped ==
  ASSUME DTyped, NEW p \in Segment, Unfiltered(p)
  PROVE  DTyped'
<1>1. p.src \in Src
  BY DEF Segment
<1>2. OutOK'
  BY <1>1, ReportOK DEF Unfiltered, Pass
<1>3. p.first => fresh[p.src] > 0
  BY DEF Unfiltered, Arrives, Segment
<1>4. half' \in [Src -> Nat]
  BY <1>1, SMT DEF Unfiltered, Pass, DTyped, Typed, StackOK
<1>5. fresh' \in [Src -> Nat]
  BY <1>1, <1>3, SMT DEF Unfiltered, Pass, DTyped, Typed, StackOK
<1>6. UNCHANGED <<now, trust, limiters, gate, socks, tracked>>
  BY DEF Unfiltered, Pass
<1> QED
  BY <1>2, <1>4, <1>5, <1>6
  DEF DTyped, Typed, SaneBuckets, StackOK, trust, limiters, gate

\* Closing a socket, whether or not the filter hears of it, leaves the stack sane.
LEMMA UnseenCloseTyped ==
  ASSUME DTyped, NEW s \in Src, UnseenClose(s)
  PROVE  DTyped'
<1>1. PICK f \in {fresh[s], fresh[s] - 1} :
             f >= 0 /\ f < socks[s] /\ fresh' = [fresh EXCEPT ![s] = f]
  BY DEF UnseenClose
<1>2. fresh[s] \in Nat /\ socks[s] \in Nat /\ tracked[s] \in Nat
  BY DEF DTyped, Typed, StackOK
<1>3. f \in Nat
  BY <1>1, <1>2, SMT
<1>4. socks' \in [Src -> Nat] /\ fresh' \in [Src -> Nat]
  BY <1>1, <1>2, <1>3, SMT DEF UnseenClose, DTyped, Typed, StackOK
<1>5. tracked' \in [Src -> Nat]
  BY <1>2, SMT DEF UnseenClose, DTyped
<1>6. OutOK'
  BY QuietOK DEF UnseenClose
<1>7. UNCHANGED <<now, trust, limiters, gate, half>>
  BY DEF UnseenClose
<1> QED
  BY <1>4, <1>5, <1>6, <1>7
  DEF DTyped, Typed, SaneBuckets, StackOK, trust, limiters, gate

LEMMA UntrackedOpenTyped ==
  ASSUME DTyped, NEW s \in Src, UntrackedOpen(s)
  PROVE  DTyped'
<1>1. StackOK'
  BY SMT DEF UntrackedOpen, DTyped, Typed, StackOK
<1>2. OutOK'
  BY QuietOK DEF UntrackedOpen
<1> QED
  BY <1>1, <1>2
  DEF UntrackedOpen, DTyped, Typed, SaneBuckets, trust, limiters, gate

LEMMA DNextTyped == DTyped /\ [DNext]_dvars => DTyped'
<1> SUFFICES ASSUME DTyped, [DNext]_dvars PROVE DTyped'
  OBVIOUS
<1>t. Typed /\ tracked \in [Src -> Nat]
  BY DEF DTyped
<1>1. CASE \/ loadXDP \/ attachXDP \/ loadSockops \/ Shutdown \/ CloseXDP \/ Crash
           \/ LinkDropped \/ cmdClear
  BY <1>1, IdleTyped
  DEF loadXDP, attachXDP, loadSockops, Shutdown, CloseXDP, Crash, LinkDropped, cmdClear
<1>2. CASE Wipe
  BY <1>2, WipeTyped
<1>3. CASE clearMap
  BY <1>3, RemoveTyped DEF clearMap
<1>4. ASSUME NEW s \in Src, Evict(s) PROVE DTyped'
  BY <1>4, RemoveTyped DEF Evict
<1>5. ASSUME NEW p \in Segment, Filtered(p) PROVE DTyped'
  BY <1>t, <1>5, XdpTyped DEF Filtered, DTyped
<1>6. ASSUME NEW p \in Segment, Unfiltered(p) PROVE DTyped'
  BY <1>6, UnfilteredTyped
<1>7. ASSUME NEW s \in Src, TrackedOpen(s) PROVE DTyped'
  <2>1. tracked' \in [Src -> Nat]
    BY <1>t, <1>7, SMT DEF TrackedOpen
  <2> QED
    BY <1>t, <1>7, <2>1, EstablishedTyped DEF TrackedOpen, DTyped
<1>8. ASSUME NEW s \in Src, UntrackedOpen(s) PROVE DTyped'
  BY <1>8, UntrackedOpenTyped
<1>9. ASSUME NEW s \in Src, TrackedClose(s) PROVE DTyped'
  <2>1. tracked' \in [Src -> Nat]
    BY <1>t, <1>9, SMT DEF TrackedClose
  <2> QED
    BY <1>t, <1>9, <2>1, ClosedTyped DEF TrackedClose, DTyped
<1>10. ASSUME NEW s \in Src, UnseenClose(s) PROVE DTyped'
  BY <1>10, UnseenCloseTyped
<1>11. ASSUME NEW s \in Src, HalfOpenLost(s) PROVE DTyped'
  BY <1>t, <1>11, NextTyped DEF HalfOpenLost, DTyped, Next
<1>12. CASE TimePasses
  BY <1>t, <1>12, NextTyped DEF TimePasses, DTyped, Next
<1>13. CASE UNCHANGED dvars
  BY <1>t, <1>13, NextTyped DEF dvars, fvars, vars, DTyped
<1> QED
  BY <1>1, <1>2, <1>3, <1>4, <1>5, <1>6, <1>7, <1>8, <1>9, <1>10, <1>11, <1>12, <1>13
  DEF DNext

\* The pinned maps a restarted program picks up are as it left them: through crashes,
\* wipes, clears, evictions and segments nobody filtered, every entry has its type.
THEOREM MapsSurviveRestarts == DSpec => []TypeOK
<1>1. DInit => DTyped
  BY InitTyped DEF DInit, DTyped
<1>2. DTyped => TypeOK
  BY TypedIsTypeOK DEF DTyped
<1> QED
  BY <1>1, <1>2, DNextTyped, PTL DEF DSpec
--------------------------------------------------------------------------------
(* Sessions across restarts. *)

\* RestartSafe for one source: it holds of a source that is not orphaned.
Counted(s) ==
    tracked[s] <= OpenCount(s) /\ (tracked[s] > 0 => s \in tcp_established)

LEMMA CountedIsSafe == RestartSafe <=> \A s \in Src \ orphaned : Counted(s)
BY DEF RestartSafe, Counted

LEMMA OpenCountNat ==
  ASSUME DTyped, NEW s \in Src
  PROVE  OpenCount(s) \in Nat
BY DEF DTyped, Typed, IsMap, OpenCount

\* A step that leaves the count, the mark and the tracked sockets alone.
LEMMA SessionsKept ==
  ASSUME RestartSafe, orphaned \subseteq orphaned',
         UNCHANGED <<tracked, tcp_open_count, tcp_established>>
  PROVE  RestartSafe'
BY DEF RestartSafe, OpenCount

LEMMA RemoveSafe ==
  ASSUME DTyped, RestartSafe, NEW name, NEW gone, Remove(name, gone)
  PROVE  RestartSafe'
<1>r. Removed(gone)
  BY RemoveEffect
<1>1. CASE UNCHANGED <<tcp_open_count, tcp_established, orphaned>>
  BY <1>r, <1>1, SessionsKept DEF Removed
<1>2. CASE orphaned' = orphaned \cup Connected(gone)
  <2> SUFFICES ASSUME NEW s \in Src, s \notin orphaned, s \notin Connected(gone)
               PROVE  Counted(s)'
    BY <1>2, CountedIsSafe DEF RestartSafe, Counted
  <2>1. Counted(s) /\ tracked[s] \in Nat /\ tracked' = tracked
    BY <1>r, CountedIsSafe DEF DTyped, Removed
  <2>2. CASE s \in gone
    <3>1. tracked[s] = 0
      BY <2>1, <2>2 DEF Connected
    <3>2. OpenCount(s)' \in Nat
      BY RemoveTyped DEF DTyped, Typed, IsMap, OpenCount
    <3> QED
      BY <2>1, <3>1, <3>2 DEF Counted
  <2>3. CASE s \notin gone
    <3>1. OpenCount(s)' = OpenCount(s)
      BY <1>r, <2>3 DEF Removed, MayLose, Without, OpenCount
    <3>2. s \in tcp_established => s \in tcp_established'
      BY <1>r, <2>3 DEF Removed
    <3> QED
      BY <2>1, <3>1, <3>2 DEF Counted
  <2> QED
    BY <2>2, <2>3
<1> QED
  BY <1>r, <1>1, <1>2 DEF Removed

LEMMA OpenSafe ==
  ASSUME DTyped, RestartSafe, NEW s \in Src, TrackedOpen(s)
  PROVE  RestartSafe'
<1> SUFFICES ASSUME NEW x \in Src, x \notin orphaned PROVE Counted(x)'
  BY DEF TrackedOpen, RestartSafe, Counted
<1>1. /\ tracked' = [tracked EXCEPT ![s] = @ + 1]
      /\ tcp_established' = tcp_established \cup {s}
      /\ tcp_open_count' = Put(tcp_open_count, s, OpenCount(s) + 1)
  <2>1. OpenCount(s) + 1 = IF s \in DOMAIN tcp_open_count
                           THEN tcp_open_count[s] + 1 ELSE 1
    BY DEF OpenCount
  <2> QED
    BY <2>1 DEF TrackedOpen, Established
<1>2. Counted(x) /\ tracked[x] \in Nat /\ OpenCount(x) \in Nat
  BY CountedIsSafe, OpenCountNat DEF DTyped
<1>3. CASE x = s
  <2>1. OpenCount(x)' = OpenCount(x) + 1
    BY <1>1, <1>3 DEF Put, OpenCount
  <2>2. tracked'[x] = tracked[x] + 1 /\ x \in tcp_established'
    BY <1>1, <1>3 DEF DTyped
  <2> QED
    BY <1>2, <2>1, <2>2 DEF Counted
<1>4. CASE x # s
  <2>1. OpenCount(x)' = OpenCount(x)
    BY <1>1, <1>4 DEF Put, OpenCount
  <2>2. tracked'[x] = tracked[x]
        /\ (x \in tcp_established' <=> x \in tcp_established)
    BY <1>1, <1>4 DEF DTyped
  <2> QED
    BY <1>2, <2>1, <2>2 DEF Counted
<1> QED
  BY <1>3, <1>4

\* The close of one tracked socket ends the session only if the count says it was
\* the last, and then it was; a source that was orphaned and has no tracked socket
\* left is whole again, whatever its count.
LEMMA CloseSafe ==
  ASSUME DTyped, RestartSafe, NEW s \in Src, TrackedClose(s)
  PROVE  RestartSafe'
<1> SUFFICES ASSUME NEW x \in Src, x \notin orphaned \/ tracked'[x] = 0
             PROVE  Counted(x)'
  <2>1. \A x \in Src : tracked'[x] \in Nat
    BY SMT DEF DTyped, TrackedClose
  <2>2. orphaned' = {o \in orphaned : tracked'[o] > 0}
    BY DEF TrackedClose
  <2> QED
    BY <2>1, <2>2 DEF RestartSafe, Counted
<1>1. /\ tracked' = [tracked EXCEPT ![s] = @ - 1] /\ tracked[s] > 0
      /\ open_count_dec(s)
  BY DEF TrackedClose, Closed
<1>2. tracked[x] \in Nat /\ tracked[s] \in Nat /\ OpenCount(x) \in Nat
  BY OpenCountNat DEF DTyped
<1>3. OpenCount(x)' \in Nat
  BY <1>1, SMT DEF open_count_dec, trust, OpenCount, DTyped, Typed, IsMap
<1>4. CASE tracked'[x] = 0
  BY <1>3, <1>4 DEF Counted
<1>5. CASE tracked'[x] # 0 /\ x = s
  <2>1. tracked'[s] = tracked[s] - 1 /\ tracked[s] > 1
    BY <1>1, <1>2, <1>5 DEF DTyped
  <2>2. Counted(s)
    BY <1>5, CountedIsSafe
  <2>3. s \in DOMAIN tcp_open_count /\ tcp_open_count[s] > 1
        /\ tcp_open_count[s] \in Nat /\ tracked[s] <= tcp_open_count[s]
    BY <1>2, <1>5, <2>1, <2>2 DEF Counted, OpenCount
  <2>4. tcp_open_count' = [tcp_open_count EXCEPT ![s] = @ - 1]
        /\ tcp_established' = tcp_established
    BY <1>1, <2>3 DEF open_count_dec
  <2>5. OpenCount(s)' = tcp_open_count[s] - 1
    BY <2>3, <2>4 DEF OpenCount
  <2> QED
    BY <1>2, <1>5, <2>1, <2>2, <2>3, <2>4, <2>5 DEF Counted
<1>6. CASE tracked'[x] # 0 /\ x # s
  <2>1. tracked'[x] = tracked[x] /\ Counted(x)
    BY <1>1, <1>6, CountedIsSafe DEF DTyped
  <2>2. OpenCount(x)' = OpenCount(x)
    BY <1>1, <1>6 DEF open_count_dec, trust, OpenCount
  <2>3. x \in tcp_established => x \in tcp_established'
    BY <1>1, <1>6 DEF open_count_dec, trust
  <2> QED
    BY <2>1, <2>2, <2>3 DEF Counted
<1> QED
  BY <1>4, <1>5, <1>6

LEMMA UnseenCloseSafe ==
  ASSUME DTyped, RestartSafe, NEW s \in Src, UnseenClose(s)
  PROVE  RestartSafe'
<1> SUFFICES ASSUME NEW x \in Src, x \notin orphaned \/ tracked'[x] = 0
             PROVE  Counted(x)'
  <2>1. \A x \in Src : tracked'[x] \in Nat
    BY UnseenCloseTyped DEF DTyped
  <2> QED
    BY <2>1 DEF UnseenClose, RestartSafe, Counted
<1>1. tcp_open_count' = tcp_open_count /\ tcp_established' = tcp_established
  BY DEF UnseenClose, trust
<1>2. tracked[x] \in Nat /\ OpenCount(x) \in Nat /\ OpenCount(x)' = OpenCount(x)
  BY <1>1, OpenCountNat DEF DTyped, OpenCount
<1>3. tracked'[x] \in Nat /\ tracked'[x] <= tracked[x]
  BY <1>2, SMT DEF UnseenClose, DTyped
<1>4. x \notin orphaned => Counted(x)
  BY CountedIsSafe
<1> QED
  BY <1>1, <1>2, <1>3, <1>4 DEF Counted

LEMMA DNextSafe == DTyped /\ RestartSafe /\ [DNext]_dvars => RestartSafe'
<1> SUFFICES ASSUME DTyped, RestartSafe, [DNext]_dvars PROVE RestartSafe'
  OBVIOUS
<1>1. CASE \/ loadXDP \/ attachXDP \/ loadSockops \/ Shutdown \/ CloseXDP \/ Crash
           \/ LinkDropped \/ cmdClear
  BY <1>1, SessionsKept
  DEF loadXDP, attachXDP, loadSockops, Shutdown, CloseXDP, Crash, LinkDropped, cmdClear,
      FilterIdle, trust
<1>2. CASE Wipe
  BY <1>2 DEF Wipe, EmptyMaps, EmptyMap, Connected, RestartSafe, OpenCount, DTyped
<1>3. CASE clearMap
  BY <1>3, RemoveSafe DEF clearMap
<1>4. ASSUME NEW s \in Src, Evict(s) PROVE RestartSafe'
  BY <1>4, RemoveSafe DEF Evict
<1>5. ASSUME NEW p \in Segment, Filtered(p) PROVE RestartSafe'
  <2>1. Effect(p)
    BY <1>5, XdpEffect DEF Filtered
  <2> QED
    BY <1>5, <2>1, SessionsKept DEF Filtered, Effect
<1>6. ASSUME NEW p \in Segment, Unfiltered(p) PROVE RestartSafe'
  BY <1>6, SessionsKept DEF Unfiltered, trust
<1>7. ASSUME NEW s \in Src, TrackedOpen(s) PROVE RestartSafe'
  BY <1>7, OpenSafe
<1>8. ASSUME NEW s \in Src, TrackedClose(s) PROVE RestartSafe'
  BY <1>8, CloseSafe
<1>9. ASSUME NEW s \in Src, UnseenClose(s) PROVE RestartSafe'
  BY <1>9, UnseenCloseSafe
<1>10. ASSUME NEW s \in Src, UntrackedOpen(s) \/ HalfOpenLost(s) PROVE RestartSafe'
  BY <1>10, SessionsKept DEF UntrackedOpen, HalfOpenLost, Abandoned, trust
<1>11. CASE TimePasses
  BY <1>11, SessionsKept DEF TimePasses, Tick, trust
<1>12. CASE UNCHANGED dvars
  BY <1>12, SessionsKept DEF dvars, fvars, trust
<1> QED
  BY <1>1, <1>2, <1>3, <1>4, <1>5, <1>6, <1>7, <1>8, <1>9, <1>10, <1>11, <1>12
  DEF DNext

LEMMA DInvariant == DSpec => [](DTyped /\ RestartSafe)
<1>1. DInit => DTyped /\ RestartSafe
  <2> SUFFICES ASSUME DInit PROVE DTyped /\ RestartSafe
    OBVIOUS
  <2>1. DTyped
    BY InitTyped DEF DInit, DTyped
  <2> QED
    BY <2>1 DEF DInit, Init, EmptyMap, RestartSafe, OpenCount
<1> QED
  BY <1>1, DNextTyped, DNextSafe, PTL DEF DSpec

\* open_count_dec, fed by callbacks that stop and start with the daemon, never ends
\* the session of a source that has another socket the program hears of.
THEOREM RestartsOvercount == DSpec => []RestartSafe
BY DInvariant, PTL

\* A source with such a socket is known to the SYN gate of minecraft_xdp, so that
\* none of its segments is dropped as no_syn.
THEOREM PlayersPassSynGate == DSpec => PlayersKeepFlowing
<1>1. ASSUME DTyped, RestartSafe, NEW p \in Segment, Filtered(p),
             out'.reason = "no_syn"
      PROVE  tracked[out'.src] = 0 \/ out'.src \in orphaned
  <2>1. NoSyn(p) /\ out'.src = p.src
    BY <1>1, EarlyRefusal DEF Filtered, RefusedEarly
  <2>2. p.src \in Src /\ p.src \notin tcp_established /\ tracked[p.src] \in Nat
    BY <1>1, <2>1 DEF NoSyn, Segment, DTyped
  <2> QED
    BY <1>1, <2>1, <2>2 DEF RestartSafe
<1>2. ASSUME [DNext]_dvars, out'.reason = "no_syn"
      PROVE  (\E p \in Segment : Filtered(p)) \/ UNCHANGED dvars
  <2>1. out' # Quiet
    BY <1>2 DEF Quiet
  <2>2. ASSUME NEW p \in Segment, Unfiltered(p) PROVE FALSE
    BY <1>2, <2>2, PassReports DEF Unfiltered
  <2>3. ASSUME NEW s \in Src, TrackedOpen(s) PROVE FALSE
    BY <1>2, <2>3 DEF TrackedOpen, Established, Quiet
  <2>4. ASSUME NEW s \in Src,
               \/ UntrackedOpen(s) \/ TrackedClose(s) \/ UnseenClose(s)
               \/ HalfOpenLost(s) \/ Evict(s)
        PROVE  FALSE
    BY <2>1, <2>4
    DEF UntrackedOpen, TrackedClose, Closed, UnseenClose, HalfOpenLost, Abandoned,
        Evict, Remove
  <2>5. ~(loadXDP \/ attachXDP \/ loadSockops \/ Shutdown \/ CloseXDP \/ Crash
          \/ LinkDropped \/ Wipe \/ cmdClear \/ clearMap \/ TimePasses)
    BY <2>1
    DEF loadXDP, attachXDP, loadSockops, Shutdown, CloseXDP, Crash, LinkDropped, Wipe,
        cmdClear, clearMap, Remove, TimePasses, Tick, FilterIdle
  <2> QED
    BY <1>2, <2>2, <2>3, <2>4, <2>5 DEF DNext
<1>3. DTyped /\ RestartSafe /\ [DNext]_dvars
        => [out'.reason = "no_syn" =>
              tracked[out'.src] = 0 \/ out'.src \in orphaned]_dvars
  BY <1>1, <1>2
<1> QED
  BY <1>3, DInvariant, PTL DEF DSpec, PlayersKeepFlowing
================================================================================
