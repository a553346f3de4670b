------------------------------ MODULE FilterProofs ------------------------------
(***************************************************************************)
(* Proofs about Filter, for every set of sources and every setting of the  *)
(* tunables.                                                               *)
(***************************************************************************)
EXTENDS Filter, TLAPS

(* Maps. *)

LEMMA PutFacts ==
  ASSUME NEW m, NEW k, NEW v
  PROVE  /\ DOMAIN Put(m, k, v) = DOMAIN m \cup {k}
         /\ Put(m, k, v)[k] = v
         /\ \A x \in DOMAIN m : x # k => Put(m, k, v)[x] = m[x]
BY DEF Put

LEMMA DelFacts ==
  ASSUME NEW m, NEW k
  PROVE  /\ DOMAIN Del(m, k) = DOMAIN m \ {k}
         /\ \A x \in DOMAIN m : x # k => Del(m, k)[x] = m[x]
BY DEF Del

LEMMA PutIsMap ==
  ASSUME NEW m, NEW K, NEW V, IsMap(m, K, V), NEW k \in K, NEW v \in V
  PROVE  IsMap(Put(m, k, v), K, V)
BY DEF IsMap, Put

LEMMA DelIsMap ==
  ASSUME NEW m, NEW K, NEW V, IsMap(m, K, V), NEW k
  PROVE  IsMap(Del(m, k), K, V)
BY DEF IsMap, Del

(* Buckets. *)

LEMMA DivFacts ==
  ASSUME NEW e \in Nat, NEW p \in Nat, p > 0
  PROVE  (e \div p) \in Nat /\ (e \div p) * p <= e /\ (e \div p) * p \in Nat
<1>1. (e \div p) \in Nat /\ (e \div p) * p <= e
  BY SMT
<1> QED
  BY <1>1, SMT

\* A bucket that is not ahead of the clock stays so when it is charged.
LEMMA DrainSane ==
  ASSUME NEW b \in Bucket, NEW t \in Nat, b.last <= t,
         NEW p \in Nat, NEW burst \in Nat, NEW cost \in Nat,
         CanTake(b, t, p, burst, cost)
  PROVE  /\ Drain(b, t, p, burst, cost) \in Bucket
         /\ Drain(b, t, p, burst, cost).last <= t
<1>1. b.tokens \in Nat /\ b.last \in Nat
  BY DEF Bucket
<1> DEFINE r == Refill(b, t, p)
<1>2. r \in Nat /\ r * p \in Nat /\ b.last + r * p <= t
  <2>1. CASE p = 0
    BY <2>1, <1>1, SMT DEF Refill
  <2>2. CASE p > 0
    <3> DEFINE e == t - b.last
               q == e \div p
    <3>1. e \in Nat
      BY <1>1, SMT
    <3>2. q \in Nat /\ q * p <= e /\ q * p \in Nat
      BY <2>2, <3>1, DivFacts
    <3>3. r = q
      BY <2>2 DEF Refill
    <3> HIDE DEF q, r
    <3> QED
      BY <1>1, <3>1, <3>2, <3>3, SMT
  <2> QED
    BY <2>1, <2>2, SMT
<1> HIDE DEF r
<1> DEFINE lv == Level(b, t, p, burst)
<1>3. lv \in Nat
  BY <1>1, <1>2, SMT DEF Level, r
<1>4. lv >= cost
  BY DEF CanTake
<1>5. Drain(b, t, p, burst, cost) = [tokens |-> lv - cost, last |-> b.last + r * p]
  BY DEF Drain, r
<1> HIDE DEF lv
<1>6. lv - cost \in Nat /\ b.last + r * p \in Nat
  BY <1>1, <1>2, <1>3, <1>4, SMT
<1> QED
  BY <1>2, <1>5, <1>6 DEF Bucket

LEMMA FirstSane ==
  ASSUME NEW t \in Nat, NEW burst \in Nat, NEW cost \in Nat
  PROVE  /\ FirstBucket(t, burst, cost) \in Bucket
         /\ FirstBucket(t, burst, cost).last <= t
BY SMT DEF FirstBucket, Bucket
--------------------------------------------------------------------------------
(* What one run of minecraft_xdp may do to each variable.  Every way out of  *)
(* the program is shown once to have such an effect; the invariants are then *)
(* proved from the effect alone.                                             *)

\* The connection of the source is known: the condition for per-IP charges.
Known(s) == s \in tcp_established \/ s \in DOMAIN tcp_whitelist

TrustEffect(s) ==
    \/ tcp_whitelist' = tcp_whitelist
    \/ tcp_whitelist' = Del(tcp_whitelist, s)
    \/ /\ tcp_whitelist' = Put(tcp_whitelist, s, now)
       /\ Known(s) /\ ~health_is_blacklisted(s)

BucketEffect(m, m2, s, period, burst) ==
    \/ m2 = m
    \/ /\ RatelimitOk(m, s, period, burst)
       /\ m2 = RatelimitTaken(m, s, period, burst)

HealthEffect(s) ==
    \/ health' = health
    \/ /\ health' = Put(health, s, Anomaly(s))
       /\ ~health_is_blacklisted(s)
       /\ Known(s)
       /\ Anomaly(s).until > now => tcp_whitelist' = Del(tcp_whitelist, s)
       /\ DOMAIN tcp_whitelist' \subseteq DOMAIN tcp_whitelist

HalfEffect(s) ==
    \/ half' = half
    \/ /\ half[s] < Backlog /\ ~TooManyOpen(s)
       /\ half' = [half EXCEPT ![s] = @ + 1]

Effect(p) ==
    /\ UNCHANGED <<now, tcp_established, tcp_open_count, socks>>
    /\ tcp_syn_seen' = tcp_syn_seen \/ tcp_syn_seen' = tcp_syn_seen \cup {p.src}
    /\ \/ tcp_first_data' = tcp_first_data
       \/ p.src \in tcp_established /\ tcp_first_data' = tcp_first_data \cup {p.src}
    /\ TrustEffect(p.src)
    /\ BucketEffect(status_ratelimit, status_ratelimit', p.src, StatusPeriod, StatusBurst)
    /\ status_ratelimit' # status_ratelimit => Known(p.src)
    /\ BucketEffect(login_ratelimit, login_ratelimit', p.src, LoginPeriod, LoginBurst)
    /\ login_ratelimit' # login_ratelimit => Known(p.src)
    /\ BucketEffect(syn_ratelimit, syn_ratelimit', p.src, NewPeriod, NewBurst)
    /\ \/ tcp_global_ratelimit' = tcp_global_ratelimit
       \/ /\ CanTake(tcp_global_ratelimit[p.cpu], now, GlobalPeriod, GlobalBurst, 1)
          /\ tcp_global_ratelimit' =
                [tcp_global_ratelimit EXCEPT
                   ![p.cpu] = Drain(@, now, GlobalPeriod, GlobalBurst, 1)]
    /\ \/ conn_ratelimit' = conn_ratelimit
       \/ conn_ratelimit_take(p.src, p.size) /\ Known(p.src)
    /\ HealthEffect(p.src)
    /\ HalfEffect(p.src)
    /\ \/ fresh' = fresh
       \/ p.first /\ fresh' = [fresh EXCEPT ![p.src] = @ - 1]
    /\ out'.src = p.src /\ OutOK'

LEMMA ReportOK ==
  ASSUME NEW p \in Segment, NEW verdict \in {"PASS", "DROP"},
         NEW reason \in Reasons \cup {"none"},
         NEW metered \in {"none", "STATUS", "LOGIN"},
         Report(p, verdict, reason, metered)
  PROVE  out'.src = p.src /\ OutOK'
BY DEF Report, OutOK, Segment

LEMMA DropOK ==
  ASSUME NEW p \in Segment, NEW reason \in Reasons, Drop(p, reason)
  PROVE  /\ out'.src = p.src /\ OutOK'
         /\ half' = half /\ fresh' = fresh /\ socks' = socks
<1>1. out'.src = p.src /\ OutOK'
  BY ReportOK DEF Drop
<1> QED
  BY <1>1 DEF Drop, stack

LEMMA PassOK ==
  ASSUME NEW p \in Segment, NEW metered \in {"none", "STATUS", "LOGIN"},
         Pass(p, metered), IsSyn(p) => ~TooManyOpen(p.src)
  PROVE  /\ out'.src = p.src /\ OutOK'
         /\ HalfEffect(p.src)
         /\ fresh' = fresh \/ (p.first /\ fresh' = [fresh EXCEPT ![p.src] = @ - 1])
         /\ socks' = socks
<1>1. out'.src = p.src /\ OutOK'
  BY ReportOK DEF Pass
<1> QED
  BY <1>1 DEF Pass, HalfEffect

\* Every way out of minecraft_xdp has such an effect.
LEMMA XdpEffect ==
  ASSUME NEW p \in Segment, minecraft_xdp(p)
  PROVE  Effect(p)
<1> USE DEF Effect, TrustEffect, BucketEffect, HealthEffect, Known
<1>r. /\ "bad_flags" \in Reasons /\ "unhealthy" \in Reasons
      /\ "no_syn" \in Reasons /\ "too_many_open" \in Reasons
      /\ "conn_rate" \in Reasons /\ "global_ratelimit" \in Reasons
      /\ "status_ratelimit" \in Reasons /\ "login_ratelimit" \in Reasons
      /\ "conn_ratelimit" \in Reasons /\ "malformed_handshake" \in Reasons
  BY DEF Reasons
\* The front checks and the trusted path.
<1>1. CASE BadFlags(p)
  BY <1>1, <1>r, DropOK DEF BadFlags, HalfEffect, trust, limiters, gate
<1>2. CASE Unhealthy(p)
  BY <1>2, <1>r, DropOK DEF Unhealthy, HalfEffect, trust, limiters, gate
<1>3. CASE TrustedOverRate(p)
  <2>1. DOMAIN tcp_whitelist' \subseteq DOMAIN tcp_whitelist
    <3>1. DOMAIN Del(tcp_whitelist, p.src) \subseteq DOMAIN tcp_whitelist
      BY DEF Del
    <3> QED
      BY <1>3, <3>1 DEF TrustedOverRate
  <2>2. HealthEffect(p.src)
    BY <1>3, <2>1 DEF TrustedOverRate, Admitted, Whitelisted, health_record_anomaly
  <2>3. TrustEffect(p.src)
    BY <1>3 DEF TrustedOverRate
  <2> QED
    BY <1>3, <2>2, <2>3, <1>r, DropOK
    DEF TrustedOverRate, HalfEffect, Whitelisted, gate
<1>4. CASE TrustedTooManyOpen(p)
  BY <1>4, <1>r, DropOK
  DEF TrustedTooManyOpen, HalfEffect, Whitelisted, trust, gate
<1>5. CASE TrustedPass(p)
  BY <1>5, PassOK DEF TrustedPass, Admitted, Whitelisted, gate
\* The SYN gate.
<1>6. CASE NoSyn(p)
  BY <1>6, <1>r, DropOK DEF NoSyn, HalfEffect, ExpireTrust, limiters, gate
<1>7. CASE SynTooManyOpen(p)
  BY <1>7, <1>r, DropOK DEF SynTooManyOpen, HalfEffect, ExpireTrust, limiters, gate
<1>8. CASE SynConnRate(p)
  BY <1>8, <1>r, DropOK DEF SynConnRate, HalfEffect, ExpireTrust, limiters, gate
<1>9. CASE SynGlobalRate(p)
  BY <1>9, <1>r, DropOK
  DEF SynGlobalRate, HalfEffect, ExpireTrust, limiters, syn_ratelimit_take, NewOk
\* Past the gate.
<1>g. ASSUME GatePassed(p)
      PROVE  /\ UNCHANGED <<now, tcp_established, tcp_open_count>>
             /\ IsSyn(p) => ~TooManyOpen(p.src)
             /\ ~health_is_blacklisted(p.src)
             /\ tcp_syn_seen' = tcp_syn_seen
                \/ tcp_syn_seen' = tcp_syn_seen \cup {p.src}
             /\ BucketEffect(syn_ratelimit, syn_ratelimit', p.src, NewPeriod, NewBurst)
             /\ \/ tcp_global_ratelimit' = tcp_global_ratelimit
                \/ /\ CanTake(tcp_global_ratelimit[p.cpu], now, GlobalPeriod, GlobalBurst, 1)
                   /\ tcp_global_ratelimit' =
                         [tcp_global_ratelimit EXCEPT
                            ![p.cpu] = Drain(@, now, GlobalPeriod, GlobalBurst, 1)]
  BY <1>g DEF GatePassed, Untrusted, Admitted, gate, syn_ratelimit_take, NewOk,
              tcp_global_ratelimit_take, GlobalOk
<1>i. ASSUME NEW class, Inspected(p, class)
      PROVE  /\ GatePassed(p)
             /\ \/ tcp_first_data' = tcp_first_data
                \/ /\ p.src \in tcp_established
                   /\ tcp_first_data' = tcp_first_data \cup {p.src}
  BY <1>i DEF Inspected
<1> HIDE DEF BucketEffect
<1>u. ASSUME NEW m, NEW s, NEW period, NEW burst
      PROVE  BucketEffect(m, m, s, period, burst)
  BY DEF BucketEffect
<1>10. CASE BadHeader(p)
  BY <1>10, <1>g, <1>u, PassOK DEF BadHeader, ExpireTrust, limiters
<1>11. CASE NoPayload(p)
  BY <1>11, <1>g, <1>u, PassOK DEF NoPayload, ExpireTrust, limiters
<1>12. CASE StreamOverRate(p)
  <2>1. DOMAIN tcp_whitelist' \subseteq DOMAIN tcp_whitelist
    <3>1. DOMAIN Del(tcp_whitelist, p.src) \subseteq DOMAIN tcp_whitelist
      BY DEF Del
    <3> QED
      BY <1>12, <3>1 DEF StreamOverRate, ExpireTrust
  <2>2. HealthEffect(p.src)
    BY <1>12, <2>1, <1>g, <1>i DEF StreamOverRate, ExpireTrust, health_record_anomaly
  <2>3. TrustEffect(p.src)
    BY <1>12 DEF StreamOverRate, ExpireTrust
  <2> QED
    BY <1>12, <2>2, <2>3, <1>g, <1>i, <1>u, <1>r, DropOK
    DEF StreamOverRate, HalfEffect
<1>13. CASE StreamPass(p)
  BY <1>13, <1>g, <1>i, <1>u, PassOK DEF StreamPass, ExpireTrust
<1>14. CASE Malformed(p)
  BY <1>14, <1>g, <1>i, <1>u, <1>r, DropOK
  DEF Malformed, HalfEffect, ExpireTrust, limiters
<1>15. CASE HandshakeNoEst(p)
  BY <1>15, <1>g, <1>i, <1>u, PassOK
  DEF HandshakeNoEst, ExpireTrust, limiters
<1>16. CASE StatusLimited(p)
  BY <1>16, <1>g, <1>i, <1>u, <1>r, DropOK
  DEF StatusLimited, HalfEffect, ExpireTrust, limiters
<1>17. CASE StatusPass(p)
  <2>1. BucketEffect(status_ratelimit, status_ratelimit', p.src, StatusPeriod, StatusBurst)
    BY <1>17 DEF StatusPass, BucketEffect
  <2> QED
    BY <1>17, <2>1, <1>g, <1>i, <1>u, PassOK DEF StatusPass, ExpireTrust
<1>18. CASE LoginLimited(p)
  BY <1>18, <1>g, <1>i, <1>u, <1>r, DropOK
  DEF LoginLimited, HalfEffect, ExpireTrust, limiters
<1>19. CASE LoginPromote(p)
  <2>1. BucketEffect(login_ratelimit, login_ratelimit', p.src, LoginPeriod, LoginBurst)
    BY <1>19 DEF LoginPromote, BucketEffect
  <2> QED
    BY <1>19, <2>1, <1>g, <1>i, <1>u, PassOK DEF LoginPromote
<1> QED
  BY <1>1, <1>2, <1>3, <1>4, <1>5, <1>6, <1>7, <1>8, <1>9, <1>10, <1>11, <1>12,
     <1>13, <1>14, <1>15, <1>16, <1>17, <1>18, <1>19 DEF minecraft_xdp
--------------------------------------------------------------------------------
(* Types.  A bucket holds naturals only as long as its refill time is not    *)
(* ahead of the clock, which is so here because a run is one step; BucketSmp *)
(* shows what several CPUs do to it.                                         *)

SaneBuckets(m) ==
    IsMap(m, Src, Bucket) /\ \A s \in DOMAIN m : m[s].last <= now

LEMMA PutSane ==
  ASSUME NEW m, SaneBuckets(m), NEW s \in Src, NEW v \in Bucket, v.last <= now
  PROVE  SaneBuckets(Put(m, s, v))
<1>1. IsMap(Put(m, s, v), Src, Bucket)
  BY PutIsMap DEF SaneBuckets
<1> QED
  BY <1>1 DEF SaneBuckets, Put

LEMMA BucketEffectSane ==
  ASSUME NEW m, NEW m2, SaneBuckets(m), now \in Nat, NEW s \in Src,
         NEW period \in Nat, NEW burst \in Nat,
         BucketEffect(m, m2, s, period, burst)
  PROVE  SaneBuckets(m2)
<1>1. CASE m2 = m
  BY <1>1
<1>2. CASE RatelimitOk(m, s, period, burst) /\ m2 = RatelimitTaken(m, s, period, burst)
  <2>1. CASE s \in DOMAIN m
    <3> DEFINE v == Drain(m[s], now, period, burst, 1)
    <3>1. m[s] \in Bucket /\ m[s].last <= now /\ CanTake(m[s], now, period, burst, 1)
      BY <1>2, <2>1 DEF SaneBuckets, IsMap, RatelimitOk
    <3>2. v \in Bucket /\ v.last <= now
      BY <3>1, DrainSane
    <3>3. m2 = Put(m, s, v)
      BY <1>2, <2>1 DEF RatelimitTaken
    <3> HIDE DEF v
    <3> QED
      BY <3>2, <3>3, PutSane
  <2>2. CASE s \notin DOMAIN m
    <3> DEFINE v == FirstBucket(now, burst, 1)
    <3>2. v \in Bucket /\ v.last <= now
      BY FirstSane
    <3>3. m2 = Put(m, s, v)
      BY <1>2, <2>2 DEF RatelimitTaken
    <3> HIDE DEF v
    <3> QED
      BY <3>2, <3>3, PutSane
  <2> QED
    BY <2>1, <2>2
<1> QED
  BY <1>1, <1>2 DEF BucketEffect

\* TypeOK by variable, and no time ahead of the clock.
Typed ==
    /\ now \in Nat
    /\ tcp_established \subseteq Src /\ tcp_syn_seen \subseteq Src
    /\ tcp_first_data \subseteq Src
    /\ IsMap(tcp_whitelist, Src, Nat)
    /\ \A s \in DOMAIN tcp_whitelist : tcp_whitelist[s] <= now
    /\ IsMap(tcp_open_count, Src, Nat)
    /\ SaneBuckets(status_ratelimit) /\ SaneBuckets(login_ratelimit)
    /\ SaneBuckets(syn_ratelimit)
    /\ tcp_global_ratelimit \in [CPUs -> Bucket]
    /\ \A c \in CPUs : tcp_global_ratelimit[c].last <= now
    /\ IsMap(conn_ratelimit, Src, ConnLimit)
    /\ \A s \in DOMAIN conn_ratelimit :
          conn_ratelimit[s].pkt.last <= now /\ conn_ratelimit[s].byte.last <= now
    /\ IsMap(health, Src, Health)
    /\ \A s \in DOMAIN health : health[s].start <= now
    /\ StackOK
    /\ OutOK

LEMMA TypedIsTypeOK == Typed => TypeOK
BY DEF Typed, TypeOK, MapsOK, SaneBuckets

\* The record conn_ratelimit_take leaves for a source.
LEMMA ConnTakeSane ==
  ASSUME Typed, NEW s \in Src, NEW n \in Sizes, conn_ratelimit_take(s, n), now' = now
  PROVE  /\ IsMap(conn_ratelimit', Src, ConnLimit)
         /\ \A x \in DOMAIN conn_ratelimit' :
               conn_ratelimit'[x].pkt.last <= now /\ conn_ratelimit'[x].byte.last <= now
<1>n. n \in Nat /\ now \in Nat
  BY InputAssumption DEF Typed
<1>t. /\ PktPeriod \in Nat /\ PktBurst \in Nat
      /\ BytePeriod \in Nat /\ ByteBurst \in Nat
  BY TunableAssumption
<1>p. ASSUME NEW v \in ConnLimit, v.pkt.last <= now, v.byte.last <= now,
             conn_ratelimit' = Put(conn_ratelimit, s, v)
      PROVE  /\ IsMap(conn_ratelimit', Src, ConnLimit)
             /\ \A x \in DOMAIN conn_ratelimit' :
                   conn_ratelimit'[x].pkt.last <= now /\ conn_ratelimit'[x].byte.last <= now
  <2>1. IsMap(conn_ratelimit', Src, ConnLimit)
    BY <1>p, PutIsMap DEF Typed
  <2> QED
    BY <1>p, <2>1 DEF Put, Typed
<1>1. CASE ~PktOn /\ ~ByteOn
  BY <1>1 DEF conn_ratelimit_take, Typed
<1>2. CASE (PktOn \/ ByteOn) /\ s \notin DOMAIN conn_ratelimit
  <2> DEFINE c == IF ByteOn THEN n ELSE 0
             a == FirstBucket(now, PktBurst, 1)
             b == FirstBucket(now, ByteBurst, c)
  <2>1. c \in Nat
    BY <1>n
  <2> HIDE DEF c
  <2>2. a \in Bucket /\ a.last <= now /\ b \in Bucket /\ b.last <= now
    BY <1>n, <1>t, <2>1, FirstSane
  <2>3. FirstConn(n) = [pkt |-> a, byte |-> b]
    BY DEF FirstConn, c
  <2> HIDE DEF a, b
  <2>4. /\ FirstConn(n) \in ConnLimit
        /\ FirstConn(n).pkt.last <= now /\ FirstConn(n).byte.last <= now
    BY <2>2, <2>3 DEF ConnLimit
  <2>5. conn_ratelimit' = Put(conn_ratelimit, s, FirstConn(n))
    BY <1>2 DEF conn_ratelimit_take
  <2> QED
    BY <1>p, <2>4, <2>5
<1>3. CASE (PktOn \/ ByteOn) /\ s \in DOMAIN conn_ratelimit
  <2> DEFINE e == conn_ratelimit[s]
             a == IF PktOn /\ PktOk(s) THEN Drain(e.pkt, now, PktPeriod, PktBurst, 1)
                                       ELSE e.pkt
             b == IF ByteOn /\ PktOk(s) /\ ByteOk(s, n)
                  THEN Drain(e.byte, now, BytePeriod, ByteBurst, n) ELSE e.byte
  <2>1. /\ e.pkt \in Bucket /\ e.pkt.last <= now
        /\ e.byte \in Bucket /\ e.byte.last <= now
    BY <1>3 DEF Typed, IsMap, ConnLimit
  <2>2. a \in Bucket /\ a.last <= now
    <3>1. CASE PktOn /\ PktOk(s)
      BY <3>1, <2>1, <1>n, <1>t, DrainSane DEF PktOk
    <3> QED
      BY <3>1, <2>1
  <2>3. b \in Bucket /\ b.last <= now
    <3>1. CASE ByteOn /\ PktOk(s) /\ ByteOk(s, n)
      BY <3>1, <2>1, <1>n, <1>t, DrainSane DEF ByteOk
    <3> QED
      BY <3>1, <2>1
  <2>4. ConnCharged(s, n) = [pkt |-> a, byte |-> b]
    BY DEF ConnCharged
  <2> HIDE DEF a, b
  <2>5. /\ ConnCharged(s, n) \in ConnLimit
        /\ ConnCharged(s, n).pkt.last <= now /\ ConnCharged(s, n).byte.last <= now
    BY <2>2, <2>3, <2>4 DEF ConnLimit
  <2>6. conn_ratelimit' = Put(conn_ratelimit, s, ConnCharged(s, n))
    BY <1>3 DEF conn_ratelimit_take
  <2> QED
    BY <1>p, <2>5, <2>6
<1> QED
  BY <1>1, <1>2, <1>3

LEMMA AnomalySane ==
  ASSUME Typed, NEW s \in Src
  PROVE  Anomaly(s) \in Health /\ Anomaly(s).start <= now
<1>1. now \in Nat /\ HealthBlacklist \in Nat
  BY TunableAssumption DEF Typed
<1>2. s \in DOMAIN health => health[s] \in Health /\ health[s].start <= now
  BY DEF Typed, IsMap
<1> QED
  BY <1>1, <1>2, SMT DEF Anomaly, Health

LEMMA InitTyped == Init => Typed
<1> SUFFICES ASSUME Init PROVE Typed
  OBVIOUS
<1>1. DOMAIN EmptyMap = {}
  BY DEF EmptyMap
<1>2. \A V : IsMap(EmptyMap, Src, V)
  BY DEF EmptyMap, IsMap
<1>3. ZeroBucket \in Bucket /\ ZeroBucket.last = 0
  BY DEF ZeroBucket, Bucket
<1>4. OutOK
  BY DEF Init, OutOK, Quiet
<1> QED
  BY <1>1, <1>2, <1>3, <1>4 DEF Init, Typed, SaneBuckets, StackOK

LEMMA XdpTyped ==
  ASSUME Typed, NEW p \in Segment, minecraft_xdp(p)
  PROVE  Typed'
<1> DEFINE s == p.src
<1>p. /\ s \in Src /\ p.cpu \in CPUs /\ p.size \in Sizes /\ now \in Nat
  BY DEF Segment, Typed
<1>e. Effect(p)
  BY XdpEffect
<1>n. now' = now
  BY <1>e DEF Effect
<1>1. IsMap(tcp_whitelist', Src, Nat)
      /\ \A x \in DOMAIN tcp_whitelist' : tcp_whitelist'[x] <= now
  <2>1. TrustEffect(s)
    BY <1>e DEF Effect
  <2>2. CASE tcp_whitelist' = tcp_whitelist
    BY <2>2 DEF Typed
  <2>3. CASE tcp_whitelist' = Del(tcp_whitelist, s)
    BY <2>3, DelIsMap DEF Typed, Del
  <2>4. CASE tcp_whitelist' = Put(tcp_whitelist, s, now)
    BY <2>4, <1>p, PutIsMap, SMT DEF Typed, Put
  <2> QED
    BY <2>1, <2>2, <2>3, <2>4 DEF TrustEffect
<1>2. SaneBuckets(status_ratelimit') /\ SaneBuckets(login_ratelimit')
      /\ SaneBuckets(syn_ratelimit')
  BY <1>e, <1>p, BucketEffectSane, TunableAssumption DEF Effect, Typed
<1>3. /\ tcp_global_ratelimit' \in [CPUs -> Bucket]
      /\ \A c \in CPUs : tcp_global_ratelimit'[c].last <= now
  <2> DEFINE v == Drain(tcp_global_ratelimit[p.cpu], now, GlobalPeriod, GlobalBurst, 1)
  <2>1. CASE CanTake(tcp_global_ratelimit[p.cpu], now, GlobalPeriod, GlobalBurst, 1)
             /\ tcp_global_ratelimit' = [tcp_global_ratelimit EXCEPT ![p.cpu] = v]
    <3>1. v \in Bucket /\ v.last <= now
      BY <2>1, <1>p, DrainSane, TunableAssumption DEF Typed
    <3> HIDE DEF v
    <3> QED
      BY <2>1, <3>1 DEF Typed
  <2>2. CASE tcp_global_ratelimit' = tcp_global_ratelimit
    BY <2>2 DEF Typed
  <2> QED
    BY <2>1, <2>2, <1>e DEF Effect
<1>4. /\ IsMap(conn_ratelimit', Src, ConnLimit)
      /\ \A x \in DOMAIN conn_ratelimit' :
            conn_ratelimit'[x].pkt.last <= now /\ conn_ratelimit'[x].byte.last <= now
  <2>1. CASE conn_ratelimit' = conn_ratelimit
    BY <2>1 DEF Typed
  <2>2. CASE conn_ratelimit_take(s, p.size)
    BY <2>2, <1>p, <1>n, ConnTakeSane
  <2> QED
    BY <2>1, <2>2, <1>e DEF Effect
<1>5. /\ IsMap(health', Src, Health)
      /\ \A x \in DOMAIN health' : health'[x].start <= now
  <2>1. CASE health' = health
    BY <2>1 DEF Typed
  <2>2. CASE health' = Put(health, s, Anomaly(s))
    <3>1. Anomaly(s) \in Health /\ Anomaly(s).start <= now
      BY <1>p, AnomalySane
    <3>2. IsMap(health', Src, Health)
      BY <2>2, <3>1, <1>p, PutIsMap DEF Typed
    <3> QED
      BY <2>2, <3>1, <3>2 DEF Put, Typed
  <2> QED
    BY <2>1, <2>2, <1>e DEF Effect, HealthEffect
<1>6. StackOK'
  <2>1. p.first => fresh[s] > 0
    BY DEF minecraft_xdp, Arrives, Segment
  <2>2. half' \in [Src -> Nat]
    BY <1>e, <1>p, SMT DEF Effect, HalfEffect, Typed, StackOK
  <2>3. fresh' \in [Src -> Nat]
    BY <1>e, <1>p, <2>1, SMT DEF Effect, Typed, StackOK
  <2> QED
    BY <1>e, <2>2, <2>3 DEF Effect, Typed, StackOK
<1>7. tcp_syn_seen' \subseteq Src /\ tcp_first_data' \subseteq Src
  BY <1>e, <1>p DEF Effect, Typed
<1>8. /\ tcp_established' = tcp_established /\ tcp_open_count' = tcp_open_count
      /\ OutOK'
  BY <1>e DEF Effect
<1> QED
  BY <1>n, <1>1, <1>2, <1>3, <1>4, <1>5, <1>6, <1>7, <1>8 DEF Typed, SaneBuckets

\* A socket callback or the environment reports no verdict.
LEMMA QuietOK ==
  ASSUME out' = Quiet
  PROVE  OutOK'
BY DEF OutOK, Quiet

LEMMA EstablishedTyped ==
  ASSUME Typed, NEW s \in Src, Established(s)
  PROVE  Typed'
<1>1. StackOK'
  BY SMT DEF Established, Typed, StackOK
<1>2. IsMap(tcp_open_count', Src, Nat)
  <2> DEFINE v == IF s \in DOMAIN tcp_open_count THEN tcp_open_count[s] + 1 ELSE 1
  <2>1. v \in Nat
    BY SMT DEF Typed, IsMap
  <2>2. tcp_open_count' = Put(tcp_open_count, s, v)
    BY DEF Established
  <2> HIDE DEF v
  <2> QED
    BY <2>1, <2>2, PutIsMap DEF Typed
<1>3. OutOK'
  BY QuietOK DEF Established
<1> QED
  BY <1>1, <1>2, <1>3 DEF Established, Typed, SaneBuckets, limiters, gate

LEMMA ClosedTyped ==
  ASSUME Typed, NEW s \in Src, Closed(s)
  PROVE  Typed'
<1>1. StackOK'
  <2>1. PICK f \in {fresh[s], fresh[s] - 1} :
               f >= 0 /\ f < socks[s] /\ fresh' = [fresh EXCEPT ![s] = f]
    BY DEF Closed
  <2>2. fresh[s] \in Nat /\ socks[s] \in Nat
    BY DEF Typed, StackOK
  <2>3. f \in Nat
    BY <2>1, <2>2, SMT
  <2>4. socks' \in [Src -> Nat] /\ fresh' \in [Src -> Nat]
    BY <2>1, <2>2, <2>3, SMT DEF Closed, Typed, StackOK
  <2> QED
    BY <2>4 DEF Closed, Typed, StackOK
<1>2. IsMap(tcp_open_count', Src, Nat)
  BY SMT DEF Closed, open_count_dec, trust, Typed, IsMap
<1>3. /\ IsMap(tcp_whitelist', Src, Nat)
      /\ \A x \in DOMAIN tcp_whitelist' : tcp_whitelist'[x] <= now
  <2>1. tcp_whitelist' = tcp_whitelist \/ tcp_whitelist' = Del(tcp_whitelist, s)
    BY DEF Closed, open_count_dec, trust
  <2>2. IsMap(Del(tcp_whitelist, s), Src, Nat)
    BY DelIsMap DEF Typed
  <2>3. \A x \in DOMAIN Del(tcp_whitelist, s) : Del(tcp_whitelist, s)[x] <= now
    BY DEF Typed, Del
  <2> QED
    BY <2>1, <2>2, <2>3 DEF Typed
<1>4. tcp_established' \subseteq Src /\ tcp_first_data' \subseteq Src
  BY DEF Closed, open_count_dec, trust, Typed
<1>5. OutOK'
  BY QuietOK DEF Closed
<1> QED
  BY <1>1, <1>2, <1>3, <1>4, <1>5 DEF Closed, Typed, SaneBuckets, limiters, gate

LEMMA NextTyped == Typed /\ [Next]_vars => Typed'
<1> SUFFICES ASSUME Typed, [Next]_vars PROVE Typed'
  OBVIOUS
<1>1. ASSUME NEW p \in Segment, minecraft_xdp(p) PROVE Typed'
  BY <1>1, XdpTyped
<1>2. ASSUME NEW s \in Src, Established(s) PROVE Typed'
  BY <1>2, EstablishedTyped
<1>3. ASSUME NEW s \in Src, Closed(s) PROVE Typed'
  BY <1>3, ClosedTyped
<1>4. ASSUME NEW s \in Src, Abandoned(s) PROVE Typed'
  <2>1. StackOK'
    BY <1>4, SMT DEF Abandoned, Typed, StackOK
  <2>2. OutOK'
    BY <1>4, QuietOK DEF Abandoned
  <2> QED
    BY <1>4, <2>1, <2>2 DEF Abandoned, Typed, SaneBuckets, trust, limiters, gate
<1>5. CASE Tick
  <2>1. OutOK'
    BY <1>5, QuietOK DEF Tick
  <2>2. now' \in Nat /\ now \in Nat /\ now <= now' /\ UNCHANGED <<trust, limiters, gate, stack>>
    BY <1>5, SMT DEF Tick, Typed
  <2>3. ASSUME NEW m, SaneBuckets(m)
        PROVE  IsMap(m, Src, Bucket) /\ \A s \in DOMAIN m : m[s].last <= now'
    BY <2>2, <2>3, SMT DEF SaneBuckets, IsMap, Bucket
  <2>4. (\A s \in DOMAIN tcp_whitelist : tcp_whitelist[s] <= now)'
    BY <2>2, SMT DEF Typed, IsMap, trust
  <2>5. (\A c \in CPUs : tcp_global_ratelimit[c].last <= now)'
    BY <2>2, SMT DEF Typed, gate, Bucket
  <2>6. (\A s \in DOMAIN conn_ratelimit :
           conn_ratelimit[s].pkt.last <= now /\ conn_ratelimit[s].byte.last <= now)'
    BY <2>2, SMT DEF Typed, IsMap, limiters, ConnLimit, Bucket
  <2>7. (\A s \in DOMAIN health : health[s].start <= now)'
    BY <2>2, SMT DEF Typed, IsMap, limiters, Health
  <2>8. SaneBuckets(status_ratelimit)' /\ SaneBuckets(login_ratelimit)'
        /\ SaneBuckets(syn_ratelimit)'
    <3>1. /\ status_ratelimit' = status_ratelimit
          /\ login_ratelimit' = login_ratelimit /\ syn_ratelimit' = syn_ratelimit
      BY <2>2 DEF limiters, gate
    <3>2. SaneBuckets(status_ratelimit) /\ SaneBuckets(login_ratelimit)
          /\ SaneBuckets(syn_ratelimit)
      BY DEF Typed
    <3> QED
      BY <2>3, <3>1, <3>2 DEF SaneBuckets
  <2> QED
    BY <2>1, <2>2, <2>4, <2>5, <2>6, <2>7, <2>8
    DEF Typed, StackOK, trust, limiters, gate, stack
<1>6. CASE UNCHANGED vars
  BY <1>6 DEF vars, Typed, SaneBuckets, StackOK, OutOK, trust, limiters, gate, stack
<1> QED
  BY <1>1, <1>2, <1>3, <1>4, <1>5, <1>6 DEF Next

\* Every map holds what minecraft_xdp expects in it.
THEOREM FilterTypes == Spec => []TypeOK
<1>1. Spec => []Typed
  BY InitTyped, NextTyped, PTL DEF Spec
<1> QED
  BY <1>1, TypedIsTypeOK, PTL
--------------------------------------------------------------------------------
(* Sessions, the open-connection bound and bans. *)

SessionInv ==
    /\ SessionTracked
    /\ OpenBounded
    /\ BannedNotTrusted
    /\ BanEarned

LEMMA InitSession == Init => SessionInv
<1> SUFFICES ASSUME Init PROVE SessionInv
  OBVIOUS
<1>1. DOMAIN EmptyMap = {}
  BY DEF EmptyMap
<1>2. SessionTracked
  BY <1>1 DEF Init, SessionTracked, OpenCount
<1>3. OpenBounded
  BY TunableAssumption, BoundAssumption, SMT DEF Init, OpenBounded
<1>4. BannedNotTrusted /\ BanEarned
  BY <1>1 DEF Init, BannedNotTrusted, BanEarned
<1> QED
  BY <1>2, <1>3, <1>4 DEF SessionInv

LEMMA KnownHasSocket ==
  ASSUME SessionInv, NEW s \in Src, Known(s)
  PROVE  socks[s] > 0
BY DEF SessionInv, SessionTracked, Known

LEMMA XdpSession ==
  ASSUME Typed, SessionInv, NEW p \in Segment, minecraft_xdp(p)
  PROVE  SessionInv'
<1> DEFINE s == p.src
<1>p. s \in Src
  BY DEF Segment
<1>e. Effect(p)
  BY XdpEffect
<1>u. UNCHANGED <<now, tcp_established, tcp_open_count, socks>>
  BY <1>e DEF Effect
<1>k. Known(s) => socks[s] > 0
  BY <1>p, KnownHasSocket
<1> HIDE DEF s
<1>d. /\ DOMAIN Del(tcp_whitelist, s) = DOMAIN tcp_whitelist \ {s}
      /\ DOMAIN Put(tcp_whitelist, s, now) = DOMAIN tcp_whitelist \cup {s}
  BY DEF Put, Del
<1>w. /\ TrustEffect(s)
      /\ DOMAIN tcp_whitelist' \subseteq DOMAIN tcp_whitelist \cup {s}
      /\ s \in DOMAIN tcp_whitelist' /\ s \notin DOMAIN tcp_whitelist =>
            Known(s) /\ ~health_is_blacklisted(s)
  <2>1. TrustEffect(s)
    BY <1>e DEF Effect, s
  <2> QED
    BY <2>1, <1>d DEF TrustEffect
<1>1. SessionTracked'
  <2>1. \A x \in Src : OpenCount(x)' = OpenCount(x)
    BY <1>u DEF OpenCount
  <2>2. \A x \in Src : x \in DOMAIN tcp_whitelist' => socks[x] > 0
    BY <1>w, <1>k DEF SessionInv, SessionTracked
  <2>3. \A x \in Src : x \in tcp_first_data' => socks[x] > 0
    BY <1>e DEF Effect, SessionInv, SessionTracked, s
  <2> QED
    BY <1>u, <2>1, <2>2, <2>3 DEF SessionInv, SessionTracked
<1>2. OpenBounded'
  <2> SUFFICES ASSUME MaxOpen > 0, NEW x \in Src
               PROVE  socks'[x] + half'[x] <= MaxOpen - 1 + Backlog
    BY DEF OpenBounded
  <2>0. /\ socks[x] \in Nat /\ half[x] \in Nat /\ MaxOpen \in Nat /\ Backlog \in Nat
        /\ half \in [Src -> Nat] /\ socks[x] + half[x] <= MaxOpen - 1 + Backlog
    BY TunableAssumption, BoundAssumption DEF Typed, StackOK, SessionInv, OpenBounded
  <2>1. CASE half'[x] = half[x]
    BY <2>0, <2>1, <1>u
  <2>2. CASE half'[x] # half[x]
    <3>1. /\ x = s /\ half[s] < Backlog /\ ~TooManyOpen(s)
          /\ half' = [half EXCEPT ![s] = @ + 1]
      BY <2>2, <2>0, <1>e, <1>p DEF Effect, HalfEffect, s
    <3>2. half'[x] = half[x] + 1
      BY <3>1, <2>0
    <3>3. socks[x] <= MaxOpen - 1
      <4>1. OpenCount(x) = socks[x]
        BY DEF SessionInv, SessionTracked
      <4>2. CASE x \in DOMAIN tcp_open_count
        <5>1. tcp_open_count[x] = socks[x] /\ ~(tcp_open_count[x] >= MaxOpen)
          BY <4>1, <4>2, <3>1 DEF OpenCount, TooManyOpen
        <5> QED
          BY <5>1, <2>0, SMT
      <4>3. CASE x \notin DOMAIN tcp_open_count
        BY <4>1, <4>3, <2>0, SMT DEF OpenCount
      <4> QED
        BY <4>2, <4>3
    <3> QED
      BY <2>0, <3>1, <3>2, <3>3, <1>u, SMT
  <2> QED
    BY <2>1, <2>2
<1>h. \/ health' = health
      \/ /\ health' = Put(health, s, Anomaly(s))
         /\ ~health_is_blacklisted(s) /\ Known(s)
         /\ Anomaly(s).until > now => tcp_whitelist' = Del(tcp_whitelist, s)
  BY <1>e DEF Effect, HealthEffect, s
<1>5. BannedNotTrusted'
  <2> SUFFICES ASSUME NEW x \in DOMAIN health', health'[x].until > now
               PROVE  x \notin DOMAIN tcp_whitelist'
    BY <1>u DEF BannedNotTrusted, health_is_blacklisted
  <2>1. CASE health' = health
    <3>1. health_is_blacklisted(x) /\ x \notin DOMAIN tcp_whitelist
      BY <2>1 DEF SessionInv, BannedNotTrusted, health_is_blacklisted
    <3> QED
      BY <3>1, <1>w
  <2>2. CASE /\ health' = Put(health, s, Anomaly(s))
             /\ ~health_is_blacklisted(s)
             /\ Anomaly(s).until > now => tcp_whitelist' = Del(tcp_whitelist, s)
    <3>1. CASE x = s
      <4>1. health'[x] = Anomaly(s)
        BY <2>2, <3>1 DEF Put
      <4> QED
        BY <2>2, <3>1, <4>1, <1>d
    <3>2. CASE x # s
      <4>1. x \in DOMAIN health /\ health'[x] = health[x]
        BY <2>2, <3>2 DEF Put
      <4>2. x \notin DOMAIN tcp_whitelist
        BY <4>1 DEF SessionInv, BannedNotTrusted, health_is_blacklisted
      <4> QED
        BY <3>2, <4>2, <1>w
    <3> QED
      BY <3>1, <3>2
  <2> QED
    BY <2>1, <2>2, <1>h
<1>6. BanEarned'
  <2> SUFFICES ASSUME NEW x \in DOMAIN health', health'[x].until > now
               PROVE  /\ health'[x].anomalies >= HealthThreshold
                      /\ health'[x].until - HealthBlacklist - health'[x].start
                            <= HealthWindow
    BY <1>u DEF BanEarned, health_is_blacklisted
  <2>1. ASSUME x \in DOMAIN health, health'[x] = health[x]
        PROVE  /\ health'[x].anomalies >= HealthThreshold
               /\ health'[x].until - HealthBlacklist - health'[x].start <= HealthWindow
    BY <2>1 DEF SessionInv, BanEarned, health_is_blacklisted
  <2>2. CASE health' = health
    BY <2>1, <2>2
  <2>3. CASE health' = Put(health, s, Anomaly(s)) /\ ~health_is_blacklisted(s)
    <3>1. CASE x # s
      BY <2>1, <2>3, <3>1 DEF Put
    <3>2. CASE x = s
      <4>1. health'[x] = Anomaly(s)
        BY <2>3, <3>2 DEF Put
      <4>2. /\ now \in Nat /\ HealthBlacklist \in Nat /\ HealthWindow \in Nat
            /\ HealthThreshold \in Nat
        BY TunableAssumption DEF Typed
      <4>3. s \in DOMAIN health =>
              /\ health[s].anomalies \in Nat /\ health[s].start \in Nat
              /\ health[s].until \in Nat /\ ~(health[s].until > now)
              /\ health[s].start <= now
        BY <2>3 DEF Typed, IsMap, Health, health_is_blacklisted
      <4>4. Anomaly(s).until > now
        BY <4>1
      <4>5. CASE s \notin DOMAIN health
        BY <4>2, <4>4, <4>5, SMT DEF Anomaly
      <4>6. CASE s \in DOMAIN health
        <5> DEFINE h == health[s]
                   stale == now - h.start > HealthWindow
                   n == (IF stale THEN 0 ELSE h.anomalies) + 1
        <5>1. /\ Anomaly(s).anomalies = n
              /\ Anomaly(s).start = (IF stale THEN now ELSE h.start)
              /\ Anomaly(s).until = IF n >= HealthThreshold
                                    THEN now + HealthBlacklist ELSE h.until
          BY <4>6 DEF Anomaly
        <5>2. n >= HealthThreshold /\ Anomaly(s).until = now + HealthBlacklist
          BY <5>1, <4>3, <4>4, <4>6
        <5>3. (IF stale THEN now ELSE h.start) \in Nat
              /\ now - (IF stale THEN now ELSE h.start) <= HealthWindow
          <6>1. CASE stale
            BY <6>1, <4>2, SMT
          <6>2. CASE ~stale
            BY <6>2, <4>2, <4>3, <4>6, SMT
          <6> QED
            BY <6>1, <6>2
        <5> HIDE DEF n
        <5>4. (now + HealthBlacklist) - HealthBlacklist - Anomaly(s).start <= HealthWindow
          BY <5>1, <5>3, <4>2, SMT
        <5>5. /\ health'[x].anomalies = n
              /\ health'[x].until = now + HealthBlacklist
              /\ health'[x].start = Anomaly(s).start
          BY <4>1, <5>1, <5>2
        <5>6. health'[x].anomalies >= HealthThreshold
          BY <5>2, <5>5
        <5>7. health'[x].until - HealthBlacklist - health'[x].start <= HealthWindow
          <6>1. health'[x].until - HealthBlacklist - health'[x].start
                  = (now + HealthBlacklist) - HealthBlacklist - Anomaly(s).start
            BY <5>5, Zenon
          <6> QED
            BY <5>4, <6>1, Zenon
        <5> QED
          BY <5>6, <5>7
      <4> QED
        BY <4>5, <4>6
    <3> QED
      BY <3>1, <3>2
  <2> QED
    BY <2>2, <2>3, <1>h
<1> QED
  BY <1>1, <1>2, <1>5, <1>6 DEF SessionInv

\* What the steps outside minecraft_xdp leave alone keeps the part of the
\* invariant about bans.
LEMMA LimitersKept ==
  ASSUME SessionInv, UNCHANGED limiters, now' = now,
         DOMAIN tcp_whitelist' \subseteq DOMAIN tcp_whitelist
  PROVE  BannedNotTrusted' /\ BanEarned'
<1>1. health' = health
  BY DEF limiters
<1>3. BannedNotTrusted'
  BY <1>1 DEF SessionInv, BannedNotTrusted, health_is_blacklisted
<1>4. BanEarned'
  BY <1>1 DEF SessionInv, BanEarned, health_is_blacklisted
<1> QED
  BY <1>3, <1>4

LEMMA EstablishedSession ==
  ASSUME Typed, SessionInv, NEW s \in Src, Established(s)
  PROVE  SessionInv'
<1>t. /\ half \in [Src -> Nat] /\ socks \in [Src -> Nat]
      /\ MaxOpen \in Nat /\ Backlog \in Nat
  BY TunableAssumption, BoundAssumption DEF Typed, StackOK
<1>u. /\ half[s] > 0
      /\ half' = [half EXCEPT ![s] = half[s] - 1]
      /\ socks' = [socks EXCEPT ![s] = socks[s] + 1]
      /\ tcp_established' = tcp_established \cup {s}
      /\ tcp_open_count' = Put(tcp_open_count, s, OpenCount(s) + 1)
      /\ tcp_first_data' = tcp_first_data /\ tcp_whitelist' = tcp_whitelist
      /\ now' = now /\ UNCHANGED limiters
  <2>1. (IF s \in DOMAIN tcp_open_count THEN tcp_open_count[s] + 1 ELSE 1)
          = OpenCount(s) + 1
    BY DEF OpenCount
  <2> QED
    BY <2>1 DEF Established
<1>1. SessionTracked'
  <2> SUFFICES ASSUME NEW x \in Src
               PROVE  /\ OpenCount(x)' = socks'[x]
                      /\ x \in tcp_established' <=> socks'[x] > 0
                      /\ x \in DOMAIN tcp_whitelist' \cup tcp_first_data' => socks'[x] > 0
    BY DEF SessionTracked
  <2>0. /\ OpenCount(x) = socks[x]
        /\ x \in tcp_established <=> socks[x] > 0
        /\ x \in DOMAIN tcp_whitelist \cup tcp_first_data => socks[x] > 0
    BY DEF SessionInv, SessionTracked
  <2>1. CASE x = s
    <3>1. OpenCount(x)' = OpenCount(s) + 1
      BY <2>1, <1>u DEF OpenCount, Put
    <3>2. socks'[x] = socks[x] + 1 /\ socks'[x] > 0
      BY <2>1, <1>t, <1>u
    <3> QED
      BY <2>0, <2>1, <3>1, <3>2, <1>u
  <2>2. CASE x # s
    <3>1. OpenCount(x)' = OpenCount(x)
      BY <2>2, <1>u DEF OpenCount, Put
    <3>2. socks'[x] = socks[x]
      BY <2>2, <1>t, <1>u
    <3> QED
      BY <2>0, <2>2, <3>1, <3>2, <1>u
  <2> QED
    BY <2>1, <2>2
<1>2. OpenBounded'
  BY <1>t, <1>u, SMT DEF SessionInv, OpenBounded
<1>4. BannedNotTrusted' /\ BanEarned'
  BY <1>u, LimitersKept
<1> QED
  BY <1>1, <1>2, <1>4 DEF SessionInv

\* On a session the filter tracks, closing a connection always takes the branch
\* of open_count_dec that counts down.
LEMMA ClosedDecrements ==
  ASSUME Typed, SessionInv, NEW s \in Src, Closed(s)
  PROVE  /\ s \in DOMAIN tcp_open_count /\ tcp_open_count[s] = socks[s]
         /\ socks[s] > 0 /\ socks[s] \in Nat
         /\ tcp_open_count' = [tcp_open_count EXCEPT ![s] = socks[s] - 1]
         /\ socks' = [socks EXCEPT ![s] = socks[s] - 1]
         /\ IF socks[s] = 1
            THEN /\ tcp_established' = tcp_established \ {s}
                 /\ tcp_whitelist' = Del(tcp_whitelist, s)
                 /\ tcp_first_data' = tcp_first_data \ {s}
            ELSE UNCHANGED <<tcp_established, tcp_whitelist, tcp_first_data>>
<1>1. OpenCount(s) = socks[s]
  BY DEF SessionInv, SessionTracked
<1>2. socks[s] > 0 /\ socks[s] \in Nat
  BY DEF Closed, Typed, StackOK
<1>3. s \in DOMAIN tcp_open_count /\ tcp_open_count[s] = socks[s]
  BY <1>1, <1>2 DEF OpenCount
<1> QED
  BY <1>2, <1>3 DEF Closed, open_count_dec

LEMMA ClosedSession ==
  ASSUME Typed, SessionInv, NEW s \in Src, Closed(s)
  PROVE  SessionInv'
<1>t. /\ half \in [Src -> Nat] /\ socks \in [Src -> Nat]
      /\ MaxOpen \in Nat /\ Backlog \in Nat
  BY TunableAssumption, BoundAssumption DEF Typed, StackOK
<1>u. now' = now /\ half' = half /\ UNCHANGED limiters
  BY DEF Closed
<1>c. /\ s \in DOMAIN tcp_open_count /\ tcp_open_count[s] = socks[s]
      /\ socks[s] > 0 /\ socks[s] \in Nat
      /\ tcp_open_count' = [tcp_open_count EXCEPT ![s] = socks[s] - 1]
      /\ socks' = [socks EXCEPT ![s] = socks[s] - 1]
  BY ClosedDecrements
<1>d. IF socks[s] = 1
      THEN /\ tcp_established' = tcp_established \ {s}
           /\ tcp_whitelist' = Del(tcp_whitelist, s)
           /\ tcp_first_data' = tcp_first_data \ {s}
      ELSE UNCHANGED <<tcp_established, tcp_whitelist, tcp_first_data>>
  BY ClosedDecrements
<1>w. DOMAIN Del(tcp_whitelist, s) = DOMAIN tcp_whitelist \ {s}
  BY DEF Del
<1>1. SessionTracked'
  <2> SUFFICES ASSUME NEW x \in Src
               PROVE  /\ OpenCount(x)' = socks'[x]
                      /\ x \in tcp_established' <=> socks'[x] > 0
                      /\ x \in DOMAIN tcp_whitelist' \cup tcp_first_data' => socks'[x] > 0
    BY DEF SessionTracked
  <2>0. /\ OpenCount(x) = socks[x]
        /\ x \in tcp_established <=> socks[x] > 0
        /\ x \in DOMAIN tcp_whitelist \cup tcp_first_data => socks[x] > 0
    BY DEF SessionInv, SessionTracked
  <2>1. CASE x = s
    <3>1. OpenCount(x)' = socks[s] - 1
      BY <2>1, <1>c DEF OpenCount
    <3>2. socks'[x] = socks[s] - 1
      BY <2>1, <1>t, <1>c
    <3>3. CASE socks[s] = 1
      BY <2>0, <2>1, <3>1, <3>2, <3>3, <1>d, <1>w
    <3>4. CASE socks[s] # 1
      <4>1. socks[s] - 1 > 0
        BY <3>4, <1>c
      <4> QED
        BY <2>0, <2>1, <3>1, <3>2, <3>4, <4>1, <1>c, <1>d
    <3> QED
      BY <3>3, <3>4
  <2>2. CASE x # s
    <3>1. OpenCount(x)' = OpenCount(x)
      BY <2>2, <1>c DEF OpenCount
    <3>2. socks'[x] = socks[x]
      BY <2>2, <1>t, <1>c
    <3>3. /\ x \in tcp_established' <=> x \in tcp_established
          /\ x \in DOMAIN tcp_whitelist' <=> x \in DOMAIN tcp_whitelist
          /\ x \in tcp_first_data' <=> x \in tcp_first_data
      BY <2>2, <1>d, <1>w
    <3> QED
      BY <2>0, <3>1, <3>2, <3>3
  <2> QED
    BY <2>1, <2>2
<1>2. OpenBounded'
  BY <1>t, <1>u, <1>c, SMT DEF SessionInv, OpenBounded
<1>4. BannedNotTrusted' /\ BanEarned'
  BY <1>u, <1>d, <1>w, LimitersKept
<1> QED
  BY <1>1, <1>2, <1>4 DEF SessionInv

LEMMA NextSession == Typed /\ SessionInv /\ [Next]_vars => SessionInv'
<1> SUFFICES ASSUME Typed, SessionInv, [Next]_vars PROVE SessionInv'
  OBVIOUS
<1>1. ASSUME NEW p \in Segment, minecraft_xdp(p) PROVE SessionInv'
  BY <1>1, XdpSession
<1>2. ASSUME NEW s \in Src, Established(s) PROVE SessionInv'
  BY <1>2, EstablishedSession
<1>3. ASSUME NEW s \in Src, Closed(s) PROVE SessionInv'
  BY <1>3, ClosedSession
<1>4. ASSUME NEW s \in Src, Abandoned(s) PROVE SessionInv'
  <2>1. /\ half[s] > 0 /\ half' = [half EXCEPT ![s] = half[s] - 1]
        /\ socks' = socks /\ now' = now
        /\ UNCHANGED <<trust, limiters>>
    BY <1>4 DEF Abandoned
  <2>2. SessionTracked'
    BY <2>1 DEF SessionInv, SessionTracked, OpenCount, trust
  <2>3. OpenBounded'
    BY <2>1, TunableAssumption, BoundAssumption, SMT
    DEF SessionInv, OpenBounded, Typed, StackOK
  <2>5. BannedNotTrusted' /\ BanEarned'
    BY <2>1, LimitersKept DEF trust
  <2> QED
    BY <2>2, <2>3, <2>5 DEF SessionInv
<1>5. CASE Tick
  <2>1. /\ now' = now + 1 /\ now \in Nat
        /\ UNCHANGED <<trust, limiters, stack>>
    BY <1>5 DEF Tick, Typed
  <2>2. SessionTracked' /\ OpenBounded'
    BY <2>1 DEF SessionInv, SessionTracked, OpenCount, OpenBounded, trust, stack
  <2>3. \A s \in DOMAIN health : health[s].until \in Nat
    BY DEF Typed, IsMap, Health
  <2>4. \A s \in DOMAIN health : health_is_blacklisted(s)' => health_is_blacklisted(s)
    BY <2>1, <2>3, SMT DEF health_is_blacklisted, limiters
  <2>5. BannedNotTrusted' /\ BanEarned'
    BY <2>1, <2>4 DEF SessionInv, BannedNotTrusted, BanEarned, trust, limiters
  <2> QED
    BY <2>2, <2>5 DEF SessionInv
<1>6. CASE UNCHANGED vars
  BY <1>6 DEF vars, trust, limiters, stack, SessionInv, SessionTracked, OpenCount,
     OpenBounded, BannedNotTrusted, BanEarned,
     health_is_blacklisted
<1> QED
  BY <1>1, <1>2, <1>3, <1>4, <1>5, <1>6 DEF Next

LEMMA Invariant == Spec => [](Typed /\ SessionInv)
BY InitTyped, InitSession, NextTyped, NextSession, PTL DEF Spec

\* What the maps say of a source is what the TCP stack holds of it: open_count_inc
\* and open_count_dec keep the count, and the session maps end with the last close.
THEOREM Sessions == Spec => []SessionTracked
BY Invariant, PTL DEF SessionInv

\* The SYN gate keeps the open sockets of a source below the cap plus the backlog,
\* although it reads a count that SYNs in flight have not reached.
THEOREM OpenCap == Spec => []OpenBounded
BY Invariant, PTL DEF SessionInv

\* health_record_anomaly bans nobody who has not earned it within one window.
THEOREM Bans == Spec => []BanEarned
BY Invariant, PTL DEF SessionInv

\* A source whose anomalies have reached the threshold within a window has been
\* banned since that window began, whenever the threshold is more than one.  (The
\* first anomaly inserts an entry and does not compare.)
THEOREM BansDelivered == HealthThreshold > 1 => (Spec => []BanDelivered)
<1> SUFFICES ASSUME HealthThreshold > 1 PROVE Spec => []BanDelivered
  OBVIOUS
<1>1. Init => BanDelivered
  BY DEF Init, BanDelivered, EmptyMap
<1>2. ASSUME BanDelivered, health' = health PROVE BanDelivered'
  BY <1>2 DEF BanDelivered
<1>3. ASSUME Typed, BanDelivered, NEW p \in Segment, minecraft_xdp(p) PROVE BanDelivered'
  <2>1. HealthEffect(p.src) /\ p.src \in Src
    BY <1>3, XdpEffect DEF Effect, Segment
  <2>2. CASE health' = Put(health, p.src, Anomaly(p.src))
    <3>1. ASSUME NEW x \in DOMAIN health', x # p.src,
                 health'[x].anomalies >= HealthThreshold
          PROVE  health'[x].until >= health'[x].start + HealthBlacklist
      <4>1. x \in DOMAIN health /\ health'[x] = health[x]
        BY <2>2, <3>1 DEF Put
      <4> QED
        BY <1>3, <3>1, <4>1 DEF BanDelivered
    <3>2. ASSUME p.src \in DOMAIN health', health'[p.src].anomalies >= HealthThreshold
          PROVE  health'[p.src].until >= health'[p.src].start + HealthBlacklist
      <4> DEFINE h == health[p.src]
                 a == Anomaly(p.src)
      <4>1. health'[p.src] = a /\ a.anomalies >= HealthThreshold
        BY <2>2, <3>2 DEF Put
      <4>2. p.src \in DOMAIN health => h \in Health /\ h.start <= now
        BY <1>3 DEF Typed, IsMap
      <4>3. now \in Nat /\ HealthThreshold \in Nat /\ HealthBlacklist \in Nat
        BY <1>3, TunableAssumption DEF Typed
      <4>4. a.until >= a.start + HealthBlacklist
        BY <4>1, <4>2, <4>3, SMT DEF Anomaly, Health
      <4> QED
        BY <4>1, <4>4
    <3> QED
      BY <3>1, <3>2 DEF BanDelivered
  <2> QED
    BY <1>2, <1>3, <2>1, <2>2 DEF HealthEffect
<1>4. ASSUME Typed, BanDelivered, [Next]_vars PROVE BanDelivered'
  <2>1. ASSUME NEW s \in Src, Established(s) PROVE health' = health
    BY <2>1 DEF Established, limiters
  <2>2. ASSUME NEW s \in Src, Closed(s) PROVE health' = health
    BY <2>2 DEF Closed, limiters
  <2>3. ASSUME NEW s \in Src, Abandoned(s) PROVE health' = health
    BY <2>3 DEF Abandoned, limiters
  <2>4. CASE Tick
    BY <1>2, <1>4, <2>4 DEF Tick, limiters
  <2>5. CASE UNCHANGED vars
    BY <1>2, <1>4, <2>5 DEF vars, limiters
  <2> QED
    BY <1>2, <1>3, <1>4, <2>1, <2>2, <2>3, <2>4, <2>5 DEF Next
<1> QED
  BY <1>1, <1>4, Invariant, PTL DEF Spec

\* No source is trusted while it is banned, on whichever path it was banned.
THEOREM BansEndTrust == Spec => []BannedNotTrusted
BY Invariant, PTL DEF SessionInv

--------------------------------------------------------------------------------
(* Whose account a run may touch. *)

\* An update of one key leaves the entries of the others.
LEMMA PutEntry ==
  ASSUME NEW m, NEW k, NEW v, NEW s, s # k
  PROVE  Entry(Put(m, k, v), s) = Entry(m, s)
BY DEF Entry, Put

LEMMA XdpAccounts ==
  ASSUME SessionInv, NEW p \in Segment, minecraft_xdp(p), NEW s \in Src,
         Account(s)' # Account(s)
  PROVE  out'.src = s /\ socks[s] > 0
<1>e. Effect(p)
  BY XdpEffect
<1>1. ASSUME NEW m, NEW m2, m2 = m \/ ((\E v : m2 = Put(m, p.src, v)) /\ Known(p.src)),
             Entry(m2, s) # Entry(m, s)
      PROVE  s = p.src /\ Known(s)
  BY <1>1, PutEntry
<1>2. status_ratelimit' = status_ratelimit
        \/ ((\E v : status_ratelimit' = Put(status_ratelimit, p.src, v)) /\ Known(p.src))
  BY <1>e DEF Effect, BucketEffect, RatelimitTaken
<1>3. login_ratelimit' = login_ratelimit
        \/ ((\E v : login_ratelimit' = Put(login_ratelimit, p.src, v)) /\ Known(p.src))
  BY <1>e DEF Effect, BucketEffect, RatelimitTaken
<1>4. conn_ratelimit' = conn_ratelimit
        \/ ((\E v : conn_ratelimit' = Put(conn_ratelimit, p.src, v)) /\ Known(p.src))
  BY <1>e DEF Effect, conn_ratelimit_take
<1>5. health' = health \/ ((\E v : health' = Put(health, p.src, v)) /\ Known(p.src))
  BY <1>e DEF Effect, HealthEffect
<1>6. \/ Entry(status_ratelimit', s) # Entry(status_ratelimit, s)
      \/ Entry(login_ratelimit', s) # Entry(login_ratelimit, s)
      \/ Entry(conn_ratelimit', s) # Entry(conn_ratelimit, s)
      \/ Entry(health', s) # Entry(health, s)
  BY DEF Account, Entry
<1>7. s = p.src /\ Known(s)
  BY <1>1, <1>2, <1>3, <1>4, <1>5, <1>6
<1> QED
  BY <1>e, <1>7, KnownHasSocket DEF Effect

\* minecraft_xdp charges and bans a source only on a segment in its name and while
\* it holds a connection, however many sources share the maps: what is looked up in
\* tcp_established and tcp_whitelist is never there without an open socket.
THEOREM OnlyConnectedPay == Spec => OnlyConnectedCharged
<1>1. ASSUME NEW s \in Src, UNCHANGED limiters PROVE Account(s)' = Account(s)
  BY <1>1 DEF Account, Entry, limiters
<1>2. ASSUME SessionInv, [Next]_vars, NEW s \in Src, Account(s)' # Account(s)
      PROVE  out'.src = s /\ socks[s] > 0
  <2>1. ASSUME NEW p \in Segment, minecraft_xdp(p) PROVE out'.src = s /\ socks[s] > 0
    BY <1>2, <2>1, XdpAccounts
  <2>2. ASSUME NEW x \in Src, Established(x) \/ Closed(x) \/ Abandoned(x)
        PROVE  UNCHANGED limiters
    BY <2>2 DEF Established, Closed, Abandoned
  <2>3. Tick \/ UNCHANGED vars => UNCHANGED limiters
    BY DEF Tick, vars
  <2> QED
    BY <1>1, <1>2, <2>1, <2>2, <2>3 DEF Next
<1>3. SessionInv /\ [Next]_vars
        => [\A s \in Src : Account(s)' # Account(s) => out'.src = s /\ socks[s] > 0]_vars
  BY <1>2
<1> QED
  BY <1>3, Invariant, PTL DEF Spec, OnlyConnectedCharged
--------------------------------------------------------------------------------
(* What a run reports: the reason for a drop tells where it left. *)

RefusedEarly == {"bad_flags", "unhealthy", "no_syn", "too_many_open",
                 "conn_rate", "global_ratelimit"}

\* Drop and Pass report what they are told to.
LEMMA DropReports ==
  ASSUME NEW p, NEW reason, Drop(p, reason)
  PROVE  out'.reason = reason /\ out'.src = p.src
BY DEF Drop, Report

LEMMA PassReports ==
  ASSUME NEW p, NEW metered, Pass(p, metered)
  PROVE  out'.reason = "none"
BY DEF Pass, Report

\* Only the checks in front of the payload have these reasons, each its own.
LEMMA EarlyRefusal ==
  ASSUME NEW p, minecraft_xdp(p), out'.reason \in RefusedEarly
  PROVE  /\ \/ BadFlags(p) \/ Unhealthy(p) \/ TrustedTooManyOpen(p)
            \/ NoSyn(p) \/ SynTooManyOpen(p) \/ SynConnRate(p) \/ SynGlobalRate(p)
         /\ out'.reason = "no_syn" => NoSyn(p) /\ out'.src = p.src
<1> USE DEF RefusedEarly
<1>1. CASE TrustedOverRate(p) \/ StreamOverRate(p) \/ StatusLimited(p)
           \/ LoginLimited(p) \/ Malformed(p)
  BY <1>1, DropReports
  DEF TrustedOverRate, StreamOverRate, StatusLimited, LoginLimited, Malformed
<1>2. CASE TrustedPass(p) \/ BadHeader(p) \/ NoPayload(p) \/ StreamPass(p)
           \/ HandshakeNoEst(p) \/ StatusPass(p) \/ LoginPromote(p)
  BY <1>2, PassReports
  DEF TrustedPass, BadHeader, NoPayload, StreamPass, HandshakeNoEst, StatusPass,
      LoginPromote
<1>4. CASE BadFlags(p) \/ Unhealthy(p) \/ TrustedTooManyOpen(p) \/ NoSyn(p)
           \/ SynTooManyOpen(p) \/ SynConnRate(p) \/ SynGlobalRate(p)
  BY <1>4, DropReports
  DEF BadFlags, Unhealthy, TrustedTooManyOpen, NoSyn, SynTooManyOpen, SynConnRate,
      SynGlobalRate
<1> QED
  BY <1>1, <1>2, <1>4 DEF minecraft_xdp

\* Whatever refuses a segment before its payload is looked at, the bucket of the
\* global breaker is as it was: tcp_global_ratelimit_take is the last check of the
\* SYN gate and charges only the SYNs it lets through.
THEOREM BreakerOnlyForAdmitted == Spec => BreakerSparesRefused
<1>1. ASSUME NEW p \in Segment, minecraft_xdp(p), out'.reason \in RefusedEarly
      PROVE  UNCHANGED tcp_global_ratelimit
  BY <1>1, EarlyRefusal
  DEF BadFlags, Unhealthy, TrustedTooManyOpen, NoSyn, SynTooManyOpen, SynConnRate,
      SynGlobalRate, gate
<1>2. ASSUME NEW s \in Src, Established(s) \/ Closed(s) \/ Abandoned(s)
      PROVE  UNCHANGED tcp_global_ratelimit
  BY <1>2 DEF Established, Closed, Abandoned, gate
<1>3. Tick => UNCHANGED tcp_global_ratelimit
  BY DEF Tick, gate
<1>4. [Next]_vars => [out'.reason \in RefusedEarly
                        => UNCHANGED tcp_global_ratelimit]_vars
  BY <1>1, <1>2, <1>3 DEF Next, vars, gate
<1> QED
  BY <1>4, PTL DEF Spec, BreakerSparesRefused, RefusedEarly
--------------------------------------------------------------------------------
(* The filter implements the abstract trust lifecycle. *)

Trusted == DOMAIN tcp_whitelist
Banned == {s \in Src : health_is_blacklisted(s)}

\* Nobody new is banned unless an anomaly is recorded for him.
LEMMA BannedAfter ==
  ASSUME Typed, NEW s \in Src, now' = now, HealthEffect(s)
  PROVE  \/ Banned' = Banned
         \/ /\ Banned' = Banned \cup {s} /\ Known(s)
            /\ tcp_whitelist' = Del(tcp_whitelist, s)
<1>1. CASE health' = health
  BY <1>1 DEF Banned, health_is_blacklisted
<1>2. CASE /\ health' = Put(health, s, Anomaly(s))
           /\ ~health_is_blacklisted(s) /\ Known(s)
           /\ Anomaly(s).until > now => tcp_whitelist' = Del(tcp_whitelist, s)
  <2>1. health_is_blacklisted(s)' <=> Anomaly(s).until > now
    BY <1>2 DEF health_is_blacklisted, Put
  <2>2. \A x \in Src : x # s => (health_is_blacklisted(x)' <=> health_is_blacklisted(x))
    BY <1>2 DEF health_is_blacklisted, Put
  <2> QED
    BY <1>2, <2>1, <2>2, Zenon DEF Banned
<1> QED
  BY <1>1, <1>2 DEF HealthEffect

LEMMA XdpRefines ==
  ASSUME Typed, SessionInv, NEW p \in Segment, minecraft_xdp(p)
  PROVE  Abstract!Next \/ UNCHANGED Abstract!tvars
<1> DEFINE s == p.src
<1>p. s \in Src
  BY DEF Segment
<1>e. Effect(p)
  BY XdpEffect
<1>1. socks' = socks /\ now' = now /\ TrustEffect(s) /\ HealthEffect(s)
  BY <1>e DEF Effect
<1>k. Known(s) => socks[s] > 0
  BY <1>p, KnownHasSocket
<1> HIDE DEF s
<1>d. /\ DOMAIN Del(tcp_whitelist, s) = Trusted \ {s}
      /\ DOMAIN Put(tcp_whitelist, s, now) = Trusted \cup {s}
  BY DEF Put, Del, Trusted
<1>2. \/ Banned' = Banned
      \/ /\ Banned' = Banned \cup {s} /\ Known(s)
         /\ tcp_whitelist' = Del(tcp_whitelist, s)
  BY <1>p, <1>1, BannedAfter
<1>3. CASE /\ Banned' = Banned \cup {s} /\ Known(s)
           /\ tcp_whitelist' = Del(tcp_whitelist, s)
  <2>1. Abstract!Ban(s)
    BY <1>1, <1>3, <1>d, <1>k DEF Abstract!Ban, Banned, Trusted
  <2> QED
    BY <2>1, <1>p DEF Abstract!Next
<1>4. CASE Banned' = Banned
  <2>1. CASE tcp_whitelist' = tcp_whitelist
    BY <2>1, <1>1, <1>4 DEF Abstract!tvars, Banned
  <2>2. CASE tcp_whitelist' = Del(tcp_whitelist, s)
    <3>1. Abstract!LoseTrust(s)
      BY <2>2, <1>1, <1>4, <1>d DEF Abstract!LoseTrust, Banned, Trusted
    <3> QED
      BY <3>1, <1>p DEF Abstract!Next
  <2>3. CASE /\ tcp_whitelist' = Put(tcp_whitelist, s, now)
             /\ Known(s) /\ ~health_is_blacklisted(s)
    <3>1. Abstract!EarnTrust(s)
      BY <2>3, <1>1, <1>4, <1>d, <1>k DEF Abstract!EarnTrust, Banned, Trusted
    <3> QED
      BY <3>1, <1>p DEF Abstract!Next
  <2> QED
    BY <2>1, <2>2, <2>3, <1>1 DEF TrustEffect
<1> QED
  BY <1>2, <1>3, <1>4

LEMMA NextRefines ==
  Typed /\ SessionInv /\ [Next]_vars => Abstract!Next \/ UNCHANGED Abstract!tvars
<1> SUFFICES ASSUME Typed, SessionInv, [Next]_vars
             PROVE  Abstract!Next \/ UNCHANGED Abstract!tvars
  OBVIOUS
<1>b. health' = health /\ now' = now => Banned' = Banned
  BY DEF Banned, health_is_blacklisted
<1>1. ASSUME NEW p \in Segment, minecraft_xdp(p)
      PROVE  Abstract!Next \/ UNCHANGED Abstract!tvars
  BY <1>1, XdpRefines
<1>2. ASSUME NEW s \in Src, Established(s) PROVE Abstract!Next
  <2>1. Abstract!Connect(s)
    BY <1>2, <1>b DEF Established, limiters, Abstract!Connect, Banned
  <2> QED
    BY <2>1 DEF Abstract!Next
<1>3. ASSUME NEW s \in Src, Closed(s) PROVE Abstract!Next
  <2>1. /\ socks[s] > 0
        /\ socks' = [socks EXCEPT ![s] = socks[s] - 1]
        /\ IF socks[s] = 1 THEN tcp_whitelist' = Del(tcp_whitelist, s)
                           ELSE tcp_whitelist' = tcp_whitelist
    BY <1>3, ClosedDecrements
  <2>2. DOMAIN Del(tcp_whitelist, s) = DOMAIN tcp_whitelist \ {s}
    BY DEF Del
  <2>3. Banned' = Banned
    BY <1>3, <1>b DEF Closed, limiters
  <2>4. Abstract!Disconnect(s)
    BY <2>1, <2>2, <2>3 DEF Abstract!Disconnect, Banned
  <2> QED
    BY <2>4 DEF Abstract!Next
<1>4. ASSUME NEW s \in Src, Abandoned(s) PROVE UNCHANGED Abstract!tvars
  BY <1>4, <1>b DEF Abandoned, limiters, trust, Abstract!tvars, Banned
<1>5. CASE Tick
  <2>1. /\ now' = now + 1 /\ now \in Nat
        /\ health' = health /\ socks' = socks /\ tcp_whitelist' = tcp_whitelist
    BY <1>5 DEF Tick, Typed, limiters, stack, trust
  <2>2. \A s \in DOMAIN health : health[s].until \in Nat
    BY DEF Typed, IsMap, Health
  <2>3. Banned' \subseteq Banned
    BY <2>1, <2>2, SMT DEF Banned, health_is_blacklisted
  <2>4. Abstract!Forgive
    BY <2>1, <2>3 DEF Abstract!Forgive, Banned
  <2> QED
    BY <2>4 DEF Abstract!Next
<1>6. CASE UNCHANGED vars
  BY <1>6, <1>b DEF vars, stack, trust, limiters, Abstract!tvars, Banned
<1> QED
  BY <1>1, <1>2, <1>3, <1>4, <1>5, <1>6 DEF Next

LEMMA InitRefines == Init => Abstract!Init
BY DEF Init, Abstract!Init, EmptyMap, health_is_blacklisted

\* Every behaviour of the filter is one of the abstract trust lifecycle: trust is
\* earned only inside a session, ends with it at the latest, and only connected
\* sources are banned.
THEOREM FilterImplementsTrust == Spec => TrustLifecycle
<1>1. Typed /\ SessionInv /\ [Next]_vars => [Abstract!Next]_Abstract!tvars
  BY NextRefines
<1> QED
  BY <1>1, InitRefines, Invariant, PTL DEF Spec, TrustLifecycle, Abstract!Spec
================================================================================
