------------------------------- MODULE Handshake --------------------------------
(***************************************************************************)
(* classify_handshake of bpf/minecraft_xdp.bpf.c: which class the payload  *)
(* of one TCP segment has.  The payload is the start of a byte stream; the *)
(* frame holds its first `have` bytes, while the IP header claims          *)
(* have + skew payload bytes (Ethernet padding makes the frame longer than *)
(* the payload, a truncated frame shorter).  A step delivers one byte more *)
(* in the same segment.                                                    *)
(***************************************************************************)
EXTENDS Integers, Sequences, FiniteSetsExt, Functions

CONSTANTS Streams,   \* byte streams a client may begin with
          Skews      \* claimed payload length minus bytes present

ASSUME StreamAssumption ==
    /\ \A s \in Streams : s \in Seq(0..255)
    /\ Skews \subseteq Int

VARIABLES stream, have, skew

vars == <<stream, have, skew>>

MC_LEGACY_PING_BYTE == 254
MC_HANDSHAKE_MAX_LEN == 1024
MC_ADDR_MAX == 255

\* (c & 0x7F) << (7 * i) in 32 bits.  The four bits of a fifth byte that fit are
\* worth 2^28 and more; since nothing is compared with a number above
\* MC_HANDSHAKE_MAX_LEN, all those values are represented by 2^28.
Group(i, c) ==
    IF i < 4 THEN (c % 128) * 128^i
    ELSE IF c % 16 = 0 THEN 0 ELSE 2^28

\* Mutant: the last byte of the run is not asked to end the number.
load_varintRunsOn(b, off, avail) ==
    LET from[i \in 0..5] ==
          IF i = 5 \/ i >= avail \/ off + i >= Len(b) THEN [k |-> i, v |-> 0]
          ELSE LET c == b[off + i + 1]
               IN  IF c < 128 THEN [k |-> i + 1, v |-> Group(i, c)]
                   ELSE [from[i + 1] EXCEPT !.v = @ + Group(i, c)]
    IN  from[0]

\* A VarInt at offset off of the frame b, avail bytes of payload left: the
\* number of bytes it takes (0: none there) and its value.
load_varint(b, off, avail) ==
    LET from[i \in 0..5] ==
          IF i = 5 \/ i >= avail \/ off + i >= Len(b) THEN [k |-> 0, v |-> 0]
          ELSE LET c == b[off + i + 1]
               IN  IF c < 128 THEN [k |-> i + 1, v |-> Group(i, c)]
                   ELSE [from[i + 1] EXCEPT !.v = @ + Group(i, c)]
    IN  from[0]

\* The class of a next_state.
HsOf(next_state) ==
    CASE next_state = 1 -> "STATUS"
      [] next_state \in {2, 3} -> "LOGIN"
      [] OTHER -> "MALFORMED"

\* Mutant: fields are bounded by the segment, not by the packet in it.
classify_handshakeUnbounded(b, payload_len) ==
    LET pkt_len == load_varint(b, 0, payload_len)
        limit == payload_len
        p_off == pkt_len.k + 1
        proto == load_varint(b, p_off, limit - p_off)
        a_off == p_off + proto.k
        addr_len == load_varint(b, a_off, limit - a_off)
        ns_off == a_off + addr_len.k + addr_len.v + 2
        next_state == load_varint(b, ns_off, limit - ns_off)
        matched ==
          /\ pkt_len.k > 0 /\ pkt_len.v \in 3..MC_HANDSHAKE_MAX_LEN
          /\ payload_len - pkt_len.k >= pkt_len.v
          /\ Len(b) >= p_off /\ b[p_off] = 0
          /\ p_off < limit /\ proto.k > 0
          /\ a_off < limit /\ addr_len.k > 0 /\ addr_len.v <= MC_ADDR_MAX
          /\ ns_off < limit /\ next_state.k > 0
          /\ ns_off + next_state.k = limit
    IN  IF payload_len < 1 \/ b = <<>> THEN "NONE"
        ELSE IF b[1] = MC_LEGACY_PING_BYTE THEN "STATUS"
        ELSE IF matched THEN HsOf(next_state.v) ELSE "NONE"

\* The conjuncts of `matched` are the early returns, in their order.
classify_handshake(b, payload_len) ==
    LET pkt_len == load_varint(b, 0, payload_len)
        limit == pkt_len.k + pkt_len.v
        p_off == pkt_len.k + 1
        proto == load_varint(b, p_off, limit - p_off)
        a_off == p_off + proto.k
        addr_len == load_varint(b, a_off, limit - a_off)
        ns_off == a_off + addr_len.k + addr_len.v + 2
        next_state == load_varint(b, ns_off, limit - ns_off)
        matched ==
          /\ pkt_len.k > 0 /\ pkt_len.v \in 3..MC_HANDSHAKE_MAX_LEN
          /\ payload_len - pkt_len.k >= pkt_len.v
          /\ Len(b) >= p_off /\ b[p_off] = 0
          /\ p_off < limit /\ proto.k > 0
          /\ a_off < limit /\ addr_len.k > 0 /\ addr_len.v <= MC_ADDR_MAX
          /\ ns_off < limit /\ next_state.k > 0
          /\ ns_off + next_state.k = limit
    IN  IF payload_len < 1 \/ b = <<>> THEN "NONE"
        ELSE IF b[1] = MC_LEGACY_PING_BYTE THEN "STATUS"
        ELSE IF matched THEN HsOf(next_state.v) ELSE "NONE"

Frame == SubSeq(stream, 1, have)
payload_len == have + skew
Class == classify_handshake(Frame, payload_len)

Init == stream \in Streams /\ have = 0 /\ skew \in Skews

\* One byte more of the stream fits into the segment.
Deliver ==
    /\ have < Len(stream)
    /\ have' = have + 1
    /\ UNCHANGED <<stream, skew>>

Spec == Init /\ [][Deliver]_vars
--------------------------------------------------------------------------------
(* The packet format and the class the README gives to each payload. *)

\* k bytes at offset i of b are a VarInt ...
IsVarInt(b, i, k) ==
    /\ i + k <= Len(b) /\ b[i + k] < 128
    /\ \A j \in 1 .. k - 1 : b[i + j] >= 128

\* ... of this value.
Value(b, i, k) == SumFunction([j \in 0 .. k - 1 |-> Group(j, b[i + j + 1])])

\* b begins with a complete handshake packet whose next_state is accepted by Ok:
\* VarInts of kl, kp, ka and kn bytes, the first giving the length of the rest,
\* and an address no longer than the protocol's 255.
HasHandshake(b, Ok(_)) ==
    \E kl \in {k \in 1..5 : IsVarInt(b, 0, k)} :
        LET body == kl + 1
            end == kl + Value(b, 0, kl)
        IN  /\ body <= end /\ end <= Len(b) /\ b[body] = 0
            /\ \E kp \in {k \in 1..5 : IsVarInt(b, body, k)} :
               \E ka \in {k \in 1..5 : IsVarInt(b, body + kp, k)} :
                  LET addr_len == Value(b, body + kp, ka)
                      last == body + kp + ka + addr_len + 2
                  IN  /\ addr_len <= MC_ADDR_MAX
                      /\ \E kn \in 1..5 :
                            /\ last + kn = end
                            /\ IsVarInt(b, last, kn) /\ Ok(Value(b, last, kn))

IsStatus(n) == n = 1
IsLogin(n) == n = 2 \/ n = 3
IsUnknown(n) == n = 0 \/ n > 3

\* b begins with a complete packet of id 0x00 that announces an address of more
\* than 255 bytes.
HasOverlong(b) ==
    \E kl \in {k \in 1..5 : IsVarInt(b, 0, k)} :
        LET body == kl + 1
            end == kl + Value(b, 0, kl)
        IN  /\ body <= end /\ end <= Len(b) /\ b[body] = 0
            /\ \E kp \in {k \in 1..5 : IsVarInt(b, body, k)} :
               \E ka \in {k \in 1..5 : IsVarInt(b, body + kp, k)} :
                  /\ body + kp + ka <= end
                  /\ Value(b, body + kp, ka) > MC_ADDR_MAX

IsLegacyPing(b) == b # <<>> /\ b[1] = MC_LEGACY_PING_BYTE

\* The class of the well-formed handshake packet b begins with.
Routed(b) ==
    CASE HasHandshake(b, IsStatus) -> "STATUS"
      [] HasHandshake(b, IsLogin) -> "LOGIN"
      [] HasHandshake(b, IsUnknown) -> "MALFORMED"
      [] OTHER -> "NONE"

\* The class README.md gives to b: a packet is routed on its next_state, an
\* over-long address is malformed, 0xFE begins a legacy ping where it does not
\* begin a packet, and everything else is left alone.
Documented(b) ==
    IF HasOverlong(b) THEN "MALFORMED"
    ELSE IF Routed(b) = "NONE" /\ IsLegacyPing(b) THEN "STATUS"
    ELSE Routed(b)

\* The payloads on which the program and README.md part: line 115 leaves an
\* over-long address unclassified, and line 78 takes a packet whose length VarInt
\* begins with 0xFE for a legacy ping (RoutesOnNextState).
Disputed(b) ==
    \/ HasOverlong(b)
    \/ IsLegacyPing(b) /\ Routed(b) \notin {"NONE", "STATUS"}

\* The payload that is really there.
Seen == SubSeq(stream, 1, Min({have, payload_len}))

--------------------------------------------------------------------------------
(* Properties. *)

\* classify_handshake gives every payload the class the README documents for it,
\* but for the two kinds of payload it treats differently: it names the class
\* of a packet that is there in full and leaves everything else alone; bytes past
\* the claimed length (padding) are not looked at, and bytes claimed but missing
\* make no match.
ClassifierExact == ~Disputed(Seen) => Class = Documented(Seen)

\* Once decided the class is final: what follows the handshake in the same
\* segment (a Login Start, a status request) does not change it.
ClassStable == [][Class # "NONE" => Class' = Class]_vars

\* README: "That one field [next_state] is what the filter routes on".
RoutesOnNextState == HasHandshake(Seen, IsLogin) => Class = "LOGIN"
================================================================================
