------------------------------- MODULE MCHandshake ------------------------------
(* Byte streams for the runs of Handshake. *)
EXTENDS Handshake

\* VarInt encodings, by number of bytes.
Enc1(n) == <<n>>
Enc2(n) == <<(n % 128) + 128, n \div 128>>
Enc(n) == IF n < 128 THEN Enc1(n) ELSE Enc2(n)

Address(n) == [i \in 1..n |-> 97]

\* A handshake packet: proto, addr_len and next_state already encoded.
Body(proto, n, next) == <<0>> \o proto \o Enc(n) \o Address(n) \o <<99, 221>> \o next

Packet(proto, n, next) == LET b == Body(proto, n, next) IN Enc(Len(b)) \o b

\* The length in two bytes where one would do.
Padded(proto, n, next) == LET b == Body(proto, n, next) IN Enc2(Len(b)) \o b

\* Protocol 4, protocol 765, and the -1 a server-list ping may send.
Protos == {<<4>>, <<253, 5>>, <<255, 255, 255, 255, 15>>}

\* Status, Login, an unknown state, Login in two bytes, and Login in five bytes
\* with bits that do not fit 32.
Nexts == {<<1>>, <<2>>, <<4>>, <<130, 0>>, <<130, 128, 128, 128, 16>>}

Tails == {<<>>, <<1, 0>>}

Clean == {f \o t : f \in {Packet(p, n, s) : p \in Protos, n \in 0..1, s \in Nexts}
                         \cup {Padded(<<4>>, 1, s) : s \in Nexts},
                   t \in Tails}

\* One byte damaged.
Damaged == UNION {{[c EXCEPT ![i] = b] : i \in DOMAIN c, b \in {0, 2, 128, 254}} :
                    c \in Clean}

ShortStreams == Clean \cup Damaged
ShortSkews == {-2, 0, 1}

\* Login packets with long addresses; 246 characters make a packet of 254 bytes.
LongStreams == {Packet(<<253, 5>>, n, <<2>>) : n \in {100, 245, 246, 255}}

\* Addresses at the limit of 255 characters and past it.
OverlongStreams == {Packet(<<253, 5>>, n, <<2>>) : n \in {255, 256, 300}}
================================================================================
