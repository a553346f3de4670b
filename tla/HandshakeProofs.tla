----------------------------- MODULE HandshakeProofs -----------------------------
(***************************************************************************)
(* classify_handshake agrees with the packet format on every byte stream,  *)
(* however much of it is in the segment and whatever length the IP header  *)
(* claims.  A VarInt has at most five bytes, so the recursion that reads   *)
(* one is unrolled rather than reasoned about by induction.                *)
(***************************************************************************)
EXTENDS Handshake, SumFacts, SequenceTheorems

Bytes == Seq(0..255)

LEMMA ByteAt ==
  ASSUME NEW b \in Bytes, NEW n \in 1 .. Len(b)
  PROVE  b[n] \in 0..255 /\ b[n] \in Int
<1>1. \A S : \A q \in Seq(S) : \A m \in 1 .. Len(q) : q[m] \in S
  OBVIOUS
<1>2. b[n] \in 0..255
  BY <1>1, Zenon DEF Bytes
<1>3. \A x \in 0..255 : x \in Int
  OBVIOUS
<1> QED
  BY <1>2, <1>3, Zenon

LEMMA LenBytes ==
  ASSUME NEW b \in Bytes
  PROVE  Len(b) \in Nat
BY DEF Bytes

LEMMA GroupNat ==
  ASSUME NEW i \in 0..4, NEW c \in 0..255
  PROVE  Group(i, c) \in Nat
<1>1. 128^0 \in Nat /\ 128^1 \in Nat /\ 128^2 \in Nat /\ 128^3 \in Nat /\ 2^28 \in Nat
  OBVIOUS
<1>2. \A w \in Nat : (c % 128) * w \in Nat
  OBVIOUS
<1>3. CASE i = 0
  BY <1>1, <1>2, <1>3 DEF Group
<1>4. CASE i = 1
  BY <1>1, <1>2, <1>4 DEF Group
<1>5. CASE i = 2
  BY <1>1, <1>2, <1>5 DEF Group
<1>6. CASE i = 3
  BY <1>1, <1>2, <1>6 DEF Group
<1>7. CASE i = 4
  BY <1>1, <1>7 DEF Group
<1> QED
  BY <1>3, <1>4, <1>5, <1>6, <1>7
--------------------------------------------------------------------------------
(* Reading a VarInt. *)

Stops(b, off, avail, i) == i = 5 \/ i >= avail \/ off + i >= Len(b)

\* What the reading yields from byte i on, next being what it yields after it.
From(b, off, avail, i, next) ==
    IF Stops(b, off, avail, i) THEN [k |-> 0, v |-> 0]
    ELSE IF b[off + i + 1] < 128 THEN [k |-> i + 1, v |-> Group(i, b[off + i + 1])]
    ELSE [next EXCEPT !.v = @ + Group(i, b[off + i + 1])]

Unrolled(b, off, avail, g) ==
    g = [i \in 0..5 |-> From(b, off, avail, i, g[i + 1])]

LEMMA VarintUnrolls ==
  ASSUME NEW b, NEW off, NEW avail
  PROVE  \E g : /\ load_varint(b, off, avail) = g[0]
                /\ \A i \in 0..5 : g[i] = From(b, off, avail, i, g[i + 1])
<1> DEFINE R(i, next) == From(b, off, avail, i, next)
           r5 == [k |-> 0, v |-> 0]
           r4 == R(4, r5)
           r3 == R(3, r4)
           r2 == R(2, r3)
           r1 == R(1, r2)
           r0 == R(0, r1)
           g == [i \in 0..5 |-> IF i = 0 THEN r0 ELSE IF i = 1 THEN r1 ELSE IF i = 2 THEN r2
                                ELSE IF i = 3 THEN r3 ELSE IF i = 4 THEN r4 ELSE r5]
<1>1. \A next : R(5, next) = r5
  BY DEF From, Stops
<1>2. Unrolled(b, off, avail, g)
  <2> HIDE DEF R
  <2>1. \A i \in 0..5 : g[i] = R(i, g[i + 1])
    <3> TAKE i \in 0..5
    <3>0. CASE i = 0
      BY <3>0
    <3>1. CASE i = 1
      BY <3>1
    <3>2. CASE i = 2
      BY <3>2
    <3>3. CASE i = 3
      BY <3>3
    <3>4. CASE i = 4
      BY <3>4
    <3>5. CASE i = 5
      BY <1>1, <3>5
    <3> QED
      BY <3>0, <3>1, <3>2, <3>3, <3>4, <3>5
  <2> HIDE DEF r0, r1, r2, r3, r4, r5
  <2>2. g = [i \in 0..5 |-> R(i, g[i + 1])]
    BY <2>1
  <2> QED
    BY <2>2 DEF R, Unrolled
<1>3. load_varint(b, off, avail) = (CHOOSE h : Unrolled(b, off, avail, h))[0]
  BY DEF load_varint, Unrolled, From, Stops
<1> DEFINE h == CHOOSE f : Unrolled(b, off, avail, f)
<1>4. Unrolled(b, off, avail, h)
  BY <1>2
<1> QED
  BY <1>3, <1>4 DEF Unrolled

\* The bytes from i on end a VarInt of k bytes.
EndsAt(b, off, i, k) ==
    /\ off + k <= Len(b) /\ b[off + k] < 128
    /\ \A j \in i + 1 .. k - 1 : b[off + j] >= 128

Groups(b, off, k) == [j \in 0 .. k - 1 |-> Group(j, b[off + j + 1])]

LEMMA GroupsNat ==
  ASSUME NEW b \in Bytes, NEW off \in Nat, NEW k \in 0..5, off + k <= Len(b)
  PROVE  SumNat(Groups(b, off, k), 0 .. k - 1) /\ Value(b, off, k) \in Nat
<1> DEFINE f == Groups(b, off, k)
<1>1. \A j \in 0 .. k - 1 : off + j + 1 \in 1 .. Len(b) /\ j \in 0..4
  OBVIOUS
<1>a. \A j \in 0 .. k - 1 : b[off + j + 1] \in 0..255
  BY <1>1, ByteAt, Zenon
<1>b. \A j \in 0 .. k - 1 : f[j] = Group(j, b[off + j + 1])
  BY DEF Groups
<1>2. \A j \in 0 .. k - 1 : f[j] \in Nat
  BY <1>1, <1>a, <1>b, GroupNat, Zenon
<1>c. IsFiniteSet(0 .. k - 1)
  BY FS_Interval
<1>3. SumNat(f, 0 .. k - 1)
  BY <1>2, <1>c, Zenon DEF SumNat
<1>4. Value(b, off, k) = SumFunctionOnSet(f, 0 .. k - 1)
  BY DEF Value, SumFunction, Groups
<1> QED
  BY <1>3, <1>4, SumType

\* What is read from byte i on: nothing, or the rest of a VarInt.
Yields(b, off, avail, i, r) ==
    r.k # 0 => /\ r.k \in i + 1 .. 5 /\ r.k <= avail /\ EndsAt(b, off, i, r.k)
               /\ r.v = SumFunctionOnSet(Groups(b, off, r.k), i .. r.k - 1)

LEMMA YieldsStep ==
  ASSUME NEW b \in Bytes, NEW off \in Nat, NEW avail \in Int, NEW i \in 0..4,
         NEW k, NEW v, Yields(b, off, avail, i + 1, [k |-> k, v |-> v])
  PROVE  Yields(b, off, avail, i, From(b, off, avail, i, [k |-> k, v |-> v]))
<1> DEFINE c == b[off + i + 1]
<1>1. CASE Stops(b, off, avail, i)
  BY <1>1 DEF From, Yields
<1>2. CASE ~Stops(b, off, avail, i) /\ c < 128
  <2>1. From(b, off, avail, i, [k |-> k, v |-> v]) = [k |-> i + 1, v |-> Group(i, c)]
    BY <1>2 DEF From
  <2>2. i + 1 <= avail /\ off + (i + 1) <= Len(b)
    BY <1>2 DEF Stops, Bytes
  <2>3. EndsAt(b, off, i, i + 1)
    BY <1>2, <2>2 DEF EndsAt
  <2>4. SumFunctionOnSet(Groups(b, off, i + 1), {i}) = Group(i, c)
    <3>1. SumNat(Groups(b, off, i + 1), 0 .. (i + 1) - 1)
      <4>1. i + 1 \in 0..5
        OBVIOUS
      <4> QED
        BY <2>2, <4>1, GroupsNat, Zenon
    <3>2. SumNat(Groups(b, off, i + 1), {i})
      BY <3>1, SumNatSubset
    <3>3. SumFunctionOnSet(Groups(b, off, i + 1), {i})
            = Groups(b, off, i + 1)[i] + SumFunctionOnSet(Groups(b, off, i + 1), {i} \ {i})
      BY <3>2, SumElement
    <3>4. SumFunctionOnSet(Groups(b, off, i + 1), {i} \ {i}) = 0
      BY SumEmpty
    <3>5. Groups(b, off, i + 1)[i] = Group(i, c) /\ Groups(b, off, i + 1)[i] \in Nat
      BY <3>2 DEF Groups, SumNat
    <3> QED
      BY <3>3, <3>4, <3>5
  <2>5. i .. (i + 1) - 1 = {i}
    OBVIOUS
  <2>6. i + 1 \in i + 1 .. 5
    OBVIOUS
  <2> QED
    <3> DEFINE r == [k |-> i + 1, v |-> Group(i, c)]
    <3>1. r.k = i + 1 /\ r.v = Group(i, c)
      OBVIOUS
    <3> HIDE DEF r
    <3>2. Yields(b, off, avail, i, r)
      BY <2>2, <2>3, <2>4, <2>5, <2>6, <3>1, Zenon DEF Yields
    <3> QED
      BY <2>1, <3>2 DEF r
<1>3. CASE ~Stops(b, off, avail, i) /\ ~(c < 128)
  <2>1. From(b, off, avail, i, [k |-> k, v |-> v]) = [k |-> k, v |-> v + Group(i, c)]
    BY <1>3 DEF From
  <2>2. CASE k = 0
    BY <2>1, <2>2 DEF Yields
  <2>3. CASE k # 0
    <3>1. /\ k \in (i + 1) + 1 .. 5 /\ k <= avail /\ EndsAt(b, off, i + 1, k)
          /\ v = SumFunctionOnSet(Groups(b, off, k), i + 1 .. k - 1)
      BY <2>3 DEF Yields
    <3>2. off + k <= Len(b) /\ b[off + k] < 128
          /\ \A j \in (i + 1) + 1 .. k - 1 : b[off + j] >= 128
      BY <3>1 DEF EndsAt
    <3>a. off + i + 1 \in 1 .. Len(b) /\ off + i + 1 = off + (i + 1)
      BY <3>1, <3>2
    <3>b. c \in 0..255 /\ c \in Int
      BY <3>a, ByteAt, Zenon
    <3>3. c >= 128 /\ c = b[off + (i + 1)]
      <4>1. c = b[off + (i + 1)]
        BY <3>a, Zenon
      <4>2. \A d \in Int : ~(d < 128) => d >= 128
        OBVIOUS
      <4> HIDE DEF c
      <4> QED
        BY <1>3, <3>b, <4>1, <4>2, Zenon
    <3>4. EndsAt(b, off, i, k)
      <4>1. \A j \in i + 1 .. k - 1 : j = i + 1 \/ j \in (i + 1) + 1 .. k - 1
        OBVIOUS
      <4>2. \A j \in i + 1 .. k - 1 : b[off + j] >= 128
        BY <3>2, <3>3, <4>1, Zenon
      <4> QED
        BY <3>2, <4>2 DEF EndsAt
    <3>5. SumNat(Groups(b, off, k), 0 .. k - 1)
      <4>1. k \in 0..5
        BY <3>1
      <4> QED
        BY <3>2, <4>1, GroupsNat, Zenon
    <3>6. SumNat(Groups(b, off, k), i .. k - 1)
      BY <3>1, <3>5, SumNatSubset
    <3>7. (i .. k - 1) \ {i} = i + 1 .. k - 1 /\ i \in i .. k - 1 /\ i \in 0 .. k - 1
      BY <3>1
    <3>8. SumFunctionOnSet(Groups(b, off, k), i .. k - 1) = Groups(b, off, k)[i] + v
      BY <3>1, <3>6, <3>7, SumElement
    <3>9. Groups(b, off, k)[i] = Group(i, c)
      BY <3>7 DEF Groups
    <3>10. Group(i, c) \in Nat /\ v \in Nat
      <4>1. SumNat(Groups(b, off, k), i + 1 .. k - 1)
        BY <3>1, <3>5, SumNatSubset
      <4> QED
        BY <3>1, <3>b, <4>1, GroupNat, SumType
    <3>11. SumFunctionOnSet(Groups(b, off, k), i .. k - 1) = v + Group(i, c)
      BY <3>8, <3>9, <3>10
    <3>12. k \in i + 1 .. 5
      BY <3>1
    <3> QED
      BY <2>1, <3>1, <3>4, <3>11, <3>12 DEF Yields
  <2> QED
    BY <2>2, <2>3
<1> QED
  BY <1>1, <1>2, <1>3

LEMMA YieldsEmpty ==
  ASSUME NEW b, NEW off, NEW avail, NEW i
  PROVE  Yields(b, off, avail, i, [k |-> 0, v |-> 0])
BY DEF Yields

\* A reading of which more than nothing is known: its result is a pair of numbers.
Pair(r) == r = [k |-> r.k, v |-> r.v]

LEMMA FromPair ==
  ASSUME NEW b, NEW off, NEW avail, NEW i, NEW r, Pair(r)
  PROVE  Pair(From(b, off, avail, i, r))
BY DEF Pair, From

\* load_varint finds the VarInt at off, if it ends in the bytes available, and
\* nothing else.
LEMMA VarintSound ==
  ASSUME NEW b \in Bytes, NEW off \in Nat, NEW avail \in Int
  PROVE  Yields(b, off, avail, 0, load_varint(b, off, avail))
<1>1. PICK g : /\ load_varint(b, off, avail) = g[0]
               /\ \A i \in 0..5 : g[i] = From(b, off, avail, i, g[i + 1])
  BY VarintUnrolls
<1> DEFINE Good(i) == Pair(g[i]) /\ Yields(b, off, avail, i, g[i])
<1>2. Good(5)
  <2>1. g[5] = [k |-> 0, v |-> 0]
    BY <1>1 DEF From, Stops
  <2> QED
    BY <2>1, YieldsEmpty DEF Pair
<1>3. ASSUME NEW i \in 0..4, Good(i + 1) PROVE Good(i)
  <2>1. g[i] = From(b, off, avail, i, g[i + 1])
    BY <1>1
  <2> DEFINE k == g[i + 1].k
             v == g[i + 1].v
  <2>2. g[i + 1] = [k |-> k, v |-> v]
    BY <1>3 DEF Pair
  <2> HIDE DEF k, v
  <2>3. Yields(b, off, avail, i + 1, [k |-> k, v |-> v])
    BY <1>3, <2>2
  <2>4. Yields(b, off, avail, i, g[i])
    BY <2>1, <2>2, <2>3, YieldsStep
  <2>5. Pair(g[i])
    BY <1>3, <2>1, FromPair
  <2> QED
    BY <2>4, <2>5
<1>4. 0 + 1 = 1 /\ 1 + 1 = 2 /\ 2 + 1 = 3 /\ 3 + 1 = 4 /\ 4 + 1 = 5
  OBVIOUS
<1> HIDE DEF Good
<1>5. Good(4)
  BY <1>2, <1>3, <1>4
<1>6. Good(3)
  BY <1>3, <1>4, <1>5
<1>7. Good(2)
  BY <1>3, <1>4, <1>6
<1>8. Good(1)
  BY <1>3, <1>4, <1>7
<1>9. Good(0)
  BY <1>3, <1>4, <1>8
<1> QED
  BY <1>1, <1>9 DEF Good

LEMMA VarintFound ==
  ASSUME NEW b \in Bytes, NEW off \in Nat, NEW avail \in Int, NEW k \in 1..5,
         k <= avail, IsVarInt(b, off, k)
  PROVE  load_varint(b, off, avail).k = k
<1>1. PICK g : /\ load_varint(b, off, avail) = g[0]
               /\ \A i \in 0..5 : g[i] = From(b, off, avail, i, g[i + 1])
  BY VarintUnrolls
<1>2. /\ off + k <= Len(b) /\ b[off + k] < 128
      /\ \A j \in 1 .. k - 1 : b[off + j] >= 128
  BY DEF IsVarInt
<1>3. Len(b) \in Nat
  BY LenBytes
<1> DEFINE Hit(i) == i < k => g[i].k = k
<1>4. Hit(5)
  OBVIOUS
<1>5. ASSUME NEW i \in 0..4, Hit(i + 1) PROVE Hit(i)
  <2> SUFFICES ASSUME i < k PROVE g[i].k = k
    OBVIOUS
  <2>1. g[i] = From(b, off, avail, i, g[i + 1])
    BY <1>1
  <2>2. ~Stops(b, off, avail, i)
    BY <1>2, <1>3 DEF Stops
  <2>3. off + i + 1 = off + (i + 1)
    OBVIOUS
  <2>4. CASE i + 1 = k
    <3>1. b[off + i + 1] < 128
      BY <1>2, <2>3, <2>4
    <3>2. g[i] = [k |-> i + 1, v |-> Group(i, b[off + i + 1])]
      BY <2>1, <2>2, <3>1 DEF From
    <3> QED
      BY <2>4, <3>2
  <2>5. CASE i + 1 < k
    <3>1. b[off + i + 1] >= 128
      <4>1. i + 1 \in 1 .. k - 1
        BY <2>5
      <4> QED
        BY <1>2, <2>3, <4>1
    <3>2. ~(b[off + i + 1] < 128)
      <4>1. off + i + 1 \in 1 .. Len(b)
        BY <1>2, <1>3, <2>5
      <4>2. b[off + i + 1] \in Int
        BY <4>1, ByteAt
      <4>3. \A x \in Int : x >= 128 => ~(x < 128)
        OBVIOUS
      <4> QED
        BY <3>1, <4>2, <4>3, Zenon
    <3>3. g[i] = [g[i + 1] EXCEPT !.v = @ + Group(i, b[off + i + 1])]
      BY <2>1, <2>2, <3>2 DEF From
    <3>4. g[i + 1].k = k
      BY <1>5, <2>5
    <3> QED
      BY <3>3, <3>4
  <2> QED
    BY <2>4, <2>5
<1>6. 0 + 1 = 1 /\ 1 + 1 = 2 /\ 2 + 1 = 3 /\ 3 + 1 = 4 /\ 4 + 1 = 5
  OBVIOUS
<1> HIDE DEF Hit
<1>7. Hit(4)
  BY <1>4, <1>5, <1>6
<1>8. Hit(3)
  BY <1>5, <1>6, <1>7
<1>9. Hit(2)
  BY <1>5, <1>6, <1>8
<1>10. Hit(1)
  BY <1>5, <1>6, <1>9
<1>11. Hit(0)
  BY <1>5, <1>6, <1>10
<1> QED
  BY <1>1, <1>11 DEF Hit

\* Both together, in terms of the packet format.
Reads(b, off, avail, r) ==
    /\ r.k = 0 \/ /\ r.k \in 1..5 /\ r.k <= avail /\ IsVarInt(b, off, r.k)
                  /\ r.v = Value(b, off, r.k) /\ r.v \in Nat
    /\ \A k \in 1..5 : k <= avail /\ IsVarInt(b, off, k) => r.k = k

LEMMA VarintExact ==
  ASSUME NEW b \in Bytes, NEW off \in Nat, NEW avail \in Int
  PROVE  Reads(b, off, avail, load_varint(b, off, avail))
<1> DEFINE r == load_varint(b, off, avail)
<1>1. Yields(b, off, avail, 0, r)
  BY VarintSound
<1>2. \A k \in 1..5 : k <= avail /\ IsVarInt(b, off, k) => r.k = k
  BY VarintFound
<1> HIDE DEF r
<1>3. CASE r.k # 0
  <2>1. /\ r.k \in 0 + 1 .. 5 /\ r.k <= avail /\ EndsAt(b, off, 0, r.k)
        /\ r.v = SumFunctionOnSet(Groups(b, off, r.k), 0 .. r.k - 1)
    BY <1>1, <1>3 DEF Yields
  <2>2. r.k \in 1..5 /\ r.k \in 0..5
    BY <2>1
  <2>3. IsVarInt(b, off, r.k) /\ off + r.k <= Len(b)
    <3>1. 0 + 1 = 1
      OBVIOUS
    <3> QED
      BY <2>1, <3>1 DEF EndsAt, IsVarInt
  <2>4. r.v = Value(b, off, r.k)
    BY <2>1 DEF Value, SumFunction, Groups
  <2>5. Value(b, off, r.k) \in Nat
    BY <2>2, <2>3, GroupsNat, Zenon
  <2> QED
    BY <1>2, <2>1, <2>2, <2>3, <2>4, <2>5, Zenon DEF Reads, r
<1> QED
  BY <1>2, <1>3, Zenon DEF Reads, r

LEMMA VarIntUnique ==
  ASSUME NEW b \in Bytes, NEW i \in Nat, NEW k \in 1..5, NEW m \in 1..5,
         IsVarInt(b, i, k), IsVarInt(b, i, m)
  PROVE  k = m
<1>1. ASSUME NEW x \in 1..5, NEW y \in 1..5, x < y, IsVarInt(b, i, x), IsVarInt(b, i, y)
      PROVE  FALSE
  <2>1. i + x <= Len(b) /\ b[i + x] < 128
    BY <1>1 DEF IsVarInt
  <2>2. x \in 1 .. y - 1
    BY <1>1
  <2>3. b[i + x] >= 128
    BY <1>1, <2>2 DEF IsVarInt
  <2>4. i + x \in 1 .. Len(b)
    BY <2>1, LenBytes
  <2>5. b[i + x] \in Int
    BY <2>4, ByteAt
  <2>6. \A z \in Int : ~(z < 128 /\ z >= 128)
    OBVIOUS
  <2> QED
    BY <2>1, <2>3, <2>5, <2>6, Zenon
<1>2. k < m \/ m < k \/ k = m
  OBVIOUS
<1> QED
  BY <1>1, <1>2
--------------------------------------------------------------------------------
(* A stream and what of it can be seen. *)

Prefix(s, b) ==
    /\ s \in Bytes /\ b \in Bytes /\ Len(s) <= Len(b)
    /\ \A j \in 1 .. Len(s) : s[j] = b[j]

LEMMA PrefixVarInt ==
  ASSUME NEW s, NEW b, Prefix(s, b), NEW i \in Nat, NEW k \in 1..5, i + k <= Len(s)
  PROVE  /\ IsVarInt(s, i, k) <=> IsVarInt(b, i, k)
         /\ Value(s, i, k) = Value(b, i, k) /\ Value(s, i, k) \in Nat
<1>1. Len(s) \in Nat /\ Len(b) \in Nat /\ Len(s) <= Len(b)
  BY LenBytes DEF Prefix
<1>2. \A j \in 1..k : i + j \in 1 .. Len(s)
  BY <1>1
<1>3. \A j \in 1..k : s[i + j] = b[i + j]
  BY <1>2 DEF Prefix
<1>4. IsVarInt(s, i, k) <=> IsVarInt(b, i, k)
  <2>1. k \in 1..k /\ (\A j \in 1 .. k - 1 : j \in 1..k) /\ i + k <= Len(b)
    BY <1>1
  <2> QED
    BY <1>3, <2>1, Zenon DEF IsVarInt
<1>5. Value(s, i, k) = Value(b, i, k)
  <2>1. \A j \in 0 .. k - 1 : j + 1 \in 1..k /\ i + j + 1 = i + (j + 1)
    OBVIOUS
  <2>2. \A j \in 0 .. k - 1 : s[i + j + 1] = b[i + j + 1]
    BY <1>3, <2>1
  <2>3. [j \in 0 .. k - 1 |-> Group(j, s[i + j + 1])]
          = [j \in 0 .. k - 1 |-> Group(j, b[i + j + 1])]
    BY <2>2
  <2> QED
    BY <2>3, Zenon DEF Value
<1>6. Value(s, i, k) \in Nat
  <2>1. k \in 0..5 /\ s \in Bytes
    BY DEF Prefix
  <2> QED
    BY <2>1, GroupsNat, Zenon
<1> QED
  BY <1>4, <1>5, <1>6

\* s is what a segment b of which n bytes are claimed to be payload lets see.
Cut(s, b, n) == Prefix(s, b) /\ Len(s) <= n /\ (Len(s) = Len(b) \/ Len(s) = n)
--------------------------------------------------------------------------------
(* The packet format, with its parts named. *)

End(b, kl) == kl + Value(b, 0, kl)
AddrLen(b, kl, kp, ka) == Value(b, kl + 1 + kp, ka)
Last(b, kl, kp, ka) == kl + 1 + kp + ka + AddrLen(b, kl, kp, ka) + 2

Parses(b, kl, kp, ka, kn) ==
    /\ IsVarInt(b, 0, kl)
    /\ kl + 1 <= End(b, kl) /\ End(b, kl) <= Len(b) /\ b[kl + 1] = 0
    /\ IsVarInt(b, kl + 1, kp) /\ IsVarInt(b, kl + 1 + kp, ka)
    /\ AddrLen(b, kl, kp, ka) <= MC_ADDR_MAX
    /\ Last(b, kl, kp, ka) + kn = End(b, kl)
    /\ IsVarInt(b, Last(b, kl, kp, ka), kn)

NextState(b, kl, kp, ka, kn) == Value(b, Last(b, kl, kp, ka), kn)

\* b is parsed, with this next_state.
Parsed(b, v) ==
    \E kl, kp, ka, kn \in 1..5 : Parses(b, kl, kp, ka, kn) /\ v = NextState(b, kl, kp, ka, kn)

HasStatus(b) == HasHandshake(b, IsStatus)
HasLogin(b) == HasHandshake(b, IsLogin)
HasUnknown(b) == HasHandshake(b, IsUnknown)

LEMMA HandshakeParses ==
  ASSUME NEW b
  PROVE  /\ HasStatus(b) <=> \E v : Parsed(b, v) /\ IsStatus(v)
         /\ HasLogin(b) <=> \E v : Parsed(b, v) /\ IsLogin(v)
         /\ HasUnknown(b) <=> \E v : Parsed(b, v) /\ IsUnknown(v)
<1> USE DEF HasHandshake, Parses, NextState, End, Last, AddrLen
<1>1. ASSUME HasStatus(b)
      PROVE  \E kl, kp, ka, kn \in 1..5 : /\ Parses(b, kl, kp, ka, kn)
                                          /\ IsStatus(NextState(b, kl, kp, ka, kn))
  BY <1>1, ZenonT(60) DEF HasStatus
<1>2. ASSUME NEW kl \in 1..5, NEW kp \in 1..5, NEW ka \in 1..5, NEW kn \in 1..5,
             Parses(b, kl, kp, ka, kn), IsStatus(NextState(b, kl, kp, ka, kn))
      PROVE  HasStatus(b)
  BY <1>2, ZenonT(60) DEF HasStatus
<1>3. ASSUME HasLogin(b)
      PROVE  \E kl, kp, ka, kn \in 1..5 : /\ Parses(b, kl, kp, ka, kn)
                                          /\ IsLogin(NextState(b, kl, kp, ka, kn))
  BY <1>3, ZenonT(60) DEF HasLogin
<1>4. ASSUME NEW kl \in 1..5, NEW kp \in 1..5, NEW ka \in 1..5, NEW kn \in 1..5,
             Parses(b, kl, kp, ka, kn), IsLogin(NextState(b, kl, kp, ka, kn))
      PROVE  HasLogin(b)
  BY <1>4, ZenonT(60) DEF HasLogin
<1>5. ASSUME HasUnknown(b)
      PROVE  \E kl, kp, ka, kn \in 1..5 : /\ Parses(b, kl, kp, ka, kn)
                                          /\ IsUnknown(NextState(b, kl, kp, ka, kn))
  BY <1>5, ZenonT(60) DEF HasUnknown
<1>6. ASSUME NEW kl \in 1..5, NEW kp \in 1..5, NEW ka \in 1..5, NEW kn \in 1..5,
             Parses(b, kl, kp, ka, kn), IsUnknown(NextState(b, kl, kp, ka, kn))
      PROVE  HasUnknown(b)
  BY <1>6, ZenonT(60) DEF HasUnknown
<1> HIDE DEF HasHandshake, Parses, NextState
<1>7. HasStatus(b) <=> \E v : Parsed(b, v) /\ IsStatus(v)
  BY <1>1, <1>2, Zenon DEF Parsed
<1>8. HasLogin(b) <=> \E v : Parsed(b, v) /\ IsLogin(v)
  BY <1>3, <1>4, Zenon DEF Parsed
<1>9. HasUnknown(b) <=> \E v : Parsed(b, v) /\ IsUnknown(v)
  BY <1>5, <1>6, Zenon DEF Parsed
<1> QED
  BY <1>7, <1>8, <1>9

\* There is only one way to parse a stream.
LEMMA ParseUnique ==
  ASSUME NEW b \in Bytes, NEW v, NEW w, Parsed(b, v), Parsed(b, w)
  PROVE  v = w
<1>k. PICK kl, kp, ka, kn \in 1..5 :
        Parses(b, kl, kp, ka, kn) /\ v = NextState(b, kl, kp, ka, kn)
  BY DEF Parsed
<1>m. PICK ml, mp, ma, mn \in 1..5 :
        Parses(b, ml, mp, ma, mn) /\ w = NextState(b, ml, mp, ma, mn)
  BY DEF Parsed
<1>1. kl = ml
  <2>1. 0 \in Nat /\ IsVarInt(b, 0, kl) /\ IsVarInt(b, 0, ml)
    BY <1>k, <1>m DEF Parses
  <2> QED
    BY <2>1, VarIntUnique, Zenon
<1>2. kp = mp
  <2>1. kl + 1 \in Nat /\ IsVarInt(b, kl + 1, kp) /\ IsVarInt(b, kl + 1, mp)
    BY <1>1, <1>k, <1>m DEF Parses
  <2> QED
    BY <2>1, VarIntUnique, Zenon
<1>3. ka = ma
  <2>1. /\ kl + 1 + kp \in Nat
        /\ IsVarInt(b, kl + 1 + kp, ka) /\ IsVarInt(b, kl + 1 + kp, ma)
    BY <1>1, <1>2, <1>k, <1>m DEF Parses
  <2> QED
    BY <2>1, VarIntUnique, Zenon
<1>4. Last(b, kl, kp, ka) \in Nat
  <2>1. /\ kl + 1 + kp \in Nat /\ IsVarInt(b, kl + 1 + kp, ka) /\ ka \in 0..5
    BY <1>k, <1>m DEF Parses
  <2>2. kl + 1 + kp + ka <= Len(b)
    BY <2>1 DEF IsVarInt
  <2>3. AddrLen(b, kl, kp, ka) \in Nat
    BY <2>1, <2>2, GroupsNat, Zenon DEF AddrLen
  <2> QED
    BY <2>3 DEF Last
<1>5. kn = mn
  <2>1. /\ IsVarInt(b, Last(b, kl, kp, ka), kn) /\ IsVarInt(b, Last(b, kl, kp, ka), mn)
    BY <1>1, <1>2, <1>3, <1>k, <1>m DEF Parses
  <2> QED
    BY <1>4, <2>1, VarIntUnique, Zenon
<1> QED
  BY <1>1, <1>2, <1>3, <1>5, <1>k, <1>m
--------------------------------------------------------------------------------
(* The same parts as classify_handshake finds them. *)

pkt_len(b, n) == load_varint(b, 0, n)
limit(b, n) == pkt_len(b, n).k + pkt_len(b, n).v
p_off(b, n) == pkt_len(b, n).k + 1
proto(b, n) == load_varint(b, p_off(b, n), limit(b, n) - p_off(b, n))
a_off(b, n) == p_off(b, n) + proto(b, n).k
addr_len(b, n) == load_varint(b, a_off(b, n), limit(b, n) - a_off(b, n))
ns_off(b, n) == a_off(b, n) + addr_len(b, n).k + addr_len(b, n).v + 2
next_state(b, n) == load_varint(b, ns_off(b, n), limit(b, n) - ns_off(b, n))

Matched(b, n) ==
    /\ pkt_len(b, n).k > 0 /\ pkt_len(b, n).v \in 3..MC_HANDSHAKE_MAX_LEN
    /\ n - pkt_len(b, n).k >= pkt_len(b, n).v
    /\ Len(b) >= p_off(b, n) /\ b[p_off(b, n)] = 0
    /\ p_off(b, n) < limit(b, n) /\ proto(b, n).k > 0
    /\ a_off(b, n) < limit(b, n) /\ addr_len(b, n).k > 0
    /\ addr_len(b, n).v <= MC_ADDR_MAX
    /\ ns_off(b, n) < limit(b, n) /\ next_state(b, n).k > 0
    /\ ns_off(b, n) + next_state(b, n).k = limit(b, n)

LEMMA ClassifySteps ==
  ASSUME NEW b, NEW n
  PROVE  classify_handshake(b, n) =
           IF n < 1 \/ b = <<>> THEN "NONE"
           ELSE IF b[1] = MC_LEGACY_PING_BYTE THEN "STATUS"
           ELSE IF Matched(b, n) THEN HsOf(next_state(b, n).v) ELSE "NONE"
BY DEF classify_handshake, Matched, pkt_len, limit, p_off, proto, a_off, addr_len, ns_off,
       next_state

\* What a field found in the segment is in the bytes that can be seen.
LEMMA FieldFound ==
  ASSUME NEW s, NEW b, NEW n \in Nat, Cut(s, b, n), NEW off \in Nat, NEW avail \in Int,
         off + avail <= n, load_varint(b, off, avail).k > 0
  PROVE  LET r == load_varint(b, off, avail)
         IN  /\ r.k \in 1..5 /\ r.k <= avail /\ off + r.k <= Len(s)
             /\ IsVarInt(s, off, r.k) /\ r.v = Value(s, off, r.k) /\ r.v \in Nat
<1> DEFINE r == load_varint(b, off, avail)
<1>1. b \in Bytes /\ Prefix(s, b) /\ s \in Bytes
  BY DEF Cut, Prefix
<1>2. Reads(b, off, avail, r)
  BY <1>1, VarintExact
<1>3. r.k > 0
  OBVIOUS
<1> HIDE DEF r
<1>4. /\ r.k \in 1..5 /\ r.k <= avail /\ IsVarInt(b, off, r.k)
      /\ r.v = Value(b, off, r.k) /\ r.v \in Nat
  BY <1>2, <1>3 DEF Reads
<1>5. off + r.k <= Len(b)
  BY <1>4 DEF IsVarInt
<1>6. Len(s) \in Nat /\ Len(b) \in Nat /\ (Len(s) = Len(b) \/ Len(s) = n)
  BY <1>1, LenBytes DEF Cut
<1>7. off + r.k <= Len(s)
  BY <1>4, <1>5, <1>6
<1>8. IsVarInt(s, off, r.k) /\ Value(s, off, r.k) = Value(b, off, r.k)
  BY <1>1, <1>4, <1>7, PrefixVarInt
<1> QED
  BY <1>4, <1>7, <1>8 DEF r

\* And the reverse.
LEMMA FieldThere ==
  ASSUME NEW s, NEW b, NEW n \in Nat, Cut(s, b, n), NEW off \in Nat, NEW avail \in Int,
         NEW k \in 1..5, k <= avail, IsVarInt(s, off, k)
  PROVE  /\ load_varint(b, off, avail).k = k
         /\ load_varint(b, off, avail).v = Value(s, off, k) /\ Value(s, off, k) \in Nat
<1> DEFINE r == load_varint(b, off, avail)
<1>1. b \in Bytes /\ Prefix(s, b)
  BY DEF Cut, Prefix
<1>2. Reads(b, off, avail, r)
  BY <1>1, VarintExact
<1> HIDE DEF r
<1>3. off + k <= Len(s)
  BY DEF IsVarInt
<1>4. /\ IsVarInt(b, off, k) /\ Value(s, off, k) = Value(b, off, k)
      /\ Value(s, off, k) \in Nat
  BY <1>1, <1>3, PrefixVarInt
<1>5. r.k = k
  BY <1>2, <1>4 DEF Reads
<1>6. r.v = Value(b, off, k)
  BY <1>2, <1>5 DEF Reads
<1> QED
  BY <1>4, <1>5, <1>6 DEF r

\* A match is a packet that can be seen in full ...
LEMMA MatchParses ==
  ASSUME NEW s, NEW b, NEW n \in Nat, Cut(s, b, n), Matched(b, n)
  PROVE  Parsed(s, next_state(b, n).v)
<1> DEFINE kl == pkt_len(b, n).k
           kp == proto(b, n).k
           ka == addr_len(b, n).k
           kn == next_state(b, n).k
           len == pkt_len(b, n).v
           addr == addr_len(b, n).v
<1>m. /\ kl > 0 /\ len \in 3..MC_HANDSHAKE_MAX_LEN /\ n - kl >= len
      /\ Len(b) >= p_off(b, n) /\ b[p_off(b, n)] = 0 /\ kp > 0
      /\ ka > 0 /\ addr <= MC_ADDR_MAX /\ kn > 0
      /\ ns_off(b, n) + kn = limit(b, n)
  BY DEF Matched
<1>0. s \in Bytes /\ Len(s) \in Nat /\ Len(b) \in Nat /\ Len(s) <= n /\ Prefix(s, b)
  BY LenBytes DEF Cut, Prefix
<1>1. /\ kl \in 1..5 /\ kl <= Len(s) /\ IsVarInt(s, 0, kl)
      /\ len = Value(s, 0, kl) /\ len \in Nat
  <2>1. 0 \in Nat /\ n \in Int /\ 0 + n <= n /\ load_varint(b, 0, n).k > 0
    BY <1>m DEF pkt_len
  <2>2. /\ kl \in 1..5 /\ 0 + kl <= Len(s) /\ IsVarInt(s, 0, kl)
        /\ len = Value(s, 0, kl) /\ len \in Nat
    BY <2>1, FieldFound DEF pkt_len
  <2> QED
    BY <2>2
<1>p. p_off(b, n) = kl + 1 /\ limit(b, n) = kl + len
  BY DEF p_off, limit
<1> HIDE DEF kl, len
<1>l. limit(b, n) \in Nat /\ limit(b, n) <= n /\ limit(b, n) = End(s, kl)
  BY <1>1, <1>m, <1>p DEF End
<1>2. /\ kp \in 1..5 /\ kl + 1 + kp <= Len(s) /\ IsVarInt(s, kl + 1, kp)
  <2> DEFINE off == kl + 1
             avail == limit(b, n) - off
  <2>1. off \in Nat /\ avail \in Int /\ off + avail <= n
    BY <1>1, <1>l
  <2>2. proto(b, n) = load_varint(b, off, avail)
    BY <1>p DEF proto
  <2> HIDE DEF off, avail
  <2>3. kp \in 1..5 /\ off + kp <= Len(s) /\ IsVarInt(s, off, kp)
    BY <1>m, <2>1, <2>2, FieldFound
  <2> QED
    BY <2>3 DEF off
<1>a. a_off(b, n) = kl + 1 + kp
  BY <1>p DEF a_off
<1> HIDE DEF kp
<1>3. /\ ka \in 1..5 /\ kl + 1 + kp + ka <= Len(s) /\ IsVarInt(s, kl + 1 + kp, ka)
      /\ addr = AddrLen(s, kl, kp, ka) /\ addr \in Nat
  <2> DEFINE off == kl + 1 + kp
             avail == limit(b, n) - off
  <2>1. off \in Nat /\ avail \in Int /\ off + avail <= n
    BY <1>1, <1>2, <1>l
  <2>2. addr_len(b, n) = load_varint(b, off, avail)
    BY <1>a DEF addr_len
  <2> HIDE DEF off, avail
  <2>3. /\ ka \in 1..5 /\ off + ka <= Len(s) /\ IsVarInt(s, off, ka)
        /\ addr = Value(s, off, ka) /\ addr \in Nat
    BY <1>m, <2>1, <2>2, FieldFound
  <2> QED
    BY <2>3 DEF off, AddrLen
<1>n. ns_off(b, n) = Last(s, kl, kp, ka) /\ ns_off(b, n) \in Nat
  <2>1. ns_off(b, n) = a_off(b, n) + ka + addr + 2
    BY DEF ns_off
  <2> HIDE DEF ka, addr
  <2>2. Last(s, kl, kp, ka) = kl + 1 + kp + ka + addr + 2
    BY <1>3 DEF Last
  <2>3. kl \in Nat /\ kp \in Nat /\ ka \in Nat /\ addr \in Nat
    BY <1>1, <1>2, <1>3
  <2>4. ns_off(b, n) = kl + 1 + kp + ka + addr + 2
    BY <1>a, <2>1
  <2> QED
    BY <2>2, <2>3, <2>4
<1> HIDE DEF ka, addr
<1>4. /\ kn \in 1..5 /\ Last(s, kl, kp, ka) + kn <= Len(s)
      /\ IsVarInt(s, Last(s, kl, kp, ka), kn)
      /\ next_state(b, n).v = NextState(s, kl, kp, ka, kn)
  <2> DEFINE off == ns_off(b, n)
             avail == limit(b, n) - off
  <2>1. off \in Nat /\ avail \in Int /\ off + avail <= n
    BY <1>n, <1>l
  <2>2. next_state(b, n) = load_varint(b, off, avail)
    BY DEF next_state
  <2> HIDE DEF off, avail
  <2>3. /\ kn \in 1..5 /\ off + kn <= Len(s) /\ IsVarInt(s, off, kn)
        /\ next_state(b, n).v = Value(s, off, kn)
    BY <1>m, <2>1, <2>2, FieldFound
  <2> QED
    BY <1>n, <2>3 DEF off, NextState
<1> HIDE DEF kn
<1>5. b[kl + 1] = s[kl + 1]
  <2>1. kl + 1 \in 1 .. Len(s)
    BY <1>1, <1>2, <1>0
  <2> QED
    BY <1>0, <2>1 DEF Prefix
<1>6. kl + 1 <= End(s, kl) /\ End(s, kl) <= Len(s)
  <2>1. End(s, kl) = kl + len /\ len >= 3
    BY <1>m, <1>l, <1>p
  <2>2. End(s, kl) = Last(s, kl, kp, ka) + kn
    BY <1>m, <1>l, <1>n
  <2> QED
    BY <1>1, <1>4, <2>1, <2>2
<1>7. Parses(s, kl, kp, ka, kn)
  BY <1>1, <1>2, <1>3, <1>4, <1>5, <1>6, <1>m, <1>n, <1>l, <1>p DEF Parses
<1> QED
  BY <1>1, <1>2, <1>3, <1>4, <1>7 DEF Parsed

\* ... and such a packet is matched.
LEMMA ParseMatches ==
  ASSUME NEW s, NEW b, NEW n \in Nat, Cut(s, b, n),
         NEW kl \in 1..5, NEW kp \in 1..5, NEW ka \in 1..5, NEW kn \in 1..5,
         Parses(s, kl, kp, ka, kn)
  PROVE  Matched(b, n) /\ next_state(b, n).v = NextState(s, kl, kp, ka, kn)
<1> DEFINE len == Value(s, 0, kl)
           addr == AddrLen(s, kl, kp, ka)
           end == End(s, kl)
           last == Last(s, kl, kp, ka)
<1>s. /\ IsVarInt(s, 0, kl) /\ end <= Len(s) /\ s[kl + 1] = 0
      /\ IsVarInt(s, kl + 1, kp) /\ IsVarInt(s, kl + 1 + kp, ka)
      /\ addr <= MC_ADDR_MAX /\ last + kn = end /\ IsVarInt(s, last, kn)
  BY DEF Parses
<1>d. end = kl + len /\ last = kl + 1 + kp + ka + addr + 2
  BY DEF End, Last
<1>0. s \in Bytes /\ Len(s) \in Nat /\ Len(b) \in Nat /\ Len(s) <= n /\ Prefix(s, b)
      /\ Len(s) <= Len(b)
  BY LenBytes DEF Cut, Prefix
<1>v. len \in Nat /\ addr \in Nat
  <2>1. kl \in 0..5 /\ ka \in 0..5 /\ 0 \in Nat /\ kl + 1 + kp \in Nat
    OBVIOUS
  <2>2. 0 + kl <= Len(s) /\ (kl + 1 + kp) + ka <= Len(s)
    BY <1>s DEF IsVarInt
  <2> QED
    BY <1>0, <2>1, <2>2, GroupsNat, Zenon DEF AddrLen
<1>c. MC_ADDR_MAX = 255 /\ MC_HANDSHAKE_MAX_LEN = 1024
  BY DEF MC_ADDR_MAX, MC_HANDSHAKE_MAX_LEN
<1> HIDE DEF len, addr, end, last
<1>e. /\ last \in Nat /\ end \in Nat /\ end <= n /\ len >= 3 /\ len <= 1024
      /\ kl + 1 <= Len(s)
  BY <1>s, <1>d, <1>0, <1>v, <1>c
<1>1. pkt_len(b, n).k = kl /\ pkt_len(b, n).v = len
  <2>1. 0 \in Nat /\ n \in Int /\ kl <= n
    BY <1>e, <1>0
  <2> QED
    BY <1>s, <2>1, FieldThere DEF pkt_len, len
<1>p. p_off(b, n) = kl + 1 /\ limit(b, n) = end
  BY <1>1, <1>d DEF p_off, limit
<1>2. proto(b, n).k = kp
  <2>1. kl + 1 \in Nat /\ end - (kl + 1) \in Int /\ kp <= end - (kl + 1)
    BY <1>e, <1>d, <1>s, <1>v
  <2>2. proto(b, n) = load_varint(b, kl + 1, end - (kl + 1))
    BY <1>p DEF proto
  <2> QED
    BY <1>s, <2>1, <2>2, FieldThere
<1>a. a_off(b, n) = kl + 1 + kp
  BY <1>p, <1>2 DEF a_off
<1>3. addr_len(b, n).k = ka /\ addr_len(b, n).v = addr
  <2> DEFINE off == kl + 1 + kp
             avail == end - off
  <2>1. off \in Nat /\ avail \in Int /\ ka <= avail
    BY <1>e, <1>d, <1>s, <1>v
  <2>2. addr_len(b, n) = load_varint(b, off, avail)
    BY <1>a, <1>p DEF addr_len
  <2>3. IsVarInt(s, off, ka) /\ addr = Value(s, off, ka)
    BY <1>s DEF addr, AddrLen
  <2> HIDE DEF off, avail
  <2> QED
    BY <2>1, <2>2, <2>3, FieldThere
<1>n. ns_off(b, n) = last
  BY <1>a, <1>3, <1>d DEF ns_off
<1>4. next_state(b, n).k = kn /\ next_state(b, n).v = Value(s, last, kn)
  <2> DEFINE avail == end - last
  <2>1. last \in Nat /\ avail \in Int /\ kn <= avail /\ IsVarInt(s, last, kn)
    BY <1>e, <1>s
  <2>2. next_state(b, n) = load_varint(b, last, avail)
    BY <1>n, <1>p DEF next_state
  <2> HIDE DEF avail
  <2>3. load_varint(b, last, avail).k = kn /\ load_varint(b, last, avail).v = Value(s, last, kn)
    BY <2>1, FieldThere
  <2> QED
    BY <2>2, <2>3
<1>5. b[kl + 1] = 0
  <2>1. kl + 1 \in 1 .. Len(s)
    BY <1>e, <1>0
  <2> QED
    BY <1>0, <1>s, <2>1 DEF Prefix
<1>6. Matched(b, n)
  <2>1. kl > 0 /\ kp > 0 /\ ka > 0 /\ kn > 0 /\ len \in 3 .. 1024 /\ n - kl >= len
        /\ Len(b) >= kl + 1 /\ kl + 1 < end /\ kl + 1 + kp < end /\ last < end
    BY <1>e, <1>d, <1>s, <1>v, <1>0
  <2> QED
    BY <1>1, <1>p, <1>2, <1>a, <1>3, <1>n, <1>4, <1>5, <1>s, <1>c, <2>1 DEF Matched
<1> QED
  BY <1>4, <1>6 DEF last, NextState
--------------------------------------------------------------------------------
(* What the program makes of a payload, in terms of the packet format: a legacy  *)
(* ping by its first byte, an over-long address no packet.                       *)

FormatClass(s) ==
    IF s # <<>> /\ s[1] = MC_LEGACY_PING_BYTE THEN "STATUS"
    ELSE CASE HasStatus(s) -> "STATUS"
           [] HasLogin(s) -> "LOGIN"
           [] HasUnknown(s) -> "MALFORMED"
           [] OTHER -> "NONE"

LEMMA ParsedNat ==
  ASSUME NEW s \in Bytes, NEW v, Parsed(s, v)
  PROVE  v \in Nat /\ s # <<>>
<1>1. PICK kl, kp, ka, kn \in 1..5 :
        Parses(s, kl, kp, ka, kn) /\ v = NextState(s, kl, kp, ka, kn)
  BY DEF Parsed
<1>2. /\ kl + 1 + kp \in Nat /\ IsVarInt(s, kl + 1 + kp, ka) /\ ka \in 0..5 /\ kn \in 0..5
      /\ IsVarInt(s, Last(s, kl, kp, ka), kn)
  BY <1>1 DEF Parses
<1>3. kl + 1 + kp + ka <= Len(s) /\ Last(s, kl, kp, ka) + kn <= Len(s)
  BY <1>2 DEF IsVarInt
<1>4. AddrLen(s, kl, kp, ka) \in Nat
  BY <1>2, <1>3, GroupsNat, Zenon DEF AddrLen
<1>5. Last(s, kl, kp, ka) \in Nat
  BY <1>4 DEF Last
<1>6. NextState(s, kl, kp, ka, kn) \in Nat
  BY <1>2, <1>3, <1>5, GroupsNat, Zenon DEF NextState
<1>7. Len(s) > 0
  BY <1>3, LenBytes
<1> QED
  BY <1>1, <1>6, <1>7

\* The class of a packet is that of its next_state ...
LEMMA ClassParsed ==
  ASSUME NEW s \in Bytes, NEW v, Parsed(s, v), s[1] # MC_LEGACY_PING_BYTE
  PROVE  FormatClass(s) = HsOf(v)
<1>1. v \in Nat
  BY ParsedNat
<1>2. ASSUME NEW w, Parsed(s, w) PROVE w = v
  BY <1>2, ParseUnique
<1>3. /\ HasStatus(s) <=> \E w : Parsed(s, w) /\ IsStatus(w)
      /\ HasLogin(s) <=> \E w : Parsed(s, w) /\ IsLogin(w)
      /\ HasUnknown(s) <=> \E w : Parsed(s, w) /\ IsUnknown(w)
  BY HandshakeParses
<1>4. /\ HasStatus(s) <=> v = 1
      /\ HasLogin(s) <=> v = 2 \/ v = 3
      /\ HasUnknown(s) <=> v = 0 \/ v > 3
  <2>1. HasStatus(s) <=> IsStatus(v)
    BY <1>2, <1>3, Zenon
  <2>2. HasLogin(s) <=> IsLogin(v)
    BY <1>2, <1>3, Zenon
  <2>3. HasUnknown(s) <=> IsUnknown(v)
    BY <1>2, <1>3, Zenon
  <2> QED
    BY <2>1, <2>2, <2>3 DEF IsStatus, IsLogin, IsUnknown
<1>5. v = 1 \/ v = 2 \/ v = 3 \/ v = 0 \/ v > 3
  BY <1>1
<1>6. CASE v = 1
  <2>1. HasStatus(s) /\ ~HasLogin(s) /\ ~HasUnknown(s)
    BY <1>4, <1>6
  <2> QED
    BY <1>6, <2>1 DEF FormatClass, HsOf
<1>7. CASE v = 2 \/ v = 3
  <2>1. ~HasStatus(s) /\ HasLogin(s) /\ ~HasUnknown(s)
    BY <1>4, <1>7
  <2>2. HsOf(v) = "LOGIN"
    BY <1>7 DEF HsOf
  <2> QED
    BY <2>1, <2>2 DEF FormatClass
<1>8. CASE v = 0 \/ v > 3
  <2>1. ~HasStatus(s) /\ ~HasLogin(s) /\ HasUnknown(s)
    BY <1>1, <1>4, <1>8
  <2>2. HsOf(v) = "MALFORMED"
    BY <1>1, <1>8 DEF HsOf
  <2> QED
    BY <2>1, <2>2 DEF FormatClass
<1> QED
  BY <1>5, <1>6, <1>7, <1>8

\* ... and what is no packet has none.
LEMMA ClassUnparsed ==
  ASSUME NEW s, \A v : ~Parsed(s, v), s = <<>> \/ s[1] # MC_LEGACY_PING_BYTE
  PROVE  FormatClass(s) = "NONE"
<1>1. ~HasStatus(s) /\ ~HasLogin(s) /\ ~HasUnknown(s)
  BY HandshakeParses
<1> QED
  BY <1>1 DEF FormatClass

\* classify_handshake computes it from what can be seen.
LEMMA ClassifyExact ==
  ASSUME NEW s, NEW b, NEW n \in Nat, n >= 1, b # <<>>, Cut(s, b, n)
  PROVE  classify_handshake(b, n) = FormatClass(s)
<1>1. s \in Bytes /\ b \in Bytes /\ Prefix(s, b)
  BY DEF Cut, Prefix
<1>2. s # <<>> /\ s[1] = b[1]
  <2>1. Len(b) >= 1 /\ Len(b) \in Nat /\ Len(s) \in Nat
    <3>1. \A q \in Bytes : q # <<>> => Len(q) >= 1
      BY DEF Bytes
    <3> QED
      BY <1>1, <3>1, LenBytes
  <2>2. Len(s) >= 1
    BY <2>1 DEF Cut
  <2>3. 1 \in 1 .. Len(s)
    BY <2>1, <2>2
  <2>4. s[1] = b[1]
    BY <1>1, <2>3, Zenon DEF Prefix
  <2>5. Len(<<>>) = 0
    OBVIOUS
  <2> QED
    BY <2>1, <2>2, <2>4, <2>5
<1>3. classify_handshake(b, n) =
        IF b[1] = MC_LEGACY_PING_BYTE THEN "STATUS"
        ELSE IF Matched(b, n) THEN HsOf(next_state(b, n).v) ELSE "NONE"
  BY ClassifySteps
<1>4. CASE b[1] = MC_LEGACY_PING_BYTE
  BY <1>2, <1>3, <1>4 DEF FormatClass
<1>5. CASE b[1] # MC_LEGACY_PING_BYTE /\ Matched(b, n)
  <2>1. Parsed(s, next_state(b, n).v)
    BY <1>5, MatchParses
  <2>2. FormatClass(s) = HsOf(next_state(b, n).v)
    BY <1>1, <1>2, <1>5, <2>1, ClassParsed
  <2> QED
    BY <1>3, <1>5, <2>2
<1>6. CASE b[1] # MC_LEGACY_PING_BYTE /\ ~Matched(b, n)
  <2>1. \A v : ~Parsed(s, v)
    BY <1>6, ParseMatches DEF Parsed
  <2>2. FormatClass(s) = "NONE"
    BY <1>2, <1>6, <2>1, ClassUnparsed
  <2> QED
    BY <1>3, <1>6, <2>2
<1> QED
  BY <1>4, <1>5, <1>6

LEMMA EmptyUnparsed == \A v : ~Parsed(<<>>, v)
<1>1. <<>> \in Bytes
  BY DEF Bytes
<1> QED
  BY <1>1, ParsedNat

\* A longer stream is parsed like its beginning.
LEMMA PrefixParsed ==
  ASSUME NEW s, NEW b, Prefix(s, b), NEW v, Parsed(s, v)
  PROVE  Parsed(b, v)
<1>1. PICK kl, kp, ka, kn \in 1..5 :
        Parses(s, kl, kp, ka, kn) /\ v = NextState(s, kl, kp, ka, kn)
  BY DEF Parsed
<1> DEFINE last == Last(s, kl, kp, ka)
<1>s. /\ IsVarInt(s, 0, kl)
      /\ kl + 1 <= End(s, kl) /\ End(s, kl) <= Len(s) /\ s[kl + 1] = 0
      /\ IsVarInt(s, kl + 1, kp) /\ IsVarInt(s, kl + 1 + kp, ka)
      /\ AddrLen(s, kl, kp, ka) <= MC_ADDR_MAX
      /\ last + kn = End(s, kl) /\ IsVarInt(s, last, kn)
  BY <1>1 DEF Parses
<1>0. Len(s) \in Nat /\ Len(b) \in Nat /\ Len(s) <= Len(b)
  BY LenBytes DEF Prefix
<1>2. /\ IsVarInt(b, 0, kl) /\ Value(b, 0, kl) = Value(s, 0, kl) /\ Value(s, 0, kl) \in Nat
  <2>1. 0 \in Nat /\ 0 + kl <= Len(s)
    BY <1>s DEF IsVarInt
  <2> QED
    BY <1>s, <2>1, PrefixVarInt
<1>3. IsVarInt(b, kl + 1, kp)
  <2>1. kl + 1 \in Nat /\ kl + 1 + kp <= Len(s)
    BY <1>s DEF IsVarInt
  <2> QED
    BY <1>s, <2>1, PrefixVarInt
<1>4. /\ IsVarInt(b, kl + 1 + kp, ka) /\ AddrLen(b, kl, kp, ka) = AddrLen(s, kl, kp, ka)
      /\ AddrLen(s, kl, kp, ka) \in Nat
  <2> DEFINE off == kl + 1 + kp
  <2>1. off \in Nat /\ off + ka <= Len(s)
    BY <1>s DEF IsVarInt
  <2>2. IsVarInt(s, off, ka)
    BY <1>s
  <2> HIDE DEF off
  <2>3. IsVarInt(b, off, ka) /\ Value(b, off, ka) = Value(s, off, ka) /\ Value(s, off, ka) \in Nat
    BY <2>1, <2>2, PrefixVarInt
  <2> QED
    BY <2>3 DEF off, AddrLen
<1>5. Last(b, kl, kp, ka) = last /\ last \in Nat /\ End(b, kl) = End(s, kl)
  BY <1>2, <1>4 DEF Last, End
<1> HIDE DEF last
<1>6. IsVarInt(b, last, kn) /\ Value(b, last, kn) = Value(s, last, kn)
  <2>1. last + kn <= Len(s)
    BY <1>s DEF IsVarInt
  <2> QED
    BY <1>s, <1>5, <2>1, PrefixVarInt
<1>7. b[kl + 1] = 0
  <2>1. kl + 1 \in 1 .. Len(s)
    BY <1>s, <1>0, <1>2 DEF End
  <2> QED
    BY <1>s, <2>1 DEF Prefix
<1>8. End(b, kl) <= Len(b) /\ kl + 1 <= End(b, kl)
  <2>1. End(s, kl) \in Nat
    BY <1>2 DEF End
  <2> QED
    BY <1>s, <1>0, <1>5, <2>1
<1>9. Parses(b, kl, kp, ka, kn)
  BY <1>s, <1>2, <1>3, <1>4, <1>5, <1>6, <1>7, <1>8 DEF Parses
<1>10. v = NextState(b, kl, kp, ka, kn)
  BY <1>1, <1>5, <1>6 DEF NextState, last
<1> QED
  BY <1>9, <1>10 DEF Parsed

LEMMA ClassFinal ==
  ASSUME NEW s, NEW b, Prefix(s, b), FormatClass(s) # "NONE"
  PROVE  FormatClass(b) = FormatClass(s)
<1>1. s \in Bytes /\ b \in Bytes
  BY DEF Prefix
<1>2. ASSUME s # <<>> PROVE b # <<>> /\ b[1] = s[1]
  <2>1. \A q \in Bytes : q # <<>> <=> Len(q) >= 1
    BY DEF Bytes
  <2>2. Len(s) \in Nat /\ Len(b) \in Nat /\ Len(s) <= Len(b) /\ Len(s) >= 1
    BY <1>1, <1>2, <2>1, LenBytes DEF Prefix
  <2>3. 1 \in 1 .. Len(s) /\ Len(b) >= 1
    BY <2>2
  <2> QED
    BY <1>1, <2>1, <2>3 DEF Prefix
<1>3. CASE s # <<>> /\ s[1] = MC_LEGACY_PING_BYTE
  BY <1>2, <1>3 DEF FormatClass
<1>4. CASE s = <<>> \/ s[1] # MC_LEGACY_PING_BYTE
  <2>1. PICK v : Parsed(s, v)
    BY <1>4, ClassUnparsed
  <2>2. s # <<>>
    BY <1>1, <2>1, ParsedNat
  <2>3. Parsed(b, v)
    BY <2>1, PrefixParsed
  <2>4. s[1] # MC_LEGACY_PING_BYTE /\ b[1] # MC_LEGACY_PING_BYTE
    BY <1>2, <1>4, <2>2
  <2> QED
    BY <1>1, <2>1, <2>3, <2>4, ClassParsed
<1> QED
  BY <1>3, <1>4
--------------------------------------------------------------------------------
(* Any stream, delivered byte by byte. *)

HTyped == stream \in Streams /\ have \in 0 .. Len(stream) /\ skew \in Skews

LEMMA MinTwo ==
  ASSUME NEW x \in Int, NEW y \in Int
  PROVE  Min({x, y}) = IF x <= y THEN x ELSE y
BY DEF Min

LEMMA Cutting ==
  ASSUME NEW q \in Bytes, NEW m \in Int, NEW n \in Int, m <= n, n <= Len(q)
  PROVE  /\ Prefix(SubSeq(q, 1, m), SubSeq(q, 1, n))
         /\ Len(SubSeq(q, 1, m)) = IF m < 1 THEN 0 ELSE m
         /\ m < 1 => SubSeq(q, 1, m) = <<>>
<1>1. ASSUME NEW k \in Int, k <= Len(q)
      PROVE  /\ SubSeq(q, 1, k) \in Bytes
             /\ Len(SubSeq(q, 1, k)) = IF k < 1 THEN 0 ELSE k
             /\ \A j \in 1..k : SubSeq(q, 1, k)[j] = q[j]
  <2>1. \A j \in 1..k : j \in 1 .. Len(q)
    BY <1>1, LenBytes
  <2>2. \A j \in 1..k : q[j] \in 0..255
    BY <2>1, ByteAt, Zenon
  <2>3. /\ SubSeq(q, 1, k) \in Seq(0..255)
        /\ Len(SubSeq(q, 1, k)) = IF 1 <= k THEN k - 1 + 1 ELSE 0
        /\ \A j \in 1 .. k - 1 + 1 : SubSeq(q, 1, k)[j] = q[1 + j - 1]
    <3> DEFINE B == 0..255
    <3>1. 1 \in Int /\ \A j \in 1..k : q[j] \in B
      BY <2>2
    <3> HIDE DEF B
    <3>2. /\ SubSeq(q, 1, k) \in Seq(B)
          /\ Len(SubSeq(q, 1, k)) = IF 1 <= k THEN k - 1 + 1 ELSE 0
          /\ \A j \in 1 .. k - 1 + 1 : SubSeq(q, 1, k)[j] = q[1 + j - 1]
      BY <1>1, <3>1, SubSeqProperties
    <3> QED
      BY <3>2 DEF B
  <2>4. k - 1 + 1 = k /\ (k < 1 <=> ~(1 <= k)) /\ \A j \in 1..k : 1 + j - 1 = j
    OBVIOUS
  <2> QED
    BY <2>3, <2>4, Zenon DEF Bytes
<1>2. m <= Len(q)
  BY LenBytes
<1> DEFINE s == SubSeq(q, 1, m)
           b == SubSeq(q, 1, n)
<1>3. /\ s \in Bytes /\ b \in Bytes
      /\ Len(s) = (IF m < 1 THEN 0 ELSE m) /\ Len(b) = (IF n < 1 THEN 0 ELSE n)
      /\ (\A j \in 1..m : s[j] = q[j]) /\ (\A j \in 1..n : b[j] = q[j])
  BY <1>1, <1>2
<1> HIDE DEF s, b
<1>4. Len(s) <= Len(b)
  BY <1>3
<1>5. \A j \in 1 .. Len(s) : j \in 1..m /\ j \in 1..n
  BY <1>3
<1>6. Prefix(s, b)
  BY <1>3, <1>4, <1>5 DEF Prefix
<1>7. m < 1 => s = <<>>
  <2>1. \A z \in Bytes : Len(z) = 0 => z = <<>>
    BY DEF Bytes
  <2> QED
    BY <1>3, <2>1
<1> QED
  BY <1>3, <1>6, <1>7 DEF s, b

LEMMA ExactInState ==
  ASSUME HTyped
  PROVE  Class = FormatClass(Seen)
<1>1. /\ stream \in Bytes /\ have \in Nat /\ have <= Len(stream) /\ skew \in Int
      /\ Len(stream) \in Nat
  <2>1. stream \in Bytes /\ skew \in Int
    BY StreamAssumption DEF HTyped, Bytes
  <2> QED
    BY <2>1, LenBytes DEF HTyped
<1> DEFINE n == payload_len
           m == Min({have, n})
<1>2. n \in Int
  BY <1>1 DEF payload_len
<1>3. m = IF have <= n THEN have ELSE n
  BY <1>1, <1>2, MinTwo
<1>f. Frame = SubSeq(stream, 1, have) /\ Seen = SubSeq(stream, 1, m)
  BY DEF Frame, Seen
<1> HIDE DEF n, m
<1>4. m \in Int /\ m <= have /\ m <= n
  BY <1>1, <1>2, <1>3
<1>5. /\ Prefix(Seen, Frame) /\ Len(Seen) = (IF m < 1 THEN 0 ELSE m)
      /\ m < 1 => Seen = <<>>
  BY <1>1, <1>4, <1>f, Cutting
<1>6. Len(Frame) = have /\ (have < 1 => Frame = <<>>)
  <2>1. Len(Frame) = IF have < 1 THEN 0 ELSE have
    BY <1>1, <1>f, Cutting
  <2>2. have < 1 => Frame = <<>>
    BY <1>1, <1>f, Cutting
  <2> QED
    BY <1>1, <2>1, <2>2
<1>7. CASE n < 1 \/ have < 1
  <2>1. Seen = <<>>
    BY <1>1, <1>2, <1>3, <1>5, <1>7
  <2>2. Class = "NONE"
    <3>1. n < 1 \/ Frame = <<>>
      BY <1>6, <1>7
    <3>2. classify_handshake(Frame, n) = "NONE"
      BY <3>1, ClassifySteps
    <3> QED
      BY <3>2 DEF Class, n
  <2> QED
    BY <2>1, <2>2, EmptyUnparsed, ClassUnparsed
<1>8. CASE n >= 1 /\ have >= 1
  <2>1. Len(Seen) = m
    BY <1>1, <1>2, <1>3, <1>5, <1>8
  <2>2. Cut(Seen, Frame, n)
    <3>1. Len(Seen) <= n /\ (Len(Seen) = Len(Frame) \/ Len(Seen) = n)
      BY <1>3, <1>4, <1>6, <2>1
    <3> QED
      BY <1>5, <3>1 DEF Cut
  <2>3. Frame # <<>>
    <3>1. Len(<<>>) = 0
      OBVIOUS
    <3> QED
      BY <1>6, <1>8, <3>1
  <2>4. classify_handshake(Frame, n) = FormatClass(Seen)
    <3>1. n \in Nat
      BY <1>2, <1>8
    <3> QED
      BY <1>8, <2>2, <2>3, <3>1, ClassifyExact
  <2> QED
    BY <2>4 DEF Class, n
<1> QED
  BY <1>1, <1>2, <1>7, <1>8

LEMMA HInit == Init => HTyped
<1>1. \A q \in Streams : Len(q) \in Nat
  BY StreamAssumption
<1> QED
  BY <1>1 DEF Init, HTyped

LEMMA HNext == HTyped /\ [Deliver]_vars => HTyped'
<1>1. \A q \in Streams : Len(q) \in Nat
  BY StreamAssumption
<1> QED
  BY <1>1 DEF Deliver, HTyped, vars

\* Away from the disputed payloads that is what is documented.
LEMMA DocumentedClass ==
  ASSUME NEW s, ~Disputed(s)
  PROVE  FormatClass(s) = Documented(s)
<1>1. FormatClass(s) = IF IsLegacyPing(s) THEN "STATUS" ELSE Routed(s)
  BY Zenon DEF FormatClass, IsLegacyPing, Routed, HasStatus, HasLogin, HasUnknown
<1> QED
  BY <1>1 DEF Disputed, Documented

\* On every byte stream, for every part of it that has arrived and every claimed
\* length, classify_handshake gives the payload the class the README documents,
\* unless the payload is a packet that begins with 0xFE or has an over-long address.
THEOREM ClassifierIsExact == Spec => []ClassifierExact
<1>1. HTyped => ClassifierExact
  BY ExactInState, DocumentedClass, Zenon DEF ClassifierExact
<1> QED
  BY <1>1, HInit, HNext, PTL DEF Spec

\* On every byte stream the class, once decided, does not change with what follows
\* in the same segment.
THEOREM ClassIsFinal == Spec => ClassStable
<1>a. HTyped => Class = FormatClass(Seen)
  BY ExactInState
<1>b. (HTyped => Class = FormatClass(Seen))'
  BY <1>a, PTL
<1>1. HTyped /\ HTyped' /\ [Deliver]_vars => [Class # "NONE" => Class' = Class]_vars
  <2> SUFFICES ASSUME HTyped, HTyped', Deliver, Class # "NONE" PROVE Class' = Class
    BY DEF vars
  <2>1. Class = FormatClass(Seen)
    BY ExactInState
  <2>3. Class' = FormatClass(Seen')
    BY <1>b, Zenon DEF FormatClass, HasStatus, HasLogin, HasUnknown
  <2>4. Prefix(Seen, Seen')
    <3>1. /\ stream \in Bytes /\ have \in Nat /\ have + 1 <= Len(stream) /\ skew \in Int
          /\ stream' = stream /\ have' = have + 1 /\ skew' = skew
      <4>1. stream \in Bytes /\ skew \in Int
        BY StreamAssumption DEF HTyped, Bytes
      <4> QED
        BY <4>1, LenBytes DEF HTyped, Deliver
    <3> DEFINE m == Min({have, have + skew})
               k == Min({have + 1, have + 1 + skew})
    <3>2. m \in Int /\ k \in Int /\ m <= k /\ k <= Len(stream)
      <4>1. m = IF have <= have + skew THEN have ELSE have + skew
        BY <3>1, MinTwo
      <4>2. k = IF have + 1 <= have + 1 + skew THEN have + 1 ELSE have + 1 + skew
        BY <3>1, MinTwo
      <4> HIDE DEF m, k
      <4> QED
        BY <3>1, <4>1, <4>2, LenBytes
    <3>3. Seen = SubSeq(stream, 1, m) /\ Seen' = SubSeq(stream, 1, k)
      BY <3>1 DEF Seen, payload_len
    <3> HIDE DEF m, k
    <3> QED
      BY <3>1, <3>2, <3>3, Cutting
  <2> QED
    BY <2>1, <2>3, <2>4, ClassFinal
<1> QED
  BY <1>1, HInit, HNext, PTL DEF Spec, ClassStable
================================================================================
