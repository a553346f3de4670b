------------------------------ MODULE ReadersProofs ------------------------------
(***************************************************************************)
(* What a reader may rely on.  Of the statistics, first: for any number of *)
(* CPUs, segments, readings, shutdowns, crashes and restarts.  Then of the *)
(* other maps: for any set of keys and buckets, any size of the map and    *)
(* any number of writes while a job walks it.                              *)
(***************************************************************************)
EXTENDS Readers, SumFacts, SequenceTheorems

(* One slot over the CPUs. *)

Column(x) == [c \in CPUs |-> stats[c][x]]
Total(x) == SumFunctionOnSet(Column(x), CPUs)

\* The CPUs whose value a reading has still to copy, and what they hold by now:
\* if the programs paused here, the reading would end with sums[x] + Ahead(x).
Pending(x) == {c \in CPUs : <<x, c>> \in reads}
Ahead(x) == SumFunctionOnSet(Column(x), Pending(x))

\* What is left of a path at any moment of a run.
Tails == Paths \cup
    {<<>>, <<4>>, <<4, 3>>, <<3>>, <<4, 9>>, <<9>>, <<5, 3>>, <<5, 10>>, <<10>>,
     <<5, 2>>, <<2>>}

\* Requests for sums come and go; other jobs sum nothing.  Nothing is read from a
\* closed map unless Shutdown has timed out.
CTyped ==
    /\ stats \in [CPUs -> [Slots -> Nat]]
    /\ run \in [CPUs -> Tails]
    /\ reads \subseteq Slots \X CPUs
    /\ sums \in [Slots -> Nat] /\ emitted \in [Slots -> Nat]
    /\ ReadsStats => walk.at = "idle"
    /\ ~(ReadsStats /\ busy) => reads = {} /\ sums = Zero
    /\ ReadsStats /\ busy /\ Unreadable => late

\* No answer exceeds what has been counted ...
Below ==
    \A x \in Slots : emitted[x] <= Total(x) /\ sums[x] + Ahead(x) <= Total(x)

\* ... and the answer under way will not fall behind the last one.
NotBehind ==
    ReadsStats /\ busy /\ ~late =>
        \A x \in Slots : emitted[x] <= sums[x] + Ahead(x)
--------------------------------------------------------------------------------
(* Facts about columns. *)

LEMMA ColumnNat ==
  ASSUME CTyped, NEW x \in Slots, NEW T \in SUBSET CPUs
  PROVE  SumNat(Column(x), T) /\ SumFunctionOnSet(Column(x), T) \in Nat
<1>1. IsFiniteSet(T)
  BY CollectorAssumption, FS_Subset
<1>2. \A c \in T : Column(x)[c] \in Nat
  BY DEF CTyped, Column
<1>3. SumNat(Column(x), T)
  BY <1>1, <1>2 DEF SumNat
<1> QED
  BY <1>3, SumType

LEMMA TotalNat ==
  ASSUME CTyped, NEW x \in Slots
  PROVE  Total(x) \in Nat /\ Ahead(x) \in Nat
<1>1. Pending(x) \in SUBSET CPUs
  BY DEF Pending
<1> QED
  BY <1>1, ColumnNat DEF Total, Ahead

LEMMA SameColumns ==
  ASSUME stats' = stats
  PROVE  \A x : Total(x)' = Total(x) /\ Column(x)' = Column(x)
BY DEF Total, Column

LEMMA SameAhead ==
  ASSUME stats' = stats, reads' = reads
  PROVE  \A x : Total(x)' = Total(x) /\ Ahead(x)' = Ahead(x) /\ Pending(x)' = Pending(x)
<1>1. \A x : Column(x)' = Column(x)
  BY SameColumns
<1>2. \A x : Pending(x)' = Pending(x)
  BY DEF Pending
<1> QED
  BY <1>1, <1>2, Zenon DEF Total, Ahead

LEMMA ReadTyped ==
  ASSUME CTyped, NEW q \in reads
  PROVE  /\ q = <<q[1], q[2]>> /\ q[1] \in Slots /\ q[2] \in CPUs
         /\ q[1] \in Nat /\ q[2] \in Nat
<1>1. q \in Slots \X CPUs
  BY DEF CTyped
<1>2. q = <<q[1], q[2]>> /\ q[1] \in Slots /\ q[2] \in CPUs
  BY <1>1
<1> QED
  BY <1>2, CollectorAssumption

\* The value copied next is one of those still to be copied, and the least.
LEMMA NextReadLeast ==
  ASSUME CTyped, reads # {}
  PROVE  /\ NextRead \in reads
         /\ \A q \in reads \ {NextRead} : Before(NextRead, q)
<1> DEFINE A == {r[1] : r \in reads}
<1>1. A \subseteq Nat /\ A # {}
  BY ReadTyped
<1>2. PICK n \in A : \A m \in A : n <= m
  <2> HIDE DEF A
  <2> QED
    BY <1>1, LeastNumber
<1> DEFINE B == {d \in CPUs : <<n, d>> \in reads}
<1>3. B \subseteq Nat /\ B # {}
  BY <1>2, ReadTyped, CollectorAssumption
<1>4. PICK d \in B : \A m \in B : d <= m
  <2> HIDE DEF B
  <2> QED
    BY <1>3, LeastNumber
<1> DEFINE r == <<n, d>>
<1>5. r \in reads
  BY <1>4
<1>6. ASSUME NEW q \in reads \ {r} PROVE Before(r, q)
  <2>1. q = <<q[1], q[2]>> /\ q[1] \in Nat /\ q[2] \in CPUs /\ q[2] \in Nat
        /\ n \in Nat /\ d \in Nat
    BY <1>1, <1>2, <1>3, <1>4, ReadTyped
  <2>2. n <= q[1]
    BY <1>2
  <2>3. CASE q[1] = n
    <3>1. q[2] \in B
      BY <2>1, <2>3
    <3>2. d <= q[2] /\ d # q[2]
      BY <1>4, <2>1, <2>3, <3>1
    <3> QED
      BY <2>1, <2>3, <3>2 DEF Before
  <2> QED
    BY <2>1, <2>2, <2>3 DEF Before
<1>7. \E k \in reads : \A q \in reads \ {k} : Before(k, q)
  BY <1>5, <1>6
<1> QED
  BY <1>7 DEF NextRead
--------------------------------------------------------------------------------
(* What each step does to the sums. *)

\* A bump adds one, where the CPU and the slot are among those summed.
LEMMA BumpSums ==
  ASSUME CTyped, NEW c \in CPUs, stat_bump(c), NEW x \in Slots, NEW T \in SUBSET CPUs
  PROVE  SumFunctionOnSet(Column(x)', T)
           = SumFunctionOnSet(Column(x), T)
               + IF x = Head(run[c]) /\ c \in T THEN 1 ELSE 0
<1> DEFINE f == Column(x)
           g == Column(x)'
<1>1. SumNat(f, T) /\ SumFunctionOnSet(f, T) \in Nat
  BY ColumnNat
<1>2. \A d \in CPUs : f[d] \in Nat /\ f[d] = stats[d][x] /\ g[d] = stats'[d][x]
  BY DEF CTyped, Column
<1>3. \A d \in CPUs : d # c => stats'[d] = stats[d]
  BY DEF stat_bump, CTyped
<1>4. stats'[c] = [y \in Slots |-> IF y = Head(run[c]) THEN stats[c][y] + 1 ELSE stats[c][y]]
  BY DEF stat_bump, CTyped
<1>5. \A d \in CPUs : d # c => g[d] = f[d]
  BY <1>2, <1>3
<1>6. g[c] = IF x = Head(run[c]) THEN f[c] + 1 ELSE f[c]
  BY <1>2, <1>4
<1>7. \A d \in CPUs : g[d] \in Nat
  BY <1>2, <1>5, <1>6
<1>8. SumNat(g, T)
  BY <1>1, <1>7 DEF SumNat
<1> HIDE DEF f, g
<1>9. CASE x = Head(run[c]) /\ c \in T
  <2>1. SumFunctionOnSet(g, T) + f[c] = SumFunctionOnSet(f, T) + g[c]
    BY <1>1, <1>5, <1>8, <1>9, SumUpdate
  <2>2. SumFunctionOnSet(g, T) \in Nat
    BY <1>8, SumType
  <2>3. g[c] = f[c] + 1 /\ f[c] \in Nat
    BY <1>2, <1>6, <1>9
  <2>4. SumFunctionOnSet(g, T) = SumFunctionOnSet(f, T) + 1
    BY <1>1, <2>1, <2>2, <2>3
  <2> QED
    BY <1>9, <2>4 DEF f, g
<1>10. CASE ~(x = Head(run[c]) /\ c \in T)
  <2>1. \A d \in T : g[d] = f[d]
    BY <1>5, <1>6, <1>10
  <2>2. SumFunctionOnSet(g, T) = SumFunctionOnSet(f, T)
    BY <1>1, <2>1, SumSame DEF SumNat
  <2> QED
    BY <1>1, <1>10, <2>2 DEF f, g
<1> QED
  BY <1>9, <1>10

\* So totals grow, and what a reading will add grows no faster.
LEMMA BumpGrows ==
  ASSUME CTyped, NEW c \in CPUs, stat_bump(c), NEW x \in Slots
  PROVE  /\ Pending(x)' = Pending(x)
         /\ Total(x)' \in Nat /\ Ahead(x)' \in Nat
         /\ Ahead(x) <= Ahead(x)'
         /\ Total(x)' - Total(x) >= Ahead(x)' - Ahead(x)
<1>1. Pending(x)' = Pending(x) /\ Pending(x) \in SUBSET CPUs
  BY DEF Pending, stat_bump, scrape
<1>2. Total(x)' = Total(x) + IF x = Head(run[c]) /\ c \in CPUs THEN 1 ELSE 0
  BY BumpSums DEF Total
<1>3. Ahead(x)' = Ahead(x) + IF x = Head(run[c]) /\ c \in Pending(x) THEN 1 ELSE 0
  BY <1>1, BumpSums DEF Ahead
<1>4. Total(x) \in Nat /\ Ahead(x) \in Nat
  BY TotalNat
<1> HIDE DEF Total, Ahead, Pending
<1> QED
  BY <1>1, <1>2, <1>3, <1>4

\* A value that is copied moves from what is ahead into the sum.
LEMMA ReadMoves ==
  ASSUME CTyped, reads # {}, SumRead, NEW x \in Slots
  PROVE  /\ Total(x)' = Total(x) /\ Ahead(x)' \in Nat /\ sums'[x] \in Nat
         /\ sums'[x] + Ahead(x)' = sums[x] + Ahead(x)
         /\ x # NextRead[1] => sums'[x] = sums[x] /\ Pending(x)' = Pending(x)
         /\ Pending(x)' \subseteq Pending(x)
<1> DEFINE r == NextRead
<1>1. r \in reads
  BY NextReadLeast
<1>2. r = <<r[1], r[2]>> /\ r[1] \in Slots /\ r[2] \in CPUs
  BY <1>1, ReadTyped
<1>3. /\ reads' = reads \ {r} /\ stats' = stats
      /\ sums' = [sums EXCEPT ![r[1]] = @ + stats[r[2]][r[1]]]
  BY DEF SumRead, program
<1> HIDE DEF r
<1>4. Total(x)' = Total(x) /\ Column(x)' = Column(x)
  BY <1>3, SameColumns
<1>5. Pending(x) \in SUBSET CPUs /\ Pending(x)' \in SUBSET CPUs
  BY DEF Pending
<1>6. Total(x) \in Nat /\ Ahead(x) \in Nat /\ sums[x] \in Nat
  BY TotalNat DEF CTyped
<1>7. CASE x # r[1]
  <2>1. sums'[x] = sums[x]
    BY <1>3, <1>7 DEF CTyped
  <2>2. Pending(x)' = Pending(x)
    BY <1>2, <1>3, <1>7 DEF Pending
  <2>3. Ahead(x)' = Ahead(x)
    BY <1>4, <2>2 DEF Ahead
  <2> QED
    BY <1>4, <1>6, <2>1, <2>2, <2>3 DEF r
<1>8. CASE x = r[1]
  <2>1. sums'[x] = sums[x] + stats[r[2]][x]
    BY <1>3, <1>8 DEF CTyped
  <2>2. r[2] \in Pending(x)
    BY <1>1, <1>2, <1>8 DEF Pending
  <2>3. Pending(x)' = Pending(x) \ {r[2]}
    BY <1>2, <1>3, <1>8 DEF Pending
  <2>4. SumNat(Column(x), Pending(x))
    BY <1>5, ColumnNat
  <2>5. Ahead(x) = Column(x)[r[2]] + SumFunctionOnSet(Column(x), Pending(x) \ {r[2]})
    BY <2>2, <2>4, SumElement DEF Ahead
  <2>6. Ahead(x)' = SumFunctionOnSet(Column(x), Pending(x) \ {r[2]})
    BY <1>4, <2>3 DEF Ahead
  <2>7. Ahead(x)' \in Nat
    BY <1>5, <2>3, <2>6, ColumnNat
  <2>8. Column(x)[r[2]] = stats[r[2]][x] /\ stats[r[2]][x] \in Nat
    BY <1>2 DEF Column, CTyped
  <2> HIDE DEF Ahead, Column, Pending, Total
  <2>9. Ahead(x) = stats[r[2]][x] + Ahead(x)'
    BY <2>5, <2>6, <2>8
  <2>10. sums'[x] + Ahead(x)' = sums[x] + Ahead(x) /\ sums'[x] \in Nat
    BY <1>6, <2>1, <2>7, <2>8, <2>9
  <2> QED
    BY <1>4, <1>8, <2>3, <2>7, <2>10 DEF r
<1> QED
  BY <1>7, <1>8

\* Values that a closed map no longer gives are missing from the answer.
LEMMA FailDrops ==
  ASSUME CTyped, reads # {}, reads' = reads \ SlotOf(NextRead), stats' = stats,
         NEW x \in Slots
  PROVE  Total(x)' = Total(x) /\ Ahead(x)' \in Nat /\ Ahead(x)' <= Ahead(x)
<1> DEFINE r == NextRead
<1>1. SlotOf(r) = {r[1]} \X CPUs /\ reads' = reads \ SlotOf(r)
  BY DEF SlotOf
<1> HIDE DEF r
<1>2. Total(x)' = Total(x) /\ Column(x)' = Column(x)
  BY SameColumns
<1>3. Ahead(x) \in Nat
  BY TotalNat
<1>4. CASE x = r[1]
  <2>1. Pending(x)' = {}
    BY <1>1, <1>4 DEF Pending
  <2>2. Ahead(x)' = 0
    BY <2>1, SumEmpty DEF Ahead
  <2> QED
    BY <1>2, <1>3, <2>2
<1>5. CASE x # r[1]
  <2>1. Pending(x)' = Pending(x)
    BY <1>1, <1>5 DEF Pending
  <2>2. Ahead(x)' = Ahead(x)
    BY <1>2, <2>1 DEF Ahead
  <2> QED
    BY <1>2, <1>3, <2>2
<1> QED
  BY <1>4, <1>5

\* A reading that is over, has just ended or been given up, or has just begun.
LEMMA NothingAhead ==
  ASSUME NEW x
  PROVE  /\ reads = {} => Pending(x) = {} /\ Ahead(x) = 0
         /\ reads' = {} => Pending(x)' = {} /\ Ahead(x)' = 0
<1>1. reads = {} => Pending(x) = {}
  BY DEF Pending
<1>2. reads' = {} => Pending(x)' = {}
  BY DEF Pending
<1> QED
  BY <1>1, <1>2, SumEmpty DEF Ahead

LEMMA AllAhead ==
  ASSUME reads' = Slots \X CPUs, NEW x \in Slots
  PROVE  Pending(x)' = CPUs /\ Ahead(x)' = Total(x)'
<1>1. Pending(x)' = CPUs
  BY DEF Pending
<1> QED
  BY <1>1 DEF Ahead, Total
--------------------------------------------------------------------------------
(* The steps of a behaviour. *)

\* A step of another job, or of what that job reads.
Elsewhere ==
    /\ UNCHANGED <<job, program, scrape, phase>>
    /\ ReadsStats => UNCHANGED <<busy, late, walk>>

LEMMA StepKinds ==
  ASSUME CTyped, [Next]_vars
  PROVE  \/ (Counting \/ Summing \/ cmdRun) /\ walk' = walk
         \/ Elsewhere
<1> USE DEF Elsewhere, cvars, rvars, daemon, map, history
<1>1. CASE (Counting \/ Summing) /\ UNCHANGED rvars
  BY <1>1
<1>2. CASE cmdRun /\ UNCHANGED rvars
  BY <1>2
<1>3. ASSUME NEW k \in Keys,
             \/ bpf_map_update_elem(k) \/ WriteElem(k) \/ bpf_map_delete_elem(k)
             \/ \E lru \in Keys : EvictFor(k, lru)
      PROVE  Elsewhere
  BY <1>3 DEF bpf_map_update_elem, WriteElem, bpf_map_delete_elem, EvictFor
<1>4. CASE Tick
  BY <1>4 DEF Tick
<1>5. CASE Begin \/ OpenFails
  BY <1>5 DEF Begin, OpenFails
<1>6. CASE StartSizeTicker
  BY <1>6 DEF StartSizeTicker, ReadsStats
<1>7. CASE Reading
  <2>1. walk.at # "idle"
    BY <1>7 DEF Reading, IterNextKey, IterLookup, IterDone, IterFails, Lookup,
                ClearDelete, ClearDone, ClearKeyDelete, Step
  <2>2. ~ReadsStats
    BY <2>1 DEF CTyped
  <2>3. UNCHANGED cvars \/ Answered
    BY <1>7 DEF Reading, IterNextKey, IterLookup, IterDone, IterFails, Lookup,
                ClearDelete, ClearDone, ClearKeyDelete
  <2> QED
    BY <2>2, <2>3 DEF Answered
<1>8. CASE UNCHANGED vars
  BY <1>8 DEF vars
<1> QED
  BY <1>1, <1>2, <1>3, <1>4, <1>5, <1>6, <1>7, <1>8 DEF Next
--------------------------------------------------------------------------------
(* What each step preserves. *)

LEMMA TailsShrink ==
  ASSUME NEW t \in Tails, t # <<>>
  PROVE  Tail(t) \in Tails
<1>1. \A a : Tail(<<a>>) = <<>>
  OBVIOUS
<1>2. \A a, b : Tail(<<a, b>>) = <<b>>
  OBVIOUS
<1>3. \A a, b, c : Tail(<<a, b, c>>) = <<b, c>>
  OBVIOUS
<1>4. CASE t \in {<<4>>, <<3>>, <<9>>, <<10>>, <<2>>}
  <2>1. Tail(t) = <<>>
    BY <1>1, <1>4
  <2> QED
    BY <2>1 DEF Tails
<1>5. CASE t \in {<<0, 4>>, <<4, 3>>, <<4, 9>>, <<5, 3>>, <<5, 10>>, <<5, 2>>}
  <2>1. Tail(t) \in {<<4>>, <<3>>, <<9>>, <<10>>, <<2>>}
    BY <1>2, <1>5
  <2> QED
    BY <2>1, Zenon DEF Tails
<1>6. CASE t \in {<<0, 4, 3>>, <<0, 4, 9>>, <<0, 5, 3>>, <<0, 5, 10>>, <<0, 5, 2>>}
  <2> DEFINE P == {<<4, 3>>, <<4, 9>>, <<5, 3>>, <<5, 10>>, <<5, 2>>}
  <2>0. \E p \in P : t = <<0, p[1], p[2]>> /\ p = <<p[1], p[2]>>
    BY <1>6
  <2>1. Tail(t) \in P
    <3> HIDE DEF P
    <3> QED
      BY <1>3, <2>0, Zenon
  <2> QED
    BY <2>1, Zenon DEF Tails
<1> QED
  BY <1>4, <1>5, <1>6, Zenon DEF Tails, Paths

LEMMA TypedKept ==
  ASSUME CTyped, [Next]_vars
  PROVE  CTyped'
<1> USE DEF program, daemon, scrape, ReadsStats, Unreadable
<1>1. ASSUME NEW c \in CPUs, Arrives(c), walk' = walk PROVE CTyped'
  BY <1>1 DEF Arrives, CTyped, Tails
<1>2. ASSUME NEW c \in CPUs, stat_bump(c), walk' = walk PROVE CTyped'
  <2>1. run' \in [CPUs -> Tails]
    BY <1>2, TailsShrink DEF stat_bump, CTyped
  <2>2. stats' \in [CPUs -> [Slots -> Nat]]
    BY <1>2 DEF stat_bump, CTyped
  <2> QED
    BY <1>2, <2>1, <2>2 DEF stat_bump, CTyped
<1>3. ASSUME SumBegin, walk' = walk PROVE CTyped'
  BY <1>3 DEF SumBegin, CTyped
<1>4. ASSUME SumRead, walk' = walk PROVE CTyped'
  <2>1. NextRead \in reads /\ NextRead[1] \in Slots /\ NextRead[2] \in CPUs
    BY <1>4, NextReadLeast, ReadTyped DEF SumRead
  <2>2. stats[NextRead[2]][NextRead[1]] \in Nat
    BY <2>1 DEF CTyped
  <2>3. sums' \in [Slots -> Nat]
    BY <1>4, <2>1, <2>2 DEF SumRead, CTyped
  <2> QED
    BY <1>4, <2>3 DEF SumRead, CTyped
<1>5. ASSUME SumReadFails, walk' = walk PROVE CTyped'
  BY <1>5 DEF SumReadFails, CTyped, Zero
<1>6. ASSUME SumEmit, walk' = walk PROVE CTyped'
  BY <1>6 DEF SumEmit, CTyped, Zero
<1>7. ASSUME cmdRun, walk' = walk PROVE CTyped'
  BY <1>7 DEF cmdRun, Start, Shutdown, Drained, DrainTimeout, Exit, Serving, CTyped, Zero
<1>8. ASSUME Elsewhere PROVE CTyped'
  BY <1>8 DEF Elsewhere, CTyped
<1> QED
  BY <1>1, <1>2, <1>3, <1>4, <1>5, <1>6, <1>7, <1>8, StepKinds DEF Counting, Summing

Bounds == Below /\ NotBehind

\* What a step may do to the last answer.
Grows == ~late => \A x \in Slots : emitted'[x] >= emitted[x]

LEMMA BoundsKept ==
  ASSUME CTyped, Bounds, [Next]_vars
  PROVE  Bounds' /\ Grows
<1> USE DEF program, daemon, scrape
<1>a. /\ emitted \in [Slots -> Nat] /\ sums \in [Slots -> Nat]
      /\ \A x \in Slots : /\ Total(x) \in Nat /\ Ahead(x) \in Nat
                          /\ emitted[x] \in Nat /\ sums[x] \in Nat
  BY TotalNat DEF CTyped
<1>b. /\ \A x \in Slots : emitted[x] <= Total(x) /\ sums[x] + Ahead(x) <= Total(x)
      /\ ReadsStats /\ busy /\ ~late => \A x \in Slots : emitted[x] <= sums[x] + Ahead(x)
  BY DEF Bounds, Below, NotBehind
<1>c. emitted' = emitted => Grows
  BY <1>a DEF Grows
<1>d. ASSUME \A x \in Slots : emitted'[x] <= Total(x)' /\ sums'[x] + Ahead(x)' <= Total(x)',
             ReadsStats' /\ busy' /\ ~late' =>
               \A x \in Slots : emitted'[x] <= sums'[x] + Ahead(x)'
      PROVE  Bounds'
  BY <1>d DEF Bounds, Below, NotBehind
<1>1. ASSUME UNCHANGED <<job, stats, reads, sums, emitted>>,
             ReadsStats => busy' = busy /\ (late => late')
      PROVE  Bounds' /\ Grows
  <2>1. \A x \in Slots : Total(x)' = Total(x) /\ Ahead(x)' = Ahead(x)
    BY <1>1, SameAhead
  <2>2. ReadsStats' = ReadsStats
    BY <1>1 DEF ReadsStats
  <2> HIDE DEF Total, Ahead, ReadsStats
  <2> QED
    BY <1>1, <1>b, <1>c, <1>d, <2>1, <2>2
<1>2. ASSUME NEW c \in CPUs, stat_bump(c) PROVE Bounds' /\ Grows
  <2>1. UNCHANGED <<job, busy, late, reads, sums, emitted>>
    BY <1>2 DEF stat_bump
  <2>2. ReadsStats' = ReadsStats
    BY <2>1 DEF ReadsStats
  <2>3. \A x \in Slots : /\ Total(x)' \in Nat /\ Ahead(x)' \in Nat
                         /\ Ahead(x) <= Ahead(x)'
                         /\ Total(x)' - Total(x) >= Ahead(x)' - Ahead(x)
    BY <1>2, BumpGrows
  <2> HIDE DEF Total, Ahead, ReadsStats
  <2>4. \A x \in Slots : emitted[x] <= Total(x)' /\ sums[x] + Ahead(x)' <= Total(x)'
    BY <1>a, <1>b, <2>3
  <2>5. ReadsStats /\ busy /\ ~late => \A x \in Slots : emitted[x] <= sums[x] + Ahead(x)'
    BY <1>a, <1>b, <2>3
  <2> QED
    BY <1>c, <1>d, <2>1, <2>2, <2>4, <2>5
<1>3. ASSUME SumBegin PROVE Bounds' /\ Grows
  <2>1. UNCHANGED <<job, stats, sums, emitted>> /\ reads' = Slots \X CPUs /\ sums = Zero
    BY <1>3 DEF SumBegin, CTyped
  <2>2. \A x \in Slots : Total(x)' = Total(x)
    BY <2>1, SameColumns
  <2>3. \A x \in Slots : Ahead(x)' = Total(x)'
    BY <2>1, AllAhead
  <2>4. \A x \in Slots : sums'[x] = 0
    BY <2>1 DEF Zero
  <2> HIDE DEF Total, Ahead, ReadsStats
  <2>5. \A x \in Slots : /\ emitted'[x] <= Total(x)' /\ sums'[x] + Ahead(x)' <= Total(x)'
                         /\ emitted'[x] <= sums'[x] + Ahead(x)'
    BY <1>a, <1>b, <2>1, <2>2, <2>3, <2>4
  <2> QED
    BY <1>c, <1>d, <2>1, <2>5
<1>4. ASSUME SumRead PROVE Bounds' /\ Grows
  <2>1. UNCHANGED <<job, emitted, busy, late>> /\ reads # {}
    BY <1>4 DEF SumRead
  <2>2. ReadsStats' = ReadsStats
    BY <2>1 DEF ReadsStats
  <2>3. \A x \in Slots : Total(x)' = Total(x) /\ sums'[x] + Ahead(x)' = sums[x] + Ahead(x)
    BY <1>4, <2>1, ReadMoves
  <2> HIDE DEF Total, Ahead, ReadsStats
  <2> QED
    BY <1>b, <1>c, <1>d, <2>1, <2>2, <2>3
<1>5. ASSUME SumReadFails PROVE Bounds' /\ Grows
  <2>1. UNCHANGED <<job, stats, emitted>> /\ reads # {} /\ Unreadable
    BY <1>5 DEF SumReadFails
  <2>2. ReadsStats /\ busy /\ late
    BY <2>1 DEF CTyped
  <2>3. CASE reads' = reads \ SlotOf(NextRead) /\ UNCHANGED <<sums, busy, late>>
    <3>1. \A x \in Slots : /\ Total(x)' = Total(x) /\ Ahead(x)' \in Nat
                           /\ Ahead(x)' <= Ahead(x)
      BY <2>1, <2>3, FailDrops
    <3> HIDE DEF Total, Ahead, ReadsStats
    <3>2. \A x \in Slots : emitted'[x] <= Total(x)' /\ sums'[x] + Ahead(x)' <= Total(x)'
      BY <1>a, <1>b, <2>1, <2>3, <3>1
    <3> QED
      BY <1>c, <1>d, <2>1, <2>2, <2>3, <3>2
  <2>4. CASE reads' = {} /\ sums' = Zero /\ busy' = FALSE
    <3>1. \A x \in Slots : Total(x)' = Total(x)
      BY <2>1, SameColumns
    <3>2. \A x \in Slots : Ahead(x)' = 0 /\ sums'[x] = 0
      BY <2>4, NothingAhead DEF Zero
    <3> HIDE DEF Total, Ahead, ReadsStats
    <3>3. \A x \in Slots : emitted'[x] <= Total(x)' /\ sums'[x] + Ahead(x)' <= Total(x)'
      BY <1>a, <1>b, <2>1, <3>1, <3>2
    <3> QED
      BY <1>c, <1>d, <2>1, <2>4, <3>3
  <2> QED
    BY <1>5, <2>3, <2>4 DEF SumReadFails
<1>6. ASSUME SumEmit PROVE Bounds' /\ Grows
  <2>1. /\ ReadsStats /\ busy /\ reads = {} /\ reads' = {}
        /\ emitted' = sums /\ sums' = Zero /\ busy' = FALSE /\ stats' = stats
    BY <1>6 DEF SumEmit
  <2>2. \A x \in Slots : Total(x)' = Total(x)
    BY <2>1, SameColumns
  <2>3. \A x \in Slots : Ahead(x)' = 0 /\ sums'[x] = 0 /\ Ahead(x) = 0
    BY <2>1, NothingAhead DEF Zero
  <2> HIDE DEF Total, Ahead, ReadsStats
  <2>4. \A x \in Slots : emitted'[x] <= Total(x)' /\ sums'[x] + Ahead(x)' <= Total(x)'
    BY <1>a, <1>b, <2>1, <2>2, <2>3
  <2>5. Grows
    BY <1>a, <1>b, <2>1, <2>3 DEF Grows
  <2> QED
    BY <1>d, <2>1, <2>4, <2>5
<1>7. ASSUME Exit PROVE Bounds' /\ Grows
  <2>1. UNCHANGED <<job, stats, emitted>>
    BY <1>7 DEF Exit
  <2>2. CASE reads' = {} /\ sums' = Zero /\ busy' = FALSE
    <3>1. \A x \in Slots : Total(x)' = Total(x)
      BY <2>1, SameColumns
    <3>2. \A x \in Slots : Ahead(x)' = 0 /\ sums'[x] = 0
      BY <2>2, NothingAhead DEF Zero
    <3> HIDE DEF Total, Ahead, ReadsStats
    <3>3. \A x \in Slots : emitted'[x] <= Total(x)' /\ sums'[x] + Ahead(x)' <= Total(x)'
      BY <1>a, <1>b, <2>1, <3>1, <3>2
    <3> QED
      BY <1>c, <1>d, <2>1, <2>2, <3>3
  <2>3. CASE UNCHANGED <<busy, late, reads, sums>>
    BY <1>1, <2>1, <2>3
  <2> QED
    BY <1>7, <2>2, <2>3 DEF Exit
<1>8. ASSUME cmdRun PROVE Bounds' /\ Grows
  <2>1. CASE Start \/ Shutdown \/ Drained \/ DrainTimeout
    BY <1>1, <2>1 DEF Start, Shutdown, Drained, DrainTimeout
  <2> QED
    BY <1>7, <1>8, <2>1 DEF cmdRun
<1>9. ASSUME NEW c \in CPUs, Arrives(c) PROVE Bounds' /\ Grows
  BY <1>1, <1>9 DEF Arrives
<1>10. ASSUME Elsewhere PROVE Bounds' /\ Grows
  BY <1>1, <1>10 DEF Elsewhere
<1> QED
  BY <1>2, <1>3, <1>4, <1>5, <1>6, <1>8, <1>9, <1>10, StepKinds DEF Counting, Summing

LEMMA StartsTyped ==
  ASSUME Init
  PROVE  CTyped /\ \A x \in Slots : Total(x) = 0 /\ Ahead(x) = 0
<1> USE DEF Init, CInit
<1>1. CTyped
  BY DEF CTyped, Zero, Idle, Tails
<1>2. ASSUME NEW x \in Slots PROVE Total(x) = 0
  <2>1. \A c \in CPUs : Column(x)[c] = 0
    BY DEF Column, Zero
  <2> QED
    BY <2>1, CollectorAssumption, SumZero DEF Total
<1> QED
  BY <1>1, <1>2, NothingAhead

\* For any number of CPUs and over any restarts of the daemon, no counter falls
\* from one answer of Collect or readStatsMap to the next, unless the request
\* outlived the 5 s of Shutdown.
THEOREM CountersOnlyGrow == Spec => CountersNeverRegress
<1>1. Init => CTyped /\ Bounds
  <2> SUFFICES ASSUME Init PROVE CTyped /\ Bounds
    OBVIOUS
  <2>1. CTyped /\ \A x \in Slots : Total(x) = 0 /\ Ahead(x) = 0
    BY StartsTyped
  <2>2. \A x \in Slots : emitted[x] = 0 /\ sums[x] = 0
    BY DEF Init, CInit, Zero
  <2> QED
    BY <2>1, <2>2 DEF Bounds, Below, NotBehind
<1>2. CTyped /\ Bounds /\ [Next]_vars => CTyped' /\ Bounds'
  BY TypedKept, BoundsKept
<1>3. CTyped /\ Bounds /\ [Next]_vars =>
        [~late => \A x \in Slots : emitted'[x] >= emitted[x]]_cvars
  BY BoundsKept DEF Grows
<1> QED
  BY <1>1, <1>2, <1>3, PTL DEF Spec, CountersNeverRegress
--------------------------------------------------------------------------------
(* Outcomes and handshakes. *)

\* On each CPU the filter counts a handshake before its outcome.
Outcome == {<<2>>, <<3>>}
Owed(c) == IF run[c] \in Outcome THEN 1 ELSE 0
Earned ==
    \A c \in CPUs : stats[c][2] + stats[c][3] + Owed(c) <= stats[c][4] + stats[c][5]

\* A reading has either not come to the handshakes, or it has finished with the
\* outcomes, and will have found no more of them than of handshakes.
Seen ==
    ReadsStats /\ busy /\ ~late =>
        \/ sums[4] = 0 /\ sums[5] = 0 /\ Pending(4) = CPUs /\ Pending(5) = CPUs
        \/ /\ Pending(2) = {} /\ Pending(3) = {}
           /\ sums[2] + sums[3] <= (sums[4] + Ahead(4)) + (sums[5] + Ahead(5))

LEMMA SlotNumbers == 2 \in Slots /\ 3 \in Slots /\ 4 \in Slots /\ 5 \in Slots
BY CollectorAssumption

\* Where a path stands when an outcome is counted or comes next.
LEMMA OutcomeLast ==
  ASSUME NEW t \in Tails, t # <<>>
  PROVE  /\ Head(t) \in {2, 3} => t \in Outcome
         /\ t \in Outcome => Tail(t) = <<>>
         /\ Tail(t) \in Outcome => Head(t) \in {4, 5}
<1>1. CASE t \in {<<4>>, <<3>>, <<9>>, <<10>>, <<2>>}
  <2>2. PICK a \in {4, 3, 9, 10, 2} : t = <<a>>
    BY <1>1, Zenon
  <2>3. Head(t) = a /\ Tail(t) = <<>>
    BY <2>2
  <2>4. <<>> \notin Outcome
    BY DEF Outcome
  <2>5. Head(t) \in {2, 3} => t \in Outcome
    BY <2>2, <2>3 DEF Outcome
  <2> QED
    BY <2>3, <2>4, <2>5
<1>2. CASE t \in {<<0, 4>>, <<4, 3>>, <<4, 9>>, <<5, 3>>, <<5, 10>>, <<5, 2>>}
  <2> DEFINE a == t[1]
             b == t[2]
  <2>1. t = <<a, b>> /\ a \in {0, 4, 5} /\ (b \in {2, 3} => a # 0)
    BY <1>2
  <2> HIDE DEF a, b
  <2>2. Head(t) = a /\ Tail(t) = <<b>> /\ Len(t) = 2
    BY <2>1
  <2>3. t \notin Outcome
    <3>1. \A u \in Outcome : Len(u) = 1
      BY DEF Outcome
    <3> QED
      BY <2>2, <3>1
  <2>4. Tail(t) \in Outcome => b \in {2, 3}
    BY <2>2 DEF Outcome
  <2> QED
    BY <2>1, <2>2, <2>3, <2>4
<1>3. CASE t \in {<<0, 4, 3>>, <<0, 4, 9>>, <<0, 5, 3>>, <<0, 5, 10>>, <<0, 5, 2>>}
  <2>1. PICK a \in {4, 5}, b \in {3, 9, 10, 2} : t = <<0, a, b>>
    BY <1>3, Zenon
  <2>2. Head(t) = 0 /\ Tail(t) = <<a, b>> /\ Len(t) = 3 /\ Len(<<a, b>>) = 2
    BY <2>1
  <2>3. \A u \in Outcome : Len(u) = 1
    BY DEF Outcome
  <2>4. t \notin Outcome
    <3>1. Len(t) = 3
      BY <2>2
    <3> QED
      BY <2>3, <3>1
  <2>5. Tail(t) \notin Outcome
    <3> DEFINE u == Tail(t)
    <3>1. Len(u) = 2
      BY <2>2, Zenon
    <3> HIDE DEF u
    <3>2. u \notin Outcome
      BY <2>3, <3>1
    <3> QED
      BY <3>2 DEF u
  <2> QED
    BY <2>2, <2>4, <2>5
<1> QED
  BY <1>1, <1>2, <1>3, Zenon DEF Tails, Paths

LEMMA EarnedKept ==
  ASSUME CTyped, Earned, [Next]_vars
  PROVE  Earned'
<1> USE DEF program, scrape
<1>1. ASSUME UNCHANGED program PROVE Earned'
  BY <1>1 DEF Earned, Owed
<1>2. ASSUME NEW c \in CPUs, Arrives(c) PROVE Earned'
  <2>1. stats' = stats /\ \A d \in CPUs : d # c => run'[d] = run[d]
    BY <1>2 DEF Arrives, CTyped
  <2>2. run'[c] \in Paths /\ run[c] = <<>>
    BY <1>2 DEF Arrives, CTyped
  <2>3. \A t \in Paths \cup {<<>>} : t \notin Outcome
    BY DEF Paths, Outcome
  <2>4. \A d \in CPUs : Owed(d)' = Owed(d)
    BY <2>1, <2>2, <2>3 DEF Owed
  <2> QED
    BY <2>1, <2>4 DEF Earned
<1>3. ASSUME NEW c \in CPUs, stat_bump(c) PROVE Earned'
  <2> DEFINE h == Head(run[c])
  <2>1. \A d \in CPUs : d # c => run'[d] = run[d] /\ stats'[d] = stats[d]
    BY <1>3 DEF stat_bump, CTyped
  <2>2. stats'[c] = [x \in Slots |-> IF x = h THEN stats[c][x] + 1 ELSE stats[c][x]]
    BY <1>3 DEF stat_bump, CTyped
  <2>3. run'[c] = Tail(run[c]) /\ run[c] \in Tails /\ run[c] # <<>>
    BY <1>3 DEF stat_bump, CTyped
  <2>4. /\ h \in {2, 3} => run[c] \in Outcome
        /\ run[c] \in Outcome => run'[c] = <<>>
        /\ run'[c] \in Outcome => h \in {4, 5}
    BY <2>3, OutcomeLast
  <2>5. <<>> \notin Outcome
    BY DEF Outcome
  <2> HIDE DEF h
  <2>6. /\ h \in {2, 3} => Owed(c) = 1 /\ Owed(c)' = 0
        /\ h \notin {2, 3, 4, 5} => Owed(c)' = 0
        /\ Owed(c) \in {0, 1} /\ Owed(c)' \in {0, 1}
        /\ Owed(c) = 1 => Owed(c)' = 0
    BY <2>4, <2>5 DEF Owed
  <2>7. \A x \in {2, 3, 4, 5} : stats[c][x] \in Nat
    BY SlotNumbers DEF CTyped
  <2>8. \A x \in {2, 3, 4, 5} :
          stats'[c][x] = stats[c][x] + IF x = h THEN 1 ELSE 0
    BY <2>2, <2>7, SlotNumbers
  <2>9. stats[c][2] + stats[c][3] + Owed(c) <= stats[c][4] + stats[c][5]
    BY DEF Earned
  <2>10. stats'[c][2] + stats'[c][3] + Owed(c)' <= stats'[c][4] + stats'[c][5]
    <3> HIDE DEF Owed
    <3> QED
      BY <2>6, <2>7, <2>8, <2>9
  <2>11. \A d \in CPUs : d # c => Owed(d)' = Owed(d)
    BY <2>1 DEF Owed
  <2> QED
    BY <2>1, <2>10, <2>11 DEF Earned
<1>4. ASSUME Summing \/ cmdRun PROVE Earned'
  BY <1>1, <1>4 DEF Summing, SumBegin, SumRead, SumReadFails, SumEmit, cmdRun, Start,
                    Shutdown, Drained, DrainTimeout, Exit
<1>5. ASSUME Elsewhere PROVE Earned'
  BY <1>1, <1>5 DEF Elsewhere
<1> QED
  BY <1>2, <1>3, <1>4, <1>5, StepKinds DEF Counting

\* So it is for their totals.
LEMMA TotalsOrdered ==
  ASSUME CTyped, Earned
  PROVE  Total(2) + Total(3) <= Total(4) + Total(5)
<1> DEFINE f == [c \in CPUs |-> stats[c][2] + stats[c][3]]
           g == [c \in CPUs |-> stats[c][4] + stats[c][5]]
<1>1. \A x \in Slots : SumNat(Column(x), CPUs)
  BY ColumnNat
<1>2. \A c \in CPUs : \A x \in {2, 3, 4, 5} :
        stats[c][x] \in Nat /\ Column(x)[c] = stats[c][x]
  BY SlotNumbers DEF CTyped, Column
<1>3. \A c \in CPUs : Owed(c) \in {0, 1}
  BY DEF Owed
<1>4. \A c \in CPUs : f[c] \in Nat /\ g[c] \in Nat /\ f[c] <= g[c]
  BY <1>2, <1>3 DEF Earned
<1>5. \A c \in CPUs : f[c] = Column(2)[c] + Column(3)[c] /\ g[c] = Column(4)[c] + Column(5)[c]
  BY <1>2
<1>6. SumNat(f, CPUs) /\ SumNat(g, CPUs)
  BY <1>4, CollectorAssumption DEF SumNat
<1> HIDE DEF f, g
<1>7. SumFunctionOnSet(f, CPUs) <= SumFunctionOnSet(g, CPUs)
  BY <1>4, <1>6, SumMonotone
<1>8. SumFunctionOnSet(f, CPUs) = Total(2) + Total(3)
  BY <1>1, <1>5, SlotNumbers, SumPlus DEF Total
<1>9. SumFunctionOnSet(g, CPUs) = Total(4) + Total(5)
  BY <1>1, <1>5, SlotNumbers, SumPlus DEF Total
<1> QED
  BY <1>7, <1>8, <1>9

\* What a step may show in an answer.
Consistent ==
    ~late /\ emitted' # emitted =>
        emitted'[2] + emitted'[3] <= emitted'[4] + emitted'[5]

\* A reading that copies its first handshake is through with the outcomes.
LEMMA OutcomesFirst ==
  ASSUME CTyped, reads # {}, NextRead[1] >= 4
  PROVE  Pending(2) = {} /\ Pending(3) = {}
<1>1. NextRead \in reads /\ \A q \in reads \ {NextRead} : Before(NextRead, q)
  BY NextReadLeast
<1>2. NextRead[1] \in Nat
  BY <1>1, ReadTyped
<1> DEFINE n == NextRead[1]
<1>3. \A q \in reads : q[1] \in Nat /\ n <= q[1]
  <2> TAKE q \in reads
  <2>1. q[1] \in Nat
    BY ReadTyped
  <2>2. CASE q = NextRead
    BY <1>2, <2>2
  <2>3. CASE q # NextRead
    BY <1>1, <1>2, <2>1, <2>3 DEF Before
  <2> QED
    BY <2>1, <2>2, <2>3
<1> HIDE DEF n
<1>4. n \in Nat /\ n >= 4
  BY <1>2 DEF n
<1>5. \A x \in {2, 3}, c \in CPUs : <<x, c>> \notin reads
  <2> SUFFICES ASSUME NEW x \in {2, 3}, NEW c \in CPUs, <<x, c>> \in reads PROVE FALSE
    OBVIOUS
  <2>1. n <= <<x, c>>[1]
    BY <1>3
  <2> QED
    BY <1>4, <2>1
<1> QED
  BY <1>5 DEF Pending

LEMMA SeenKept ==
  ASSUME CTyped, Bounds, Earned, Seen, [Next]_vars
  PROVE  Seen' /\ Consistent
<1> USE DEF program, daemon, scrape
<1>a. \A x \in {2, 3, 4, 5} :
        /\ Total(x) \in Nat /\ Ahead(x) \in Nat /\ sums[x] \in Nat
        /\ sums[x] + Ahead(x) <= Total(x)
  BY SlotNumbers, TotalNat DEF CTyped, Bounds, Below
<1>b. Total(2) + Total(3) <= Total(4) + Total(5)
  BY TotalsOrdered
<1>c. emitted' = emitted => Consistent
  BY DEF Consistent
<1>1. ASSUME UNCHANGED <<job, stats, reads, sums, emitted>>,
             ReadsStats => busy' = busy /\ (late => late')
      PROVE  Seen' /\ Consistent
  <2>1. \A x : Ahead(x)' = Ahead(x) /\ Pending(x)' = Pending(x)
    BY <1>1, SameAhead
  <2>2. ReadsStats' = ReadsStats
    BY <1>1 DEF ReadsStats
  <2> HIDE DEF Pending, Ahead, ReadsStats
  <2> QED
    BY <1>1, <1>c, <2>1, <2>2 DEF Seen
<1>2. ASSUME NEW c \in CPUs, stat_bump(c) PROVE Seen' /\ Consistent
  <2>1. UNCHANGED <<job, busy, late, reads, sums, emitted>>
    BY <1>2 DEF stat_bump
  <2>2. ReadsStats' = ReadsStats
    BY <2>1 DEF ReadsStats
  <2>3. \A x \in {2, 3, 4, 5} : /\ Pending(x)' = Pending(x)
                                /\ Ahead(x)' \in Nat /\ Ahead(x) <= Ahead(x)'
    BY <1>2, SlotNumbers, BumpGrows
  <2> HIDE DEF Pending, Ahead, ReadsStats
  <2>4. (sums[4] + Ahead(4)) + (sums[5] + Ahead(5))
          <= (sums[4] + Ahead(4)') + (sums[5] + Ahead(5)')
    BY <1>a, <2>3
  <2>5. ASSUME sums[2] + sums[3] <= (sums[4] + Ahead(4)) + (sums[5] + Ahead(5))
        PROVE  sums[2] + sums[3] <= (sums[4] + Ahead(4)') + (sums[5] + Ahead(5)')
    BY <1>a, <2>3, <2>4, <2>5
  <2> QED
    BY <1>c, <2>1, <2>2, <2>3, <2>5 DEF Seen
<1>3. ASSUME SumBegin PROVE Seen' /\ Consistent
  <2>1. UNCHANGED <<sums, emitted>> /\ reads' = Slots \X CPUs /\ sums = Zero
    BY <1>3 DEF SumBegin, CTyped
  <2>2. Pending(4)' = CPUs /\ Pending(5)' = CPUs
    BY <2>1, SlotNumbers, AllAhead
  <2>3. sums'[4] = 0 /\ sums'[5] = 0
    BY <2>1, SlotNumbers DEF Zero
  <2> HIDE DEF Pending, Ahead, ReadsStats
  <2> QED
    BY <1>c, <2>1, <2>2, <2>3 DEF Seen
<1>4. ASSUME SumRead PROVE Seen' /\ Consistent
  <2>1. UNCHANGED <<job, emitted, busy, late>> /\ reads # {}
    BY <1>4 DEF SumRead
  <2>2. ReadsStats' = ReadsStats
    BY <2>1 DEF ReadsStats
  <2>3. \A x \in {2, 3, 4, 5} :
          /\ sums'[x] + Ahead(x)' = sums[x] + Ahead(x)
          /\ sums'[x] \in Nat /\ Ahead(x)' \in Nat
          /\ x # NextRead[1] => sums'[x] = sums[x] /\ Pending(x)' = Pending(x)
          /\ Pending(x)' \subseteq Pending(x)
    BY <1>4, <2>1, SlotNumbers, ReadMoves
  <2>4. NextRead[1] \in Nat
    BY <2>1, NextReadLeast, ReadTyped
  <2> DEFINE Passed == /\ Pending(2) = {} /\ Pending(3) = {}
                       /\ sums[2] + sums[3] <= (sums[4] + Ahead(4)) + (sums[5] + Ahead(5))
  <2>5. ASSUME Passed PROVE Passed'
    <3>1. Pending(2)' = {} /\ Pending(3)' = {}
      BY <2>3, <2>5
    <3>2. Ahead(2) = 0 /\ Ahead(3) = 0 /\ Ahead(2)' = 0 /\ Ahead(3)' = 0
      BY <2>5, <3>1, SumEmpty DEF Ahead
    <3> HIDE DEF Pending, Ahead
    <3>3. sums'[2] = sums[2] /\ sums'[3] = sums[3]
      BY <1>a, <2>3, <3>2
    <3>4. (sums'[4] + Ahead(4)') + (sums'[5] + Ahead(5)')
            = (sums[4] + Ahead(4)) + (sums[5] + Ahead(5))
      BY <2>3
    <3> QED
      BY <2>5, <3>1, <3>3, <3>4
  <2>6. ASSUME sums[4] = 0, sums[5] = 0, Pending(4) = CPUs, Pending(5) = CPUs,
               NextRead[1] >= 4
        PROVE  Passed
    <3>1. Pending(2) = {} /\ Pending(3) = {}
      BY <2>1, <2>6, OutcomesFirst
    <3>2. Ahead(4) = Total(4) /\ Ahead(5) = Total(5)
      BY <2>6 DEF Ahead, Total
    <3> HIDE DEF Pending, Ahead, Total
    <3>3. sums[2] <= Total(2) /\ sums[3] <= Total(3)
      BY <1>a
    <3>4. sums[2] + sums[3] <= Total(4) + Total(5)
      BY <1>a, <1>b, <3>3
    <3>5. (sums[4] + Ahead(4)) + (sums[5] + Ahead(5)) = Total(4) + Total(5)
      BY <1>a, <2>6, <3>2
    <3> QED
      BY <3>1, <3>4, <3>5
  <2>7. ASSUME sums[4] = 0, sums[5] = 0, Pending(4) = CPUs, Pending(5) = CPUs,
               ~(NextRead[1] >= 4)
        PROVE  sums'[4] = 0 /\ sums'[5] = 0 /\ Pending(4)' = CPUs /\ Pending(5)' = CPUs
    BY <2>3, <2>4, <2>7
  <2>8. Seen'
    <3> SUFFICES ASSUME ReadsStats', busy', ~late'
                 PROVE  \/ /\ sums'[4] = 0 /\ sums'[5] = 0
                           /\ Pending(4)' = CPUs /\ Pending(5)' = CPUs
                        \/ Passed'
      BY DEF Seen
    <3>1. \/ sums[4] = 0 /\ sums[5] = 0 /\ Pending(4) = CPUs /\ Pending(5) = CPUs
          \/ Passed
      BY <2>1, <2>2 DEF Seen
    <3> HIDE DEF Passed, Pending
    <3> QED
      BY <2>5, <2>6, <2>7, <3>1
  <2> QED
    BY <1>c, <2>1, <2>8
<1>5. ASSUME SumReadFails PROVE Seen' /\ Consistent
  <2>1. reads # {} /\ Unreadable /\ emitted' = emitted
    BY <1>5 DEF SumReadFails
  <2>2. late
    BY <2>1 DEF CTyped
  <2>3. busy' = FALSE \/ late'
    BY <1>5, <2>2 DEF SumReadFails
  <2> QED
    BY <1>c, <2>1, <2>3 DEF Seen
<1>6. ASSUME SumEmit PROVE Seen' /\ Consistent
  <2>1. ReadsStats /\ busy /\ reads = {} /\ emitted' = sums /\ busy' = FALSE
    BY <1>6 DEF SumEmit
  <2>2. \A x : Pending(x) = {} /\ Ahead(x) = 0
    BY <2>1, NothingAhead
  <2>3. ASSUME ~late PROVE sums[2] + sums[3] <= sums[4] + sums[5]
    <3>1. CASE CPUs = {}
      <4>1. Total(2) = 0 /\ Total(3) = 0
        BY <3>1, SumEmpty DEF Total
      <4> HIDE DEF Total, Ahead
      <4>2. sums[2] = 0 /\ sums[3] = 0
        BY <1>a, <2>2, <4>1
      <4> QED
        BY <1>a, <4>2
    <3>2. CASE CPUs # {}
      <4> HIDE DEF Total, Ahead, Pending
      <4>1. sums[2] + sums[3] <= (sums[4] + Ahead(4)) + (sums[5] + Ahead(5))
        BY <2>1, <2>2, <2>3, <3>2 DEF Seen
      <4> QED
        BY <1>a, <2>2, <4>1
    <3> QED
      BY <3>1, <3>2
  <2> QED
    BY <2>1, <2>3 DEF Seen, Consistent
<1>7. ASSUME cmdRun PROVE Seen' /\ Consistent
  <2>1. CASE Start \/ Shutdown \/ Drained \/ DrainTimeout
    BY <1>1, <2>1 DEF Start, Shutdown, Drained, DrainTimeout
  <2>2. CASE Exit
    <3>1. CASE UNCHANGED <<busy, late, reads, sums>>
      BY <1>1, <2>2, <3>1 DEF Exit
    <3>2. CASE busy' = FALSE
      BY <1>c, <2>2, <3>2 DEF Exit, Seen
    <3> QED
      BY <2>2, <3>1, <3>2 DEF Exit
  <2> QED
    BY <1>7, <2>1, <2>2 DEF cmdRun
<1>8. ASSUME NEW c \in CPUs, Arrives(c) PROVE Seen' /\ Consistent
  BY <1>1, <1>8 DEF Arrives
<1>9. ASSUME Elsewhere PROVE Seen' /\ Consistent
  BY <1>1, <1>9 DEF Elsewhere
<1> QED
  BY <1>2, <1>3, <1>4, <1>5, <1>6, <1>7, <1>8, <1>9, StepKinds DEF Counting, Summing

\* For any number of CPUs and whatever is counted while the slots are summed, an
\* answer of Collect or readStatsMap shows no more outcomes than handshakes,
\* unless the request outlived the 5 s of Shutdown.
THEOREM OutcomesNeverAhead == Spec => OutcomesWereSeen
<1> DEFINE I == CTyped /\ Bounds /\ Earned /\ Seen
<1>1. Init => I
  <2> SUFFICES ASSUME Init PROVE I
    OBVIOUS
  <2>1. CTyped /\ \A x \in Slots : Total(x) = 0 /\ Ahead(x) = 0
    BY StartsTyped
  <2>2. \A x \in Slots : emitted[x] = 0 /\ sums[x] = 0 /\ \A c \in CPUs : stats[c][x] = 0
    BY DEF Init, CInit, Zero
  <2>3. Bounds
    BY <2>1, <2>2 DEF Bounds, Below, NotBehind
  <2>4. Earned
    <3>1. \A c \in CPUs : Owed(c) = 0
      BY DEF Owed, Outcome, Init, CInit
    <3> QED
      BY <2>2, <3>1, SlotNumbers DEF Earned
  <2>5. Seen
    BY DEF Seen, Init, CInit
  <2> QED
    BY <2>1, <2>3, <2>4, <2>5
<1>2. I /\ [Next]_vars => I'
  BY TypedKept, BoundsKept, EarnedKept, SeenKept
<1>3. I /\ [Next]_vars =>
        [~late /\ emitted' # emitted =>
           emitted'[2] + emitted'[3] <= emitted'[4] + emitted'[5]]_cvars
  BY SeenKept DEF Consistent
<1> QED
  BY <1>1, <1>2, <1>3, PTL DEF Spec, OutcomesWereSeen
--------------------------------------------------------------------------------
(* Walks over a map. *)

\* The order of a walk: each key once, bucket by bucket.
IsChain(c) ==
    /\ c \in Seq(Keys)
    /\ \A i, j \in DOMAIN c : i < j => c[i] # c[j] /\ Bucket[c[i]] <= Bucket[c[j]]

Precedes(c, a, b) == \E i, j \in DOMAIN c : i < j /\ c[i] = a /\ c[j] = b

\* A job lists, looks up, counts, ranks or clears; it goes through the whole map or
\* is about one key; and only listings leave entries out.
JobSane ==
    ReadsStats \/
    /\ job.does \in {"list", "lookup", "gauge", "top", "clear", "clear_key"}
    /\ job.field \in {"any", "time", "amount", "ban"}
    /\ job.banned \in BOOLEAN
    /\ job.banned => job.field = "ban" /\ job.does = "list"
    /\ job.n \in Int
    /\ IF Iterates THEN job.keys = Keys ELSE \E k \in Keys : job.keys = {k}

\* The walk order names the keys of the map, never more than max_entries.
MapSane ==
    /\ now \in Nat
    /\ IsChain(chain) /\ Len(chain) <= MaxEntries
    /\ Present = ToSet(chain) /\ entry \in [Present -> Nat]

Row == [key : Keys, shown : Int]
Walks == [at : {"idle", "next", "look", "delete", "done"}, asOf : Nat,
          cursor : Keys \cup {NoKey}, count : Nat, rows : Seq(Row), err : BOOLEAN]

WalkSane ==
    /\ walk \in Walks
    /\ walk.asOf <= now
    /\ walk.at # "done" => ~walk.err
    /\ walk.at = "look" => Iterates
    /\ walk.at = "delete" => job.does = "clear"
    /\ ReadsStats => walk.at = "idle"
    /\ moved \in BOOLEAN
    /\ Walking => kept \subseteq Reportable

Sane == JobSane /\ MapSane /\ WalkSane

Scanning == Iterates /\ walk.at \in {"next", "look"}
Lists == job.does \in {"list", "lookup", "gauge"}

\* The cursor has passed no entry that has still to be reported.  Whether or not its
\* key is in the map, those entries are in its bucket or in a later one: a key that
\* is evicted and inserted again, at the head of its bucket, comes before them still.
NotPassed ==
    Scanning => \A k \in kept \ Listed :
        /\ walk.cursor \in Keys => Bucket[walk.cursor] <= Bucket[k]
        /\ walk.cursor \in Present =>
             Precedes(chain, walk.cursor, k) \/ (walk.at = "look" /\ k = walk.cursor)

\* As long as nothing is removed or replaced, the walk goes forward: it has made no
\* more steps than there are keys up to the cursor, so it is not aborted, and what
\* it has reported is behind it.
InOrder ==
    Scanning /\ ~moved =>
        \/ walk.at = "next" /\ walk.cursor = NoKey /\ walk.count = 0 /\ walk.rows = <<>>
        \/ /\ \E n \in DOMAIN chain : chain[n] = walk.cursor /\ walk.count <= n
           /\ \A k \in Listed : Precedes(chain, k, walk.cursor)
                                  \/ (walk.at = "next" /\ k = walk.cursor)

Once ==
    Lists /\ ~moved =>
        \A i, j \in DOMAIN walk.rows : i < j => walk.rows[i].key # walk.rows[j].key

\* top: a row of an entry that did not change shows what the entry says.
Fresh ==
    Scanning /\ job.does = "top" =>
        \A i \in DOMAIN walk.rows :
            walk.rows[i].key \in kept => walk.rows[i].shown = Shown(entry[walk.rows[i].key])

\* A finished walk has reported what it had to; clear has it still to delete.
Collected == walk.at = "delete" \/ (Done /\ Lists) => kept \subseteq Listed

ErrEarned == walk.err => walk.count = 0 \/ Unreadable \/ (moved /\ Aborted)

WalkInv == NotPassed /\ InOrder /\ Once /\ Fresh /\ Collected /\ ErrEarned
             /\ HotSourceShown /\ ClearSweeps

\* An entry the walk may come upon has been reportable at some moment since it
\* began, or is a ban that was over by the time the listing goes by.
Known ==
    /\ Walking => \A k \in Present \cap job.keys :
                    k \in ever \/ (job.banned /\ entry[k] <= walk.asOf)
    /\ Lists => Listed \subseteq ever

\* What the walk can see of a step that writes the map: elements that are neither
\* removed nor replaced stay where they are; others come before all they could hide.
Changes(gone, written) ==
    /\ Watched /\ UNCHANGED <<job, phase, walk>>
    /\ now' \in Nat /\ now <= now'
    /\ Present \ gone \subseteq Present'
    /\ \A k \in (Present \ gone) \ written : entry'[k] = entry[k]
    /\ \A a, b \in Present \ gone : Precedes(chain, a, b) => Precedes(chain', a, b)
    /\ \A a \in Present' \ (Present \ gone), b \in Present \ gone :
         Bucket[a] <= Bucket[b] => Precedes(chain', a, b)
    /\ gone = {} =>
         \A i \in DOMAIN chain : \E j \in DOMAIN chain' : i <= j /\ chain'[j] = chain[i]
    /\ job.field = "ban" => \A k \in Present' :
         \/ k \in Present /\ entry'[k] = entry[k]
         \/ entry'[k] = 0 \/ entry'[k] = now' + BanTime
    /\ Observe(gone, written)

--------------------------------------------------------------------------------
(* Chains. *)

\* What the two edits of a sequence return.
LEMMA RemoveAtElements ==
  ASSUME NEW c \in Seq(Keys), NEW n \in DOMAIN c
  PROVE  /\ RemoveAt(c, n) \in Seq(Keys) /\ Len(RemoveAt(c, n)) = Len(c) - 1
         /\ \A i \in 1..Len(c) - 1 : RemoveAt(c, n)[i] = IF i < n THEN c[i] ELSE c[i + 1]
<1> DEFINE a == SubSeq(c, 1, n - 1)
           b == SubSeq(c, n + 1, Len(c))
<1>1. Len(c) \in Nat /\ n \in 1..Len(c)
  OBVIOUS
<1>2. a \in Seq(Keys) /\ Len(a) = n - 1 /\ \A i \in 1..n - 1 : a[i] = c[i]
  BY <1>1
<1>3. b \in Seq(Keys) /\ Len(b) = Len(c) - n /\ \A i \in 1..Len(c) - n : b[i] = c[n + i]
  BY <1>1
<1>4. RemoveAt(c, n) = a \o b
  BY DEF RemoveAt
<1> HIDE DEF a, b
<1>5. a \o b \in Seq(Keys) /\ Len(a \o b) = Len(c) - 1
  BY <1>1, <1>2, <1>3
<1>6. ASSUME NEW i \in 1..Len(c) - 1
      PROVE  (a \o b)[i] = IF i < n THEN c[i] ELSE c[i + 1]
  <2>3. (a \o b)[i] = IF i <= Len(a) THEN a[i] ELSE b[i - Len(a)]
    <3>1. i \in 1..Len(a) + Len(b)
      BY <1>1, <1>2, <1>3
    <3> QED
      BY <1>2, <1>3, <3>1, ConcatProperties
  <2>1. CASE i < n
    BY <1>1, <1>2, <2>1, <2>3
  <2>2. CASE ~(i < n)
    <3>1. (a \o b)[i] = b[i - Len(a)]
      BY <1>1, <1>2, <2>2, <2>3
    <3>2. i - Len(a) \in 1..Len(c) - n /\ n + (i - Len(a)) = i + 1
      BY <1>1, <1>2, <2>2
    <3> QED
      BY <1>3, <2>2, <3>1, <3>2
  <2> QED
    BY <2>1, <2>2
<1> QED
  BY <1>4, <1>5, <1>6

LEMMA InsertAtElements ==
  ASSUME NEW c \in Seq(Keys), NEW n \in 1..Len(c) + 1, NEW k \in Keys
  PROVE  /\ InsertAt(c, n, k) \in Seq(Keys) /\ Len(InsertAt(c, n, k)) = Len(c) + 1
         /\ \A i \in 1..Len(c) + 1 :
              InsertAt(c, n, k)[i] = IF i < n THEN c[i] ELSE IF i = n THEN k ELSE c[i - 1]
<1> DEFINE a == SubSeq(c, 1, n - 1)
           b == SubSeq(c, n, Len(c))
<1>1. Len(c) \in Nat /\ n \in 1..Len(c) + 1
  OBVIOUS
<1>2. a \in Seq(Keys) /\ Len(a) = n - 1 /\ \A i \in 1..n - 1 : a[i] = c[i]
  BY <1>1
<1>3. b \in Seq(Keys) /\ Len(b) = Len(c) - n + 1 /\ \A i \in 1..Len(b) : b[i] = c[n - 1 + i]
  BY <1>1
<1>4. InsertAt(c, n, k) = a \o <<k>> \o b
  BY DEF InsertAt
<1> HIDE DEF a, b
<1> DEFINE d == a \o <<k>>
<1>5. /\ d \in Seq(Keys) /\ Len(d) = n /\ d[n] = k
      /\ \A i \in 1..n - 1 : d[i] = c[i]
  BY <1>1, <1>2
<1> HIDE DEF d
<1>6. d \o b \in Seq(Keys) /\ Len(d \o b) = Len(c) + 1
  <2>1. d \o b \in Seq(Keys) /\ Len(d \o b) = Len(d) + Len(b)
    BY <1>3, <1>5, ConcatProperties
  <2> QED
    BY <1>1, <1>3, <1>5, <2>1
<1>7. ASSUME NEW i \in 1..Len(c) + 1
      PROVE  (d \o b)[i] = IF i < n THEN c[i] ELSE IF i = n THEN k ELSE c[i - 1]
  <2>3. (d \o b)[i] = IF i <= n THEN d[i] ELSE b[i - n]
    <3>1. i \in 1..Len(d) + Len(b)
      BY <1>1, <1>3, <1>5
    <3>2. (d \o b)[i] = IF i <= Len(d) THEN d[i] ELSE b[i - Len(d)]
      BY <1>3, <1>5, <3>1, ConcatProperties
    <3> QED
      BY <1>5, <3>2
  <2>1. CASE i <= n
    BY <1>1, <1>5, <2>1, <2>3
  <2>2. CASE ~(i <= n)
    <3>1. (d \o b)[i] = b[i - n]
      BY <2>2, <2>3
    <3>2. i - n \in 1..Len(b) /\ n - 1 + (i - n) = i - 1
      BY <1>1, <1>3, <2>2
    <3> QED
      BY <1>1, <1>3, <2>2, <3>1, <3>2
  <2> QED
    BY <2>1, <2>2
<1> QED
  BY <1>4, <1>6, <1>7 DEF d

\* SelectInSeq finds a key that is there.
LEMMA Found ==
  ASSUME NEW c \in Seq(Keys), NEW k \in ToSet(c)
  PROVE  LET n == SelectInSeq(c, LAMBDA j : j = k) IN n \in DOMAIN c /\ c[n] = k
<1> DEFINE I == {i \in 1..Len(c) : c[i] = k}
<1>1. I # {} => Min(I) \in I
  <2>1. I \subseteq Nat
    OBVIOUS
  <2> HIDE DEF I
  <2> QED
    BY <2>1, LeastNumber DEF Min
<1>2. SelectInSeq(c, LAMBDA j : j = k) = IF I # {} THEN Min(I) ELSE 0
  BY DEF SelectInSeq
<1>3. I # {}
  BY DEF ToSet
<1> QED
  BY <1>1, <1>2, <1>3

\* Removing a key leaves the others in their order.
LEMMA UnlinkedChain ==
  ASSUME NEW c, IsChain(c), NEW k
  PROVE  /\ IsChain(Unlinked(c, k))
         /\ ToSet(Unlinked(c, k)) = ToSet(c) \ {k}
         /\ Len(Unlinked(c, k)) = Len(c) - IF k \in ToSet(c) THEN 1 ELSE 0
         /\ \A a, b : a # k /\ b # k /\ Precedes(c, a, b) => Precedes(Unlinked(c, k), a, b)
<1> DEFINE d == Unlinked(c, k)
           n == SelectInSeq(c, LAMBDA j : j = k)
<1>0. c \in Seq(Keys) /\ Len(c) \in Nat /\ DOMAIN c = 1..Len(c)
  BY DEF IsChain
<1>1. CASE k \notin ToSet(c)
  <2>1. d = c
    BY <1>0, <1>1 DEF Unlinked, RemoveFirst, ToSet
  <2> QED
    BY <1>0, <1>1, <2>1
<1>2. CASE k \in ToSet(c)
  <2>1. n \in DOMAIN c /\ c[n] = k
    BY <1>0, <1>2, Found
  <2>2. d = RemoveAt(c, n)
    BY <1>0, <2>1 DEF Unlinked, RemoveFirst
  <2> HIDE DEF n, d
  <2>3. /\ d \in Seq(Keys) /\ Len(d) = Len(c) - 1
        /\ \A i \in 1..Len(c) - 1 : d[i] = IF i < n THEN c[i] ELSE c[i + 1]
    BY <1>0, <2>1, <2>2, RemoveAtElements
  <2>4. DOMAIN d = 1..Len(c) - 1
    BY <2>3
  <2>5. \A i \in DOMAIN d : d[i] = c[IF i < n THEN i ELSE i + 1]
    BY <2>3, <2>4
  <2>6. \A i \in DOMAIN c : i # n =>
          /\ (IF i < n THEN i ELSE i - 1) \in DOMAIN d
          /\ d[IF i < n THEN i ELSE i - 1] = c[i]
    BY <1>0, <2>1, <2>3, <2>4
  <2>7. IsChain(d)
    <3> SUFFICES ASSUME NEW i \in DOMAIN d, NEW j \in DOMAIN d, i < j
                 PROVE  d[i] # d[j] /\ Bucket[d[i]] <= Bucket[d[j]]
      BY <2>3 DEF IsChain
    <3> DEFINE p == IF i < n THEN i ELSE i + 1
               q == IF j < n THEN j ELSE j + 1
    <3>1. p \in DOMAIN c /\ q \in DOMAIN c /\ p < q
      BY <1>0, <2>1, <2>4
    <3>2. d[i] = c[p] /\ d[j] = c[q]
      BY <2>5
    <3> HIDE DEF p, q
    <3> QED
      BY <3>1, <3>2 DEF IsChain
  <2>8. ToSet(d) = ToSet(c) \ {k}
    <3>1. ASSUME NEW i \in DOMAIN d PROVE d[i] \in ToSet(c) \ {k}
      <4> DEFINE p == IF i < n THEN i ELSE i + 1
      <4>1. p \in DOMAIN c /\ p # n /\ d[i] = c[p]
        BY <1>0, <2>1, <2>4, <2>5
      <4> HIDE DEF p
      <4>2. p < n \/ n < p
        BY <1>0, <2>1, <4>1
      <4>3. c[p] # c[n]
        BY <2>1, <4>1, <4>2 DEF IsChain
      <4> QED
        BY <2>1, <4>1, <4>3 DEF ToSet
    <3>2. ASSUME NEW i \in DOMAIN c, c[i] # k PROVE c[i] \in ToSet(d)
      BY <2>1, <2>6, <3>2 DEF ToSet
    <3> QED
      BY <3>1, <3>2 DEF ToSet
  <2>9. ASSUME NEW a, NEW b, a # k, b # k, Precedes(c, a, b) PROVE Precedes(d, a, b)
    <3>1. PICK i \in DOMAIN c, j \in DOMAIN c : i < j /\ c[i] = a /\ c[j] = b
      BY <2>9 DEF Precedes
    <3> DEFINE p == IF i < n THEN i ELSE i - 1
               q == IF j < n THEN j ELSE j - 1
    <3>2. i # n /\ j # n
      BY <2>1, <2>9, <3>1
    <3>3. p \in DOMAIN d /\ q \in DOMAIN d /\ d[p] = a /\ d[q] = b
      BY <2>6, <3>1, <3>2
    <3>4. p < q
      BY <1>0, <2>1, <3>1, <3>2
    <3> HIDE DEF p, q
    <3> QED
      BY <3>3, <3>4 DEF Precedes
  <2> QED
    BY <1>0, <1>2, <2>3, <2>7, <2>8, <2>9 DEF d
<1> QED
  BY <1>1, <1>2

\* There is one place for a new key: the head of its bucket.
LEMMA BucketHead ==
  ASSUME NEW c, IsChain(c), NEW k \in Keys
  PROVE  \E i \in 1..Len(c) + 1 :
           \A j \in DOMAIN c : Bucket[c[j]] < Bucket[k] <=> j < i
<1>0. c \in Seq(Keys) /\ Len(c) \in Nat /\ DOMAIN c = 1..Len(c)
  BY DEF IsChain
<1>1. \A j \in DOMAIN c : c[j] \in Keys /\ Bucket[c[j]] \in Nat
  BY <1>0, ReadersAssumption
<1>2. Bucket[k] \in Nat
  BY ReadersAssumption
<1> DEFINE T == {i \in 1..Len(c) + 1 : i = Len(c) + 1 \/ ~(Bucket[c[i]] < Bucket[k])}
<1>3. Len(c) + 1 \in T /\ T \subseteq Nat
  BY <1>0
<1>4. PICK i \in T : \A m \in T : i <= m
  <2> HIDE DEF T
  <2> QED
    BY <1>3, LeastNumber
<1>5. i \in 1..Len(c) + 1
  OBVIOUS
<1>6. ASSUME NEW j \in DOMAIN c, j < i PROVE Bucket[c[j]] < Bucket[k]
  <2>1. j \notin T
    BY <1>0, <1>4, <1>5, <1>6
  <2> QED
    BY <1>0, <2>1
<1>7. ASSUME NEW j \in DOMAIN c, ~(j < i) PROVE ~(Bucket[c[j]] < Bucket[k])
  <2>1. i \in DOMAIN c /\ ~(Bucket[c[i]] < Bucket[k]) /\ i <= j
    BY <1>0, <1>5, <1>7
  <2>2. Bucket[c[i]] <= Bucket[c[j]]
    BY <1>0, <1>1, <2>1 DEF IsChain
  <2> QED
    BY <1>1, <1>2, <2>1, <2>2
<1> QED
  BY <1>5, <1>6, <1>7

\* Linking a key, new or moved, leaves the others in their order and puts it before
\* all that are in its bucket or in a later one.  A new key moves others back.
LEMMA LinkedChain ==
  ASSUME NEW c, IsChain(c), NEW k \in Keys
  PROVE  LET d == Linked(c, Bucket, k)
         IN  /\ IsChain(d)
             /\ ToSet(d) = ToSet(c) \cup {k}
             /\ Len(d) = Len(c) + IF k \in ToSet(c) THEN 0 ELSE 1
             /\ \A a, b : a # k /\ b # k /\ Precedes(c, a, b) => Precedes(d, a, b)
             /\ \A b \in ToSet(c) \ {k} : Bucket[k] <= Bucket[b] => Precedes(d, k, b)
             /\ k \notin ToSet(c) =>
                  \A i \in DOMAIN c : \E j \in DOMAIN d : i <= j /\ d[j] = c[i]
<1> DEFINE rest == Unlinked(c, k)
           n == CHOOSE i \in 1..Len(rest) + 1 :
                  \A j \in DOMAIN rest : Bucket[rest[j]] < Bucket[k] <=> j < i
           d == Linked(c, Bucket, k)
<1>1. /\ IsChain(rest) /\ ToSet(rest) = ToSet(c) \ {k}
      /\ Len(rest) = Len(c) - IF k \in ToSet(c) THEN 1 ELSE 0
      /\ \A a, b : a # k /\ b # k /\ Precedes(c, a, b) => Precedes(rest, a, b)
  BY UnlinkedChain
<1>2. k \notin ToSet(c) => rest = c
  BY DEF Unlinked, RemoveFirst, ToSet, IsChain
<1>3. d = InsertAt(rest, n, k)
  BY DEF Linked
<1> HIDE DEF rest
<1>4. /\ n \in 1..Len(rest) + 1
      /\ \A j \in DOMAIN rest : Bucket[rest[j]] < Bucket[k] <=> j < n
  BY <1>1, BucketHead
<1> HIDE DEF n, d
<1>5. /\ rest \in Seq(Keys) /\ Len(rest) \in Nat /\ DOMAIN rest = 1..Len(rest)
      /\ Len(c) \in Nat
  BY <1>1 DEF IsChain
<1>6. /\ d \in Seq(Keys) /\ Len(d) = Len(rest) + 1
      /\ \A i \in 1..Len(rest) + 1 :
           d[i] = IF i < n THEN rest[i] ELSE IF i = n THEN k ELSE rest[i - 1]
  <2>1. /\ InsertAt(rest, n, k) \in Seq(Keys) /\ Len(InsertAt(rest, n, k)) = Len(rest) + 1
        /\ \A i \in 1..Len(rest) + 1 :
             InsertAt(rest, n, k)[i]
               = IF i < n THEN rest[i] ELSE IF i = n THEN k ELSE rest[i - 1]
    BY <1>4, <1>5, InsertAtElements
  <2> QED
    BY <1>3, <2>1, Zenon
<1>7. DOMAIN d = 1..Len(rest) + 1 /\ n \in DOMAIN d /\ d[n] = k
  BY <1>4, <1>5, <1>6
<1>8. \A i \in DOMAIN d : i # n =>
        /\ (IF i < n THEN i ELSE i - 1) \in DOMAIN rest
        /\ d[i] = rest[IF i < n THEN i ELSE i - 1]
  BY <1>4, <1>5, <1>6, <1>7
<1>9. \A i \in DOMAIN rest :
        /\ (IF i < n THEN i ELSE i + 1) \in DOMAIN d
        /\ d[IF i < n THEN i ELSE i + 1] = rest[i]
  BY <1>4, <1>5, <1>6, <1>7
<1>10. \A i \in DOMAIN rest : rest[i] # k /\ rest[i] \in Keys /\ Bucket[rest[i]] \in Nat
  <2> TAKE i \in DOMAIN rest
  <2>1. rest[i] \in ToSet(rest)
    BY DEF ToSet
  <2>2. rest[i] # k
    BY <1>1, <2>1
  <2>3. rest[i] \in Keys
    BY <1>5
  <2> QED
    BY <2>2, <2>3, ReadersAssumption
<1>11. Bucket[k] \in Nat
  BY ReadersAssumption
<1>12. IsChain(d)
  <2> SUFFICES ASSUME NEW i \in DOMAIN d, NEW j \in DOMAIN d, i < j
               PROVE  d[i] # d[j] /\ Bucket[d[i]] <= Bucket[d[j]]
    BY <1>6 DEF IsChain
  <2> DEFINE p == IF i < n THEN i ELSE i - 1
             q == IF j < n THEN j ELSE j - 1
  <2>0. i \in Nat /\ j \in Nat /\ n \in Nat
    BY <1>5, <1>7
  <2>1. CASE i = n
    <3>1. q \in DOMAIN rest /\ d[j] = rest[q] /\ ~(q < n)
      BY <1>8, <2>0, <2>1
    <3> HIDE DEF q
    <3> QED
      BY <1>4, <1>7, <1>10, <1>11, <2>1, <3>1
  <2>2. CASE j = n
    <3>1. p \in DOMAIN rest /\ d[i] = rest[p] /\ p < n
      BY <1>8, <2>0, <2>2
    <3> HIDE DEF p
    <3> QED
      BY <1>4, <1>7, <1>10, <1>11, <2>2, <3>1
  <2>3. CASE i # n /\ j # n
    <3>1. p \in DOMAIN rest /\ q \in DOMAIN rest /\ d[i] = rest[p] /\ d[j] = rest[q]
      BY <1>8, <2>3
    <3>2. p < q
      BY <2>0, <2>3
    <3> HIDE DEF p, q
    <3> QED
      BY <1>1, <3>1, <3>2 DEF IsChain
  <2> QED
    BY <2>1, <2>2, <2>3
<1>13. ToSet(d) = ToSet(c) \cup {k}
  <2>1. \A i \in DOMAIN d : d[i] = k \/ d[i] \in ToSet(rest)
    BY <1>7, <1>8 DEF ToSet
  <2>2. \A i \in DOMAIN rest : rest[i] \in ToSet(d)
    BY <1>9 DEF ToSet
  <2>3. k \in ToSet(d)
    BY <1>7 DEF ToSet
  <2>4. ToSet(d) = ToSet(rest) \cup {k}
    BY <2>1, <2>2, <2>3 DEF ToSet
  <2> HIDE DEF ToSet
  <2> QED
    BY <1>1, <2>4
<1>14. ASSUME NEW a, NEW b, a # k, b # k, Precedes(c, a, b) PROVE Precedes(d, a, b)
  <2>1. PICK i \in DOMAIN rest, j \in DOMAIN rest : i < j /\ rest[i] = a /\ rest[j] = b
    BY <1>1, <1>14 DEF Precedes
  <2> DEFINE p == IF i < n THEN i ELSE i + 1
             q == IF j < n THEN j ELSE j + 1
  <2>2. p \in DOMAIN d /\ q \in DOMAIN d /\ d[p] = a /\ d[q] = b
    BY <1>9, <2>1
  <2>3. p < q
    BY <1>4, <1>5, <2>1
  <2> HIDE DEF p, q
  <2> QED
    BY <2>2, <2>3 DEF Precedes
<1>15. ASSUME NEW b \in ToSet(c) \ {k}, Bucket[k] <= Bucket[b] PROVE Precedes(d, k, b)
  <2>1. PICK i \in DOMAIN rest : rest[i] = b
    BY <1>1 DEF ToSet
  <2>2. ~(i < n)
    BY <1>4, <1>10, <1>11, <1>15, <2>1
  <2>3. i + 1 \in DOMAIN d /\ d[i + 1] = b /\ n < i + 1
    BY <1>4, <1>5, <1>9, <2>1, <2>2
  <2> QED
    BY <1>7, <2>3 DEF Precedes
<1>16. ASSUME k \notin ToSet(c), NEW i \in DOMAIN c
       PROVE  \E j \in DOMAIN d : i <= j /\ d[j] = c[i]
  <2>1. rest = c
    BY <1>2, <1>16
  <2> DEFINE p == IF i < n THEN i ELSE i + 1
  <2>2. p \in DOMAIN d /\ d[p] = c[i]
    BY <1>9, <2>1
  <2>3. i <= p
    BY <1>5, <2>1
  <2> HIDE DEF p
  <2> QED
    BY <2>2, <2>3
<1>17. Len(d) = Len(c) + IF k \in ToSet(c) THEN 0 ELSE 1
  BY <1>1, <1>5, <1>6
<1> QED
  BY <1>12, <1>13, <1>14, <1>15, <1>16, <1>17 DEF d

\* What the kernel answers: the next key, the first if the cursor is gone.
LEMMA NextKeyOf ==
  ASSUME NEW c, IsChain(c), NEW k
  PROVE  LET n == NextKey(c, k)
         IN  \/ n = NoKey /\ Len(c) = 0
             \/ n = NoKey /\ Len(c) \in DOMAIN c /\ c[Len(c)] = k
             \/ n # NoKey /\ k \notin ToSet(c) /\ 1 \in DOMAIN c /\ n = c[1]
             \/ n # NoKey /\ \E i \in DOMAIN c : c[i] = k /\ i + 1 \in DOMAIN c /\ n = c[i + 1]
<1> DEFINE i == SelectInSeq(c, LAMBDA j : j = k)
<1>0. c \in Seq(Keys) /\ Len(c) \in Nat /\ DOMAIN c = 1..Len(c)
  BY DEF IsChain
<1>1. /\ k \in ToSet(c) => i \in DOMAIN c /\ c[i] = k
      /\ k \notin ToSet(c) => i = 0
  <2>1. k \in ToSet(c) => i \in DOMAIN c /\ c[i] = k
    BY <1>0, Found
  <2>2. k \notin ToSet(c) => i = 0
    BY <1>0 DEF SelectInSeq, ToSet
  <2> QED
    BY <2>1, <2>2
<1>2. NextKey(c, k) = IF i < Len(c) THEN c[i + 1] ELSE NoKey
  BY DEF NextKey
<1> HIDE DEF i
<1>3. \A j \in DOMAIN c : c[j] # NoKey
  BY <1>0, ReadersAssumption
<1>4. CASE k \in ToSet(c)
  BY <1>0, <1>1, <1>2, <1>3, <1>4
<1>5. CASE k \notin ToSet(c)
  BY <1>0, <1>1, <1>2, <1>3, <1>5
<1> QED
  BY <1>4, <1>5

\* A sequence without repetitions has as many elements as it has places.
LEMMA DistinctCount ==
  ASSUME NEW n \in Nat, NEW f, DOMAIN f = 1..n, \A i, j \in 1..n : i < j => f[i] # f[j]
  PROVE  Cardinality({f[i] : i \in 1..n}) = n /\ IsFiniteSet({f[i] : i \in 1..n})
<1> DEFINE T == {f[i] : i \in 1..n}
           g == [i \in 1..n |-> f[i]]
<1>1. g \in Surjection(1..n, T)
  BY DEF Surjection
<1>2. g \in Injection(1..n, T)
  <2>1. g \in [1..n -> T]
    OBVIOUS
  <2>2. ASSUME NEW i \in 1..n, NEW j \in 1..n, g[i] = g[j] PROVE i = j
    <3>1. i < j \/ i = j \/ j < i
      OBVIOUS
    <3> QED
      BY <2>2, <3>1
  <2> QED
    BY <2>1, <2>2 DEF Injection, IsInjective
<1>3. IsFiniteSet(1..n) /\ Cardinality(1..n) = n
  BY FS_Interval
<1> HIDE DEF T, g
<1>4. IsFiniteSet(T) /\ (Cardinality(T) = Cardinality(1..n) <=> g \in Injection(1..n, T))
  BY <1>1, <1>3, FS_Surjection
<1> QED
  BY <1>2, <1>3, <1>4 DEF T

\* A chain over a set of keys holds all of them.
LEMMA ChainsHold ==
  ASSUME NEW s, s \subseteq Keys, NEW c \in Chains(s, Bucket)
  PROVE  IsChain(c) /\ ToSet(c) = s /\ Len(c) = Cardinality(s)
<1> DEFINE n == Cardinality(s)
<1>1. IsFiniteSet(s) /\ n \in Nat
  BY ReadersAssumption, FS_Subset, FS_CardinalityType
<1>2. /\ c \in [1..n -> s]
      /\ \A i, j \in 1..n : i # j => c[i] # c[j]
      /\ \A i, j \in DOMAIN c : i < j => Bucket[c[i]] <= Bucket[c[j]]
  BY DEF Chains, SetToSeqs
<1> HIDE DEF n
<1>3. c \in Seq(Keys) /\ Len(c) = n /\ DOMAIN c = 1..n
  BY <1>1, <1>2
<1>4. IsChain(c)
  BY <1>2, <1>3 DEF IsChain
<1>5. IsFiniteSet(ToSet(c)) /\ Cardinality(ToSet(c)) = n
  <2>1. \A i, j \in 1..n : i < j => c[i] # c[j]
    BY <1>1, <1>2
  <2> QED
    BY <1>1, <1>3, <2>1, DistinctCount DEF ToSet
<1>6. ToSet(c) \subseteq s
  BY <1>2 DEF ToSet
<1>7. ToSet(c) = s
  <2> HIDE DEF ToSet
  <2> QED
    BY <1>1, <1>5, <1>6, FS_Subset DEF n
<1> QED
  BY <1>3, <1>4, <1>7 DEF n

\* A key has one place.
LEMMA PlaceOf ==
  ASSUME NEW c, IsChain(c), NEW i \in DOMAIN c, NEW k
  PROVE  /\ Precedes(c, c[i], k) => \E j \in DOMAIN c : i < j /\ c[j] = k
         /\ Precedes(c, k, c[i]) => \E j \in DOMAIN c : j < i /\ c[j] = k
<1>0. c \in Seq(Keys) /\ DOMAIN c = 1..Len(c) /\ Len(c) \in Nat
  BY DEF IsChain
<1>1. \A j \in DOMAIN c : c[j] = c[i] => j = i
  <2> SUFFICES ASSUME NEW j \in DOMAIN c, c[j] = c[i], j # i PROVE FALSE
    OBVIOUS
  <2>1. i < j \/ j < i
    BY <1>0
  <2> QED
    BY <2>1 DEF IsChain
<1> QED
  BY <1>1 DEF Precedes
--------------------------------------------------------------------------------
(* Jobs. *)

\* Each command and each endpoint is such a job.
LEMMA JobsSane ==
  ASSUME job \in Jobs
  PROVE  JobSane
<1> DEFINE Fits(j) ==
             j.does = "sum" \/
             /\ j.does \in {"list", "lookup", "gauge", "top", "clear", "clear_key"}
             /\ j.field \in {"any", "time", "amount", "ban"}
             /\ j.banned \in BOOLEAN
             /\ j.banned => j.field = "ban" /\ j.does = "list"
             /\ j.n \in Int
             /\ IF j.does \notin {"lookup", "clear_key"} THEN j.keys = Keys
                ELSE \E k \in Keys : j.keys = {k}
<1> USE DEF Rows
<1>1. Fits(Collect) /\ \A h : Fits(readStatsMap(h))
  BY DEF Collect, readStatsMap
<1>2. \A h : \A f \in {"any", "time", "amount", "ban"} :
        /\ Fits(Rows(h, f))
        /\ Fits([Rows(h, "ban") EXCEPT !.banned = TRUE])
        /\ Fits([Rows(h, "ban") EXCEPT !.banned = FALSE])
        /\ Fits([Rows(h, f) EXCEPT !.does = "gauge"])
        /\ Fits([Rows(h, f) EXCEPT !.does = "clear"])
  OBVIOUS
<1>3. \A h : \A f \in {"any", "time", "amount", "ban"}, k \in Keys : Fits(LookupOf(h, f, k))
  BY DEF LookupOf
<1>4. \A f \in {"any", "time", "amount", "ban"} : \A o : \A n \in Int : Fits(Ranked(f, o, n))
  BY DEF Ranked
<1>5. \A k \in Keys : Fits(clearMapKey(k))
  BY DEF clearMapKey, clearMap
<1> HIDE DEF Fits, Rows
<1>6. \A j \in cmdTop : Fits(j)
  BY <1>4, ReadersAssumption
     DEF cmdTop, topTimestamp, topCount, topRatelimit, topHealth, topConnLimit,
         topDropHistory
<1>7. \A j \in cmdDump : Fits(j)
  BY <1>2 DEF cmdDump, dumpTimestampMap, dumpCountMap, dumpRatelimitMap, dumpHealthMap,
              dumpDropHistoryMap
<1>8. \A j \in cmdInspect : Fits(j)
  BY <1>3 DEF cmdInspect, inspectTimestamp, inspectCount, inspectRatelimit,
              inspectConnLimit, inspectHealth, inspectDropHistory
<1>9. \A j \in handleIPLookup : Fits(j)
  BY <1>3 DEF handleIPLookup, lookupTimestamp, lookupCount, lookupRatelimit,
              lookupConnLimit, lookupHealth, lookupDropHistory
<1>10. \A j \in cmdClear : Fits(j)
  BY <1>2, <1>5 DEF cmdClear, clearMap
<1>11. \A j \in cmdInfo \cup handleInfo \cup refreshSizes \cup {cmdStats} : Fits(j)
  BY <1>1, <1>2 DEF cmdInfo, handleInfo, refreshSizes, cmdStats, mapEntryCount,
                    blacklistedNow, mapPopulations, readCounters, countHealth, countKeys
<1>12. Fits(cmdHealth(TRUE)) /\ Fits(cmdHealth(FALSE))
  BY <1>2 DEF cmdHealth
<1>13. \A j \in registerAPI : Fits(j)
  <2>1. Fits(handleTimestampMap) /\ Fits(handleCountMap) /\ Fits(handleDropHistory)
    BY <1>2 DEF handleTimestampMap, handleCountMap, handleDropHistory
  <2>2. Fits(handleBlacklist)
    BY <1>2 DEF handleBlacklist
  <2>3. Fits(handleHealth(TRUE)) /\ Fits(handleHealth(FALSE))
    BY <1>2 DEF handleHealth
  <2>4. Fits(handleStats)
    BY <1>1 DEF handleStats, readCounters
  <2>5. \A j \in handleTop \cup handleIPLookup \cup handleInfo : Fits(j)
    BY <1>6, <1>9, <1>11 DEF handleTop
  <2> QED
    BY <2>1, <2>2, <2>3, <2>4, <2>5, Zenon DEF registerAPI
<1>14. Fits(job)
  BY <1>1, <1>6, <1>7, <1>8, <1>10, <1>11, <1>12, <1>13, Zenon DEF Jobs
<1> QED
  BY <1>14 DEF Fits, JobSane, ReadsStats, Iterates
--------------------------------------------------------------------------------
(* What the writers of the map do to a walk. *)

LEMMA ValuesNat ==
  ASSUME JobSane, MapSane, ~ReadsStats
  PROVE  /\ Created \subseteq Nat /\ Changed \subseteq Nat
         /\ job.field = "ban" => Created = {0} /\ Changed = {now + BanTime}
<1>1. job.field \in {"any", "time", "amount", "ban"} /\ now \in Nat
  BY DEF JobSane, MapSane
<1>2. Created \subseteq Nat
  BY <1>1, ReadersAssumption DEF Created
<1>3. Changed \subseteq Nat
  BY <1>1, ReadersAssumption DEF Changed
<1> QED
  BY <1>1, <1>2, <1>3 DEF Created, Changed

LEMMA DelOut ==
  ASSUME NEW e, NEW k, e \in [DOMAIN e -> Nat]
  PROVE  /\ DOMAIN Del(e, k) = DOMAIN e \ {k}
         /\ Del(e, k) \in [DOMAIN e \ {k} -> Nat]
         /\ \A j \in DOMAIN e : j # k => Del(e, k)[j] = e[j]
BY DEF Del

LEMMA UpdateChanges ==
  ASSUME Sane, NEW k \in Keys, bpf_map_update_elem(k)
  PROVE  MapSane' /\ Changes({k} \cap Present, {k})
<1> USE DEF daemon
<1>1. /\ Watched /\ UNCHANGED <<job, phase, walk, now>> /\ Observe({k} \cap Present, {k})
      /\ chain' = Linked(chain, Bucket, k) /\ (k \in Present \/ Len(chain) < MaxEntries)
  BY DEF bpf_map_update_elem
<1>2. /\ now \in Nat /\ IsChain(chain) /\ Len(chain) <= MaxEntries /\ Len(chain) \in Nat
      /\ Present = ToSet(chain) /\ entry \in [DOMAIN entry -> Nat] /\ MaxEntries \in Nat
  BY ReadersAssumption, FS_CardinalityType DEF Sane, MapSane, IsChain, Present
<1>3. PICK v \in Created : entry' = Put(entry, k, v)
  BY DEF bpf_map_update_elem
<1>4. v \in Nat /\ (job.field = "ban" => v = 0)
  BY <1>1, ValuesNat DEF Sane, Watched
<1>5. /\ Present' = Present \cup {k} /\ entry' \in [Present' -> Nat]
      /\ entry'[k] = v /\ \A j \in Present : j # k => entry'[j] = entry[j]
  BY <1>2, <1>3, <1>4 DEF Present, Put
<1>6. /\ IsChain(chain') /\ ToSet(chain') = ToSet(chain) \cup {k}
      /\ Len(chain') = Len(chain) + IF k \in ToSet(chain) THEN 0 ELSE 1
      /\ \A a, b : a # k /\ b # k /\ Precedes(chain, a, b) => Precedes(chain', a, b)
      /\ \A b \in ToSet(chain) \ {k} : Bucket[k] <= Bucket[b] => Precedes(chain', k, b)
      /\ k \notin ToSet(chain) =>
           \A i \in DOMAIN chain : \E j \in DOMAIN chain' : i <= j /\ chain'[j] = chain[i]
  BY <1>1, <1>2, LinkedChain
<1> HIDE DEF Present
<1>7. MapSane'
  BY <1>1, <1>2, <1>5, <1>6 DEF MapSane
<1> DEFINE gone == {k} \cap Present
<1>8. Present \ gone = Present \ {k} /\ Present' \ (Present \ gone) = {k}
  BY <1>5
<1>9. gone = {} => k \notin ToSet(chain)
  BY <1>2
<1>10. \A j \in Present \ gone : j # k
  OBVIOUS
<1> HIDE DEF gone
<1> QED
  BY <1>1, <1>2, <1>4, <1>5, <1>6, <1>7, <1>8, <1>9, <1>10 DEF Changes, gone

LEMMA EvictChanges ==
  ASSUME Sane, NEW k \in Keys, NEW lru \in Keys, EvictFor(k, lru)
  PROVE  MapSane' /\ Changes({lru}, {k})
<1> USE DEF daemon
<1> DEFINE rest == Unlinked(chain, lru)
<1>1. /\ Watched /\ UNCHANGED <<job, phase, walk, now>> /\ Observe({lru}, {k})
      /\ chain' = Linked(rest, Bucket, k)
      /\ k \notin Present /\ lru \in Present
  BY DEF EvictFor
<1>2. /\ now \in Nat /\ IsChain(chain) /\ Len(chain) <= MaxEntries /\ Len(chain) \in Nat
      /\ Present = ToSet(chain) /\ entry \in [DOMAIN entry -> Nat]
  BY DEF Sane, MapSane, IsChain, Present
<1>3. PICK v \in Created : entry' = Put(Del(entry, lru), k, v)
  BY DEF EvictFor
<1>4. v \in Nat /\ (job.field = "ban" => v = 0)
  BY <1>1, ValuesNat DEF Sane, Watched
<1>5. /\ DOMAIN Del(entry, lru) = Present \ {lru}
      /\ Del(entry, lru) \in [DOMAIN Del(entry, lru) -> Nat]
      /\ \A j \in Present : j # lru => Del(entry, lru)[j] = entry[j]
  BY <1>2, DelOut DEF Present
<1>6. /\ Present' = (Present \ {lru}) \cup {k} /\ entry' \in [Present' -> Nat]
      /\ entry'[k] = v /\ \A j \in Present \ {lru} : entry'[j] = entry[j]
  <2> DEFINE e == Del(entry, lru)
  <2>1. e \in [DOMAIN e -> Nat] /\ DOMAIN e = Present \ {lru}
        /\ \A j \in Present : j # lru => e[j] = entry[j]
    BY <1>5
  <2>2. entry' = Put(e, k, v) /\ Present' = DOMAIN entry' /\ k \notin DOMAIN e
    BY <1>1, <1>3, <2>1 DEF Present
  <2> HIDE DEF e, Present
  <2> QED
    BY <1>4, <2>1, <2>2 DEF Put
<1> HIDE DEF Present
<1>7. /\ IsChain(rest) /\ ToSet(rest) = ToSet(chain) \ {lru} /\ Len(rest) = Len(chain) - 1
      /\ \A a, b : a # lru /\ b # lru /\ Precedes(chain, a, b) => Precedes(rest, a, b)
  BY <1>1, <1>2, UnlinkedChain
<1> HIDE DEF rest
<1>8. k \notin ToSet(rest)
  BY <1>1, <1>2, <1>7
<1>9. /\ IsChain(chain') /\ ToSet(chain') = ToSet(rest) \cup {k}
      /\ Len(chain') = Len(rest) + 1
      /\ \A a, b : a # k /\ b # k /\ Precedes(rest, a, b) => Precedes(chain', a, b)
      /\ \A b \in ToSet(rest) \ {k} : Bucket[k] <= Bucket[b] => Precedes(chain', k, b)
  BY <1>1, <1>7, <1>8, LinkedChain
<1>10. MapSane'
  BY <1>1, <1>2, <1>6, <1>7, <1>9 DEF MapSane
<1>11. Present' \ (Present \ {lru}) = {k} /\ \A j \in Present \ {lru} : j # k /\ j # lru
  BY <1>1, <1>6
<1> QED
  BY <1>1, <1>2, <1>4, <1>6, <1>7, <1>9, <1>10, <1>11 DEF Changes

LEMMA WriteChanges ==
  ASSUME Sane, NEW k \in Keys, WriteElem(k)
  PROVE  MapSane' /\ Changes({}, {k})
<1> USE DEF daemon
<1>1. /\ Watched /\ UNCHANGED <<job, phase, walk, now, chain>> /\ Observe({}, {k})
      /\ k \in Present
  BY DEF WriteElem
<1>2. /\ now \in Nat /\ IsChain(chain) /\ Len(chain) <= MaxEntries /\ DOMAIN chain \subseteq Nat
      /\ Present = ToSet(chain) /\ entry \in [DOMAIN entry -> Nat]
  BY DEF Sane, MapSane, IsChain, Present
<1>3. PICK v \in Changed : entry' = Put(entry, k, v)
  BY DEF WriteElem
<1>4. v \in Nat /\ (job.field = "ban" => v = now + BanTime)
  BY <1>1, ValuesNat DEF Sane, Watched
<1>5. /\ Present' = Present /\ entry' \in [Present' -> Nat]
      /\ entry'[k] = v /\ \A j \in Present : j # k => entry'[j] = entry[j]
  BY <1>1, <1>2, <1>3, <1>4 DEF Present, Put
<1> HIDE DEF Present
<1>6. MapSane'
  BY <1>1, <1>2, <1>5 DEF MapSane
<1>7. Present' \ (Present \ {}) = {}
  BY <1>5
<1> QED
  BY <1>1, <1>2, <1>4, <1>5, <1>6, <1>7 DEF Changes

LEMMA DeleteChanges ==
  ASSUME Sane, NEW k \in Keys, bpf_map_delete_elem(k)
  PROVE  MapSane' /\ Changes({k}, {})
<1> USE DEF daemon
<1>1. /\ Watched /\ UNCHANGED <<job, phase, walk, now>> /\ Observe({k}, {})
      /\ k \in Present /\ chain' = Unlinked(chain, k) /\ entry' = Del(entry, k)
  BY DEF bpf_map_delete_elem
<1>2. /\ now \in Nat /\ IsChain(chain) /\ Len(chain) <= MaxEntries /\ Len(chain) \in Nat
      /\ Present = ToSet(chain) /\ entry \in [DOMAIN entry -> Nat] /\ MaxEntries \in Nat
  BY ReadersAssumption, FS_CardinalityType DEF Sane, MapSane, IsChain, Present
<1>3. /\ Present' = Present \ {k} /\ entry' \in [Present' -> Nat]
      /\ \A j \in Present : j # k => entry'[j] = entry[j]
  BY <1>1, <1>2, DelOut DEF Present
<1> HIDE DEF Present
<1>4. /\ IsChain(chain') /\ ToSet(chain') = ToSet(chain) \ {k} /\ Len(chain') = Len(chain) - 1
      /\ \A a, b : a # k /\ b # k /\ Precedes(chain, a, b) => Precedes(chain', a, b)
  BY <1>1, <1>2, UnlinkedChain
<1>5. MapSane'
  BY <1>1, <1>2, <1>3, <1>4 DEF MapSane
<1> QED
  BY <1>1, <1>2, <1>3, <1>4, <1>5 DEF Changes

LEMMA TickChanges ==
  ASSUME Sane, Tick
  PROVE  MapSane' /\ Changes({}, {})
<1> USE DEF cvars, daemon
<1>1. /\ Watched /\ UNCHANGED <<job, phase, walk, chain, entry>> /\ Observe({}, {})
      /\ now' = now + 1
  BY DEF Tick
<1>2. Present' = Present /\ now \in Nat /\ DOMAIN chain \subseteq Nat
  BY <1>1 DEF Present, Sane, MapSane, IsChain
<1> HIDE DEF Present
<1>3. MapSane'
  BY <1>1, <1>2 DEF MapSane, Sane
<1> QED
  BY <1>1, <1>2, <1>3 DEF Changes

\* What the definitions of a walk depend on.
LEMMA SameWalk ==
  ASSUME job' = job, walk' = walk
  PROVE  /\ JobSane' = JobSane /\ ReadsStats' = ReadsStats /\ Iterates' = Iterates
         /\ Walking' = Walking /\ Scanning' = Scanning /\ Lists' = Lists
         /\ Listed' = Listed /\ Done' = Done /\ Aborted' = Aborted
         /\ \A v : Shown(v)' = Shown(v)
BY DEF JobSane, ReadsStats, Iterates, Walking, Scanning, Lists, Listed, Done, Aborted, Shown

LEMMA ChangesKeep ==
  ASSUME Sane, WalkInv, MapSane', NEW gone, NEW written, Changes(gone, written)
  PROVE  WalkSane' /\ WalkInv'
<1>1. /\ UNCHANGED <<job, phase, walk>> /\ now' \in Nat /\ now \in Nat /\ now <= now'
      /\ Watched /\ Observe(gone, written)
  BY DEF Changes, Sane, MapSane
<1>2. /\ ReadsStats' = ReadsStats /\ Iterates' = Iterates
      /\ Walking' = Walking /\ Scanning' = Scanning /\ Lists' = Lists
      /\ Listed' = Listed /\ Done' = Done /\ Aborted' = Aborted
      /\ \A v : Shown(v)' = Shown(v)
  BY <1>1, SameWalk
<1>3. Unreadable' = Unreadable
  BY <1>1 DEF Unreadable
<1>4. /\ Walking => kept' \subseteq kept \ gone /\ kept' \subseteq Reportable'
      /\ Walking => (moved' <=> moved \/ gone # {}) /\ moved' \in BOOLEAN
      /\ Walking /\ job.does = "top" => kept' \cap written = {}
      /\ ~Walking => UNCHANGED history
  <2>1. CASE Walking
    BY <1>1, <2>1 DEF Observe, Sane, WalkSane
  <2>2. CASE ~Walking
    BY <1>1, <2>2 DEF Observe
  <2> QED
    BY <2>1, <2>2
<1>5. Scanning => Walking
  BY DEF Scanning, Walking
<1>6. Walking => kept \subseteq Present
  BY DEF Sane, WalkSane, Reportable
<1>7. ~Walking => job.does = "gauge"
  BY <1>1 DEF Watched
<1> HIDE DEF Walking, Scanning, Lists, Listed, Done, Aborted, Unreadable, ReadsStats,
             Iterates, Present
<1>8. WalkSane'
  <2>1. walk.asOf <= now'
    <3>1. walk.asOf \in Nat /\ walk.asOf <= now /\ now \in Nat
      BY DEF Sane, WalkSane, Walks, Row, MapSane
    <3>2. now <= now' /\ now' \in Nat
      BY <1>1
    <3> QED
      BY <3>1, <3>2
  <2>2. moved' \in BOOLEAN
    BY <1>4 DEF history, Sane, WalkSane
  <2> QED
    BY <1>1, <1>2, <1>4, <2>1, <2>2 DEF Sane, WalkSane
<1>9. NotPassed'
  <2> SUFFICES ASSUME Scanning, NEW k \in kept' \ Listed
               PROVE  /\ walk.cursor \in Keys => Bucket[walk.cursor] <= Bucket[k]
                      /\ walk.cursor \in Present' =>
                           \/ Precedes(chain', walk.cursor, k)
                           \/ walk.at = "look" /\ k = walk.cursor
    BY <1>1, <1>2 DEF NotPassed
  <2>1. k \in kept \ Listed /\ k \in Present \ gone
    BY <1>4, <1>5, <1>6
  <2>2. /\ walk.cursor \in Keys => Bucket[walk.cursor] <= Bucket[k]
        /\ walk.cursor \in Present => Precedes(chain, walk.cursor, k)
                                        \/ (walk.at = "look" /\ k = walk.cursor)
    BY <2>1 DEF WalkInv, NotPassed
  <2>3. walk.cursor \in Present' => walk.cursor \in Keys
    <3>1. \A i \in DOMAIN chain' : chain'[i] \in Keys
      BY DEF MapSane, IsChain
    <3> QED
      BY <3>1 DEF MapSane, ToSet
  <2>4. CASE walk.cursor \in Present \ gone
    BY <2>1, <2>2, <2>4 DEF Changes
  <2>5. CASE walk.cursor \in Present' \ (Present \ gone)
    BY <2>1, <2>2, <2>3, <2>5 DEF Changes
  <2> QED
    BY <2>2, <2>4, <2>5
<1>10. InOrder'
  <2> SUFFICES ASSUME Scanning, ~moved'
               PROVE  \/ /\ walk.at = "next" /\ walk.cursor = NoKey
                         /\ walk.count = 0 /\ walk.rows = <<>>
                      \/ /\ \E n \in DOMAIN chain' : chain'[n] = walk.cursor /\ walk.count <= n
                         /\ \A k \in Listed : Precedes(chain', k, walk.cursor)
                                                \/ (walk.at = "next" /\ k = walk.cursor)
    BY <1>1, <1>2 DEF InOrder
  <2>1. ~moved /\ gone = {}
    BY <1>4, <1>5
  <2>2. CASE walk.at = "next" /\ walk.cursor = NoKey /\ walk.count = 0 /\ walk.rows = <<>>
    BY <2>2
  <2>3. CASE /\ \E n \in DOMAIN chain : chain[n] = walk.cursor /\ walk.count <= n
             /\ \A k \in Listed : Precedes(chain, k, walk.cursor)
                                    \/ (walk.at = "next" /\ k = walk.cursor)
    <3>1. PICK n \in DOMAIN chain : chain[n] = walk.cursor /\ walk.count <= n
      BY <2>3
    <3>2. PICK j \in DOMAIN chain' : n <= j /\ chain'[j] = chain[n]
      BY <2>1 DEF Changes
    <3>3. walk.count <= j
      <4>1. DOMAIN chain \subseteq Nat /\ DOMAIN chain' \subseteq Nat
        BY DEF Sane, MapSane, IsChain
      <4>2. walk.count \in Nat
        BY DEF Sane, WalkSane, Walks, Row
      <4> QED
        BY <3>1, <3>2, <4>1, <4>2
    <3>4. \A a, b : Precedes(chain, a, b) => Precedes(chain', a, b)
      <4>1. \A a, b : Precedes(chain, a, b) => a \in Present /\ b \in Present
        BY DEF Precedes, Sane, MapSane, ToSet
      <4> QED
        BY <2>1, <4>1 DEF Changes
    <3> QED
      BY <2>3, <3>1, <3>2, <3>3, <3>4
  <2> QED
    BY <2>1, <2>2, <2>3 DEF WalkInv, InOrder
<1>11. Once'
  <2>1. ~moved' => ~moved
    BY <1>4 DEF history
  <2> QED
    BY <1>1, <1>2, <2>1 DEF Once, WalkInv
<1>12. Fresh'
  <2> SUFFICES ASSUME Scanning, job.does = "top", NEW i \in DOMAIN walk.rows,
                      walk.rows[i].key \in kept'
               PROVE  walk.rows[i].shown = Shown(entry'[walk.rows[i].key])
    BY <1>1, <1>2 DEF Fresh
  <2> DEFINE k == walk.rows[i].key
  <2>1. k \in kept /\ k \in (Present \ gone) \ written
    BY <1>4, <1>5, <1>6
  <2>2. entry'[k] = entry[k]
    BY <2>1 DEF Changes
  <2> QED
    BY <2>1, <2>2 DEF Fresh, WalkInv
<1>13. Collected'
  <2>1. kept' \subseteq kept
    BY <1>4 DEF history
  <2> QED
    BY <1>1, <1>2, <2>1 DEF Collected, WalkInv
<1>14. ErrEarned'
  <2>1. walk.err => ~Walking
    BY DEF Sane, WalkSane, Walking
  <2> QED
    BY <1>1, <1>2, <1>3, <1>4, <2>1 DEF ErrEarned, WalkInv, history
<1>15. HotSourceShown' /\ ClearSweeps'
  <2>1. Done => ~Walking
    BY DEF Done, Walking
  <2> QED
    BY <1>1, <1>2, <1>7, <2>1 DEF HotSourceShown, ClearSweeps
<1> QED
  BY <1>8, <1>9, <1>10, <1>11, <1>12, <1>13, <1>14, <1>15 DEF WalkInv
--------------------------------------------------------------------------------
(* The reader's own steps. *)

\* A step of the daemon or of another reader.
LEMMA AsideKeeps ==
  ASSUME Sane, WalkInv, job' = job, UNCHANGED rvars, Unreadable => Unreadable' \/ ReadsStats
  PROVE  Sane' /\ WalkInv'
<1> USE DEF rvars, map, history
<1>1. /\ JobSane' = JobSane /\ ReadsStats' = ReadsStats /\ Iterates' = Iterates
      /\ Walking' = Walking /\ Scanning' = Scanning /\ Lists' = Lists
      /\ Listed' = Listed /\ Done' = Done /\ Aborted' = Aborted
      /\ \A v : Shown(v)' = Shown(v)
  BY SameWalk
<1>2. Present' = Present /\ Reportable' = Reportable
  BY DEF Present, Reportable, Banned
<1>3. ReadsStats => ~walk.err
  BY DEF Sane, WalkSane
<1> HIDE DEF Walking, Scanning, Lists, Listed, Done, Aborted, Unreadable, ReadsStats,
             Iterates, Present, Reportable
<1>4. Sane'
  BY <1>1, <1>2 DEF Sane, MapSane, WalkSane
<1>5. NotPassed' /\ InOrder' /\ Once' /\ Fresh' /\ Collected'
  BY <1>1, <1>2 DEF WalkInv, NotPassed, InOrder, Once, Fresh, Collected
<1>6. ErrEarned'
  BY <1>1, <1>3 DEF WalkInv, ErrEarned
<1>7. HotSourceShown' /\ ClearSweeps'
  BY <1>1 DEF WalkInv, HotSourceShown, ClearSweeps, Hotter
<1> QED
  BY <1>4, <1>5, <1>6, <1>7 DEF WalkInv

\* The walk begins.
LEMMA FreshWalk ==
  ASSUME Sane, ~ReadsStats, job' = job, UNCHANGED map,
         walk' = [at |-> "next", asOf |-> now, cursor |-> NoKey, count |-> 0,
                  rows |-> <<>>, err |-> FALSE],
         kept' = Reportable, moved' = FALSE
  PROVE  Sane' /\ WalkInv'
<1> USE DEF map
<1>1. /\ walk'.at = "next" /\ walk'.asOf = now /\ walk'.cursor = NoKey
      /\ walk'.count = 0 /\ walk'.rows = <<>> /\ walk'.err = FALSE
  OBVIOUS
<1>2. /\ Present' = Present /\ Reportable' = Reportable /\ ReadsStats' = ReadsStats
      /\ JobSane' = JobSane /\ MapSane' = MapSane
  BY DEF Present, Reportable, Banned, ReadsStats, JobSane, MapSane, Iterates
<1>3. Listed' = {} /\ NoKey \notin Keys /\ NoKey \notin Present
  <2>1. DOMAIN walk'.rows = {}
    BY <1>1
  <2>2. NoKey \notin Keys
    BY ReadersAssumption
  <2>3. Present \subseteq Keys
    BY DEF Sane, MapSane, IsChain, ToSet
  <2> QED
    BY <2>1, <2>2, <2>3 DEF Listed
<1>4. Sane'
  <2>1. walk' \in Walks
    BY DEF Sane, MapSane, Walks, Row
  <2>2. now <= now' /\ kept' \subseteq Reportable'
    BY <1>2 DEF Sane, MapSane
  <2> HIDE DEF Reportable
  <2> QED
    BY <1>1, <1>2, <2>1, <2>2 DEF Sane, WalkSane
<1>5. NotPassed' /\ InOrder'
  BY <1>1, <1>2, <1>3 DEF NotPassed, InOrder
<1>6. Once' /\ Fresh' /\ Collected'
  BY <1>1 DEF Once, Fresh, Collected, Done
<1>7. ErrEarned' /\ HotSourceShown' /\ ClearSweeps'
  BY <1>1 DEF ErrEarned, HotSourceShown, ClearSweeps, Done
<1> QED
  BY <1>4, <1>5, <1>6, <1>7 DEF WalkInv

LEMMA OpenFailsKeeps ==
  ASSUME Sane, OpenFails
  PROVE  Sane' /\ WalkInv'
<1> USE DEF map, cvars, history
<1>1. /\ UNCHANGED <<job, chain, entry, now, kept, moved>> /\ ~ReadsStats
      /\ walk' = [at |-> "done", asOf |-> 0, cursor |-> NoKey, count |-> 0,
                  rows |-> <<>>, err |-> TRUE]
  BY DEF OpenFails, Step, Idle
<1>2. ReadsStats' = ReadsStats /\ JobSane' = JobSane /\ MapSane' = MapSane
  BY <1>1 DEF Present, ReadsStats, JobSane, MapSane, Iterates
<1>3. Sane'
  <2>1. walk' \in Walks
    BY <1>1 DEF Walks, Row
  <2>2. 0 <= now
    BY DEF Sane, MapSane
  <2> QED
    BY <1>1, <1>2, <2>1, <2>2 DEF Sane, WalkSane, Walking
<1>4. NotPassed' /\ InOrder' /\ Once' /\ Fresh' /\ Collected'
  BY <1>1 DEF NotPassed, InOrder, Once, Fresh, Collected, Done, Scanning
<1>5. ErrEarned' /\ HotSourceShown' /\ ClearSweeps'
  BY <1>1 DEF ErrEarned, HotSourceShown, ClearSweeps, Done
<1> QED
  BY <1>3, <1>4, <1>5 DEF WalkInv

\* What is the same after a step of the reader that writes nothing.
LEMMA ReadingSame ==
  ASSUME UNCHANGED <<job, chain, entry, now>>
  PROVE  /\ Present' = Present /\ Reportable' = Reportable
         /\ JobSane' = JobSane /\ MapSane' = MapSane /\ ReadsStats' = ReadsStats
         /\ Iterates' = Iterates /\ Lists' = Lists
         /\ walk'.rows = walk.rows => Listed' = Listed
         /\ walk'.asOf = walk.asOf => \A v : Shown(v)' = Shown(v)
<1>1. Present' = Present /\ ReadsStats' = ReadsStats /\ Iterates' = Iterates /\ Lists' = Lists
  BY DEF Present, ReadsStats, Iterates, Lists
<1>2. Reportable' = Reportable
  BY <1>1 DEF Reportable, Banned
<1>3. JobSane' = JobSane
  BY DEF JobSane, ReadsStats, Iterates
<1>4. MapSane' = MapSane
  BY <1>1 DEF MapSane
<1>5. walk'.rows = walk.rows => Listed' = Listed
  BY DEF Listed
<1>6. walk'.asOf = walk.asOf => \A v : Shown(v)' = Shown(v)
  BY DEF Shown, Banned
<1> QED
  BY <1>1, <1>2, <1>3, <1>4, <1>5, <1>6

LEMMA IterNextKeyKeeps ==
  ASSUME Sane, WalkInv, IterNextKey
  PROVE  Sane' /\ WalkInv'
<1> USE DEF map, cvars, history
<1> DEFINE k == NextKey(chain, walk.cursor)
<1>1. /\ UNCHANGED <<job, chain, entry, now, kept, moved>> /\ Iterates /\ k # NoKey
      /\ walk.at = "next" /\ walk' = [walk EXCEPT !.at = "look", !.cursor = k, !.count = @ + 1]
  BY DEF IterNextKey, Step
<1>2. walk \in Walks
  BY DEF Sane, WalkSane
<1>3. /\ walk'.at = "look" /\ walk'.cursor = k /\ walk'.count = walk.count + 1
      /\ walk'.rows = walk.rows /\ walk'.asOf = walk.asOf /\ walk'.err = walk.err
  BY <1>1, <1>2 DEF Walks, Row
<1>4. /\ IsChain(chain) /\ Present = ToSet(chain) /\ DOMAIN chain = 1..Len(chain)
      /\ Len(chain) \in Nat /\ \A i \in DOMAIN chain : chain[i] \in Keys
  BY DEF Sane, MapSane, IsChain
<1>5. \/ walk.cursor \notin ToSet(chain) /\ 1 \in DOMAIN chain /\ k = chain[1]
      \/ \E i \in DOMAIN chain : chain[i] = walk.cursor /\ i + 1 \in DOMAIN chain
                                   /\ k = chain[i + 1]
  BY <1>1, <1>4, NextKeyOf
<1> HIDE DEF k
<1>6. PICK m \in DOMAIN chain :
        /\ k = chain[m]
        /\ \/ walk.cursor \notin Present /\ m = 1
           \/ m - 1 \in DOMAIN chain /\ chain[m - 1] = walk.cursor
  <2>1. CASE walk.cursor \notin ToSet(chain) /\ 1 \in DOMAIN chain /\ k = chain[1]
    BY <1>4, <2>1
  <2>2. ASSUME NEW i \in DOMAIN chain, chain[i] = walk.cursor, i + 1 \in DOMAIN chain,
               k = chain[i + 1]
        PROVE  i + 1 \in DOMAIN chain /\ (i + 1) - 1 = i
    BY <1>4, <2>2
  <2> QED
    BY <1>5, <2>1, <2>2
<1>7. /\ Listed' = Listed /\ Present' = Present /\ Reportable' = Reportable
      /\ JobSane' = JobSane /\ MapSane' = MapSane /\ ReadsStats' = ReadsStats
      /\ Iterates' = Iterates /\ Lists' = Lists
      /\ \A v : Shown(v)' = Shown(v)
  BY <1>1, <1>3, ReadingSame
<1>8. Scanning /\ Walking /\ Walking'
  BY <1>1, <1>3 DEF Scanning, Walking
<1>9. kept \subseteq Present
  BY <1>8 DEF Sane, WalkSane, Reportable
<1> HIDE DEF Listed, Present, Reportable, ReadsStats, Iterates, Lists, Scanning, Walking
<1>10. Sane'
  <2>1. walk' \in Walks
    <3>1. k \in Keys /\ walk.count + 1 \in Nat
      BY <1>2, <1>4, <1>6 DEF Walks, Row
    <3> QED
      BY <1>1, <1>2, <3>1 DEF Walks, Row
  <2> QED
    BY <1>1, <1>3, <1>7, <1>8, <2>1 DEF Sane, WalkSane
<1>11. NotPassed'
  <2> SUFFICES ASSUME NEW j \in kept \ Listed
               PROVE  /\ Bucket[k] <= Bucket[j]
                      /\ Precedes(chain, k, j) \/ j = k
    BY <1>1, <1>3, <1>7 DEF NotPassed
  <2>1. PICK n \in DOMAIN chain : chain[n] = j
    BY <1>4, <1>9 DEF ToSet
  <2>2. m <= n
    <3>1. CASE walk.cursor \notin Present /\ m = 1
      BY <1>4, <3>1
    <3>2. CASE m - 1 \in DOMAIN chain /\ chain[m - 1] = walk.cursor
      <4>1. walk.cursor \in Present
        BY <1>4, <3>2 DEF ToSet
      <4>2. Precedes(chain, chain[m - 1], j)
        BY <1>1, <1>8, <3>2, <4>1 DEF NotPassed, WalkInv
      <4>3. PICK p \in DOMAIN chain : m - 1 < p /\ chain[p] = j
        BY <1>4, <3>2, <4>2, PlaceOf
      <4>4. ~(n < p) /\ ~(p < n)
        BY <1>4, <2>1, <4>3 DEF IsChain
      <4> QED
        BY <1>4, <4>3, <4>4
    <3> QED
      BY <1>6, <3>1, <3>2
  <2>3. CASE m = n
    <3>1. Bucket[k] \in Nat
      BY <1>4, <1>6, ReadersAssumption
    <3> QED
      BY <1>6, <2>1, <2>3, <3>1
  <2>4. CASE m < n
    BY <1>4, <1>6, <2>1, <2>4 DEF IsChain, Precedes
  <2> QED
    BY <1>4, <2>2, <2>3, <2>4
<1>12. InOrder'
  <2> SUFFICES ASSUME ~moved
               PROVE  /\ \E n \in DOMAIN chain : chain[n] = k /\ walk.count + 1 <= n
                      /\ \A j \in Listed : Precedes(chain, j, k)
    BY <1>1, <1>3, <1>7 DEF InOrder
  <2>1. CASE walk.cursor = NoKey /\ walk.count = 0 /\ walk.rows = <<>>
    <3>1. Listed = {}
      BY <2>1 DEF Listed
    <3>2. walk.count + 1 <= m
      BY <1>4, <2>1
    <3> QED
      BY <1>6, <3>1, <3>2
  <2>2. CASE /\ \E n \in DOMAIN chain : chain[n] = walk.cursor /\ walk.count <= n
             /\ \A j \in Listed : Precedes(chain, j, walk.cursor) \/ j = walk.cursor
    <3>1. PICK n \in DOMAIN chain : chain[n] = walk.cursor /\ walk.count <= n
      BY <2>2
    <3>2. m - 1 \in DOMAIN chain /\ chain[m - 1] = walk.cursor
      BY <1>4, <1>6, <3>1 DEF ToSet
    <3>3. n = m - 1
      <4>1. ~(n < m - 1) /\ ~(m - 1 < n)
        BY <1>4, <3>1, <3>2 DEF IsChain
      <4> QED
        BY <1>4, <3>2, <4>1
    <3>4. walk.count + 1 <= m
      BY <1>2, <1>4, <3>1, <3>3 DEF Walks, Row
    <3>5. ASSUME NEW j \in Listed PROVE Precedes(chain, j, k)
      <4>1. CASE j = walk.cursor
        BY <1>4, <1>6, <3>2, <4>1 DEF Precedes
      <4>2. CASE Precedes(chain, j, walk.cursor)
        <5>1. PICK p \in DOMAIN chain : p < m - 1 /\ chain[p] = j
          BY <1>4, <3>2, <4>2, PlaceOf
        <5>2. p < m
          BY <1>4, <5>1
        <5> QED
          BY <1>6, <5>1, <5>2 DEF Precedes
      <4> QED
        BY <2>2, <4>1, <4>2
    <3> QED
      BY <1>6, <3>4, <3>5
  <2> QED
    BY <1>1, <1>8, <2>1, <2>2 DEF InOrder, WalkInv
<1>13. Once' /\ Fresh' /\ Collected'
  <2>1. Scanning' = Scanning
    BY <1>1, <1>3, <1>7, <1>8 DEF Scanning
  <2>2. ~Done' /\ walk'.at # "delete"
    BY <1>3 DEF Done
  <2> QED
    BY <1>1, <1>3, <1>7, <2>1, <2>2 DEF Once, Fresh, Collected, WalkInv
<1>14. ErrEarned' /\ HotSourceShown' /\ ClearSweeps'
  <2>1. ~Done' /\ ~walk'.err
    BY <1>1, <1>3 DEF Done, Sane, WalkSane
  <2> QED
    BY <2>1 DEF ErrEarned, HotSourceShown, ClearSweeps
<1> QED
  BY <1>10, <1>11, <1>12, <1>13, <1>14 DEF WalkInv

LEMMA ShownInt ==
  ASSUME Sane, ~ReadsStats, NEW v \in Nat
  PROVE  Shown(v) \in Int
<1>1. job.field \in {"any", "time", "amount", "ban"} /\ walk.asOf \in Nat
  BY DEF Sane, JobSane, WalkSane, Walks, Row
<1> QED
  BY <1>1 DEF Shown, Banned

LEMMA IterLookupKeeps ==
  ASSUME Sane, WalkInv, IterLookup
  PROVE  Sane' /\ WalkInv'
<1> USE DEF map, cvars, history
<1> DEFINE k == walk.cursor
           row == [key |-> k, shown |-> Shown(entry[k])]
           seen == k \in Present /\ Reports(entry[k])
<1>1. /\ UNCHANGED <<job, chain, entry, now, kept, moved>>
      /\ walk.at = "look"
      /\ walk' = [walk EXCEPT !.at = "next",
                    !.rows = IF seen THEN Append(@, row) ELSE @]
  BY DEF IterLookup, Step
<1>2. walk \in Walks /\ Iterates /\ ~ReadsStats
  BY <1>1 DEF Sane, WalkSane
<1>3. /\ walk'.at = "next" /\ walk'.cursor = k /\ walk'.count = walk.count
      /\ walk'.rows = (IF seen THEN Append(walk.rows, row) ELSE walk.rows)
      /\ walk'.asOf = walk.asOf /\ walk'.err = walk.err
  BY <1>1, <1>2 DEF Walks, Row
<1>4. /\ IsChain(chain) /\ Present = ToSet(chain)
      /\ \A j \in Present : j \in Keys /\ entry[j] \in Nat
  BY DEF Sane, MapSane, IsChain, ToSet
<1>5. /\ Present' = Present /\ Reportable' = Reportable
      /\ JobSane' = JobSane /\ MapSane' = MapSane /\ ReadsStats' = ReadsStats
      /\ Iterates' = Iterates /\ Lists' = Lists
      /\ \A v : Shown(v)' = Shown(v)
  BY <1>1, <1>3, ReadingSame
<1>6. Scanning /\ Walking /\ Scanning' /\ Walking'
  BY <1>1, <1>2, <1>3, <1>5 DEF Scanning, Walking
<1>7. seen => row \in [key : Keys, shown : Int]
  BY <1>2, <1>4, ShownInt
<1>8. walk.rows \in Seq([key : Keys, shown : Int])
  BY <1>2 DEF Walks, Row
<1>9. /\ walk'.rows \in Seq([key : Keys, shown : Int])
      /\ Len(walk'.rows) = Len(walk.rows) + IF seen THEN 1 ELSE 0
      /\ \A i \in DOMAIN walk.rows : walk'.rows[i] = walk.rows[i]
      /\ seen => walk'.rows[Len(walk.rows) + 1] = row
  <2> HIDE DEF seen, row
  <2>1. CASE seen
    BY <1>3, <1>7, <1>8, <2>1
  <2>2. CASE ~seen
    BY <1>3, <1>8, <2>2
  <2> QED
    BY <2>1, <2>2
<1>10. /\ DOMAIN walk.rows = 1..Len(walk.rows) /\ Len(walk.rows) \in Nat
       /\ DOMAIN walk'.rows = DOMAIN walk.rows \cup (IF seen THEN {Len(walk.rows) + 1} ELSE {})
  <2> HIDE DEF seen
  <2>1. CASE seen
    BY <1>8, <1>9, <2>1
  <2>2. CASE ~seen
    BY <1>8, <1>9, <2>2
  <2> QED
    BY <2>1, <2>2
<1>11. Listed' = Listed \cup IF seen THEN {k} ELSE {}
  <2>1. seen => walk'.rows[Len(walk.rows) + 1].key = k
    BY <1>9
  <2> HIDE DEF seen, row
  <2> QED
    BY <1>9, <1>10, <2>1 DEF Listed
<1>12. k \in kept => seen
  <2> SUFFICES ASSUME k \in kept PROVE seen
    OBVIOUS
  <2>1. k \in Present /\ (job.banned => entry[k] > now)
    BY <1>6 DEF Sane, WalkSane, Reportable, Banned
  <2>2. walk.asOf <= now /\ walk.asOf \in Nat /\ now \in Nat /\ entry[k] \in Nat
    BY <1>2, <1>4, <2>1 DEF Sane, WalkSane, MapSane, Walks, Row
  <2> QED
    BY <2>1, <2>2 DEF Reports, Banned
<1> HIDE DEF seen, row, Listed, Present, Reportable, ReadsStats, Iterates, Lists, Scanning, Walking
<1>13. Sane'
  <2>1. walk' \in Walks
    BY <1>1, <1>2, <1>3, <1>9 DEF Walks, Row
  <2> QED
    BY <1>1, <1>3, <1>5, <1>6, <2>1 DEF Sane, WalkSane
<1>14. NotPassed'
  <2> SUFFICES ASSUME NEW j \in kept \ Listed'
               PROVE  /\ k \in Keys => Bucket[k] <= Bucket[j]
                      /\ k \in Present => Precedes(chain, k, j)
    BY <1>1, <1>3, <1>5 DEF NotPassed
  <2>1. j \in kept \ Listed /\ j # k
    BY <1>11, <1>12
  <2> QED
    BY <1>6, <2>1 DEF NotPassed, WalkInv
<1>15. ASSUME ~moved
       PROVE  /\ \E n \in DOMAIN chain : chain[n] = k /\ walk.count <= n
              /\ \A j \in Listed : Precedes(chain, j, k)
  BY <1>1, <1>6, <1>15 DEF InOrder, WalkInv
<1>16. InOrder'
  <2> SUFFICES ASSUME ~moved
               PROVE  /\ \E n \in DOMAIN chain : chain[n] = k /\ walk.count <= n
                      /\ \A j \in Listed' : Precedes(chain, j, k) \/ j = k
    BY <1>1, <1>3, <1>5 DEF InOrder
  <2> QED
    BY <1>11, <1>15
<1>17. Once'
  <2> SUFFICES ASSUME Lists, ~moved, NEW i \in DOMAIN walk'.rows, NEW j \in DOMAIN walk'.rows,
                      i < j
               PROVE  walk'.rows[i].key # walk'.rows[j].key
    BY <1>1, <1>5 DEF Once
  <2>1. CASE j \in DOMAIN walk.rows
    <3>1. i \in DOMAIN walk.rows
      BY <1>10, <2>1
    <3> QED
      BY <1>9, <2>1, <3>1 DEF Once, WalkInv
  <2>2. CASE j \notin DOMAIN walk.rows
    <3>1. seen /\ j = Len(walk.rows) + 1 /\ i \in DOMAIN walk.rows
      BY <1>10, <2>2
    <3>2. walk'.rows[j].key = k
      BY <1>9, <3>1 DEF row
    <3>3. walk'.rows[i].key \in Listed
      BY <1>9, <3>1 DEF Listed
    <3>4. Precedes(chain, walk'.rows[i].key, k)
      BY <1>15, <3>3
    <3>5. ~Precedes(chain, k, k)
      <4>1. PICK n \in DOMAIN chain : chain[n] = k
        BY <1>15
      <4> QED
        BY <1>4, <4>1 DEF Precedes, IsChain
    <3> QED
      BY <3>2, <3>4, <3>5
  <2> QED
    BY <2>1, <2>2
<1>18. Fresh'
  <2> SUFFICES ASSUME job.does = "top", NEW i \in DOMAIN walk'.rows,
                      walk'.rows[i].key \in kept
               PROVE  walk'.rows[i].shown = Shown(entry[walk'.rows[i].key])
    BY <1>1, <1>5 DEF Fresh
  <2>1. CASE i \in DOMAIN walk.rows
    BY <1>6, <1>9, <2>1 DEF Fresh, WalkInv
  <2>2. CASE i \notin DOMAIN walk.rows
    <3>1. seen /\ i = Len(walk.rows) + 1
      BY <1>10, <2>2
    <3> QED
      BY <1>9, <3>1 DEF row
  <2> QED
    BY <2>1, <2>2
<1>19. Collected' /\ ErrEarned' /\ HotSourceShown' /\ ClearSweeps'
  <2>1. ~Done' /\ walk'.at # "delete" /\ ~walk'.err
    BY <1>1, <1>3 DEF Done, Sane, WalkSane
  <2> QED
    BY <2>1 DEF Collected, ErrEarned, HotSourceShown, ClearSweeps
<1> QED
  BY <1>13, <1>14, <1>16, <1>17, <1>18, <1>19 DEF WalkInv

\* At the end of the map nothing is left to be reported.
LEMMA NothingLeft ==
  ASSUME Sane, WalkInv, Scanning, walk.at = "next", NextKey(chain, walk.cursor) = NoKey
  PROVE  kept \subseteq Listed
<1> SUFFICES ASSUME NEW k \in kept \ Listed PROVE FALSE
  OBVIOUS
<1>1. /\ IsChain(chain) /\ Present = ToSet(chain)
      /\ DOMAIN chain = 1..Len(chain) /\ Len(chain) \in Nat
  BY DEF Sane, MapSane, IsChain
<1>2. k \in ToSet(chain)
  BY <1>1 DEF Sane, WalkSane, Reportable, Scanning, Walking
<1>3. Len(chain) # 0
  BY <1>1, <1>2 DEF ToSet
<1>4. Len(chain) \in DOMAIN chain /\ chain[Len(chain)] = walk.cursor
  BY <1>1, <1>3, NextKeyOf
<1>5. walk.cursor \in Present
  BY <1>1, <1>4 DEF ToSet
<1>6. Precedes(chain, chain[Len(chain)], k)
  BY <1>4, <1>5 DEF NotPassed, WalkInv
<1>7. \E j \in DOMAIN chain : Len(chain) < j
  BY <1>1, <1>4, <1>6, PlaceOf
<1> QED
  BY <1>1, <1>7

\* Sorting loses no row.
LEMMA ArrangedRows ==
  ASSUME NEW rows \in Seq(Row), NEW r \in Arranged(rows)
  PROVE  /\ r \in Seq(Row) /\ Len(r) = Len(rows)
         /\ \A i \in DOMAIN rows : \E j \in DOMAIN r : r[j] = rows[i]
         /\ \A j \in DOMAIN r : \E i \in DOMAIN rows : r[j] = rows[i]
         /\ \A i, j \in DOMAIN r : i < j => Hotter(r[i].shown, r[j].shown)
<1>1. PICK p \in Bijection(DOMAIN rows, DOMAIN rows) : r = [i \in DOMAIN rows |-> rows[p[i]]]
  BY DEF Arranged
<1>2. /\ p \in [DOMAIN rows -> DOMAIN rows]
      /\ \A i \in DOMAIN rows : \E j \in DOMAIN rows : p[j] = i
  BY DEF Bijection, Surjection
<1>3. DOMAIN rows = 1..Len(rows) /\ Len(rows) \in Nat
  OBVIOUS
<1>4. \A i \in DOMAIN rows : rows[i] \in Row
  OBVIOUS
<1>5. r \in [1..Len(rows) -> Row]
  <2> HIDE DEF Row
  <2> QED
    BY <1>1, <1>2, <1>3, <1>4
<1>6. r \in Seq(Row) /\ Len(r) = Len(rows) /\ DOMAIN r = DOMAIN rows
  BY <1>3, <1>5
<1>7. \A i, j \in DOMAIN r : i < j => Hotter(r[i].shown, r[j].shown)
  BY DEF Arranged
<1> HIDE DEF Row
<1> QED
  BY <1>1, <1>2, <1>6, <1>7

\* The answer of top: cut, but not below a row that is less hot.
LEMMA TopAnswer ==
  ASSUME NEW rows \in Seq(Row), job.does = "top", job.n \in Int, NEW a \in Answers(rows)
  PROVE  /\ a \in Seq(Row)
         /\ \A i \in DOMAIN rows :
              \/ \E j \in DOMAIN a : a[j] = rows[i]
              \/ /\ job.n > 0 /\ Len(a) = job.n
                 /\ \A j \in DOMAIN a : Hotter(a[j].shown, rows[i].shown)
<1>1. PICK r \in Arranged(rows) :
        a = IF job.n > 0 /\ Len(r) > job.n THEN SubSeq(r, 1, job.n) ELSE r
  BY DEF Answers
<1>2. /\ r \in Seq(Row) /\ Len(r) = Len(rows)
      /\ \A i \in DOMAIN rows : \E j \in DOMAIN r : r[j] = rows[i]
      /\ \A i, j \in DOMAIN r : i < j => Hotter(r[i].shown, r[j].shown)
  BY ArrangedRows
<1> HIDE DEF Row
<1>3. CASE job.n > 0 /\ Len(r) > job.n
  <2>1. a = SubSeq(r, 1, job.n) /\ job.n \in 1..Len(r) /\ Len(r) \in Nat
    BY <1>1, <1>2, <1>3
  <2>2. /\ a \in Seq(Row) /\ Len(a) = job.n /\ DOMAIN a = 1..job.n
        /\ \A j \in 1..job.n : a[j] = r[j]
    BY <1>2, <2>1
  <2>3. ASSUME NEW i \in DOMAIN rows
        PROVE  \/ \E j \in DOMAIN a : a[j] = rows[i]
               \/ \A j \in DOMAIN a : Hotter(a[j].shown, rows[i].shown)
    <3>1. PICK m \in DOMAIN r : r[m] = rows[i]
      BY <1>2
    <3>2. DOMAIN r = 1..Len(r)
      BY <1>2
    <3>3. CASE m <= job.n
      <4>1. m \in 1..job.n
        BY <2>1, <3>2, <3>3
      <4>2. m \in DOMAIN a /\ a[m] = rows[i]
        BY <2>2, <3>1, <4>1
      <4> QED
        BY <4>2
    <3>4. CASE ~(m <= job.n)
      <4>1. \A j \in DOMAIN a : j \in DOMAIN r /\ j < m
        BY <2>1, <2>2, <3>2, <3>4
      <4> QED
        BY <1>2, <2>2, <3>1, <4>1
    <3> QED
      BY <3>3, <3>4
  <2> QED
    BY <1>3, <2>2, <2>3
<1>4. CASE ~(job.n > 0 /\ Len(r) > job.n)
  BY <1>1, <1>2, <1>4
<1> QED
  BY <1>3, <1>4

LEMMA IterDoneKeeps ==
  ASSUME Sane, WalkInv, IterDone
  PROVE  Sane' /\ WalkInv'
<1> USE DEF map, history
<1>1. /\ UNCHANGED <<job, chain, entry, now, kept, moved, phase>>
      /\ walk.at = "next" /\ Iterates /\ NextKey(chain, walk.cursor) = NoKey
  BY DEF IterDone, Step, Answered, cvars, daemon
<1>2. PICK rows \in Answers(walk.rows) :
        walk' = [walk EXCEPT !.rows = rows,
                   !.at = IF job.does = "clear" THEN "delete" ELSE "done"]
  BY DEF IterDone, Step
<1>3. walk \in Walks /\ ~ReadsStats /\ walk.rows \in Seq(Row)
  BY <1>1 DEF Sane, WalkSane, Walks, Row
<1>4. /\ walk'.at = (IF job.does = "clear" THEN "delete" ELSE "done")
      /\ walk'.rows = rows /\ walk'.asOf = walk.asOf /\ walk'.err = walk.err
      /\ walk'.count = walk.count
  BY <1>2, <1>3 DEF Walks, Row
<1>5. /\ Present' = Present /\ Reportable' = Reportable
      /\ JobSane' = JobSane /\ MapSane' = MapSane /\ ReadsStats' = ReadsStats
      /\ Iterates' = Iterates /\ Lists' = Lists
      /\ walk'.rows = walk.rows => Listed' = Listed
      /\ \A v : Shown(v)' = Shown(v)
  BY <1>1, <1>4, ReadingSame
<1>6. Scanning /\ Walking
  BY <1>1 DEF Scanning, Walking
<1>7. kept \subseteq Listed
  BY <1>1, <1>6, NothingLeft
<1>8. job.does # "top" => rows = walk.rows
  BY DEF Answers
<1>9. job.does = "top" => job.n \in Int
  BY DEF Sane, JobSane, ReadsStats
<1>10. rows \in Seq(Row)
  <2>1. CASE job.does = "top"
    BY <1>3, <1>9, <2>1, TopAnswer
  <2> QED
    BY <1>3, <1>8, <2>1
<1>11. job.does = "top" => ~Lists
  BY DEF Lists
<1> HIDE DEF Present, Reportable, ReadsStats, Iterates, Lists, Scanning, Walking
<1>12. Sane'
  <2>1. walk' \in Walks
    BY <1>2, <1>3, <1>4, <1>10 DEF Walks, Row
  <2>2. Walking => kept \subseteq Reportable
    BY DEF Sane, WalkSane
  <2> QED
    BY <1>1, <1>3, <1>4, <1>5, <1>6, <2>1, <2>2 DEF Sane, WalkSane
<1>13. ~Scanning'
  BY <1>4 DEF Scanning
<1>14. NotPassed' /\ InOrder' /\ Fresh'
  BY <1>13 DEF NotPassed, InOrder, Fresh
<1>15. Once'
  BY <1>1, <1>4, <1>5, <1>8, <1>11 DEF Once, WalkInv
<1>16. Collected'
  <2>1. walk'.at = "delete" => job.does # "top"
    BY <1>4
  <2> HIDE DEF Listed
  <2> QED
    BY <1>1, <1>4, <1>5, <1>7, <1>8, <1>11, <2>1 DEF Collected
<1>17. ErrEarned'
  BY <1>1, <1>4 DEF ErrEarned, Sane, WalkSane
<1>18. ClearSweeps'
  BY <1>1, <1>4 DEF ClearSweeps, Done, Iterates
<1>19. HotSourceShown'
  <2> SUFFICES ASSUME job.does = "top", NEW k \in kept \ Listed'
               PROVE  /\ job.n > 0 /\ Len(rows) = job.n
                      /\ \A i \in DOMAIN rows : Hotter(rows[i].shown, Shown(entry[k]))
    BY <1>1, <1>4, <1>5 DEF HotSourceShown, Hotter
  <2>1. PICK i \in DOMAIN walk.rows : walk.rows[i].key = k
    BY <1>7 DEF Listed
  <2>2. walk.rows[i].shown = Shown(entry[k])
    BY <1>6, <2>1 DEF Fresh, WalkInv
  <2>3. ~\E j \in DOMAIN rows : rows[j] = walk.rows[i]
    BY <1>4, <2>1 DEF Listed
  <2>4. /\ job.n > 0 /\ Len(rows) = job.n
        /\ \A j \in DOMAIN rows : Hotter(rows[j].shown, walk.rows[i].shown)
    BY <1>3, <1>9, <2>3, TopAnswer
  <2> QED
    BY <2>2, <2>4
<1> QED
  BY <1>12, <1>14, <1>15, <1>16, <1>17, <1>18, <1>19 DEF WalkInv

LEMMA IterFailsKeeps ==
  ASSUME Sane, WalkInv, IterFails
  PROVE  Sane' /\ WalkInv'
<1> USE DEF map, history
<1>1. /\ UNCHANGED <<job, chain, entry, now, kept, moved, phase>>
      /\ walk.at \in {"next", "look"} /\ Iterates
      /\ Unreadable \/ (walk.at = "next" /\ Aborted)
      /\ walk' = [walk EXCEPT !.at = "done", !.err = TRUE]
  BY DEF IterFails, Answered
<1>2. walk \in Walks /\ ~ReadsStats
  BY <1>1 DEF Sane, WalkSane
<1>3. /\ walk'.at = "done" /\ walk'.err /\ walk'.rows = walk.rows
      /\ walk'.asOf = walk.asOf /\ walk'.count = walk.count
  BY <1>1, <1>2 DEF Walks, Row
<1>4. /\ JobSane' = JobSane /\ MapSane' = MapSane /\ ReadsStats' = ReadsStats
      /\ Lists' = Lists
  BY <1>1, ReadingSame
<1>5. Sane'
  <2>1. walk' \in Walks
    BY <1>1, <1>2 DEF Walks, Row
  <2> QED
    BY <1>1, <1>2, <1>3, <1>4, <2>1 DEF Sane, WalkSane, Walking
<1>6. NotPassed' /\ InOrder' /\ Fresh' /\ Collected' /\ HotSourceShown' /\ ClearSweeps'
  BY <1>3 DEF NotPassed, InOrder, Fresh, Collected, HotSourceShown, ClearSweeps, Scanning, Done
<1>7. Once'
  BY <1>1, <1>3, <1>4 DEF Once, WalkInv
<1>8. ErrEarned'
  <2>1. Unreadable' = Unreadable /\ Aborted' = Aborted
    BY <1>1, <1>3 DEF Unreadable, Aborted
  <2>2. Aborted => moved
    <3> SUFFICES ASSUME ~moved PROVE ~Aborted
      OBVIOUS
    <3>1. walk.count = 0 \/ \E n \in DOMAIN chain : walk.count <= n
      BY <1>1 DEF WalkInv, InOrder, Scanning
    <3>2. /\ DOMAIN chain = 1..Len(chain) /\ Len(chain) \in Nat /\ Len(chain) <= MaxEntries
          /\ walk.count \in Nat /\ MaxEntries \in Nat
      BY <1>2, ReadersAssumption, FS_CardinalityType DEF Sane, MapSane, IsChain, Walks, Row
    <3> QED
      BY <3>1, <3>2 DEF Aborted
  <2> HIDE DEF Unreadable, Aborted
  <2> QED
    BY <1>1, <2>1, <2>2 DEF ErrEarned
<1> QED
  BY <1>5, <1>6, <1>7, <1>8 DEF WalkInv

LEMMA LookupKeeps ==
  ASSUME Sane, WalkInv, Lookup
  PROVE  Sane' /\ WalkInv'
<1> USE DEF map, history
<1>1. /\ UNCHANGED <<job, chain, entry, now, kept, moved, phase>>
      /\ walk.at = "next" /\ job.does = "lookup"
  BY DEF Lookup, Step, Answered
<1>2. PICK k \in job.keys :
        walk' = [walk EXCEPT !.at = "done", !.err = Unreadable,
                   !.rows = IF ~Unreadable /\ k \in Present
                            THEN <<[key |-> k, shown |-> Shown(entry[k])]>> ELSE <<>>]
  BY DEF Lookup, Step
<1>3. walk \in Walks /\ ~ReadsStats /\ ~Iterates
  BY <1>1 DEF Sane, WalkSane, ReadsStats, Iterates
<1> DEFINE rows == IF ~Unreadable /\ k \in Present
                   THEN <<[key |-> k, shown |-> Shown(entry[k])]>> ELSE <<>>
<1>4. /\ walk'.at = "done" /\ walk'.err = Unreadable /\ walk'.rows = rows
      /\ walk'.asOf = walk.asOf
  BY <1>2, <1>3 DEF Walks, Row
<1>5. /\ JobSane' = JobSane /\ MapSane' = MapSane /\ ReadsStats' = ReadsStats
      /\ Lists' = Lists /\ Unreadable' = Unreadable
  BY <1>1, ReadingSame DEF Unreadable
<1>6. job.keys = {k} /\ k \in Keys
  BY <1>3 DEF Sane, JobSane
<1>7. kept \subseteq {k} /\ kept \subseteq Present
  BY <1>1, <1>6 DEF Sane, WalkSane, Walking, Reportable
<1>8. k \in Present => entry[k] \in Nat
  BY DEF Sane, MapSane
<1>9. rows \in Seq(Row)
  <2>1. k \in Present => Shown(entry[k]) \in Int
    BY <1>3, <1>8, ShownInt
  <2>2. k \in Present => [key |-> k, shown |-> Shown(entry[k])] \in Row
    BY <1>6, <2>1 DEF Row
  <2> HIDE DEF Row
  <2> QED
    BY <2>2
<1>10. Sane'
  <2>1. walk' \in Walks
    <3>1. Unreadable \in BOOLEAN
      BY DEF Unreadable
    <3> HIDE DEF rows
    <3> QED
      BY <1>2, <1>3, <1>9, <3>1 DEF Walks, Row, rows, Row
  <2> QED
    BY <1>1, <1>3, <1>4, <1>5, <2>1 DEF Sane, WalkSane, Walking
<1>11. NotPassed' /\ InOrder' /\ Fresh' /\ HotSourceShown' /\ ClearSweeps'
  BY <1>1, <1>4 DEF NotPassed, InOrder, Fresh, HotSourceShown, ClearSweeps, Scanning
<1>12. Once'
  <2>1. \A i, j \in DOMAIN rows : ~(i < j)
    OBVIOUS
  <2> QED
    BY <1>4, <2>1 DEF Once
<1>13. Collected'
  <2> SUFFICES ASSUME Done', NEW j \in kept PROVE j \in Listed'
    BY <1>1, <1>4 DEF Collected
  <2>1. rows = <<[key |-> k, shown |-> Shown(entry[k])]>> /\ j = k
    BY <1>4, <1>7 DEF Done
  <2>2. 1 \in DOMAIN rows /\ rows[1].key = k
    BY <2>1
  <2> HIDE DEF rows
  <2> QED
    BY <1>4, <2>1, <2>2 DEF Listed
<1>14. ErrEarned'
  BY <1>4, <1>5 DEF ErrEarned
<1> QED
  BY <1>10, <1>11, <1>12, <1>13, <1>14 DEF WalkInv

\* A deletion by clear.
LEMMA DeleteElemKeeps ==
  ASSUME Sane, NEW k, DeleteElem(k), job' = job, ~ReadsStats, job.does # "list"
  PROVE  /\ MapSane' /\ kept' = kept \ {k} /\ now' = now
         /\ kept \subseteq Reportable => kept' \subseteq Reportable'
<1>1. /\ chain' = Unlinked(chain, k) /\ entry' = Del(entry, k)
      /\ kept' = kept \ {k} /\ now' = now
  BY DEF DeleteElem
<1>2. /\ now \in Nat /\ IsChain(chain) /\ Len(chain) <= MaxEntries /\ Len(chain) \in Nat
      /\ Present = ToSet(chain) /\ entry \in [DOMAIN entry -> Nat] /\ MaxEntries \in Nat
  BY ReadersAssumption, FS_CardinalityType DEF Sane, MapSane, IsChain, Present
<1>3. Present' = Present \ {k} /\ entry' \in [Present' -> Nat]
  BY <1>1, <1>2, DelOut DEF Present
<1>4. ~job.banned
  BY DEF Sane, JobSane
<1>5. kept \subseteq Reportable => kept' \subseteq Reportable'
  BY <1>1, <1>3, <1>4 DEF Reportable
<1> HIDE DEF Present, Reportable
<1>6. /\ IsChain(chain') /\ ToSet(chain') = ToSet(chain) \ {k}
      /\ Len(chain') = Len(chain) - IF k \in ToSet(chain) THEN 1 ELSE 0
  BY <1>1, <1>2, UnlinkedChain
<1> QED
  BY <1>1, <1>2, <1>3, <1>5, <1>6 DEF MapSane

LEMMA ClearDeleteKeeps ==
  ASSUME Sane, WalkInv, ClearDelete
  PROVE  Sane' /\ WalkInv'
<1> USE DEF cvars, daemon
<1> DEFINE k == Head(walk.rows).key
<1>1. /\ walk.rows # <<>> /\ DeleteElem(k) /\ job' = job
      /\ walk.at = "delete" /\ walk' = [walk EXCEPT !.rows = Tail(@)]
  BY DEF ClearDelete, Step
<1>2. walk \in Walks /\ ~ReadsStats /\ job.does = "clear" /\ walk.rows \in Seq(Row)
  BY <1>1 DEF Sane, WalkSane, Walks, Row, ReadsStats, Row
<1>3. /\ walk'.at = "delete" /\ walk'.rows = Tail(walk.rows)
      /\ walk'.asOf = walk.asOf /\ walk'.err = walk.err
  BY <1>1, <1>2 DEF Walks, Row
<1>4. /\ MapSane' /\ kept' = kept \ {k} /\ now' = now /\ moved' = moved
      /\ kept \subseteq Reportable => kept' \subseteq Reportable'
  BY <1>1, <1>2, DeleteElemKeeps DEF DeleteElem
<1>5. JobSane' = JobSane /\ ReadsStats' = ReadsStats
  BY <1>1 DEF JobSane, ReadsStats, Iterates
<1>6. /\ Tail(walk.rows) \in Seq(Row) /\ Head(walk.rows) = walk.rows[1]
      /\ \A i \in DOMAIN walk.rows :
           i = 1 \/ (i - 1 \in DOMAIN Tail(walk.rows) /\ Tail(walk.rows)[i - 1] = walk.rows[i])
  <2> HIDE DEF Row
  <2> QED
    BY <1>1, <1>2
<1>7. Sane'
  <2>1. walk' \in Walks
    BY <1>1, <1>2, <1>6 DEF Walks, Row
  <2>2. kept' \subseteq Reportable'
    BY <1>1, <1>4 DEF Sane, WalkSane, Walking
  <2> HIDE DEF Reportable
  <2> QED
    BY <1>1, <1>2, <1>3, <1>4, <1>5, <2>1, <2>2 DEF Sane, WalkSane
<1>8. NotPassed' /\ InOrder' /\ Fresh' /\ HotSourceShown' /\ ClearSweeps' /\ ErrEarned'
  <2>1. ~Scanning' /\ ~Done' /\ ~walk'.err
    BY <1>1, <1>3 DEF Scanning, Done, Sane, WalkSane
  <2> QED
    BY <2>1 DEF NotPassed, InOrder, Fresh, HotSourceShown, ClearSweeps, ErrEarned
<1>9. Once'
  BY <1>1, <1>2 DEF Once, Lists
<1>10. Collected'
  <2> SUFFICES ASSUME NEW j \in kept, j # k PROVE j \in Listed'
    BY <1>4 DEF Collected
  <2>1. PICK i \in DOMAIN walk.rows : walk.rows[i].key = j
    BY <1>1 DEF Collected, WalkInv, Listed
  <2>2. i # 1
    BY <1>6, <2>1
  <2> QED
    BY <1>3, <1>6, <2>1, <2>2 DEF Listed
<1> QED
  BY <1>7, <1>8, <1>9, <1>10 DEF WalkInv

LEMMA ClearDoneKeeps ==
  ASSUME Sane, WalkInv, ClearDone
  PROVE  Sane' /\ WalkInv'
<1> USE DEF map, history
<1>1. /\ UNCHANGED <<job, chain, entry, now, kept, moved, phase>>
      /\ walk.rows = <<>> /\ walk.at = "delete" /\ walk' = [walk EXCEPT !.at = "done"]
  BY DEF ClearDone, Step, Answered
<1>2. walk \in Walks /\ ~ReadsStats /\ job.does = "clear" /\ ~walk.err
  BY <1>1 DEF Sane, WalkSane, ReadsStats
<1>3. /\ walk'.at = "done" /\ walk'.rows = walk.rows
      /\ walk'.asOf = walk.asOf /\ walk'.err = walk.err
  BY <1>1, <1>2 DEF Walks, Row
<1>4. JobSane' = JobSane /\ MapSane' = MapSane /\ ReadsStats' = ReadsStats
  BY <1>1, ReadingSame
<1>5. kept = {}
  BY <1>1 DEF Collected, WalkInv, Listed
<1>6. Sane'
  <2>1. walk' \in Walks
    BY <1>1, <1>2 DEF Walks, Row
  <2> QED
    BY <1>1, <1>2, <1>3, <1>4, <2>1 DEF Sane, WalkSane, Walking
<1>7. NotPassed' /\ InOrder' /\ Fresh' /\ HotSourceShown' /\ ClearSweeps' /\ ErrEarned'
  BY <1>1, <1>2, <1>3, <1>5
     DEF NotPassed, InOrder, Fresh, HotSourceShown, ClearSweeps, ErrEarned, Scanning
<1>8. Once' /\ Collected'
  BY <1>1, <1>5 DEF Once, Collected
<1> QED
  BY <1>6, <1>7, <1>8 DEF WalkInv

LEMMA ClearKeyDeleteKeeps ==
  ASSUME Sane, WalkInv, ClearKeyDelete
  PROVE  Sane' /\ WalkInv'
<1>1. /\ UNCHANGED <<job, phase>> /\ job.does = "clear_key"
      /\ walk.at = "next" /\ walk' = [walk EXCEPT !.at = "done"]
  BY DEF ClearKeyDelete, Step, Answered
<1>2. PICK k \in job.keys : DeleteElem(k)
  BY DEF ClearKeyDelete
<1>3. walk \in Walks /\ ~ReadsStats /\ ~walk.err
  BY <1>1 DEF Sane, WalkSane, ReadsStats
<1>4. /\ walk'.at = "done" /\ walk'.rows = walk.rows
      /\ walk'.asOf = walk.asOf /\ walk'.err = walk.err
  BY <1>1, <1>3 DEF Walks, Row
<1>5. MapSane' /\ kept' = kept \ {k} /\ now' = now /\ moved' = moved
  BY <1>1, <1>2, <1>3, DeleteElemKeeps DEF DeleteElem
<1>6. JobSane' = JobSane /\ ReadsStats' = ReadsStats
  BY <1>1 DEF JobSane, ReadsStats, Iterates
<1>7. kept' = {}
  <2>1. job.keys = {k}
    BY <1>1, <1>2, <1>3 DEF Sane, JobSane, Iterates
  <2> QED
    BY <1>1, <1>5, <2>1 DEF Sane, WalkSane, Walking, Reportable
<1>8. Sane'
  <2>1. walk' \in Walks
    BY <1>1, <1>3 DEF Walks, Row
  <2> QED
    BY <1>1, <1>3, <1>4, <1>5, <1>6, <2>1 DEF Sane, WalkSane, Walking
<1>9. NotPassed' /\ InOrder' /\ Fresh' /\ HotSourceShown' /\ ClearSweeps' /\ ErrEarned'
  BY <1>1, <1>3, <1>4, <1>7
     DEF NotPassed, InOrder, Fresh, HotSourceShown, ClearSweeps, ErrEarned, Scanning
<1>10. Once' /\ Collected'
  BY <1>1, <1>7 DEF Once, Collected, Lists
<1> QED
  BY <1>8, <1>9, <1>10 DEF WalkInv

LEMMA WalkStarts ==
  ASSUME Init
  PROVE  Sane /\ WalkInv
<1>1. JobSane
  BY JobsSane DEF Init
<1>2. /\ now = 1 /\ walk = [at |-> "idle", asOf |-> 0, cursor |-> NoKey, count |-> 0,
                            rows |-> <<>>, err |-> FALSE]
      /\ kept = {} /\ moved = FALSE
  BY DEF Init, Idle
<1>3. MapSane
  <2>1. CASE ReadsStats
    <3>1. chain = <<>> /\ entry = [k \in {} |-> 0]
      BY <2>1 DEF Init, EmptyMap
    <3>2. 0 <= MaxEntries
      BY ReadersAssumption, FS_CardinalityType
    <3> QED
      BY <1>2, <3>1, <3>2 DEF MapSane, IsChain, ToSet, Present
  <2>2. CASE ~ReadsStats
    <3>1. PICK s \in Present0 : chain \in Chains(s, Bucket) /\ entry \in [s -> Values]
      BY <2>2 DEF Init
    <3>2. s \subseteq Keys /\ Cardinality(s) <= MaxEntries
      BY ReadersAssumption
    <3>3. IsChain(chain) /\ ToSet(chain) = s /\ Len(chain) <= MaxEntries
      BY <3>1, <3>2, ChainsHold
    <3>4. Values \subseteq Nat
      <4>1. job.field \in {"any", "time", "amount", "ban"}
        BY <1>1, <2>2 DEF JobSane
      <4> QED
        BY <1>2, <4>1, ReadersAssumption DEF Values
    <3>5. Present = s /\ entry \in [s -> Nat]
      BY <3>1, <3>4 DEF Present
    <3> QED
      BY <1>2, <3>3, <3>5 DEF MapSane
  <2> QED
    BY <2>1, <2>2
<1>4. WalkSane
  <2>1. walk \in Walks
    BY <1>2 DEF Walks, Row
  <2>2. walk.asOf = 0 /\ walk.at = "idle" /\ ~walk.err
    BY <1>2
  <2>3. 0 <= now
    BY <1>2
  <2>6. moved \in BOOLEAN
    BY <1>2, Zenon
  <2>4. walk.asOf <= now
    BY <2>2, <2>3
  <2>5. ~Walking
    BY <2>2 DEF Walking
  <2> QED
    BY <2>1, <2>2, <2>4, <2>5, <2>6 DEF WalkSane
<1>5. WalkInv
  <2>1. NotPassed /\ InOrder /\ Once /\ Fresh /\ Collected
    BY <1>2 DEF NotPassed, InOrder, Once, Fresh, Collected, Scanning, Done
  <2>2. ErrEarned /\ HotSourceShown /\ ClearSweeps
    BY <1>2 DEF ErrEarned, HotSourceShown, ClearSweeps, Done
  <2> QED
    BY <2>1, <2>2 DEF WalkInv
<1> QED
  BY <1>1, <1>3, <1>4, <1>5 DEF Sane
--------------------------------------------------------------------------------
(* Every behaviour. *)

LEMMA WalkStep ==
  ASSUME Sane, WalkInv, [Next]_vars
  PROVE  Sane' /\ WalkInv'
<1> USE DEF cvars, daemon
<1>1. CASE (Counting \/ Summing) /\ UNCHANGED rvars
  <2>1. UNCHANGED <<job, phase>>
    BY <1>1 DEF Counting, Summing, Arrives, stat_bump, SumBegin, SumRead, SumReadFails, SumEmit
  <2> QED
    BY <1>1, <2>1, AsideKeeps DEF Unreadable
<1>2. CASE cmdRun /\ UNCHANGED rvars
  <2>1. job' = job /\ (Unreadable => Unreadable' \/ ReadsStats)
    BY <1>2 DEF cmdRun, Start, Shutdown, Drained, DrainTimeout, Exit, Unreadable
  <2> QED
    BY <1>2, <2>1, AsideKeeps
<1>3. ASSUME NEW gone, NEW written, MapSane', Changes(gone, written)
      PROVE  Sane' /\ WalkInv'
  <2>1. JobSane'
    BY <1>3, SameWalk DEF Changes, Sane
  <2> QED
    BY <1>3, <2>1, ChangesKeep DEF Sane
<1>4. ASSUME NEW k \in Keys,
             \/ bpf_map_update_elem(k) \/ WriteElem(k) \/ bpf_map_delete_elem(k)
             \/ \E lru \in Keys : EvictFor(k, lru)
      PROVE  Sane' /\ WalkInv'
  BY <1>3, <1>4, UpdateChanges, WriteChanges, DeleteChanges, EvictChanges
<1>5. CASE Tick
  BY <1>3, <1>5, TickChanges
<1>6. CASE Begin \/ StartSizeTicker
  <2>1. /\ job' = job /\ UNCHANGED map /\ ~ReadsStats /\ kept' = Reportable /\ moved' = FALSE
        /\ walk' = [at |-> "next", asOf |-> now, cursor |-> NoKey, count |-> 0,
                    rows |-> <<>>, err |-> FALSE]
    BY <1>6 DEF Begin, StartSizeTicker, Step, Idle, ReadsStats
  <2> QED
    BY <2>1, FreshWalk
<1>7. CASE OpenFails
  BY <1>7, OpenFailsKeeps
<1>8. CASE Reading
  BY <1>8, IterNextKeyKeeps, IterLookupKeeps, IterDoneKeeps, IterFailsKeeps, LookupKeeps,
     ClearDeleteKeeps, ClearDoneKeeps, ClearKeyDeleteKeeps DEF Reading
<1>9. CASE UNCHANGED vars
  BY <1>9, AsideKeeps DEF vars, Unreadable
<1> QED
  BY <1>1, <1>2, <1>4, <1>5, <1>6, <1>7, <1>8, <1>9 DEF Next

\* For maps, clocks and writes without bounds, at every moment of every job.
LEMMA WalkAlways == Spec => [](Sane /\ WalkInv)
<1>1. Init => Sane /\ WalkInv
  BY WalkStarts
<1>2. Sane /\ WalkInv /\ [Next]_vars => Sane' /\ WalkInv'
  BY WalkStep
<1> QED
  BY <1>1, <1>2, PTL DEF Spec

\* For any map, any limit and whatever the programs write meanwhile: an entry that
\* did not change while top (or /api/top) walked its map is missing from the answer
\* only if the answer is full of rows that are at least as hot.
THEOREM TopIsComplete == Spec => []HotSourceShown
<1>1. WalkInv => HotSourceShown
  BY DEF WalkInv
<1> QED
  BY <1>1, WalkAlways, PTL

\* When clear reports success, none of the elements that were in the map when it
\* began is there, although clearMap collects the keys first and deletes them while
\* the programs insert, replace, evict and delete others.
THEOREM ClearLeavesNothing == Spec => []ClearSweeps
<1>1. WalkInv => ClearSweeps
  BY DEF WalkInv
<1> QED
  BY <1>1, WalkAlways, PTL

\* A ban that is written in a map being listed is reportable at that moment.
LEMMA KnownStep ==
  ASSUME BanTime > 0, Sane, Known, [Next]_vars
  PROVE  Known'
<1> USE DEF cvars, daemon
<1>1. ASSUME job' = job, UNCHANGED rvars PROVE Known'
  BY <1>1 DEF rvars, map, history, Known, Walking, Present, Lists, Listed
<1>2. ASSUME NEW gone, NEW written, MapSane', Changes(gone, written) PROVE Known'
  <2>1. /\ UNCHANGED <<job, walk>> /\ Observe(gone, written) /\ ~ReadsStats
        /\ now' \in Nat
    BY <1>2 DEF Changes, Watched
  <2>2. Walking' = Walking /\ Lists' = Lists /\ Listed' = Listed
    BY <2>1, SameWalk
  <2>3. ever \subseteq ever' /\ (Walking => Reportable' \subseteq ever')
    BY <2>1 DEF Observe, history
  <2>4. ASSUME Walking, NEW k \in Present' \cap job.keys
        PROVE  k \in ever' \/ (job.banned /\ entry'[k] <= walk.asOf)
    <3>1. CASE ~job.banned
      BY <2>1, <2>3, <2>4, <3>1 DEF Reportable
    <3>2. CASE job.banned
      <4>1. job.field = "ban" /\ walk.asOf \in Nat
        BY <2>1, <3>2 DEF Sane, JobSane, WalkSane, Walks, Row
      <4>2. CASE k \in Present /\ entry'[k] = entry[k]
        BY <2>3, <2>4, <4>2 DEF Known
      <4>3. CASE entry'[k] = 0
        BY <3>2, <4>1, <4>3
      <4>4. CASE entry'[k] = now' + BanTime
        <5>1. \A t \in Nat : t + BanTime > t
          BY ReadersAssumption
        <5>2. now' + BanTime > now'
          BY <2>1, <5>1
        <5>3. entry'[k] > now'
          BY <4>4, <5>2
        <5> QED
          BY <2>1, <2>3, <2>4, <5>3 DEF Reportable, Banned
      <4> QED
        BY <1>2, <4>1, <4>2, <4>3, <4>4 DEF Changes
    <3> QED
      BY <3>1, <3>2 DEF Sane, JobSane
  <2> HIDE DEF Listed, Lists, Walking, Present
  <2> QED
    BY <2>1, <2>2, <2>3, <2>4 DEF Known
<1>3. ASSUME NEW k \in Keys,
             \/ bpf_map_update_elem(k) \/ WriteElem(k) \/ bpf_map_delete_elem(k)
             \/ \E lru \in Keys : EvictFor(k, lru)
      PROVE  Known'
  BY <1>2, <1>3, UpdateChanges, WriteChanges, DeleteChanges, EvictChanges
<1>4. CASE Tick
  BY <1>2, <1>4, TickChanges
<1>5. CASE Begin \/ StartSizeTicker
  <2>1. /\ job' = job /\ UNCHANGED map /\ ~ReadsStats /\ ever' = Reportable
        /\ walk' = [at |-> "next", asOf |-> now, cursor |-> NoKey, count |-> 0,
                    rows |-> <<>>, err |-> FALSE]
    BY <1>5 DEF Begin, StartSizeTicker, Step, Idle, ReadsStats
  <2>2. Listed' = {} /\ walk'.asOf = now
    BY <2>1 DEF Listed
  <2>3. ASSUME NEW k \in Present' \cap job.keys
        PROVE  k \in Reportable \/ (job.banned /\ entry[k] <= now)
    <3>1. k \in Present /\ entry[k] \in Nat /\ now \in Nat
      BY <2>1 DEF map, Present, Sane, MapSane
    <3> QED
      BY <2>1, <3>1 DEF Reportable, Banned, Sane, JobSane
  <2> QED
    BY <2>1, <2>2, <2>3 DEF Known, map
<1>6. CASE OpenFails
  <2>1. walk'.at = "done" /\ walk'.rows = <<>>
    BY <1>6 DEF OpenFails, Step, Idle
  <2>2. Listed' = {}
    BY <2>1 DEF Listed
  <2> QED
    BY <2>1, <2>2 DEF Known, Walking
<1>7. CASE Reading
  <2>1. walk \in Walks /\ (walk.at # "idle" => ~ReadsStats)
    BY DEF Sane, WalkSane
  <2>2. ASSUME UNCHANGED <<job, entry, ever>>, walk'.asOf = walk.asOf,
               Lists => Listed' \subseteq ever, Walking
        PROVE  Known'
    <3>1. Lists' = Lists /\ Present' = Present
      BY <2>2 DEF Lists, Present
    <3> HIDE DEF Lists, Listed, Present
    <3> QED
      BY <2>2, <3>1 DEF Known
  <2>3. CASE IterNextKey \/ IterFails \/ ClearDone
    <3>1. /\ UNCHANGED <<job, entry, ever>> /\ Walking
          /\ walk'.asOf = walk.asOf /\ walk'.rows = walk.rows
      BY <2>1, <2>3 DEF IterNextKey, IterFails, ClearDone, Step, Answered, map, history, Walks, Row,
                        Walking
    <3>2. Listed' = Listed
      BY <3>1 DEF Listed
    <3> QED
      BY <2>2, <3>1, <3>2 DEF Known
  <2>4. CASE IterLookup
    <3> DEFINE k == walk.cursor
               row == [key |-> k, shown |-> Shown(entry[k])]
               seen == k \in Present /\ Reports(entry[k])
    <3>1. /\ UNCHANGED <<job, entry, ever>> /\ walk.at = "look"
          /\ walk'.asOf = walk.asOf
          /\ walk'.rows = IF seen THEN Append(walk.rows, row) ELSE walk.rows
      BY <2>1, <2>4 DEF IterLookup, Step, map, history, Walks, Row
    <3>2. Walking /\ ~ReadsStats /\ Iterates
      BY <2>1, <3>1 DEF Walking, Sane, WalkSane
    <3>3. walk.rows \in Seq([key : Keys, shown : Int])
      BY <2>1 DEF Walks, Row
    <3>4. seen => k \in ever
      <4> SUFFICES ASSUME seen PROVE k \in ever
        OBVIOUS
      <4>1. k \in Present \cap job.keys /\ entry[k] \in Nat
        BY <3>2 DEF Sane, MapSane, IsChain, ToSet, JobSane
      <4>2. ~(job.banned /\ entry[k] <= walk.asOf)
        BY <2>1, <4>1 DEF Reports, Banned, Walks, Row
      <4> QED
        BY <3>2, <4>1, <4>2 DEF Known
    <3>5. \A i \in DOMAIN walk'.rows :
            \/ i \in DOMAIN walk.rows /\ walk'.rows[i] = walk.rows[i]
            \/ seen /\ walk'.rows[i] = row
      <4> HIDE DEF seen, row
      <4> QED
        BY <3>1, <3>3
    <3>6. Listed' \subseteq Listed \cup IF seen THEN {k} ELSE {}
      <4>1. row.key = k
        OBVIOUS
      <4> HIDE DEF seen, row
      <4> QED
        BY <3>5, <4>1 DEF Listed
    <3> HIDE DEF seen, Listed
    <3>7. Lists => Listed' \subseteq ever
      BY <3>4, <3>6 DEF Known
    <3> QED
      BY <2>2, <3>1, <3>2, <3>7
  <2>5. CASE IterDone
    <3>1. PICK rows \in Answers(walk.rows) :
            walk' = [walk EXCEPT !.rows = rows,
                       !.at = IF job.does = "clear" THEN "delete" ELSE "done"]
      BY <2>5 DEF IterDone, Step
    <3>2. /\ UNCHANGED <<job, entry, ever>> /\ Walking
          /\ walk'.asOf = walk.asOf /\ walk'.rows = rows
      BY <2>1, <2>5, <3>1 DEF IterDone, Step, Answered, map, history, Walks, Row, Walking
    <3>3. Lists => Listed' = Listed
      BY <3>2 DEF Lists, Answers, Listed
    <3> QED
      BY <2>2, <3>2, <3>3 DEF Known
  <2>6. CASE Lookup
    <3>1. PICK k \in job.keys :
            walk' = [walk EXCEPT !.at = "done", !.err = Unreadable,
                       !.rows = IF ~Unreadable /\ k \in Present
                                THEN <<[key |-> k, shown |-> Shown(entry[k])]>> ELSE <<>>]
      BY <2>6 DEF Lookup, Step
    <3>2. /\ UNCHANGED <<job, entry, ever>> /\ Walking /\ ~ReadsStats /\ ~job.banned
          /\ walk'.asOf = walk.asOf
          /\ walk'.rows = IF ~Unreadable /\ k \in Present
                          THEN <<[key |-> k, shown |-> Shown(entry[k])]>> ELSE <<>>
      BY <2>1, <2>6, <3>1 DEF Lookup, Step, Answered, map, history, Walks, Row, Walking,
                              ReadsStats, Sane, JobSane
    <3>3. \A i \in DOMAIN walk'.rows : k \in Present /\ walk'.rows[i].key = k
      BY <3>2
    <3>4. k \in Present => k \in ever
      BY <3>2 DEF Known
    <3>5. Listed' \subseteq ever
      BY <3>3, <3>4 DEF Listed
    <3> QED
      BY <2>2, <3>2, <3>5
  <2>7. CASE ClearDelete \/ ClearKeyDelete
    <3>1. PICK k : DeleteElem(k)
      BY <2>7 DEF ClearDelete, ClearKeyDelete
    <3>2. job' = job /\ Walking /\ walk'.asOf = walk.asOf /\ ~Lists
      BY <2>1, <2>7 DEF ClearDelete, ClearKeyDelete, Step, Answered, Walks, Row, Walking, Lists,
                        Sane, WalkSane
    <3>3. /\ ever' = ever /\ Present' = Present \ {k}
          /\ \A j \in Present' : entry'[j] = entry[j]
      BY <3>1 DEF DeleteElem, Del, Present
    <3> QED
      BY <3>2, <3>3 DEF Known, Lists
  <2> QED
    BY <1>7, <2>3, <2>4, <2>5, <2>6, <2>7 DEF Reading
<1>8. CASE (Counting \/ Summing \/ cmdRun) /\ UNCHANGED rvars
  <2>1. job' = job
    BY <1>8 DEF Counting, Summing, Arrives, stat_bump, SumBegin, SumRead, SumReadFails, SumEmit,
                cmdRun, Start, Shutdown, Drained, DrainTimeout, Exit
  <2> QED
    BY <1>1, <1>8, <2>1
<1>9. CASE UNCHANGED vars
  BY <1>1, <1>9 DEF vars
<1> QED
  BY <1>3, <1>4, <1>5, <1>6, <1>7, <1>8, <1>9 DEF Next

\* Listings and counts through the map iterator (dump, health, info, inspect, the
\* API, the gauges), in maps of any size: they contain what was there all the while
\* and only what was there at some moment, count nothing twice unless an element
\* was removed or replaced, and fail after the first entry only if the daemon
\* closed the map or removals made the iterator give up.  Bans must last: one of
\* length 0 written during a listing of bans in force at walk.asOf would be in it
\* without ever having been in force.
THEOREM ListingsAreFaithful ==
  ASSUME BanTime > 0
  PROVE  Spec => []ScanFaithful
<1>1. Init => Known
  BY DEF Init, Idle, Known, Walking, Listed
<1>2. Sane /\ Known /\ [Next]_vars => Known'
  BY KnownStep
<1>3. Sane /\ WalkInv /\ Known => ScanFaithful
  <2> SUFFICES ASSUME Sane, WalkInv, Known PROVE ScanFaithful
    OBVIOUS
  <2>1. walk.err => walk.count = 0 \/ Unreadable \/ (moved /\ Aborted)
    BY DEF WalkInv, ErrEarned
  <2>2. ASSUME Done, Lists
        PROVE  /\ kept \subseteq Listed /\ Listed \subseteq ever
               /\ ~moved => Cardinality(Listed) = Len(walk.rows)
    <3>1. kept \subseteq Listed /\ Listed \subseteq ever
      BY <2>2 DEF WalkInv, Collected, Known
    <3>2. ASSUME ~moved PROVE Cardinality(Listed) = Len(walk.rows)
      <4> DEFINE n == Len(walk.rows)
                 f == [i \in 1..n |-> walk.rows[i].key]
      <4>1. n \in Nat /\ DOMAIN walk.rows = 1..n
        BY DEF Sane, WalkSane, Walks, Row
      <4>2. \A i, j \in 1..n : i < j => f[i] # f[j]
        BY <2>2, <3>2, <4>1 DEF WalkInv, Once
      <4>3. Listed = {f[i] : i \in 1..n}
        BY <4>1 DEF Listed
      <4>4. DOMAIN f = 1..n
        OBVIOUS
      <4> HIDE DEF f, n, Listed
      <4> QED
        BY <4>1, <4>2, <4>3, <4>4, DistinctCount DEF n
    <3> QED
      BY <3>1, <3>2
  <2> QED
    BY <2>1, <2>2 DEF ScanFaithful, Lists
<1> QED
  BY <1>1, <1>2, <1>3, WalkAlways, PTL DEF Spec
================================================================================
