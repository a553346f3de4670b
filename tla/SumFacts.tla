-------------------------------- MODULE SumFacts --------------------------------
(***************************************************************************)
(* What the proofs need to know of SumFunctionOnSet, the sum of a function *)
(* over a finite set: the counters of the filter are read as such sums.    *)
(*                                                                         *)
(* SumFunctionOnSet is a fold, a recursive function on the subsets of the  *)
(* index set.  Its facts are proved by taking a least counterexample: a    *)
(* smallest subset, or a smallest number, for which they fail.             *)
(***************************************************************************)
EXTENDS Functions, FiniteSetTheorems, TLAPS

(* Least elements. *)

LEMMA LeastNumber ==
  ASSUME NEW T, T \subseteq Nat, T # {}
  PROVE  \E n \in T : \A m \in T : n <= m
<1> DEFINE R == {ss \in Nat \X Nat : ss[1] < ss[2]}
<1>1. R = OpToRel(<, Nat)
  BY Zenon DEF OpToRel
<1>2. IsWellFoundedOn(R, Nat)
  BY <1>1, NatLessThanWellFounded, Zenon
<1>3. \A m, n \in Nat : m < n => <<m, n>> \in R
  OBVIOUS
<1> HIDE DEF R
<1>4. PICK n \in T : \A m \in T : ~(<<m, n>> \in R)
  BY <1>2, WFMin
<1>5. ASSUME NEW m \in T PROVE n <= m
  <2>1. m \in Nat /\ n \in Nat /\ ~(m < n)
    BY <1>3, <1>4, <1>5
  <2> QED
    BY <2>1
<1> QED
  BY <1>5

LEMMA LeastSubset ==
  ASSUME NEW S, IsFiniteSet(S), NEW T, T \subseteq SUBSET S, T # {}
  PROVE  \E x \in T : \A y \in T : ~(y \subseteq x /\ y # x)
<1>1. IsWellFoundedOn(StrictSubsetOrdering(S), SUBSET S)
  BY FS_StrictSubsetOrderingWellFounded, FS_FiniteSubsetsOfFinite
<1>2. PICK x \in T : \A y \in T : ~(<<y, x>> \in StrictSubsetOrdering(S))
  BY <1>1, WFMin
<1>3. \A y \in T : ~(y \subseteq x /\ y # x)
  BY <1>2 DEF StrictSubsetOrdering
<1> QED
  BY <1>3
--------------------------------------------------------------------------------
(* The recursion. *)

Pick(s) == CHOOSE x \in s : TRUE

\* g is the function the fold defines on the sets of D, which is closed under
\* taking the picked element away.
Folded(f, D, g) ==
    g = [s \in D |-> IF s = {} THEN 0 ELSE f[Pick(s)] + g[s \ {Pick(s)}]]

LEMMA PickIn ==
  ASSUME NEW s, s # {}
  PROVE  Pick(s) \in s
BY DEF Pick

LEMMA SumUnfold ==
  ASSUME NEW f, NEW S
  PROVE  SumFunctionOnSet(f, S) = (CHOOSE g : Folded(f, SUBSET S, g))[S]
BY DEF SumFunctionOnSet, FoldFunctionOnSet, MapThenFoldSet, Folded, Pick

\* The sets of at most n elements carry the recursion as far as it is needed.
UpTo(S, n) == {s \in SUBSET S : Cardinality(s) <= n}

LEMMA UpToDown ==
  ASSUME NEW S, IsFiniteSet(S), NEW n \in Nat, NEW s \in UpTo(S, n), s # {}
  PROVE  n # 0 /\ s \ {Pick(s)} \in UpTo(S, n - 1)
<1>1. IsFiniteSet(s) /\ Cardinality(s) \in Nat /\ Cardinality(s) <= n /\ s \in SUBSET S
  BY FS_Subset, FS_CardinalityType DEF UpTo
<1>2. Cardinality(s) # 0
  BY <1>1, FS_EmptySet
<1>3. Cardinality(s \ {Pick(s)}) = Cardinality(s) - 1
  BY <1>1, PickIn, FS_RemoveElement
<1> QED
  BY <1>1, <1>2, <1>3 DEF UpTo

LEMMA FoldExists ==
  ASSUME NEW f, NEW S, IsFiniteSet(S)
  PROVE  \E g : Folded(f, SUBSET S, g)
<1> DEFINE Bad == {n \in Nat : ~\E g : Folded(f, UpTo(S, n), g)}
<1>1. Bad = {}
  <2> SUFFICES ASSUME Bad # {} PROVE FALSE
    OBVIOUS
  <2>1. PICK n \in Bad : \A m \in Bad : n <= m
    BY LeastNumber
  <2>2. n \in Nat /\ ~\E g : Folded(f, UpTo(S, n), g)
    BY <2>1
  <2>3. CASE n = 0
    <3> DEFINE g == [s \in UpTo(S, n) |-> 0]
    <3>1. \A s \in UpTo(S, n) : s = {}
      BY <2>2, <2>3, UpToDown
    <3>2. Folded(f, UpTo(S, n), g)
      BY <3>1 DEF Folded
    <3> QED
      BY <2>2, <3>2
  <2>4. CASE n # 0
    <3>1. n - 1 \in Nat /\ ~(n <= n - 1)
      BY <2>2, <2>4
    <3>2. n - 1 \notin Bad
      BY <2>1, <3>1
    <3>3. PICK g : Folded(f, UpTo(S, n - 1), g)
      BY <3>1, <3>2
    <3> DEFINE h == [s \in UpTo(S, n) |->
                        IF s = {} THEN 0 ELSE f[Pick(s)] + g[s \ {Pick(s)}]]
    <3>4. UpTo(S, n - 1) \subseteq UpTo(S, n)
      <4>1. ASSUME NEW s \in UpTo(S, n - 1) PROVE s \in UpTo(S, n)
        <5>1. IsFiniteSet(s)
          BY <4>1, FS_Subset DEF UpTo
        <5>2. Cardinality(s) \in Nat
          BY <5>1, FS_CardinalityType
        <5> QED
          BY <2>2, <3>1, <4>1, <5>2 DEF UpTo
      <4> QED
        BY <4>1
    <3>5. \A t \in UpTo(S, n - 1) : h[t] = g[t]
      BY <3>3, <3>4 DEF Folded
    <3>6. \A s \in UpTo(S, n) : s # {} => h[s \ {Pick(s)}] = g[s \ {Pick(s)}]
      BY <2>2, <3>5, UpToDown
    <3>7. h = [s \in UpTo(S, n) |-> IF s = {} THEN 0 ELSE f[Pick(s)] + h[s \ {Pick(s)}]]
      BY <3>6
    <3> HIDE DEF h
    <3>8. Folded(f, UpTo(S, n), h)
      BY <3>7 DEF Folded
    <3> QED
      BY <2>2, <3>8
  <2> QED
    BY <2>3, <2>4
<1>2. UpTo(S, Cardinality(S)) = SUBSET S
  BY FS_Subset DEF UpTo
<1>3. Cardinality(S) \in Nat
  BY FS_CardinalityType
<1>4. Cardinality(S) \notin Bad
  BY <1>1
<1> QED
  BY <1>2, <1>3, <1>4

\* The function of a set has the sums of all its subsets.
LEMMA FoldIsSum ==
  ASSUME NEW f, NEW S, IsFiniteSet(S), NEW g, Folded(f, SUBSET S, g), NEW T \in SUBSET S
  PROVE  g[T] = SumFunctionOnSet(f, T)
<1>1. IsFiniteSet(T)
  BY FS_Subset
<1>2. PICK h : Folded(f, SUBSET T, h) /\ SumFunctionOnSet(f, T) = h[T]
  BY <1>1, FoldExists, SumUnfold
<1> DEFINE Bad == {t \in SUBSET T : g[t] # h[t]}
<1> SUFFICES ASSUME Bad # {} PROVE FALSE
  BY <1>2
<1>3. Bad \subseteq SUBSET T
  OBVIOUS
<1> HIDE DEF Bad
<1>4. PICK x \in Bad : \A y \in Bad : ~(y \subseteq x /\ y # x)
  BY <1>1, <1>3, LeastSubset
<1> USE DEF Bad
<1>5. x \in SUBSET T /\ x \in SUBSET S /\ g[x] # h[x]
  BY <1>4
<1>6. /\ g[x] = IF x = {} THEN 0 ELSE f[Pick(x)] + g[x \ {Pick(x)}]
      /\ h[x] = IF x = {} THEN 0 ELSE f[Pick(x)] + h[x \ {Pick(x)}]
  BY <1>2, <1>5 DEF Folded
<1>7. x # {}
  BY <1>5, <1>6
<1>8. g[x \ {Pick(x)}] # h[x \ {Pick(x)}]
  BY <1>5, <1>6, <1>7
<1>9. x \ {Pick(x)} \in Bad /\ x \ {Pick(x)} # x
  BY <1>5, <1>7, <1>8, PickIn
<1> QED
  BY <1>4, <1>9

\* The sum of a set is what is picked plus the sum of the rest.
LEMMA SumStep ==
  ASSUME NEW f, NEW S, IsFiniteSet(S)
  PROVE  /\ S = {} => SumFunctionOnSet(f, S) = 0
         /\ S # {} => SumFunctionOnSet(f, S)
                       = f[Pick(S)] + SumFunctionOnSet(f, S \ {Pick(S)})
<1>1. PICK g : Folded(f, SUBSET S, g)
  BY FoldExists
<1>2. \A T \in SUBSET S : g[T] = SumFunctionOnSet(f, T)
  BY <1>1, FoldIsSum, Zenon
<1>3. g[S] = IF S = {} THEN 0 ELSE f[Pick(S)] + g[S \ {Pick(S)}]
  BY <1>1 DEF Folded
<1> QED
  BY <1>2, <1>3
--------------------------------------------------------------------------------
(* Sums of naturals. *)

SumNat(f, S) == IsFiniteSet(S) /\ \A x \in S : f[x] \in Nat

LEMMA SumNatSubset ==
  ASSUME NEW f, NEW S, SumNat(f, S), NEW T \in SUBSET S
  PROVE  SumNat(f, T)
BY FS_Subset DEF SumNat

LEMMA SumEmpty ==
  ASSUME NEW f
  PROVE  SumFunctionOnSet(f, {}) = 0
BY FS_EmptySet, SumStep

LEMMA SumType ==
  ASSUME NEW f, NEW S, SumNat(f, S)
  PROVE  SumFunctionOnSet(f, S) \in Nat
<1> DEFINE Bad == {t \in SUBSET S : SumFunctionOnSet(f, t) \notin Nat}
<1> SUFFICES ASSUME Bad # {} PROVE FALSE
  OBVIOUS
<1>0. Bad \subseteq SUBSET S /\ IsFiniteSet(S)
  BY DEF SumNat
<1> HIDE DEF Bad
<1>1. PICK x \in Bad : \A y \in Bad : ~(y \subseteq x /\ y # x)
  BY <1>0, LeastSubset
<1> USE DEF Bad
<1>2. x \in SUBSET S /\ IsFiniteSet(x) /\ SumFunctionOnSet(f, x) \notin Nat
  BY <1>1, FS_Subset DEF SumNat
<1>3. x # {}
  BY <1>2, SumEmpty
<1>4. /\ Pick(x) \in x /\ f[Pick(x)] \in Nat
      /\ SumFunctionOnSet(f, x) = f[Pick(x)] + SumFunctionOnSet(f, x \ {Pick(x)})
  BY <1>2, <1>3, PickIn, SumStep DEF SumNat
<1>5. x \ {Pick(x)} \in Bad
  BY <1>2, <1>4
<1> QED
  BY <1>1, <1>4, <1>5

\* Any element may be taken out first.
LEMMA SumElement ==
  ASSUME NEW f, NEW S, SumNat(f, S), NEW e \in S
  PROVE  SumFunctionOnSet(f, S) = f[e] + SumFunctionOnSet(f, S \ {e})
<1> DEFINE Holds(t, x) ==
             SumFunctionOnSet(f, t) = f[x] + SumFunctionOnSet(f, t \ {x})
           Bad == {t \in SUBSET S : \E x \in t : ~Holds(t, x)}
<1> SUFFICES ASSUME Bad # {} PROVE FALSE
  OBVIOUS
<1>0. Bad \subseteq SUBSET S /\ IsFiniteSet(S)
  BY DEF SumNat
<1> HIDE DEF Bad
<1>1. PICK t \in Bad : \A y \in Bad : ~(y \subseteq t /\ y # t)
  BY <1>0, LeastSubset
<1> USE DEF Bad
<1>2. PICK x \in t : ~Holds(t, x)
  BY <1>1
<1> DEFINE p == Pick(t)
<1>3. t \in SUBSET S /\ t # {} /\ p \in t /\ Holds(t, p)
  BY <1>1, <1>2, PickIn, SumStep, FS_Subset DEF SumNat
<1>4. p # x
  BY <1>2, <1>3
<1>5. Holds(t \ {p}, x)
  <2>1. t \ {p} \notin Bad
    BY <1>1, <1>3
  <2> QED
    BY <1>2, <1>3, <1>4, <2>1
<1>6. Holds(t \ {x}, p)
  <2>1. t \ {x} \notin Bad
    BY <1>1, <1>2
  <2> QED
    BY <1>3, <1>4, <2>1
<1>7. (t \ {p}) \ {x} = (t \ {x}) \ {p}
  OBVIOUS
<1>8. /\ f[p] \in Nat /\ f[x] \in Nat
      /\ SumFunctionOnSet(f, (t \ {x}) \ {p}) \in Nat
  <2>1. SumNat(f, (t \ {x}) \ {p})
    BY <1>3, SumNatSubset
  <2> QED
    BY <1>2, <1>3, <2>1, SumType DEF SumNat
<1> HIDE DEF p
<1> QED
  BY <1>2, <1>3, <1>5, <1>6, <1>7, <1>8

\* The sum depends on the values at the indices only.
LEMMA SumSame ==
  ASSUME NEW f, NEW g, NEW S, IsFiniteSet(S), \A x \in S : f[x] = g[x]
  PROVE  SumFunctionOnSet(f, S) = SumFunctionOnSet(g, S)
<1> DEFINE Bad == {t \in SUBSET S : SumFunctionOnSet(f, t) # SumFunctionOnSet(g, t)}
<1> SUFFICES ASSUME Bad # {} PROVE FALSE
  OBVIOUS
<1>0. Bad \subseteq SUBSET S /\ IsFiniteSet(S)
  OBVIOUS
<1> HIDE DEF Bad
<1>1. PICK t \in Bad : \A y \in Bad : ~(y \subseteq t /\ y # t)
  BY <1>0, LeastSubset
<1> USE DEF Bad
<1>2. /\ t \in SUBSET S /\ IsFiniteSet(t)
      /\ SumFunctionOnSet(f, t) # SumFunctionOnSet(g, t)
  BY <1>1, FS_Subset
<1>3. t # {}
  BY <1>2, SumEmpty
<1>4. /\ Pick(t) \in t
      /\ SumFunctionOnSet(f, t) = f[Pick(t)] + SumFunctionOnSet(f, t \ {Pick(t)})
      /\ SumFunctionOnSet(g, t) = g[Pick(t)] + SumFunctionOnSet(g, t \ {Pick(t)})
  BY <1>2, <1>3, PickIn, SumStep
<1>5. t \ {Pick(t)} \in Bad
  BY <1>2, <1>4
<1> QED
  BY <1>1, <1>4, <1>5

\* Nothing sums to nothing.
LEMMA SumZero ==
  ASSUME NEW f, NEW S, IsFiniteSet(S), \A x \in S : f[x] = 0
  PROVE  SumFunctionOnSet(f, S) = 0
<1> DEFINE Bad == {t \in SUBSET S : SumFunctionOnSet(f, t) # 0}
<1> SUFFICES ASSUME Bad # {} PROVE FALSE
  OBVIOUS
<1>0. Bad \subseteq SUBSET S
  OBVIOUS
<1> HIDE DEF Bad
<1>1. PICK t \in Bad : \A y \in Bad : ~(y \subseteq t /\ y # t)
  BY <1>0, LeastSubset
<1> USE DEF Bad
<1>2. t \in SUBSET S /\ IsFiniteSet(t) /\ SumFunctionOnSet(f, t) # 0
  BY <1>1, FS_Subset
<1>3. t # {}
  BY <1>2, SumEmpty
<1>4. /\ Pick(t) \in t
      /\ SumFunctionOnSet(f, t) = f[Pick(t)] + SumFunctionOnSet(f, t \ {Pick(t)})
  BY <1>2, <1>3, PickIn, SumStep
<1>5. t \ {Pick(t)} \notin Bad
  BY <1>1, <1>4
<1> QED
  BY <1>2, <1>4, <1>5

\* A function that differs at one index.
LEMMA SumUpdate ==
  ASSUME NEW f, NEW g, NEW S, SumNat(f, S), SumNat(g, S), NEW e \in S,
         \A x \in S : x # e => g[x] = f[x]
  PROVE  SumFunctionOnSet(g, S) + f[e] = SumFunctionOnSet(f, S) + g[e]
<1>1. /\ SumFunctionOnSet(f, S) = f[e] + SumFunctionOnSet(f, S \ {e})
      /\ SumFunctionOnSet(g, S) = g[e] + SumFunctionOnSet(g, S \ {e})
  BY SumElement
<1>2. IsFiniteSet(S \ {e})
  BY FS_Subset DEF SumNat
<1>3. SumFunctionOnSet(f, S \ {e}) = SumFunctionOnSet(g, S \ {e})
  BY <1>2, SumSame
<1>4. f[e] \in Nat /\ g[e] \in Nat /\ SumFunctionOnSet(f, S \ {e}) \in Nat
  BY SumNatSubset, SumType DEF SumNat
<1> QED
  BY <1>1, <1>3, <1>4

\* One more index.
LEMMA SumAdd ==
  ASSUME NEW f, NEW S, NEW e, e \notin S, SumNat(f, S \cup {e})
  PROVE  SumFunctionOnSet(f, S \cup {e}) = f[e] + SumFunctionOnSet(f, S)
<1>1. (S \cup {e}) \ {e} = S
  OBVIOUS
<1> QED
  BY <1>1, SumElement

\* A sum of larger values is larger.
LEMMA SumMonotone ==
  ASSUME NEW f, NEW g, NEW S, SumNat(f, S), SumNat(g, S),
         \A x \in S : f[x] <= g[x]
  PROVE  SumFunctionOnSet(f, S) <= SumFunctionOnSet(g, S)
<1> DEFINE Bad == {t \in SUBSET S :
                     ~(SumFunctionOnSet(f, t) <= SumFunctionOnSet(g, t))}
<1> SUFFICES ASSUME Bad # {} PROVE FALSE
  OBVIOUS
<1>0. Bad \subseteq SUBSET S /\ IsFiniteSet(S)
  BY DEF SumNat
<1> HIDE DEF Bad
<1>1. PICK t \in Bad : \A y \in Bad : ~(y \subseteq t /\ y # t)
  BY <1>0, LeastSubset
<1> USE DEF Bad
<1>2. /\ t \in SUBSET S /\ SumNat(f, t) /\ SumNat(g, t)
      /\ ~(SumFunctionOnSet(f, t) <= SumFunctionOnSet(g, t))
  BY <1>1, SumNatSubset
<1>3. t # {}
  BY <1>2, SumEmpty
<1> DEFINE p == Pick(t)
           A == SumFunctionOnSet(f, t \ {p})
           B == SumFunctionOnSet(g, t \ {p})
<1>4. p \in t
  BY <1>3, PickIn
<1>5. SumFunctionOnSet(f, t) = f[p] + A /\ SumFunctionOnSet(g, t) = g[p] + B
  BY <1>2, <1>4, SumElement
<1>6. A \in Nat /\ B \in Nat /\ f[p] \in Nat /\ g[p] \in Nat /\ f[p] <= g[p]
  BY <1>2, <1>4, SumNatSubset, SumType DEF SumNat
<1>7. t \ {p} \notin Bad
  BY <1>1, <1>4
<1>8. A <= B
  BY <1>2, <1>7
<1> HIDE DEF A, B, p
<1> QED
  BY <1>2, <1>5, <1>6, <1>8

\* A sum over fewer indices is smaller.
LEMMA SumFewer ==
  ASSUME NEW f, NEW S, SumNat(f, S), NEW T \in SUBSET S
  PROVE  SumFunctionOnSet(f, T) <= SumFunctionOnSet(f, S)
<1> DEFINE R == S \ T
           Bad == {x \in SUBSET R :
                     ~(SumFunctionOnSet(f, T) <= SumFunctionOnSet(f, T \cup x))}
<1>1. T \cup R = S /\ R \in SUBSET R
  OBVIOUS
<1> SUFFICES ASSUME Bad # {} PROVE FALSE
  BY <1>1
<1>2. IsFiniteSet(R) /\ Bad \subseteq SUBSET R
  BY FS_Subset DEF SumNat
<1> HIDE DEF Bad
<1>3. PICK x \in Bad : \A y \in Bad : ~(y \subseteq x /\ y # x)
  BY <1>2, LeastSubset
<1> USE DEF Bad
<1>4. /\ x \in SUBSET R
      /\ ~(SumFunctionOnSet(f, T) <= SumFunctionOnSet(f, T \cup x))
  BY <1>3
<1>5. SumFunctionOnSet(f, T) \in Nat
  BY SumNatSubset, SumType
<1>6. x # {}
  <2>1. T \cup {} = T
    OBVIOUS
  <2> QED
    BY <1>4, <1>5, <2>1
<1> DEFINE p == Pick(x)
           rest == T \cup (x \ {p})
<1>7. p \in x /\ x \ {p} \in SUBSET R /\ x \ {p} # x /\ x \ {p} \notin Bad
  BY <1>3, <1>4, <1>6, PickIn
<1>8. SumFunctionOnSet(f, T) <= SumFunctionOnSet(f, rest)
  BY <1>7
<1>9. T \cup x = rest \cup {p} /\ p \notin rest /\ rest \cup {p} \in SUBSET S /\ p \in S
  BY <1>4, <1>7
<1> HIDE DEF rest, p
<1>10. SumNat(f, rest \cup {p}) /\ SumNat(f, rest) /\ f[p] \in Nat
  BY <1>9, SumNatSubset DEF SumNat
<1>11. SumFunctionOnSet(f, rest \cup {p}) = f[p] + SumFunctionOnSet(f, rest)
  BY <1>9, <1>10, SumAdd
<1>12. SumFunctionOnSet(f, rest) \in Nat
  BY <1>10, SumType
<1> DEFINE A == SumFunctionOnSet(f, T)
           B == SumFunctionOnSet(f, rest)
           C == SumFunctionOnSet(f, T \cup x)
<1>13. /\ A \in Nat /\ B \in Nat /\ f[p] \in Nat /\ A <= B /\ C = f[p] + B
       /\ ~(A <= C)
  BY <1>4, <1>5, <1>8, <1>9, <1>10, <1>11, <1>12
<1> HIDE DEF A, B, C, Bad
<1> QED
  BY <1>13

\* Two sums in one.
LEMMA SumPlus ==
  ASSUME NEW f, NEW g, NEW h, NEW S, SumNat(f, S), SumNat(g, S),
         \A x \in S : h[x] = f[x] + g[x]
  PROVE  SumFunctionOnSet(h, S) = SumFunctionOnSet(f, S) + SumFunctionOnSet(g, S)
<1>h. SumNat(h, S)
  BY DEF SumNat
<1> DEFINE Bad == {t \in SUBSET S :
                     SumFunctionOnSet(h, t)
                       # SumFunctionOnSet(f, t) + SumFunctionOnSet(g, t)}
<1> SUFFICES ASSUME Bad # {} PROVE FALSE
  OBVIOUS
<1>0. Bad \subseteq SUBSET S /\ IsFiniteSet(S)
  BY DEF SumNat
<1> HIDE DEF Bad
<1>1. PICK t \in Bad : \A y \in Bad : ~(y \subseteq t /\ y # t)
  BY <1>0, LeastSubset
<1> USE DEF Bad
<1>2. /\ t \in SUBSET S /\ SumNat(f, t) /\ SumNat(g, t) /\ SumNat(h, t)
      /\ SumFunctionOnSet(h, t) # SumFunctionOnSet(f, t) + SumFunctionOnSet(g, t)
  BY <1>h, <1>1, SumNatSubset
<1>3. t # {}
  BY <1>2, SumEmpty
<1> DEFINE p == Pick(t)
           A == SumFunctionOnSet(f, t \ {p})
           B == SumFunctionOnSet(g, t \ {p})
           C == SumFunctionOnSet(h, t \ {p})
<1>4. p \in t
  BY <1>3, PickIn
<1>5. /\ SumFunctionOnSet(f, t) = f[p] + A /\ SumFunctionOnSet(g, t) = g[p] + B
      /\ SumFunctionOnSet(h, t) = h[p] + C
  BY <1>2, <1>4, SumElement
<1>6. A \in Nat /\ B \in Nat /\ C \in Nat /\ f[p] \in Nat /\ g[p] \in Nat
      /\ h[p] = f[p] + g[p]
  BY <1>2, <1>4, SumNatSubset, SumType DEF SumNat
<1>7. t \ {p} \notin Bad
  BY <1>1, <1>4
<1>8. C = A + B
  BY <1>2, <1>7
<1> HIDE DEF A, B, C, p
<1> QED
  BY <1>2, <1>5, <1>6, <1>8
================================================================================
