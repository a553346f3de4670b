----------------------------- MODULE SockopsSmpProofs -----------------------------
(***************************************************************************)
(* Proofs about SockopsSmp, for any number of CPUs, connections, attempts  *)
(* and logins.  Closes that give up are counted in `lost`, so nothing here *)
(* depends on the eight attempts of open_count_dec being enough.           *)
(***************************************************************************)
EXTENDS SockopsSmp, FiniteSetTheorems, TLAPS

Places == {"idle", "est_update", "inc_noexist", "inc_add",
           "dec_load", "dec_cas", "del_est", "del_wl", "del_fd",
           "xdp_est", "xdp_first", "xdp_mark", "xdp_count",
           "xdp_load", "xdp_take", "xdp_promote"}

(* One context moves. *)

LEMMA AtMoves ==
  ASSUME NEW places, NEW p \in Procs, NEW to,
         pc \in [Procs -> Places], pc' = [pc EXCEPT ![p] = to]
  PROVE  At(places)' = IF to \in places THEN At(places) \cup {p}
                                        ELSE At(places) \ {p}
BY DEF At

\* How many contexts are at some places, after a move.
LEMMA CardMoves ==
  ASSUME NEW places, NEW p \in Procs, NEW to,
         pc \in [Procs -> Places], pc' = [pc EXCEPT ![p] = to]
  PROVE  /\ Cardinality(At(places)) \in Nat
         /\ Cardinality(At(places)') =
               CASE to \in places /\ pc[p] \notin places -> Cardinality(At(places)) + 1
                 [] to \notin places /\ pc[p] \in places -> Cardinality(At(places)) - 1
                 [] OTHER -> Cardinality(At(places))
<1>1. IsFiniteSet(At(places))
  <2>1. At(places) \in SUBSET Procs
    BY DEF At
  <2> QED
    BY <2>1, SmpAssumption, FS_Subset
<1>2. Cardinality(At(places)) \in Nat
  BY <1>1, FS_CardinalityType
<1>3. p \in At(places) <=> pc[p] \in places
  BY DEF At
<1>4. Cardinality(At(places) \cup {p}) =
         IF pc[p] \in places THEN Cardinality(At(places)) ELSE Cardinality(At(places)) + 1
  BY <1>1, <1>3, FS_AddElement
<1>5. Cardinality(At(places) \ {p}) =
         IF pc[p] \in places THEN Cardinality(At(places)) - 1 ELSE Cardinality(At(places))
  BY <1>1, <1>3, FS_RemoveElement
<1>6. CASE to \in places
  <2>1. At(places)' = At(places) \cup {p}
    BY <1>6, AtMoves
  <2> QED
    BY <1>2, <1>4, <1>6, <2>1
<1>7. CASE to \notin places
  <2>1. At(places)' = At(places) \ {p}
    BY <1>7, AtMoves
  <2> QED
    BY <1>2, <1>5, <1>7, <2>1
<1> QED
  BY <1>6, <1>7

LEMMA CardStays ==
  ASSUME NEW places, pc' = pc
  PROVE  Cardinality(At(places)') = Cardinality(At(places))
<1>1. At(places)' = At(places)
  BY DEF At
<1> QED
  BY <1>1
--------------------------------------------------------------------------------
(* Types.  The bucket is part of them: a token is only taken from a bucket   *)
(* that was seen to hold one.                                                *)

Loaded ==
    \A p \in Procs : /\ pc[p] = "dec_cas" => cur[p] \in Nat \ {0}
                     /\ pc[p] = "xdp_take" => cur[p] \in 1..LoginBurst \cup {Absent}
                     /\ pc[p] = "inc_add" => count # Absent

Typed == TypeOK /\ Loaded

LEMMA InitTyped == Init => Typed
<1> SUFFICES ASSUME Init PROVE Typed
  OBVIOUS
<1>1. est \in BOOLEAN /\ wl \in BOOLEAN /\ fd \in BOOLEAN /\ ghost \in BOOLEAN
  BY Zenon DEF Init
<1> QED
  BY <1>1, SmpAssumption DEF Init, Typed, TypeOK, Loaded, Absent

LEMMA StepTyped ==
  ASSUME Typed, NEW p \in Procs, Begin(p) \/ Step(p)
  PROVE  Typed'
<1> USE SmpAssumption DEF Typed, TypeOK, Loaded, Absent, Goto
<1>1. CASE EstBegin(p)
  BY <1>1 DEF EstBegin, maps, sock, ledger
<1>2. CASE EstUpdate(p)
  BY <1>2 DEF EstUpdate, sock, ledger
<1>3. CASE IncNoExist(p)
  BY <1>3 DEF IncNoExist, sock, ledger
<1>4. CASE IncAdd(p)
  BY <1>4 DEF IncAdd, HitsOthers, ledger
<1>5. CASE DecBegin(p)
  BY <1>5 DEF DecBegin, maps, ledger
<1>6. CASE DecLoad(p)
  BY <1>6 DEF DecLoad, maps, sock, ledger
<1>7. CASE DecCas(p)
  <2>1. CASE count = cur[p]
    BY <1>7, <2>1 DEF DecCas, HitsOthers, ledger
  <2>2. CASE count # cur[p]
    BY <1>7, <2>2 DEF DecCas, ledger
  <2> QED
    BY <2>1, <2>2
<1>8. CASE DelEst(p)
  BY <1>8 DEF DelEst, sock, ledger
<1>9. CASE DelWl(p)
  BY <1>9 DEF DelWl, Overtakes, At, sock, ledger
<1>10. CASE DelFd(p)
  BY <1>10 DEF DelFd, sock, ledger
<1>11. CASE XdpBegin(p) \/ XdpEst(p) \/ XdpFirst(p)
  BY <1>11 DEF XdpBegin, XdpEst, XdpFirst, maps, sock, ledger
<1>12. CASE XdpMark(p)
  BY <1>12 DEF XdpMark, sock, ledger
<1>13. CASE XdpCount(p)
  BY <1>13 DEF XdpCount, maps, sock, ledger
<1>14. CASE XdpLoad(p)
  BY <1>14 DEF XdpLoad, maps, sock, ledger
<1>15. CASE XdpTake(p)
  BY <1>15 DEF XdpTake, maps, sock
<1>16. CASE XdpPromote(p)
  BY <1>16 DEF XdpPromote, sock, ledger
<1> QED
  BY <1>1, <1>2, <1>3, <1>4, <1>5, <1>6, <1>7, <1>8, <1>9, <1>10, <1>11, <1>12,
     <1>13, <1>14, <1>15, <1>16 DEF Begin, Step

LEMMA NextTyped == Typed /\ [Next]_vars => Typed'
<1> SUFFICES ASSUME Typed, [Next]_vars PROVE Typed'
  OBVIOUS
<1>1. CASE Next
  BY <1>1, StepTyped DEF Next
<1>2. CASE UNCHANGED vars
  BY <1>2 DEF vars, maps, sock, ledger, Typed, TypeOK, Loaded
<1> QED
  BY <1>1, <1>2

\* Whatever the interleaving, every variable keeps its type: the count and the
\* bucket never fall below zero and no close makes more attempts than it has.
THEOREM SmpTypes == Spec => []TypeOK
<1>1. Typed => TypeOK
  BY DEF Typed
<1> QED
  BY <1>1, InitTyped, NextTyped, PTL DEF Spec
--------------------------------------------------------------------------------
(* The count.                                                                *)

Closing == Cardinality(At(Closes))

LEMMA CountTypes ==
  ASSUME Typed
  PROVE  Value \in Nat /\ Closing \in Nat /\ live \in Nat /\ lost \in Nat
<1>1. At(Closes) \in SUBSET Procs
  BY DEF At
<1>2. Closing \in Nat
  BY <1>1, SmpAssumption, FS_Subset, FS_CardinalityType DEF Closing
<1> QED
  BY <1>2 DEF Value, Typed, TypeOK

\* Contexts in the loop of open_count_dec, after a move of p.
LEMMA Moves ==
  ASSUME Typed, NEW p \in Procs, NEW to, pc' = [pc EXCEPT ![p] = to]
  PROVE  Closing' = CASE to \in Closes /\ pc[p] \notin Closes -> Closing + 1
                      [] to \notin Closes /\ pc[p] \in Closes -> Closing - 1
                      [] OTHER -> Closing
<1>1. pc \in [Procs -> Places]
  BY DEF Typed, TypeOK, Places
<1> QED
  BY <1>1, CardMoves DEF Closing

\* A context in the loop is one of those that have yet to count.
LEMMA ClosingPositive ==
  ASSUME Typed, NEW p \in Procs, pc[p] \in Closes
  PROVE  Closing # 0
<1>1. p \in At(Closes) /\ At(Closes) \in SUBSET Procs
  BY DEF At
<1> QED
  BY <1>1, SmpAssumption, FS_Subset, FS_EmptySet DEF Closing

\* A close that is in the loop finds a count to decrement.
LEMMA CountFound ==
  ASSUME Typed, CountExact, NEW p \in Procs, pc[p] \in Closes
  PROVE  count \in Nat \ {0}
<1>1. Value = live + Closing + lost /\ Closing # 0
  BY ClosingPositive DEF CountExact, Closing
<1>2. Value # 0
  BY <1>1, CountTypes
<1> QED
  BY <1>2 DEF Value, Typed, TypeOK

\* A step of p moves sockets between open, closing and lost, or counts one.
LEMMA StepExact ==
  ASSUME Typed, CountExact, NEW p \in Procs, Begin(p) \/ Step(p)
  PROVE  CountExact'
<1> SUFFICES Value' = live' + Closing' + lost'
  BY DEF CountExact, Closing
<1>e. Value = live + Closing + lost
  BY DEF CountExact, Closing
<1> DEFINE quiet == Value' = Value /\ Closing' = Closing /\ live' = live /\ lost' = lost
<1>0. ASSUME quiet PROVE Value' = live' + Closing' + lost'
  BY <1>0, <1>e
<1> HIDE DEF quiet
<1> USE CountTypes
<1>t. count \in Nat \cup {Absent} /\ Tries \in Nat /\ tries[p] \in 0..(Tries - 1)
  BY SmpAssumption DEF Typed, TypeOK
<1>1. CASE EstBegin(p) \/ EstUpdate(p)
  <2>1. Closing' = Closing
    <3>1. /\ pc[p] \in {"idle", "est_update"}
          /\ \E to \in {"est_update", "inc_noexist"} : pc' = [pc EXCEPT ![p] = to]
      BY <1>1 DEF EstBegin, EstUpdate, Goto
    <3> QED
      BY <3>1, Moves DEF Closes
  <2>2. lost' = lost /\ live' = live /\ Value' = Value
    BY <1>1 DEF EstBegin, EstUpdate, maps, sock, Value
  <2> QED
    BY <2>1, <2>2, <1>0 DEF quiet
<1>2. CASE IncNoExist(p)
  <2>1. Closing' = Closing
    <3>1. pc[p] = "inc_noexist" /\ \E to \in {"inc_add"} : pc' = [pc EXCEPT ![p] = to]
      BY <1>2 DEF IncNoExist, Goto
    <3> QED
      BY <3>1, Moves DEF Closes
  <2>2. Value' = Value /\ live' = live /\ lost' = lost
    BY <1>2, <1>t DEF IncNoExist, sock, Value, Absent
  <2> QED
    BY <2>1, <2>2, <1>0 DEF quiet
<1>3. CASE IncAdd(p)
  <2>1. Closing' = Closing
    <3>1. pc[p] = "inc_add" /\ \E to \in {"idle"} : pc' = [pc EXCEPT ![p] = to]
      BY <1>3 DEF IncAdd, Goto
    <3> QED
      BY <3>1, Moves DEF Closes
  <2>2. count \in Nat
    BY <1>3, <1>t DEF IncAdd, Goto, Typed, Loaded
  <2>3. Value' = Value + 1 /\ live' = live + 1 /\ lost' = lost
    BY <1>3, <2>2 DEF IncAdd, Value, Absent
  <2> QED
    BY <2>1, <2>3, <1>e
<1>4. CASE DecBegin(p)
  <2>1. Closing' = Closing + 1
    BY <1>4, Moves DEF DecBegin, Goto, Closes
  <2>2. Value' = Value /\ live' = live - 1 /\ lost' = lost
    BY <1>4 DEF DecBegin, maps, Value
  <2> QED
    BY <2>1, <2>2, <1>e
<1>5. CASE DecLoad(p)
  <2>1. Value' = Value /\ live' = live /\ lost' = lost
    BY <1>5 DEF DecLoad, maps, sock, Value
  <2>2. count \notin {Absent, 0}
    BY <1>5, CountFound DEF DecLoad, Goto, Closes, Absent
  <2>3. Closing' = Closing
    BY <1>5, <2>2, Moves DEF DecLoad, Goto, Closes
  <2> QED
    BY <2>1, <2>3, <1>0 DEF quiet
<1>6. CASE DecCas(p)
  <2>1. live' = live /\ pc[p] \in Closes
    BY <1>6 DEF DecCas, Closes
  <2>2. CASE count = cur[p]
    <3>1. Closing' = Closing - 1
      <4>1. \E to \in {"idle", "del_est"} : pc' = [pc EXCEPT ![p] = to]
        BY <1>6, <2>2 DEF DecCas, Goto
      <4> QED
        BY <4>1, <2>1, Moves DEF Closes
    <3>2. count \in Nat \ {0}
      BY <2>1, CountFound
    <3>3. Value' = Value - 1 /\ lost' = lost
      BY <1>6, <2>2, <3>2 DEF DecCas, Value, Absent
    <3> QED
      BY <2>1, <3>1, <3>3, <1>e
  <2>3. CASE count # cur[p] /\ tries[p] + 1 < Tries
    <3>1. Closing' = Closing
      BY <1>6, <2>1, <2>3, <1>t, Moves DEF DecCas, Goto, Closes
    <3>2. count' = count /\ lost' = lost
      BY <1>6, <2>3, <1>t DEF DecCas
    <3>3. Value' = Value
      BY <3>2 DEF Value
    <3> QED
      BY <2>1, <3>1, <3>2, <3>3, <1>0 DEF quiet
  <2>4. CASE count # cur[p] /\ tries[p] + 1 = Tries
    <3>1. Closing' = Closing - 1
      BY <1>6, <2>1, <2>4, <1>t, Moves DEF DecCas, Goto, Closes
    <3>2. count' = count /\ lost' = lost + 1
      BY <1>6, <2>4, <1>t DEF DecCas
    <3>3. Value' = Value
      BY <3>2 DEF Value
    <3> QED
      BY <2>1, <3>1, <3>2, <3>3, <1>e
  <2> QED
    BY <2>2, <2>3, <2>4, <1>t
<1>7. CASE DelEst(p) \/ DelWl(p) \/ DelFd(p)
  <2>1. quiet
    BY <1>7, Moves DEF DelEst, DelWl, DelFd, Goto, quiet, sock, Value, Closes
  <2> QED
    BY <2>1, <1>0
<1>8. CASE XdpBegin(p) \/ XdpEst(p) \/ XdpFirst(p) \/ XdpMark(p)
  <2>1. Value' = Value /\ live' = live /\ lost' = lost
    BY <1>8 DEF XdpBegin, XdpEst, XdpFirst, XdpMark, maps, sock, Value
  <2>2. /\ pc[p] \in {"idle", "xdp_est", "xdp_first", "xdp_mark"}
        /\ \E to \in {"xdp_est", "xdp_first", "idle", "xdp_count", "xdp_mark", "xdp_load"} :
              pc' = [pc EXCEPT ![p] = to]
    BY <1>8 DEF XdpBegin, XdpEst, XdpFirst, XdpMark, Goto
  <2>3. Closing' = Closing
    BY <2>2, Moves DEF Closes
  <2> QED
    BY <2>1, <2>3, <1>0 DEF quiet
<1>9. CASE XdpCount(p) \/ XdpLoad(p) \/ XdpTake(p) \/ XdpPromote(p)
  <2>1. Value' = Value /\ live' = live /\ lost' = lost
    BY <1>9 DEF XdpCount, XdpLoad, XdpTake, XdpPromote, maps, sock, Value
  <2>2. /\ pc[p] \in {"xdp_count", "xdp_load", "xdp_take", "xdp_promote"}
        /\ \E to \in {"idle", "xdp_load", "xdp_take", "xdp_promote"} :
              pc' = [pc EXCEPT ![p] = to]
    BY <1>9 DEF XdpCount, XdpLoad, XdpTake, XdpPromote, Goto
  <2>3. Closing' = Closing
    BY <2>2, Moves DEF Closes
  <2> QED
    BY <2>1, <2>3, <1>0 DEF quiet
<1> QED
  BY <1>1, <1>2, <1>3, <1>4, <1>5, <1>6, <1>7, <1>8, <1>9 DEF Begin, Step

LEMMA NextExact == Typed /\ CountExact /\ [Next]_vars => CountExact'
<1> SUFFICES ASSUME Typed, CountExact, [Next]_vars PROVE CountExact'
  OBVIOUS
<1>1. CASE Next
  BY <1>1, StepExact DEF Next
<1>2. CASE UNCHANGED vars
  <2>1. Value' = Value /\ live' = live /\ lost' = lost /\ Closing' = Closing
    BY <1>2, CardStays DEF vars, maps, sock, Value, Closing
  <2> QED
    BY <2>1 DEF CountExact, Closing
<1> QED
  BY <1>1, <1>2

LEMMA InitExact == Init => CountExact
<1> SUFFICES ASSUME Init PROVE CountExact
  OBVIOUS
<1>1. At(Closes) = {}
  BY DEF At, Init, Closes
<1> QED
  BY <1>1, FS_EmptySet DEF Init, CountExact, Value

\* The open count of a source, for any number of CPUs, connections and attempts and
\* every interleaving of opens and closes: it differs from the sockets that are open
\* or closing by exactly the closes that gave up.
THEOREM CountStaysExact == Spec => []CountExact
BY NextExact, InitExact, InitTyped, NextTyped, PTL DEF Spec

\* So it never misses an open socket: the entries of a source are never deleted for a
\* close that was not its last, and the cap on open sockets is never too generous.
THEOREM NoOpenMissed == Spec => [](live + Closing <= Value)
<1>1. Typed /\ CountExact => live + Closing <= Value
  BY CountTypes DEF CountExact, Closing
<1> QED
  BY <1>1, NextExact, InitExact, InitTyped, NextTyped, PTL DEF Spec
--------------------------------------------------------------------------------
(* Giving up.  An attempt that fails was overtaken by a change of the count  *)
(* since the load, and every attempt by another one.                         *)

Overtaken ==
    \A p \in Procs :
        /\ pc[p] \notin Closes => tries[p] = 0
        /\ tries[p] <= hits[p]
        /\ pc[p] = "dec_cas" /\ count # cur[p] => tries[p] < hits[p]

\* The closes of contexts other than p see its changes of the count.
LEMMA OthersHit ==
  ASSUME Typed, NEW p \in Procs, Begin(p) \/ Step(p), NEW q \in Procs, q # p
  PROVE  /\ pc'[q] = pc[q] /\ tries'[q] = tries[q] /\ cur'[q] = cur[q]
         /\ hits'[q] >= hits[q]
         /\ pc[q] \in Closes /\ count' # count =>
               \/ hits'[q] = hits[q] + 1
               \/ hits'[q] = Tries
               \/ count = Absent
<1> USE SmpAssumption DEF Goto, Typed, TypeOK
<1>1. CASE Begin(p)
  BY <1>1 DEF Begin, EstBegin, DecBegin, XdpBegin, sock, maps
<1>2. CASE EstUpdate(p) \/ IncNoExist(p)
  BY <1>2 DEF EstUpdate, IncNoExist, sock
<1>3. CASE IncAdd(p)
  BY <1>3 DEF IncAdd, HitsOthers
<1>4. CASE DecCas(p)
  <2>1. CASE count = cur[p]
    BY <1>4, <2>1 DEF DecCas, HitsOthers
  <2>2. CASE count # cur[p]
    BY <1>4, <2>2 DEF DecCas
  <2> QED
    BY <2>1, <2>2
<1>5. CASE DecLoad(p) \/ DelEst(p) \/ DelWl(p) \/ DelFd(p)
  BY <1>5 DEF DecLoad, DelEst, DelWl, DelFd, sock, maps
<1>6. CASE XdpEst(p) \/ XdpFirst(p) \/ XdpMark(p) \/ XdpCount(p)
  BY <1>6 DEF XdpEst, XdpFirst, XdpMark, XdpCount, sock, maps
<1>7. CASE XdpLoad(p) \/ XdpTake(p) \/ XdpPromote(p)
  BY <1>7 DEF XdpLoad, XdpTake, XdpPromote, sock, maps
<1> QED
  BY <1>1, <1>2, <1>3, <1>4, <1>5, <1>6, <1>7 DEF Step

\* What a step does to the attempts of its own context.
LEMMA OwnAttempts ==
  ASSUME Typed, CountExact, NEW p \in Procs, Begin(p) \/ Step(p)
  PROVE  \/ tries'[p] = 0 /\ pc'[p] # "dec_cas" /\ hits'[p] \in Nat
         \/ /\ tries'[p] = tries[p] /\ hits'[p] = hits[p]
            /\ pc[p] = "dec_load" /\ pc'[p] = "dec_cas" /\ cur'[p] = count'
         \/ /\ tries'[p] = tries[p] + 1 /\ hits'[p] = hits[p]
            /\ pc[p] = "dec_cas" /\ count # cur[p] /\ pc'[p] = "dec_load"
         \/ /\ pc[p] \notin Closes /\ pc'[p] # "dec_cas"
            /\ tries'[p] = tries[p] /\ hits'[p] \in {0, hits[p]}
<1> USE SmpAssumption DEF Goto, Typed, TypeOK, Closes
<1>1. CASE Begin(p)
  BY <1>1 DEF Begin, EstBegin, DecBegin, XdpBegin, sock
<1>2. CASE EstUpdate(p) \/ IncNoExist(p)
  BY <1>2 DEF EstUpdate, IncNoExist, sock
<1>3. CASE IncAdd(p)
  BY <1>3 DEF IncAdd, HitsOthers
<1>4. CASE DecLoad(p)
  <2>1. count \in Nat \ {0}
    BY <1>4, CountFound DEF DecLoad
  <2> QED
    BY <1>4, <2>1 DEF DecLoad, sock, maps, Absent
<1>5. CASE DecCas(p)
  <2>1. CASE count = cur[p]
    BY <1>5, <2>1 DEF DecCas, HitsOthers
  <2>2. CASE count # cur[p]
    BY <1>5, <2>2 DEF DecCas
  <2> QED
    BY <2>1, <2>2
<1>6. CASE DelEst(p) \/ DelWl(p) \/ DelFd(p)
  BY <1>6 DEF DelEst, DelWl, DelFd, sock
<1>7. CASE XdpEst(p) \/ XdpFirst(p) \/ XdpMark(p) \/ XdpCount(p)
  BY <1>7 DEF XdpEst, XdpFirst, XdpMark, XdpCount, sock
<1>8. CASE XdpLoad(p) \/ XdpTake(p) \/ XdpPromote(p)
  BY <1>8 DEF XdpLoad, XdpTake, XdpPromote, sock
<1> QED
  BY <1>1, <1>2, <1>3, <1>4, <1>5, <1>6, <1>7, <1>8 DEF Step

LEMMA StepOvertaken ==
  ASSUME Typed, CountExact, Overtaken, NEW p \in Procs, Begin(p) \/ Step(p)
  PROVE  Overtaken'
<1> SUFFICES ASSUME NEW q \in Procs
             PROVE  /\ pc'[q] \notin Closes => tries'[q] = 0
                    /\ tries'[q] <= hits'[q]
                    /\ pc'[q] = "dec_cas" /\ count' # cur'[q] => tries'[q] < hits'[q]
  BY DEF Overtaken
<1>1. /\ tries[q] \in 0..(Tries - 1) /\ hits[q] \in 0..Tries /\ Tries \in Nat
      /\ hits'[q] \in 0..Tries
  BY StepTyped, SmpAssumption DEF Typed, TypeOK
<1>2. /\ pc[q] \notin Closes => tries[q] = 0
      /\ tries[q] <= hits[q]
      /\ pc[q] = "dec_cas" /\ count # cur[q] => tries[q] < hits[q]
  BY DEF Overtaken
<1>3. CASE q # p
  <2>1. pc[q] = "dec_cas" => count \in Nat \ {0}
    BY CountFound DEF Closes
  <2>2. count # Absent \/ pc[q] # "dec_cas"
    BY <2>1 DEF Absent
  <2> QED
    BY <1>1, <1>2, <1>3, <2>2, OthersHit DEF Closes
<1>4. CASE q = p
  BY <1>1, <1>2, <1>4, OwnAttempts DEF Closes
<1> QED
  BY <1>3, <1>4

LEMMA NextOvertaken ==
  Typed /\ CountExact /\ Overtaken /\ [Next]_vars => Overtaken'
<1> SUFFICES ASSUME Typed, CountExact, Overtaken, [Next]_vars PROVE Overtaken'
  OBVIOUS
<1>1. CASE Next
  BY <1>1, StepOvertaken DEF Next
<1>2. CASE UNCHANGED vars
  BY <1>2 DEF vars, maps, sock, Overtaken
<1> QED
  BY <1>1, <1>2

LEMMA LosesOvertaken ==
  ASSUME Typed, Overtaken, [Next]_vars, lost' # lost
  PROVE  \E p \in Procs : /\ pc[p] = "dec_cas" /\ pc'[p] = "idle"
                          /\ hits[p] = Tries
<1>1. PICK p \in Procs : DecCas(p)
  BY DEF Next, vars, sock, Begin, Step, EstBegin, DecBegin, XdpBegin, EstUpdate,
     IncNoExist, IncAdd, DecLoad, DelEst, DelWl, DelFd, XdpEst, XdpFirst, XdpMark,
     XdpCount, XdpLoad, XdpTake, XdpPromote
<1>2. /\ pc[p] = "dec_cas" /\ pc'[p] = "idle" /\ count # cur[p]
      /\ tries[p] + 1 = Tries
  BY <1>1 DEF DecCas, Goto, Typed, TypeOK
<1>3. tries[p] < hits[p] /\ hits[p] \in 0..Tries /\ tries[p] \in Nat
  BY <1>2, SmpAssumption DEF Overtaken, Typed, TypeOK
<1> QED
  BY <1>2, <1>3, SmpAssumption

\* A close is missing from the count only if, at every one of its attempts, another
\* CPU changed the count between the load and the compare-and-swap.
THEOREM GivingUpIsRare == Spec => GivesUpOvertaken
<1>1. Init => Overtaken
  BY SmpAssumption DEF Init, Overtaken
<1>2. Typed /\ Overtaken /\ [Next]_vars =>
        [lost' # lost => \E p \in Procs : /\ pc[p] = "dec_cas" /\ pc'[p] = "idle"
                                          /\ hits[p] = Tries]_vars
  BY LosesOvertaken
<1> QED
  BY <1>1, <1>2, InitTyped, NextTyped, InitExact, NextExact, NextOvertaken, PTL
  DEF Spec, GivesUpOvertaken
--------------------------------------------------------------------------------
(* Sessions and trust.  Something still answers for an established mark, and *)
(* for a trust that was not overtaken: the count, an open that is about to   *)
(* count, or a last close that has not yet come to it.                       *)

Answered(places) == Value > 0 \/ \E q \in Procs : pc[q] \in places
Marking == {"inc_noexist", "inc_add", "del_est"}
Promoting == {"xdp_first", "xdp_mark", "xdp_count", "xdp_load", "xdp_take", "xdp_promote"}

EstHeld == est => Answered(Marking)
TrustHeld ==
    /\ wl /\ ~ghost => Answered(Marking \cup {"del_wl"})
    /\ \A q \in Procs : pc[q] \in Promoting /\ q \notin overtaken
                          => Answered(Marking \cup {"del_wl"})
Held == EstHeld /\ TrustHeld

LEMMA StepEstHeld ==
  ASSUME Typed, EstHeld, NEW p \in Procs, Begin(p) \/ Step(p)
  PROVE  EstHeld'
<1> USE DEF Typed, TypeOK, Loaded, EstHeld, Answered, Marking, Value, Absent, Goto
<1>1. CASE EstBegin(p)
  BY <1>1 DEF EstBegin, maps
<1>2. CASE EstUpdate(p)
  BY <1>2 DEF EstUpdate
<1>3. CASE IncNoExist(p)
  BY <1>3 DEF IncNoExist
<1>4. CASE IncAdd(p)
  BY <1>4 DEF IncAdd
<1>5. CASE DecBegin(p)
  BY <1>5 DEF DecBegin, maps
<1>6. CASE DecLoad(p)
  BY <1>6 DEF DecLoad, maps
<1>7. CASE DecCas(p)
  BY <1>7 DEF DecCas
<1>8. CASE DelEst(p)
  BY <1>8 DEF DelEst
<1>9. CASE DelWl(p) \/ DelFd(p)
  BY <1>9 DEF DelWl, DelFd
<1>10. CASE XdpBegin(p) \/ XdpEst(p) \/ XdpFirst(p) \/ XdpMark(p)
  BY <1>10 DEF XdpBegin, XdpEst, XdpFirst, XdpMark, maps
<1>11. CASE XdpCount(p) \/ XdpLoad(p) \/ XdpTake(p) \/ XdpPromote(p)
  BY <1>11 DEF XdpCount, XdpLoad, XdpTake, XdpPromote, maps
<1> QED
  BY <1>1, <1>2, <1>3, <1>4, <1>5, <1>6, <1>7, <1>8, <1>9, <1>10, <1>11 DEF Begin, Step

\* Only the delete of the whitelist entry ends what answers for trust.
LEMMA StepAnswered ==
  ASSUME Typed, NEW p \in Procs, Begin(p) \/ Step(p), ~DelWl(p),
         Answered(Marking \cup {"del_wl"})
  PROVE  Answered(Marking \cup {"del_wl"})'
<1> USE DEF Typed, TypeOK, Loaded, Answered, Marking, Value, Absent, Goto
<1>1. CASE EstBegin(p) \/ DecBegin(p)
  BY <1>1 DEF EstBegin, DecBegin, maps
<1>2. CASE EstUpdate(p)
  BY <1>2 DEF EstUpdate
<1>3. CASE IncNoExist(p)
  BY <1>3 DEF IncNoExist
<1>4. CASE IncAdd(p)
  BY <1>4 DEF IncAdd
<1>5. CASE DecLoad(p)
  BY <1>5 DEF DecLoad, maps
<1>6. CASE DecCas(p)
  BY <1>6 DEF DecCas
<1>7. CASE DelEst(p) \/ DelFd(p)
  BY <1>7 DEF DelEst, DelFd
<1>8. CASE XdpBegin(p) \/ XdpEst(p) \/ XdpFirst(p) \/ XdpMark(p)
  BY <1>8 DEF XdpBegin, XdpEst, XdpFirst, XdpMark, maps
<1>9. CASE XdpCount(p) \/ XdpLoad(p) \/ XdpTake(p) \/ XdpPromote(p)
  BY <1>9 DEF XdpCount, XdpLoad, XdpTake, XdpPromote, maps
<1> QED
  BY <1>1, <1>2, <1>3, <1>4, <1>5, <1>6, <1>7, <1>8, <1>9 DEF Begin, Step

\* Who is trusted or under way to it after a step, and was not overtaken, was so
\* before, or has just seen the established mark.
LEMMA TrustStep ==
  ASSUME Typed, NEW p \in Procs, Begin(p) \/ Step(p), ~DelWl(p)
  PROVE  /\ wl' /\ ~ghost' => (wl /\ ~ghost)
                               \/ (pc[p] \in Promoting /\ p \notin overtaken)
         /\ \A q \in Procs : pc'[q] \in Promoting /\ q \notin overtaken' =>
                \/ pc[q] \in Promoting /\ q \notin overtaken
                \/ est
<1> USE DEF Typed, TypeOK, Promoting, Goto
<1>1. CASE EstBegin(p) \/ DecBegin(p) \/ XdpBegin(p)
  BY <1>1 DEF EstBegin, DecBegin, XdpBegin, maps
<1>2. CASE EstUpdate(p) \/ IncNoExist(p) \/ IncAdd(p)
  BY <1>2 DEF EstUpdate, IncNoExist, IncAdd
<1>3. CASE DecLoad(p) \/ DecCas(p) \/ DelEst(p) \/ DelFd(p)
  BY <1>3 DEF DecLoad, DecCas, DelEst, DelFd, maps
<1>4. CASE XdpEst(p)
  BY <1>4 DEF XdpEst, maps
<1>5. CASE XdpFirst(p) \/ XdpMark(p)
  BY <1>5 DEF XdpFirst, XdpMark, maps
<1>6. CASE XdpCount(p)
  BY <1>6 DEF XdpCount, maps
<1>7. CASE XdpLoad(p) \/ XdpTake(p)
  BY <1>7 DEF XdpLoad, XdpTake, maps
<1>8. CASE XdpPromote(p)
  BY <1>8 DEF XdpPromote
<1> QED
  BY <1>1, <1>2, <1>3, <1>4, <1>5, <1>6, <1>7, <1>8 DEF Begin, Step

LEMMA StepTrustHeld ==
  ASSUME Typed, Held, NEW p \in Procs, Begin(p) \/ Step(p)
  PROVE  TrustHeld'
<1>1. CASE DelWl(p)
  <2>1. wl' = FALSE
    BY <1>1 DEF DelWl
  <2>2. \A q \in Procs : pc'[q] \in Promoting => q \in overtaken'
    BY <1>1 DEF DelWl, Overtakes, At, Goto, Promoting, Typed, TypeOK
  <2> QED
    BY <2>1, <2>2 DEF TrustHeld
<1>2. CASE ~DelWl(p)
  <2> DEFINE A == Answered(Marking \cup {"del_wl"})
  <2>1. A => A'
    BY <1>2, StepAnswered
  <2>2. est => A
    BY DEF Held, EstHeld, Answered, Marking
  <2>3. /\ wl /\ ~ghost => A
        /\ \A q \in Procs : pc[q] \in Promoting /\ q \notin overtaken => A
    BY DEF Held, TrustHeld
  <2>4. TrustHeld' <=> /\ wl' /\ ~ghost' => A'
                       /\ \A q \in Procs : pc'[q] \in Promoting /\ q \notin overtaken' => A'
    BY DEF TrustHeld
  <2> HIDE DEF A
  <2> QED
    BY <1>2, <2>1, <2>2, <2>3, <2>4, TrustStep
<1> QED
  BY <1>1, <1>2

LEMMA NextHeld == Typed /\ Held /\ [Next]_vars => Held'
<1> SUFFICES ASSUME Typed, Held, [Next]_vars PROVE Held'
  OBVIOUS
<1>1. CASE Next
  BY <1>1, StepEstHeld, StepTrustHeld DEF Next, Held
<1>2. CASE UNCHANGED vars
  BY <1>2 DEF vars, maps, Held, EstHeld, TrustHeld, Answered, Value
<1> QED
  BY <1>1, <1>2

LEMMA InitHeld == Init => Held
BY DEF Init, Held, EstHeld, TrustHeld, Promoting

LEMMA QuietCount ==
  ASSUME CountExact, Typed, Quiescent, Value > 0
  PROVE  live + lost > 0
<1>1. At(Closes) = {}
  BY DEF Quiescent, At, Closes
<1>2. Value = live + 0 + lost
  BY <1>1, FS_EmptySet DEF CountExact
<1> QED
  BY <1>2, CountTypes

\* For any number of attempts: a source without connections stays in tcp_established
\* only if one of its closes gave up.
THEOREM SessionsEnd == Spec => []NoGhostSession
<1>1. Typed /\ Held /\ CountExact => NoGhostSession
  BY QuietCount DEF NoGhostSession, Held, EstHeld, Answered, Marking, Quiescent, At
<1> QED
  BY <1>1, NextExact, InitExact, InitTyped, NextTyped, InitHeld, NextHeld, PTL DEF Spec

\* ... and on the whitelist only if one gave up or its promotion was overtaken.
THEOREM TrustEndsWithSession == Spec => []TrustEnds
<1>1. Typed /\ Held /\ CountExact => TrustEnds
  BY QuietCount DEF TrustEnds, Held, TrustHeld, Answered, Marking, Quiescent, At
<1> QED
  BY <1>1, NextExact, InitExact, InitTyped, NextTyped, InitHeld, NextHeld, PTL DEF Spec
--------------------------------------------------------------------------------
(* The login bucket.  A write over the value it was computed from keeps      *)
(* granted + tokens; any other write adds at most a burst.                   *)

Paid ==
    /\ tokens = Absent => granted = 0
    /\ tokens # Absent => granted + tokens <= LoginBurst * (1 + overlaps)

LEMMA StepPaid ==
  ASSUME Typed, Paid, NEW p \in Procs, Begin(p) \/ Step(p)
  PROVE  Paid'
<1>1. CASE ~XdpTake(p)
  <2>1. UNCHANGED <<tokens, granted, overlaps>>
    BY <1>1 DEF Begin, Step, EstBegin, DecBegin, XdpBegin, EstUpdate, IncNoExist, IncAdd,
       DecLoad, DecCas, DelEst, DelWl, DelFd, XdpEst, XdpFirst, XdpMark, XdpCount,
       XdpLoad, XdpPromote, ledger
  <2> QED
    BY <2>1 DEF Paid
<1>2. CASE XdpTake(p)
  <2> DEFINE c == cur[p]
             budget == LoginBurst * (1 + overlaps)
  <2>1. /\ c \in 1..LoginBurst \cup {Absent}
        /\ tokens \in 0..LoginBurst \cup {Absent}
        /\ granted \in Nat /\ overlaps \in Nat /\ LoginBurst \in Nat \ {0}
    BY <1>2, SmpAssumption DEF XdpTake, Goto, Typed, TypeOK, Loaded
  <2>2. budget \in Nat /\ budget >= LoginBurst
    BY <2>1
  <2>3. LoginBurst * (1 + (overlaps + 1)) = budget + LoginBurst
    BY <2>1
  <2>4. /\ tokens' = (IF c = Absent THEN LoginBurst ELSE c) - 1
        /\ granted' = granted + 1
        /\ overlaps' = IF tokens = c THEN overlaps ELSE overlaps + 1
    BY <1>2 DEF XdpTake
  <2>5. granted <= budget
    BY <2>1, <2>2 DEF Paid, Absent
  <2>6. CASE tokens = c
    <3>1. granted' + tokens' <= budget
      BY <2>1, <2>2, <2>4, <2>6 DEF Paid, Absent
    <3> QED
      BY <2>1, <2>4, <2>6, <3>1 DEF Paid, Absent
  <2>7. CASE tokens # c
    <3> HIDE DEF budget
    <3>1. granted' + tokens' <= budget + LoginBurst
      BY <2>1, <2>2, <2>4, <2>5 DEF Absent
    <3> QED
      BY <2>1, <2>3, <2>4, <2>7, <3>1 DEF Paid, Absent
  <2> QED
    BY <2>6, <2>7
<1> QED
  BY <1>1, <1>2

LEMMA NextPaid == Typed /\ Paid /\ [Next]_vars => Paid'
<1> SUFFICES ASSUME Typed, Paid, [Next]_vars PROVE Paid'
  OBVIOUS
<1>1. CASE Next
  BY <1>1, StepPaid DEF Next
<1>2. CASE UNCHANGED vars
  BY <1>2 DEF vars, ledger, Paid
<1> QED
  BY <1>1, <1>2

\* Whatever CPUs race for the login bucket of a source, it lets through no more than
\* a burst, and a burst more for each write over a value the writer had not seen.
THEOREM LoginsArePaid == Spec => []LoginsMetered
<1>1. Init => Paid
  BY DEF Init, Paid
<1>2. Typed /\ Paid => LoginsMetered
  <2> SUFFICES ASSUME Typed, Paid PROVE LoginsMetered
    OBVIOUS
  <2>1. /\ tokens \in 0..LoginBurst \cup {Absent} /\ granted \in Nat
        /\ overlaps \in Nat /\ LoginBurst \in Nat \ {0}
    BY SmpAssumption DEF Typed, TypeOK
  <2>2. LoginBurst * (1 + overlaps) \in Nat
    BY <2>1
  <2> QED
    BY <2>1, <2>2 DEF Paid, LoginsMetered
<1> QED
  BY <1>1, <1>2, InitTyped, NextTyped, NextPaid, PTL DEF Spec
================================================================================
