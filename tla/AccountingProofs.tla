---------------------------- MODULE AccountingProofs ----------------------------
(***************************************************************************)
(* The counters and the drop history, for every set of CPUs and sources,   *)
(* any number of elements in the map and any number of runs.               *)
(***************************************************************************)
EXTENDS Accounting, SumFacts

Unrecorded == "malformed_handshake"
Quiet == Slots \ Reasons          \* slots that count no drop
Named == Reasons \ {Unrecorded}

(* The ways out.  A drop is recorded, counted under the same reason, and     *)
(* returned, in this order and without anything in between; only a malformed *)
(* handshake is counted without being recorded.                              *)

Calls == {DROP, PASS} \cup {Bump(x) : x \in Slots} \cup {Record(r) : r \in Named}

\* What call c of a way out says of the call d after it.
Follows(c, d) ==
    /\ c \notin {DROP, PASS}
    /\ \A r \in Named : c = Record(r) <=> d = Bump(r)
    /\ (\E r \in Reasons : c = Bump(r)) <=> d = DROP

\* The first call is not one that must follow another.
Starts(c) == c # DROP /\ \A r \in Named : c # Bump(r)

Sound(w) ==
    /\ Len(w) \in Nat \ {0} /\ w # <<>>
    /\ \A i \in 1..Len(w) : w[i] \in Calls
    /\ Starts(w[1])
    /\ w[Len(w)] \in {DROP, PASS}
    /\ \A i \in 1..(Len(w) - 1) : Follows(w[i], w[i + 1])

LEMMA CallKinds ==
  /\ \A r, x : Record(r) # Bump(x)
  /\ \A r : Record(r) # DROP /\ Record(r) # PASS /\ Bump(r) # DROP /\ Bump(r) # PASS
  /\ \A r, x : (Record(r) = Record(x) <=> r = x) /\ (Bump(r) = Bump(x) <=> r = x)
  /\ DROP # PASS
  /\ \A r : Record(r)[1] = "record" /\ Record(r)[2] = r
  /\ \A r : Bump(r)[1] = "bump" /\ Bump(r)[2] = r
  /\ DROP[1] = "return" /\ PASS[1] = "return"
BY DEF Record, Bump, DROP, PASS

LEMMA FollowsDrop ==
  ASSUME NEW r \in Named
  PROVE  Follows(Record(r), Bump(r)) /\ Follows(Bump(r), DROP)
BY CallKinds DEF Follows, Named, Unrecorded

LEMMA FollowsQuiet ==
  ASSUME NEW x \in Quiet, NEW y \in Quiet, NEW r \in Named
  PROVE  /\ Follows(Bump(x), Bump(y)) /\ Follows(Bump(x), PASS)
         /\ Follows(Bump(x), Record(r)) /\ Follows(Bump(x), Bump(Unrecorded))
         /\ Follows(Bump(Unrecorded), DROP)
<1>1. Unrecorded \in Reasons /\ x \notin Reasons /\ y \notin Named
  BY DEF Unrecorded, Reasons, Quiet, Named
<1> QED
  BY <1>1, CallKinds DEF Follows, Named

LEMMA StartsOk ==
  /\ \A r \in Named : Starts(Record(r))
  /\ \A x \in Quiet : Starts(Bump(x))
  /\ Starts(PASS)
BY CallKinds DEF Starts, Quiet, Named

LEMMA InCalls ==
  /\ \A r \in Named : Record(r) \in Calls /\ Bump(r) \in Calls
  /\ \A x \in Quiet : Bump(x) \in Calls
  /\ Bump(Unrecorded) \in Calls /\ DROP \in Calls /\ PASS \in Calls
BY DEF Calls, Named, Quiet, Slots, Reasons, Unrecorded

\* The shapes of the ways out.
LEMMA SoundRefused ==
  ASSUME NEW r \in Named
  PROVE  Sound(<<Record(r), Bump(r), DROP>>)
BY FollowsDrop, StartsOk, InCalls DEF Sound

LEMMA SoundPassed ==
  ASSUME NEW x \in Quiet, NEW y \in Quiet, NEW z \in Quiet, NEW r \in Named
  PROVE  /\ Sound(<<PASS>>) /\ Sound(<<Bump(x), PASS>>)
         /\ Sound(<<Bump(x), Bump(y), PASS>>)
         /\ Sound(<<Bump(x), Bump(y), Bump(z), PASS>>)
<1>1. Sound(<<PASS>>)
  BY StartsOk, InCalls DEF Sound
<1>2. Sound(<<Bump(x), PASS>>)
  BY FollowsQuiet, StartsOk, InCalls DEF Sound
<1>3. Sound(<<Bump(x), Bump(y), PASS>>)
  BY FollowsQuiet, StartsOk, InCalls DEF Sound
<1>4. Sound(<<Bump(x), Bump(y), Bump(z), PASS>>)
  BY FollowsQuiet, StartsOk, InCalls DEF Sound
<1> QED
  BY <1>1, <1>2, <1>3, <1>4

LEMMA SoundLimited ==
  ASSUME NEW x \in Quiet, NEW y \in Quiet, NEW r \in Named
  PROVE  /\ Sound(<<Bump(x), Record(r), Bump(r), DROP>>)
         /\ Sound(<<Bump(x), Bump(y), Record(r), Bump(r), DROP>>)
         /\ Sound(<<Bump(x), Bump(Unrecorded), DROP>>)
<1>1. Sound(<<Bump(x), Record(r), Bump(r), DROP>>)
  BY FollowsDrop, FollowsQuiet, StartsOk, InCalls DEF Sound
<1>2. Sound(<<Bump(x), Bump(y), Record(r), Bump(r), DROP>>)
  BY FollowsDrop, FollowsQuiet, StartsOk, InCalls DEF Sound
<1>3. Sound(<<Bump(x), Bump(Unrecorded), DROP>>)
  BY FollowsQuiet, StartsOk, InCalls DEF Sound
<1> QED
  BY <1>1, <1>2, <1>3

LEMMA PathsSound ==
  ASSUME NEW w \in Paths
  PROVE  Sound(w)
<1>r. /\ "bad_flags" \in Named /\ "unhealthy" \in Named /\ "no_syn" \in Named
      /\ "too_many_open" \in Named /\ "conn_rate" \in Named
      /\ "global_ratelimit" \in Named /\ "status_ratelimit" \in Named
      /\ "login_ratelimit" \in Named /\ "conn_ratelimit" \in Named
  BY DEF Named, Reasons, Unrecorded
<1>q. /\ "pass_tcp" \in Quiet /\ "l7_promoted" \in Quiet /\ "l7_match_no_est" \in Quiet
      /\ "status_seen" \in Quiet /\ "login_seen" \in Quiet
  BY DEF Quiet, Slots, Reasons
<1>1. CASE w \in {BadFlagsPath, UnhealthyPath, TrustedOverRatePath,
                  TrustedTooManyOpenPath, NoSynPath, SynTooManyOpenPath,
                  SynConnRatePath, SynGlobalRatePath}
  BY <1>1, <1>r, SoundRefused
  DEF BadFlagsPath, UnhealthyPath, TrustedOverRatePath, TrustedTooManyOpenPath,
      NoSynPath, SynTooManyOpenPath, SynConnRatePath, SynGlobalRatePath
<1>2. CASE w \in {TrustedPassPath, BadHeaderPath, NoPayloadPath, StreamPassPath}
  BY <1>2, <1>q, <1>r, SoundPassed
  DEF TrustedPassPath, BadHeaderPath, NoPayloadPath, StreamPassPath
<1>3. CASE w \in {StatusNoEstPath, StatusPassPath, LoginNoEstPath, LoginPromotePath}
  BY <1>3, <1>q, <1>r, SoundPassed
  DEF StatusNoEstPath, StatusPassPath, LoginNoEstPath, LoginPromotePath
<1>4. CASE w \in {StreamOverRatePath, MalformedPath, StatusLimitedPath, LoginLimitedPath}
  BY <1>4, <1>q, <1>r, SoundLimited
  DEF StreamOverRatePath, MalformedPath, StatusLimitedPath, LoginLimitedPath, Unrecorded
<1> QED
  BY <1>1, <1>2, <1>3, <1>4 DEF Paths
--------------------------------------------------------------------------------
(* Types, and where a run is. *)

Steps == {"call", "lookup", "insert", "store", "add"}

MapTyped ==
    /\ owner \in [Elems -> Src \cup {None}]
    /\ counts \in [Elems -> [Reasons -> Nat]]
    /\ stats \in [Slots -> Nat] /\ dropped \in Nat /\ disturbed \in BOOLEAN

RunTyped ==
    /\ path \in [Procs -> Paths \cup {<<>>}] /\ at \in [Procs -> Nat]
    /\ src \in [Procs -> Src \cup {None}]
    /\ sub \in [Procs -> Steps] /\ ptr \in [Procs -> Elems \cup {None}]

\* A run is at one of its calls; inside record_drop it knows its source and, once it
\* has found one, its element.
Placed ==
    \A p \in Procs :
        /\ path[p] = <<>> => at[p] = 1 /\ sub[p] = "call"
        /\ path[p] # <<>> => at[p] \in 1..Len(path[p]) /\ src[p] \in Src
        /\ sub[p] # "call" => path[p] # <<>> /\ Call(p)[1] = "record"
        /\ sub[p] \in {"store", "add"} => ptr[p] \in Elems

\* The element found is still the source's, as long as nothing disturbed the map.
Pinned ==
    ~disturbed => \A p \in Procs : sub[p] \in {"store", "add"} => owner[ptr[p]] = src[p]

Typed == MapTyped /\ RunTyped /\ Placed /\ Pinned

\* The call that has returned last in p's run.
Prev(p) == IF at[p] = 1 THEN PASS ELSE path[p][at[p] - 1]

\* CPUs that have recorded a drop and not yet counted it; that have counted one and
\* not yet returned.
Waiting(r) == {p \in Procs : Prev(p) = Record(r)}
Due == {p \in Procs : \E r \in Reasons : Prev(p) = Bump(r)}

LEMMA CallFacts ==
  ASSUME Typed, NEW p \in Busy
  PROVE  /\ p \in Procs /\ path[p] \in Paths /\ Sound(path[p])
         /\ at[p] \in 1..Len(path[p]) /\ Call(p) \in Calls
         /\ \A r \in Named : p \in Waiting(r) <=> Call(p) = Bump(r)
         /\ p \in Due <=> Call(p) = DROP
         /\ at[p] = Len(path[p]) <=> Call(p) \in {DROP, PASS}
<1>1. p \in Procs /\ path[p] \in Paths /\ at[p] \in 1..Len(path[p])
  BY DEF Busy, Typed, RunTyped, Placed
<1>2. Sound(path[p])
  BY <1>1, PathsSound
<1> DEFINE w == path[p]
           i == at[p]
<1>3. /\ Len(w) \in Nat /\ i \in 1..Len(w) /\ w[i] \in Calls /\ Starts(w[1])
      /\ w[Len(w)] \in {DROP, PASS}
      /\ \A j \in 1..(Len(w) - 1) : Follows(w[j], w[j + 1])
  BY <1>1, <1>2 DEF Sound
<1>4. Call(p) = w[i]
  BY DEF Call
<1>l. i = Len(w) <=> w[i] \in {DROP, PASS}
  <2>1. CASE i # Len(w)
    BY <1>3, <2>1 DEF Follows
  <2> QED
    BY <1>3, <2>1
<1>5. CASE i = 1
  <2>1. Prev(p) = PASS
    BY <1>5 DEF Prev
  <2>2. \A r \in Named : p \notin Waiting(r) /\ w[i] # Bump(r)
    BY <1>3, <1>5, <2>1, CallKinds DEF Waiting, Starts
  <2>3. p \notin Due /\ w[i] # DROP
    BY <1>3, <1>5, <2>1, CallKinds DEF Due, Starts
  <2> QED
    BY <1>1, <1>2, <1>3, <1>4, <1>l, <2>2, <2>3
<1>6. CASE i # 1
  <2>1. i - 1 \in 1..(Len(w) - 1) /\ (i - 1) + 1 = i
    BY <1>3, <1>6
  <2>2. Follows(w[i - 1], w[i])
    BY <1>3, <2>1
  <2>3. Prev(p) = w[i - 1]
    BY <1>6 DEF Prev
  <2> QED
    BY <1>1, <1>2, <1>3, <1>4, <1>l, <2>2, <2>3 DEF Follows, Waiting, Due
<1> QED
  BY <1>5, <1>6

\* What the kind of a call tells.
LEMMA CallKind ==
  ASSUME NEW c \in Calls
  PROVE  /\ c[1] = "bump" => c[2] \in Slots /\ c = Bump(c[2])
         /\ c[1] = "record" => c[2] \in Named /\ c = Record(c[2])
         /\ c[1] = "return" => c \in {DROP, PASS}
<1>1. CASE c \in {DROP, PASS}
  BY <1>1, CallKinds
<1>2. ASSUME NEW x \in Slots, c = Bump(x) PROVE c[1] = "bump" /\ c[2] = x
  BY <1>2, CallKinds
<1>3. ASSUME NEW r \in Named, c = Record(r) PROVE c[1] = "record" /\ c[2] = r
  BY <1>3, CallKinds
<1> QED
  BY <1>1, <1>2, <1>3 DEF Calls

\* A run in record_drop is at a call of it.
LEMMA InRecord ==
  ASSUME Typed, NEW p \in Procs, sub[p] # "call" \/ (p \in Busy /\ Call(p)[1] = "record")
  PROVE  /\ p \in Busy /\ Reason(p) \in Named /\ Call(p) = Record(Reason(p))
         /\ src[p] \in Src /\ at[p] \in Nat \ {0} /\ at[p] < Len(path[p])
<1>1. p \in Busy /\ Call(p)[1] = "record" /\ src[p] \in Src
  BY DEF Typed, Placed, Busy
<1>2. Call(p) \in Calls /\ at[p] \in 1..Len(path[p]) /\ Sound(path[p])
  BY <1>1, CallFacts
<1>3. Reason(p) \in Named /\ Call(p) = Record(Reason(p))
  BY <1>1, <1>2, CallKind DEF Reason
<1>4. at[p] # Len(path[p])
  BY <1>1, <1>3, CallFacts, CallKinds
<1> QED
  BY <1>1, <1>2, <1>3, <1>4 DEF Sound

LEMMA InitTyped == Init => Typed
<1> SUFFICES ASSUME Init PROVE Typed
  OBVIOUS
<1>1. disturbed \in BOOLEAN
  BY Zenon DEF Init
<1>2. MapTyped
  BY <1>1 DEF Init, MapTyped
<1>3. RunTyped /\ Placed /\ Pinned
  BY DEF Init, RunTyped, Placed, Pinned, Steps
<1> QED
  BY <1>2, <1>3 DEF Typed

LEMMA MapStaysTyped ==
  ASSUME Typed, Next
  PROVE  MapTyped'
<1> USE DEF MapTyped
<1>t. MapTyped
  BY DEF Typed
<1>1. ASSUME NEW p \in Procs, Begin(p) PROVE MapTyped'
  BY <1>1, <1>t DEF Begin, history
<1>2. ASSUME NEW p \in Procs, stat_bump(p) PROVE MapTyped'
  <2>1. Call(p)[2] \in Slots
    BY <1>2, CallFacts, CallKind DEF stat_bump
  <2> QED
    BY <1>2, <1>t, <2>1 DEF stat_bump, history
<1>3. ASSUME NEW p \in Procs, Return(p) PROVE MapTyped'
  BY <1>3, <1>t DEF Return, history
<1>4. ASSUME NEW p \in Procs, RecordClock(p) \/ RecordLookup(p) \/ RecordStore(p)
      PROVE  MapTyped'
  BY <1>4, <1>t DEF RecordClock, RecordLookup, RecordStore, history
<1>5. ASSUME NEW p \in Procs, RecordInsert(p) PROVE MapTyped'
  <2>1. src[p] \in Src
    BY <1>5, InRecord DEF RecordInsert
  <2>2. InitCounts(Reason(p)) \in [Reasons -> Nat]
    BY DEF InitCounts
  <2>3. disturbed' \in BOOLEAN
    BY <1>5, Zenon DEF RecordInsert
  <2> HIDE DEF InitCounts
  <2> QED
    BY <1>5, <1>t, <2>1, <2>2, <2>3 DEF RecordInsert
<1>6. ASSUME NEW p \in Procs, RecordAdd(p) PROVE MapTyped'
  <2>1. Reason(p) \in Reasons /\ ptr[p] \in Elems
    BY <1>6, InRecord DEF RecordAdd, Named, Typed, Placed
  <2>2. counts[ptr[p]] \in [Reasons -> Nat]
    BY <1>t, <2>1
  <2>3. counts' = [counts EXCEPT ![ptr[p]] =
                     [counts[ptr[p]] EXCEPT ![Reason(p)] = counts[ptr[p]][Reason(p)] + 1]]
    BY <1>6, <1>t DEF RecordAdd
  <2>4. [counts[ptr[p]] EXCEPT ![Reason(p)] = counts[ptr[p]][Reason(p)] + 1]
          \in [Reasons -> Nat]
    BY <2>1, <2>2
  <2> QED
    BY <1>6, <1>t, <2>1, <2>3, <2>4 DEF RecordAdd
<1>7. ASSUME NEW s \in Src, Clear(s) PROVE MapTyped'
  <2>1. disturbed' \in BOOLEAN
    BY <1>7, Zenon DEF Clear
  <2> QED
    BY <1>7, <1>t, <2>1 DEF Clear
<1>8. CASE Tick
  BY <1>8, <1>t DEF Tick, history
<1> QED
  BY <1>1, <1>2, <1>3, <1>4, <1>5, <1>6, <1>7, <1>8 DEF Next, record_drop

\* A run at one of its calls has a next one, unless it returns.
LEMMA Advances ==
  ASSUME Typed, NEW p \in Busy, Call(p)[1] # "return", Advance(p)
  PROVE  /\ at' \in [Procs -> Nat] /\ at'[p] = at[p] + 1 /\ at'[p] # 1
         /\ at'[p] \in 1..Len(path[p])
         /\ \A q \in Procs : q # p => at'[q] = at[q]
<1>1. at[p] # Len(path[p])
  BY CallFacts, CallKinds
<1>2. at[p] \in 1..Len(path[p]) /\ Len(path[p]) \in Nat /\ p \in Procs
  BY CallFacts DEF Sound
<1>3. at \in [Procs -> Nat]
  BY DEF Typed, RunTyped
<1> QED
  BY <1>1, <1>2, <1>3 DEF Advance

\* The other runs stay where they are.
LEMMA OthersStay ==
  ASSUME Typed, NEW p \in Procs,
         Begin(p) \/ stat_bump(p) \/ Return(p) \/ record_drop(p),
         NEW q \in Procs, q # p
  PROVE  /\ path'[q] = path[q] /\ src'[q] = src[q] /\ at'[q] = at[q]
         /\ sub'[q] = sub[q] /\ ptr'[q] = ptr[q]
<1> USE DEF Typed, RunTyped
<1>1. CASE Begin(p) \/ stat_bump(p) \/ Return(p)
  BY <1>1 DEF Begin, stat_bump, Return, Advance, frame
<1>2. CASE RecordClock(p) \/ RecordLookup(p)
  BY <1>2 DEF RecordClock, RecordLookup
<1>3. CASE RecordInsert(p) \/ RecordStore(p) \/ RecordAdd(p)
  BY <1>3 DEF RecordInsert, RecordStore, RecordAdd, Advance
<1> QED
  BY <1>1, <1>2, <1>3 DEF record_drop

\* Where p's own run is after its step.
PlacedAt(p) ==
    /\ path[p] = <<>> => at[p] = 1 /\ sub[p] = "call"
    /\ path[p] # <<>> => at[p] \in 1..Len(path[p]) /\ src[p] \in Src
    /\ sub[p] # "call" => path[p] # <<>> /\ Call(p)[1] = "record"
    /\ sub[p] \in {"store", "add"} => ptr[p] \in Elems

LEMMA RunStaysTyped ==
  ASSUME Typed, NEW p \in Procs,
         Begin(p) \/ stat_bump(p) \/ Return(p) \/ record_drop(p)
  PROVE  RunTyped' /\ PlacedAt(p)'
<1>t. RunTyped /\ PlacedAt(p)
  BY DEF Typed, Placed, PlacedAt
<1> USE DEF RunTyped, PlacedAt
<1>1. CASE Begin(p)
  <2>1. PICK way \in Paths, s \in Src :
          path' = [path EXCEPT ![p] = way] /\ src' = [src EXCEPT ![p] = s]
    BY <1>1 DEF Begin
  <2>2. Sound(way)
    BY PathsSound
  <2>3. way # <<>> /\ 1 \in 1..Len(way)
    BY <2>2 DEF Sound
  <2>4. at[p] = 1 /\ sub[p] = "call" /\ UNCHANGED <<at, sub, ptr>>
    BY <1>1, <1>t DEF Begin, Busy, frame
  <2> QED
    BY <1>t, <2>1, <2>3, <2>4
<1>2. CASE stat_bump(p)
  <2>1. p \in Busy /\ Call(p)[1] = "bump" /\ Advance(p)
        /\ UNCHANGED <<path, src, sub, ptr>>
    BY <1>2 DEF stat_bump, frame
  <2>2. at' \in [Procs -> Nat] /\ at'[p] \in 1..Len(path[p]) /\ path[p] # <<>>
    BY <2>1, Advances DEF Busy
  <2>3. sub[p] = "call"
    BY <1>t, <2>1
  <2> QED
    BY <1>t, <2>1, <2>2, <2>3
<1>3. CASE Return(p)
  <2>1. sub[p] = "call"
    BY <1>3, <1>t DEF Return
  <2> QED
    BY <1>3, <1>t, <2>1 DEF Return, frame
<1>4. CASE RecordClock(p)
  <2>1. UNCHANGED Call(p) /\ path[p] # <<>>
    BY <1>4 DEF RecordClock, Call, Busy
  <2> QED
    BY <1>4, <1>t, <2>1 DEF RecordClock, Steps
<1>5. CASE RecordLookup(p)
  <2>1. UNCHANGED Call(p)
    BY <1>5 DEF RecordLookup, Call
  <2>2. /\ UNCHANGED <<path, src, at>> /\ sub[p] # "call"
        /\ \/ sub' = [sub EXCEPT ![p] = "insert"] /\ ptr' = ptr
           \/ \E e \in Elems : /\ sub' = [sub EXCEPT ![p] = "store"]
                              /\ ptr' = [ptr EXCEPT ![p] = e]
    BY <1>5 DEF RecordLookup
  <2>3. CASE sub' = [sub EXCEPT ![p] = "insert"] /\ ptr' = ptr
    BY <1>t, <2>1, <2>2, <2>3 DEF Steps
  <2>4. ASSUME NEW e \in Elems, sub' = [sub EXCEPT ![p] = "store"],
               ptr' = [ptr EXCEPT ![p] = e]
        PROVE  RunTyped' /\ PlacedAt(p)'
    BY <1>t, <2>1, <2>2, <2>4 DEF Steps
  <2> QED
    BY <2>2, <2>3, <2>4
<1>6. CASE RecordInsert(p) \/ RecordAdd(p)
  <2>1. /\ sub[p] # "call" /\ Advance(p) /\ UNCHANGED <<path, src>>
        /\ sub' = [sub EXCEPT ![p] = "call"] /\ ptr' \in [Procs -> Elems \cup {None}]
    BY <1>6, <1>t DEF RecordInsert, RecordAdd
  <2>2. p \in Busy /\ Call(p)[1] # "return" /\ path[p] # <<>> /\ src[p] \in Src
    BY <1>t, <2>1 DEF Busy
  <2>3. at' \in [Procs -> Nat] /\ at'[p] \in 1..Len(path[p])
    BY <2>1, <2>2, Advances
  <2> QED
    BY <1>t, <2>1, <2>2, <2>3 DEF Steps
<1>7. CASE RecordStore(p)
  <2>1. UNCHANGED Call(p)
    BY <1>7 DEF RecordStore, Call
  <2> QED
    BY <1>7, <1>t, <2>1 DEF RecordStore, Steps
<1> QED
  BY <1>1, <1>2, <1>3, <1>4, <1>5, <1>6, <1>7 DEF record_drop

LEMMA StaysPlaced ==
  ASSUME Typed, NEW p \in Procs,
         Begin(p) \/ stat_bump(p) \/ Return(p) \/ record_drop(p)
  PROVE  Placed'
<1> SUFFICES ASSUME NEW q \in Procs PROVE PlacedAt(q)'
  BY DEF Placed, PlacedAt
<1>1. CASE q = p
  BY <1>1, RunStaysTyped
<1>2. CASE q # p
  <2>1. /\ path'[q] = path[q] /\ src'[q] = src[q] /\ at'[q] = at[q]
        /\ sub'[q] = sub[q] /\ ptr'[q] = ptr[q]
    BY <1>2, OthersStay
  <2>2. PlacedAt(q)
    BY DEF Typed, Placed, PlacedAt
  <2> QED
    BY <2>1, <2>2 DEF PlacedAt, Call
<1> QED
  BY <1>1, <1>2

LEMMA StaysPinned ==
  ASSUME Typed, NEW p \in Procs,
         Begin(p) \/ stat_bump(p) \/ Return(p) \/ record_drop(p)
  PROVE  Pinned'
<1> SUFFICES ASSUME ~disturbed', NEW q \in Procs, sub'[q] \in {"store", "add"}
             PROVE  owner'[ptr'[q]] = src'[q]
  BY DEF Pinned
<1>0. /\ ~disturbed => \A r \in Procs :
            sub[r] \in {"store", "add"} => owner[ptr[r]] = src[r] /\ ptr[r] \in Elems
      /\ owner \in [Elems -> Src \cup {None}] /\ sub \in [Procs -> Steps]
      /\ ptr \in [Procs -> Elems \cup {None}] /\ src \in [Procs -> Src \cup {None}]
  BY DEF Typed, Pinned, Placed, MapTyped, RunTyped
<1>1. CASE Begin(p) \/ stat_bump(p) \/ Return(p)
  <2>1. UNCHANGED <<owner, sub, ptr, disturbed>>
    BY <1>1 DEF Begin, stat_bump, Return, history, frame
  <2>2. src'[q] = src[q]
    <3>1. CASE q # p
      BY <3>1, <1>1, OthersStay
    <3>2. CASE q = p
      <4>1. sub[p] # "call"
        BY <2>1, <3>2
      <4>2. p \in Busy /\ Call(p)[1] = "record"
        BY <4>1 DEF Typed, Placed, Busy
      <4> QED
        BY <1>1, <4>2 DEF Begin, stat_bump, Return, Busy
    <3> QED
      BY <3>1, <3>2
  <2> QED
    BY <1>0, <2>1, <2>2
<1>2. CASE RecordClock(p)
  BY <1>0, <1>2 DEF RecordClock, history
<1>3. CASE RecordLookup(p)
  BY <1>0, <1>3 DEF RecordLookup, history
<1>4. CASE RecordInsert(p)
  <2>1. PICK e \in Elems :
          /\ owner' = [d \in Elems |-> IF d = e THEN src[p]
                                       ELSE IF owner[d] = src[p] THEN None ELSE owner[d]]
          /\ disturbed' = (disturbed \/ owner[e] # None
                              \/ \E d \in Elems : owner[d] = src[p])
    BY <1>4 DEF RecordInsert
  <2>2. ~disturbed /\ owner[e] = None /\ \A d \in Elems : owner[d] # src[p]
    BY <2>1
  <2>3. q # p /\ ptr'[q] = ptr[q] /\ src'[q] = src[q] /\ sub'[q] = sub[q]
    BY <1>0, <1>4 DEF RecordInsert
  <2>4. owner[ptr[q]] = src[q] /\ ptr[q] \in Elems
    BY <1>0, <2>2, <2>3
  <2>5. src[q] # None
    BY <2>3, InRecord, AccountingAssumption
  <2> QED
    BY <2>1, <2>2, <2>3, <2>4, <2>5
<1>5. CASE RecordStore(p)
  BY <1>0, <1>5 DEF RecordStore
<1>6. CASE RecordAdd(p)
  BY <1>0, <1>6 DEF RecordAdd
<1> QED
  BY <1>1, <1>2, <1>3, <1>4, <1>5, <1>6 DEF record_drop

LEMMA NextTyped == Typed /\ [Next]_vars => Typed'
<1> SUFFICES ASSUME Typed, [Next]_vars PROVE Typed'
  OBVIOUS
<1>1. ASSUME NEW p \in Procs, Begin(p) \/ stat_bump(p) \/ Return(p) \/ record_drop(p)
      PROVE  Typed'
  <2>1. MapTyped'
    BY <1>1, MapStaysTyped DEF Next
  <2> QED
    BY <1>1, <2>1, RunStaysTyped, StaysPlaced, StaysPinned DEF Typed
<1>2. ASSUME NEW s \in Src, Clear(s) PROVE Typed'
  <2>1. MapTyped'
    BY <1>2, MapStaysTyped DEF Next
  <2>2. UNCHANGED <<path, src, at, sub, ptr>> /\ disturbed'
    BY <1>2 DEF Clear, frame
  <2> QED
    BY <2>1, <2>2 DEF Typed, RunTyped, Placed, Call, Pinned
<1>3. CASE Tick \/ UNCHANGED vars
  <2>1. UNCHANGED <<stats, owner, counts, path, src, at, sub, ptr, dropped, disturbed>>
    BY <1>3 DEF Tick, vars, history, frame
  <2> QED
    BY <2>1 DEF Typed, MapTyped, RunTyped, Placed, Call, Pinned
<1> QED
  BY <1>1, <1>2, <1>3 DEF Next
--------------------------------------------------------------------------------
(* Which calls have returned, after a step. *)

\* What p's step does to the sets of CPUs between two calls.
LEMMA PrevMoves ==
  ASSUME Typed, NEW p \in Procs,
         Begin(p) \/ stat_bump(p) \/ Return(p) \/ record_drop(p)
  PROVE  /\ \A q \in Procs : q # p => Prev(q)' = Prev(q)
         /\ Begin(p) \/ Return(p) => Prev(p)' = PASS
         /\ stat_bump(p) \/ RecordInsert(p) \/ RecordAdd(p) => Prev(p)' = Call(p)
         /\ Begin(p) => Prev(p) = PASS
         /\ RecordClock(p) \/ RecordLookup(p) \/ RecordStore(p) => Prev(p)' = Prev(p)
<1>1. ASSUME NEW q \in Procs, q # p PROVE Prev(q)' = Prev(q)
  BY <1>1, OthersStay DEF Prev
<1>2. Begin(p) => Prev(p) = PASS /\ Prev(p)' = PASS
  BY DEF Begin, Busy, Typed, Placed, Prev
<1>3. Return(p) => Prev(p)' = PASS
  BY DEF Return, Prev, Typed, RunTyped
<1>4. ASSUME stat_bump(p) \/ RecordInsert(p) \/ RecordAdd(p) PROVE Prev(p)' = Call(p)
  <2>1. /\ p \in Busy /\ Call(p)[1] # "return" /\ Advance(p) /\ path' = path
    BY <1>4, InRecord, CallKinds DEF stat_bump, RecordInsert, RecordAdd
  <2>2. at'[p] = at[p] + 1 /\ at'[p] # 1 /\ at[p] \in Nat
    BY <2>1, Advances DEF Typed, RunTyped
  <2> QED
    BY <2>1, <2>2 DEF Prev, Call
<1>5. RecordClock(p) \/ RecordLookup(p) \/ RecordStore(p) => Prev(p)' = Prev(p)
  BY DEF RecordClock, RecordLookup, RecordStore, Prev
<1> QED
  BY <1>1, <1>2, <1>3, <1>4, <1>5

LEMMA SetsFinite ==
  /\ IsFiniteSet(Due) /\ Cardinality(Due) \in Nat
  /\ \A r : IsFiniteSet(Waiting(r)) /\ Cardinality(Waiting(r)) \in Nat
<1>1. Due \in SUBSET Procs /\ \A r : Waiting(r) \in SUBSET Procs
  BY DEF Due, Waiting
<1> QED
  BY <1>1, AccountingAssumption, FS_Subset, FS_CardinalityType

\* Every drop is counted once: the counted drops are those returned, and those
\* that are about to return.
Counted == SumFunctionOnSet(stats, Reasons) = dropped + Cardinality(Due)

LEMMA ReasonsFinite == IsFiniteSet(Reasons)
<1> DEFINE A == {"bad_flags"} B == A \cup {"unhealthy"} C == B \cup {"no_syn"}
           D == C \cup {"too_many_open"} E == D \cup {"conn_rate"}
           F == E \cup {"global_ratelimit"} G == F \cup {"status_ratelimit"}
           H == G \cup {"login_ratelimit"} I == H \cup {"malformed_handshake"}
<1>1. IsFiniteSet(A)
  BY FS_Singleton
<1>2. IsFiniteSet(B) /\ IsFiniteSet(C) /\ IsFiniteSet(D)
  <2>1. IsFiniteSet(B)
    BY <1>1, FS_AddElement
  <2>2. IsFiniteSet(C)
    BY <2>1, FS_AddElement
  <2> QED
    BY <2>1, <2>2, FS_AddElement
<1>3. IsFiniteSet(E) /\ IsFiniteSet(F) /\ IsFiniteSet(G)
  <2>1. IsFiniteSet(E)
    BY <1>2, FS_AddElement
  <2>2. IsFiniteSet(F)
    BY <2>1, FS_AddElement
  <2> QED
    BY <2>1, <2>2, FS_AddElement
<1>4. IsFiniteSet(H) /\ IsFiniteSet(I)
  <2>1. IsFiniteSet(H)
    BY <1>3, FS_AddElement
  <2> QED
    BY <2>1, FS_AddElement
<1>5. IsFiniteSet(I \cup {"conn_ratelimit"})
  BY <1>4, FS_AddElement
<1>6. Reasons = I \cup {"conn_ratelimit"}
  BY DEF Reasons
<1> QED
  BY <1>5, <1>6

LEMMA SumOneMore ==
  ASSUME NEW f \in [Slots -> Nat], NEW g \in [Slots -> Nat], NEW x \in Slots,
         g[x] = f[x] + 1, \A y \in Slots : y # x => g[y] = f[y]
  PROVE  /\ SumFunctionOnSet(f, Reasons) \in Nat
         /\ SumFunctionOnSet(g, Reasons) =
               IF x \in Reasons THEN SumFunctionOnSet(f, Reasons) + 1
                                ELSE SumFunctionOnSet(f, Reasons)
<1>1. Reasons \subseteq Slots
  BY DEF Slots
<1>2. SumNat(f, Reasons) /\ SumNat(g, Reasons)
  BY <1>1, ReasonsFinite DEF SumNat
<1>3. SumFunctionOnSet(f, Reasons) \in Nat /\ SumFunctionOnSet(g, Reasons) \in Nat
  BY <1>2, SumType
<1>4. \A y \in Reasons : y # x => g[y] = f[y]
  BY <1>1
<1>5. CASE x \in Reasons
  <2>1. SumFunctionOnSet(g, Reasons) + f[x] = SumFunctionOnSet(f, Reasons) + g[x]
    BY <1>2, <1>4, <1>5, SumUpdate
  <2> QED
    BY <1>3, <1>5, <2>1
<1>6. CASE x \notin Reasons
  <2>1. \A y \in Reasons : f[y] = g[y]
    BY <1>4, <1>6
  <2>2. SumFunctionOnSet(f, Reasons) = SumFunctionOnSet(g, Reasons)
    BY <2>1, ReasonsFinite, SumSame
  <2> QED
    BY <1>3, <1>6, <2>2
<1> QED
  BY <1>5, <1>6

LEMMA SumBumped ==
  ASSUME Typed, NEW x \in Slots, stats' = [stats EXCEPT ![x] = @ + 1]
  PROVE  /\ SumFunctionOnSet(stats, Reasons) \in Nat
         /\ SumFunctionOnSet(stats', Reasons) =
               IF x \in Reasons THEN SumFunctionOnSet(stats, Reasons) + 1
                                ELSE SumFunctionOnSet(stats, Reasons)
<1>1. /\ stats \in [Slots -> Nat] /\ stats' \in [Slots -> Nat]
      /\ stats'[x] = stats[x] + 1
      /\ \A y \in Slots : y # x => stats'[y] = stats[y]
  BY DEF Typed, MapTyped
<1> QED
  BY <1>1, SumOneMore, Zenon

LEMMA StepCounted ==
  ASSUME Typed, Counted, NEW p \in Procs,
         Begin(p) \/ stat_bump(p) \/ Return(p) \/ record_drop(p)
  PROVE  Counted'
<1> USE SetsFinite DEF Counted
<1>t. dropped \in Nat
  BY DEF Typed, MapTyped
<1>o. \A q \in Procs : q # p => (q \in Due' <=> q \in Due)
  BY PrevMoves DEF Due
<1>1. CASE stat_bump(p)
  <2>1. /\ p \in Busy /\ Call(p)[2] \in Slots /\ Call(p) = Bump(Call(p)[2])
        /\ stats' = [stats EXCEPT ![Call(p)[2]] = @ + 1] /\ dropped' = dropped
    BY <1>1, CallFacts, CallKind DEF stat_bump
  <2>2. p \notin Due
    BY <2>1, CallFacts, CallKinds
  <2>3. p \in Due' <=> Call(p)[2] \in Reasons
    <3>1. Prev(p)' = Bump(Call(p)[2])
      BY <1>1, <2>1, PrevMoves
    <3> QED
      BY <3>1, CallKinds DEF Due
  <2>4. CASE Call(p)[2] \in Reasons
    <3>1. Due' = Due \cup {p}
      BY <1>o, <2>3, <2>4 DEF Due
    <3>2. Cardinality(Due') = Cardinality(Due) + 1
      BY <2>2, <3>1, FS_AddElement
    <3>3. /\ SumFunctionOnSet(stats', Reasons) = SumFunctionOnSet(stats, Reasons) + 1
          /\ SumFunctionOnSet(stats, Reasons) \in Nat
      BY <2>1, <2>4, SumBumped
    <3> HIDE DEF Counted
    <3>4. SumFunctionOnSet(stats, Reasons) = dropped + Cardinality(Due)
      BY DEF Counted
    <3> QED
      BY <1>t, <2>1, <3>2, <3>3, <3>4 DEF Counted
  <2>5. CASE Call(p)[2] \notin Reasons
    <3>1. Due' = Due
      BY <1>o, <2>2, <2>3, <2>5 DEF Due
    <3> QED
      BY <1>t, <2>1, <2>5, <3>1, SumBumped
  <2> QED
    BY <2>4, <2>5
<1>2. CASE Return(p)
  <2>1. /\ p \in Busy /\ Call(p) \in {DROP, PASS} /\ stats' = stats
        /\ dropped' = IF Call(p) = DROP THEN dropped + 1 ELSE dropped
    BY <1>2, CallFacts, CallKind DEF Return
  <2>2. p \in Due <=> Call(p) = DROP
    BY <2>1, CallFacts
  <2>3. p \notin Due'
    BY <1>2, PrevMoves, CallKinds DEF Due
  <2>4. Due' = Due \ {p}
    BY <1>o, <2>3 DEF Due
  <2>5. Cardinality(Due') = IF Call(p) = DROP THEN Cardinality(Due) - 1 ELSE Cardinality(Due)
    BY <2>2, <2>4, FS_RemoveElement
  <2> QED
    BY <1>t, <2>1, <2>5
<1>3. CASE Begin(p)
  <2>1. p \notin Due /\ p \notin Due'
    BY <1>3, PrevMoves, CallKinds DEF Due
  <2>2. Due' = Due
    BY <1>o, <2>1 DEF Due
  <2> QED
    BY <1>3, <2>2 DEF Begin
<1>4. CASE RecordInsert(p) \/ RecordAdd(p)
  <2>1. p \in Busy /\ Call(p) = Record(Reason(p))
    BY <1>4, InRecord DEF RecordInsert, RecordAdd
  <2>2. p \notin Due
    BY <2>1, CallFacts, CallKinds
  <2>3. p \notin Due'
    BY <1>4, <2>1, PrevMoves, CallKinds DEF Due
  <2>4. Due' = Due
    BY <1>o, <2>2, <2>3 DEF Due
  <2> QED
    BY <1>4, <2>4 DEF RecordInsert, RecordAdd
<1>5. CASE RecordClock(p) \/ RecordLookup(p) \/ RecordStore(p)
  <2>1. Due' = Due
    BY <1>o, <1>5, PrevMoves DEF Due
  <2> QED
    BY <1>5, <2>1 DEF RecordClock, RecordLookup, RecordStore
<1> QED
  BY <1>1, <1>2, <1>3, <1>4, <1>5 DEF record_drop
--------------------------------------------------------------------------------
(* The history. *)

Column(r) == [e \in Elems |-> counts[e][r]]

\* What the entries tell is what was counted, and what is about to be; less, if
\* the map was disturbed.
Told ==
    \A r \in Named :
        /\ Recorded(r) <= stats[r] + Cardinality(Waiting(r))
        /\ ~disturbed => Recorded(r) = stats[r] + Cardinality(Waiting(r))

NeverMalformed == \A e \in Elems : counts[e][Unrecorded] = 0

LEMMA ColumnNat ==
  ASSUME Typed, NEW r \in Reasons, NEW S \in SUBSET Elems
  PROVE  /\ SumNat(Column(r), S) /\ SumFunctionOnSet(Column(r), S) \in Nat
         /\ Linked \in SUBSET Elems
         /\ Recorded(r) = SumFunctionOnSet(Column(r), Linked)
<1>1. IsFiniteSet(S)
  BY AccountingAssumption, FS_Subset
<1>2. SumNat(Column(r), S)
  BY <1>1 DEF SumNat, Column, Typed, MapTyped
<1> QED
  BY <1>2, SumType DEF Linked, Recorded, Column

\* Any map that agrees with an old one on its elements, but for one.
LEMMA ColumnInserted ==
  ASSUME NEW f, NEW g, NEW S, NEW T, NEW e, SumNat(f, S), SumNat(g, T),
         e \in T, T \ {e} \in SUBSET S,
         \A d \in T : d # e => g[d] = f[d]
  PROVE  /\ SumFunctionOnSet(g, T) <= g[e] + SumFunctionOnSet(f, S)
         /\ S = T \ {e} => SumFunctionOnSet(g, T) = g[e] + SumFunctionOnSet(f, S)
<1> DEFINE U == T \ {e}
<1>1. SumFunctionOnSet(g, T) = g[e] + SumFunctionOnSet(g, U)
  BY SumElement
<1>2. IsFiniteSet(U) /\ \A d \in U : g[d] = f[d]
  BY FS_Subset DEF SumNat
<1>3. SumFunctionOnSet(g, U) = SumFunctionOnSet(f, U)
  BY <1>2, SumSame
<1>4. SumFunctionOnSet(f, U) <= SumFunctionOnSet(f, S)
  BY SumFewer
<1>5. SumFunctionOnSet(f, U) \in Nat /\ SumFunctionOnSet(f, S) \in Nat /\ g[e] \in Nat
  BY SumNatSubset, SumType DEF SumNat
<1>6. S = U => SumFunctionOnSet(f, U) = SumFunctionOnSet(f, S)
  OBVIOUS
<1> HIDE DEF U
<1>7. /\ SumFunctionOnSet(g, T) <= g[e] + SumFunctionOnSet(f, S)
      /\ S = U => SumFunctionOnSet(g, T) = g[e] + SumFunctionOnSet(f, S)
  BY <1>1, <1>3, <1>4, <1>5, <1>6
<1> QED
  BY <1>7 DEF U

\* An insertion adds its own drop and may lose others.
LEMMA InsertTells ==
  ASSUME Typed, Typed', NEW p \in Procs, RecordInsert(p), NEW r \in Named
  PROVE  LET one == IF r = Reason(p) THEN 1 ELSE 0
         IN  /\ Recorded(r) \in Nat /\ Recorded(r)' \in Nat
             /\ Recorded(r)' <= Recorded(r) + one
             /\ ~disturbed' => Recorded(r)' = Recorded(r) + one
<1> DEFINE one == IF r = Reason(p) THEN 1 ELSE 0
<1>1. PICK e \in Elems :
        /\ owner' = [d \in Elems |-> IF d = e THEN src[p]
                                     ELSE IF owner[d] = src[p] THEN None ELSE owner[d]]
        /\ counts' = [counts EXCEPT ![e] = InitCounts(Reason(p))]
        /\ disturbed' = (disturbed \/ owner[e] # None
                            \/ \E d \in Elems : owner[d] = src[p])
  BY DEF RecordInsert
<1>2. src[p] # None /\ r \in Reasons
  BY InRecord, AccountingAssumption DEF RecordInsert, Named
<1>3. e \in Linked' /\ Linked' \ {e} \in SUBSET Linked
  BY <1>1, <1>2 DEF Linked
<1>4. ~disturbed' => Linked = Linked' \ {e}
  BY <1>1, <1>2 DEF Linked
<1> DEFINE f == Column(r)
           g == Column(r)'
<1>5. g[e] = one /\ \A d \in Elems : d # e => g[d] = f[d]
  BY <1>1, <1>2 DEF Column, InitCounts, Typed, MapTyped
<1>6. /\ Linked \in SUBSET Elems /\ Linked' \in SUBSET Elems
      /\ SumNat(f, Linked) /\ Recorded(r) = SumFunctionOnSet(f, Linked)
      /\ Recorded(r) \in Nat
  BY <1>2, ColumnNat DEF Linked
<1>7. /\ SumNat(g, Linked') /\ Recorded(r)' = SumFunctionOnSet(g, Linked')
      /\ Recorded(r)' \in Nat
  <2>1. IsFiniteSet(Linked')
    BY <1>6, AccountingAssumption, FS_Subset
  <2>2. \A d \in Linked' : g[d] \in Nat
    BY <1>2, <1>6 DEF Column, Typed, MapTyped
  <2>3. SumNat(g, Linked')
    BY <2>1, <2>2 DEF SumNat
  <2>4. Recorded(r)' = SumFunctionOnSet(g, Linked')
    BY DEF Recorded, Column
  <2> QED
    BY <2>3, <2>4, SumType
<1> HIDE DEF f, g
<1>8. /\ SumFunctionOnSet(g, Linked') <= g[e] + SumFunctionOnSet(f, Linked)
      /\ Linked = Linked' \ {e} =>
            SumFunctionOnSet(g, Linked') = g[e] + SumFunctionOnSet(f, Linked)
  BY <1>3, <1>5, <1>6, <1>7, ColumnInserted
<1> QED
  BY <1>4, <1>5, <1>6, <1>7, <1>8

\* An atomic add counts in the element the source still has, or nowhere.
LEMMA AddTells ==
  ASSUME Typed, Typed', NEW p \in Procs, RecordAdd(p), NEW r \in Named
  PROVE  LET one == IF r = Reason(p) THEN 1 ELSE 0
         IN  /\ Recorded(r) \in Nat /\ Recorded(r)' \in Nat
             /\ Recorded(r)' <= Recorded(r) + one
             /\ ~disturbed' => Recorded(r)' = Recorded(r) + one
<1> DEFINE one == IF r = Reason(p) THEN 1 ELSE 0
           e == ptr[p]
           f == Column(r)
           g == Column(r)'
<1>1. e \in Elems /\ r \in Reasons /\ src[p] # None /\ Reason(p) \in Reasons
  BY InRecord, AccountingAssumption DEF RecordAdd, Named, Typed, Placed
<1>2. Linked' = Linked /\ disturbed' = disturbed
  BY DEF RecordAdd, Linked
<1>3. ~disturbed => e \in Linked
  BY <1>1 DEF RecordAdd, Typed, Pinned, Linked
<1>4. g[e] = f[e] + one /\ \A d \in Elems : d # e => g[d] = f[d]
  <2>1. counts' = [counts EXCEPT ![e][Reason(p)] = @ + 1]
    BY DEF RecordAdd
  <2>2. counts \in [Elems -> [Reasons -> Nat]]
    BY DEF Typed, MapTyped
  <2>3. counts'[e][r] = counts[e][r] + one
    BY <1>1, <2>1, <2>2
  <2>4. \A d \in Elems : d # e => counts'[d] = counts[d]
    BY <1>1, <2>1, <2>2
  <2> QED
    BY <1>1, <2>3, <2>4 DEF Column
<1>5. /\ Linked \in SUBSET Elems /\ SumNat(f, Linked)
      /\ Recorded(r) = SumFunctionOnSet(f, Linked) /\ Recorded(r) \in Nat
  BY <1>1, ColumnNat DEF Linked
<1>6. /\ SumNat(g, Linked) /\ Recorded(r)' = SumFunctionOnSet(g, Linked)
      /\ Recorded(r)' \in Nat
  <2>1. IsFiniteSet(Linked)
    BY <1>5 DEF SumNat
  <2>2. \A d \in Linked : g[d] \in Nat
    BY <1>1, <1>5 DEF Column, Typed, MapTyped
  <2>3. SumNat(g, Linked)
    BY <2>1, <2>2 DEF SumNat
  <2>4. Recorded(r)' = SumFunctionOnSet(g, Linked')
    BY DEF Recorded, Column
  <2> QED
    BY <1>2, <2>3, <2>4, SumType
<1>7. one \in Nat
  OBVIOUS
<1> HIDE DEF f, g, e, one
<1>8. CASE e \in Linked
  <2>1. \A d \in Linked : d # e => g[d] = f[d]
    BY <1>4, <1>5
  <2>2. SumFunctionOnSet(g, Linked) + f[e] = SumFunctionOnSet(f, Linked) + g[e]
    BY <1>5, <1>6, <1>8, <2>1, SumUpdate
  <2>3. f[e] \in Nat
    BY <1>5, <1>8 DEF SumNat
  <2>4. Recorded(r)' = Recorded(r) + one
    BY <1>4, <1>5, <1>6, <1>7, <2>2, <2>3
  <2> QED
    BY <1>5, <1>6, <1>7, <2>4 DEF one
<1>9. CASE e \notin Linked
  <2>1. \A d \in Linked : f[d] = g[d]
    BY <1>4, <1>5, <1>9
  <2>2. SumFunctionOnSet(f, Linked) = SumFunctionOnSet(g, Linked)
    BY <1>5, <2>1, SumSame DEF SumNat
  <2> QED
    BY <1>2, <1>3, <1>5, <1>6, <1>7, <1>9, <2>2 DEF one
<1> QED
  BY <1>8, <1>9

ToldOf(r) ==
    /\ Recorded(r) <= stats[r] + Cardinality(Waiting(r))
    /\ ~disturbed => Recorded(r) = stats[r] + Cardinality(Waiting(r))

\* A recorded drop waits to be counted.
LEMMA RecordWaits ==
  ASSUME Typed, Typed', NEW p \in Procs, RecordInsert(p) \/ RecordAdd(p),
         NEW r \in Named, ToldOf(r)
  PROVE  ToldOf(r)'
<1> DEFINE one == IF r = Reason(p) THEN 1 ELSE 0
           R == Recorded(r)
           W == Cardinality(Waiting(r))
<1>1. p \in Busy /\ Call(p) = Record(Reason(p)) /\ Reason(p) \in Named
  BY InRecord DEF RecordInsert, RecordAdd
<1>2. R \in Nat /\ R' \in Nat /\ R' <= R + one /\ (~disturbed' => R' = R + one)
  BY InsertTells, AddTells
<1>3. p \notin Waiting(r)
  BY <1>1, CallFacts, CallKinds
<1>4. /\ \A q \in Procs : q # p => Prev(q)' = Prev(q)
      /\ Prev(p)' = Record(Reason(p))
  BY <1>1, PrevMoves DEF record_drop
<1>5. W' = W + one
  <2>1. CASE r = Reason(p)
    <3>1. Waiting(r)' = Waiting(r) \cup {p}
      BY <1>4, <2>1 DEF Waiting
    <3> QED
      BY <1>3, <2>1, <3>1, SetsFinite, FS_AddElement
  <2>2. CASE r # Reason(p)
    <3>1. Waiting(r)' = Waiting(r)
      BY <1>3, <1>4, <2>2, CallKinds DEF Waiting
    <3> QED
      BY <2>2, <3>1, SetsFinite
  <2> QED
    BY <2>1, <2>2
<1>6. stats' = stats /\ stats[r] \in Nat /\ W \in Nat /\ one \in Nat
  BY SetsFinite DEF RecordInsert, RecordAdd, Typed, MapTyped, Named, Slots
<1>7. disturbed => disturbed'
  BY DEF RecordInsert, RecordAdd
<1>8. R <= stats[r] + W /\ (~disturbed => R = stats[r] + W)
  BY DEF ToldOf
<1> HIDE DEF R, W, one
<1>9. R' <= stats'[r] + W' /\ (~disturbed' => R' = stats'[r] + W')
  BY <1>2, <1>5, <1>6, <1>7, <1>8
<1> QED
  BY <1>9 DEF R, W, ToldOf

\* A counted drop has waited, and waits no longer.
LEMMA BumpTells ==
  ASSUME Typed, NEW p \in Procs, stat_bump(p), NEW r \in Named, ToldOf(r)
  PROVE  ToldOf(r)'
<1> DEFINE x == Call(p)[2]
           W == Cardinality(Waiting(r))
<1>1. p \in Busy /\ x \in Slots /\ Call(p) = Bump(x)
  BY CallFacts, CallKind DEF stat_bump
<1>2. /\ stats' = [stats EXCEPT ![x] = @ + 1] /\ stats \in [Slots -> Nat]
      /\ UNCHANGED <<owner, counts, disturbed>> /\ r \in Slots
  BY DEF stat_bump, history, Typed, MapTyped, Named, Slots
<1>3. Recorded(r)' = Recorded(r)
  BY <1>2 DEF Recorded, Linked
<1>4. /\ \A q \in Procs : q # p => Prev(q)' = Prev(q)
      /\ Prev(p)' = Bump(x)
  BY <1>1, PrevMoves
<1>5. (p \in Waiting(r) <=> x = r) /\ p \notin Waiting(r)'
  BY <1>1, <1>4, CallFacts, CallKinds DEF Waiting
<1>6. Waiting(r)' = Waiting(r) \ {p}
  BY <1>4, <1>5 DEF Waiting
<1>7. W \in Nat /\ W' = IF x = r THEN W - 1 ELSE W
  BY <1>5, <1>6, SetsFinite, FS_RemoveElement
<1>8. stats'[r] = IF x = r THEN stats[r] + 1 ELSE stats[r]
  BY <1>1, <1>2
<1>9. stats'[r] + W' = stats[r] + W
  <2>1. stats[r] \in Nat
    BY <1>2
  <2> HIDE DEF W, x
  <2> QED
    BY <1>7, <1>8, <2>1
<1> QED
  BY <1>2, <1>3, <1>9 DEF ToldOf

LEMMA StepTold ==
  ASSUME Typed, Typed', Told, NEW p \in Procs,
         Begin(p) \/ stat_bump(p) \/ Return(p) \/ record_drop(p)
  PROVE  Told'
<1> SUFFICES ASSUME NEW r \in Named PROVE ToldOf(r)'
  BY DEF Told, ToldOf
<1>t. ToldOf(r)
  BY DEF Told, ToldOf
<1>1. CASE RecordInsert(p) \/ RecordAdd(p)
  BY <1>1, <1>t, RecordWaits
<1>2. CASE stat_bump(p)
  BY <1>2, <1>t, BumpTells
<1>3. ASSUME UNCHANGED <<stats, owner, counts, disturbed>>,
             p \in Waiting(r)' <=> p \in Waiting(r)
      PROVE  ToldOf(r)'
  <2>1. Waiting(r)' = Waiting(r)
    BY <1>3, PrevMoves DEF Waiting
  <2>2. Recorded(r)' = Recorded(r)
    BY <1>3 DEF Recorded, Linked
  <2> QED
    BY <1>t, <1>3, <2>1, <2>2 DEF ToldOf
<1>4. CASE RecordClock(p) \/ RecordLookup(p) \/ RecordStore(p)
  <2>1. UNCHANGED <<stats, owner, counts, disturbed>>
    BY <1>4 DEF RecordClock, RecordLookup, RecordStore, history
  <2>2. p \in Waiting(r)' <=> p \in Waiting(r)
    BY <1>4, PrevMoves DEF Waiting
  <2> QED
    BY <1>3, <2>1, <2>2
<1>5. CASE Begin(p)
  <2>1. UNCHANGED <<stats, owner, counts, disturbed>>
    BY <1>5 DEF Begin, history
  <2>2. p \notin Waiting(r) /\ p \notin Waiting(r)'
    BY <1>5, PrevMoves, CallKinds DEF Waiting
  <2> QED
    BY <1>3, <2>1, <2>2
<1>6. CASE Return(p)
  <2>1. UNCHANGED <<stats, owner, counts, disturbed>>
    BY <1>6 DEF Return, history
  <2>2. p \in Busy /\ Call(p) \in {DROP, PASS}
    BY <1>6, CallFacts, CallKind DEF Return
  <2>3. p \notin Waiting(r)
    BY <2>2, CallFacts, CallKinds
  <2>4. p \notin Waiting(r)'
    BY <1>6, PrevMoves, CallKinds DEF Waiting
  <2> QED
    BY <1>3, <2>1, <2>3, <2>4
<1> QED
  BY <1>1, <1>2, <1>4, <1>5, <1>6 DEF record_drop

\* A deleted entry tells nothing any more.
LEMMA ClearTells ==
  ASSUME Typed, Told, NEW s \in Src, Clear(s)
  PROVE  Told'
<1> SUFFICES ASSUME NEW r \in Named PROVE ToldOf(r)'
  BY DEF Told, ToldOf
<1>1. ToldOf(r) /\ r \in Reasons /\ r \in Slots
  BY DEF Told, ToldOf, Named, Slots
<1>2. UNCHANGED <<stats, counts, path, at>> /\ disturbed'
  BY DEF Clear
<1>3. Waiting(r)' = Waiting(r)
  BY <1>2 DEF Waiting, Prev
<1>4. Linked' \in SUBSET Linked
  BY DEF Clear, Linked
<1>5. Recorded(r)' = SumFunctionOnSet(Column(r), Linked')
  BY <1>2 DEF Recorded, Column
<1>6. /\ SumNat(Column(r), Linked) /\ Recorded(r) = SumFunctionOnSet(Column(r), Linked)
      /\ Recorded(r) \in Nat
  BY <1>1, ColumnNat DEF Linked
<1>7. Recorded(r)' <= Recorded(r)
  BY <1>4, <1>5, <1>6, SumFewer
<1>8. Recorded(r)' \in Nat
  BY <1>4, <1>5, <1>6, SumNatSubset, SumType
<1>9. stats[r] \in Nat /\ Cardinality(Waiting(r)) \in Nat
  BY <1>1, SetsFinite DEF Typed, MapTyped
<1> QED
  BY <1>1, <1>2, <1>3, <1>6, <1>7, <1>8, <1>9 DEF ToldOf

LEMMA NextNeverMalformed == Typed /\ NeverMalformed /\ [Next]_vars => NeverMalformed'
<1> SUFFICES ASSUME Typed, NeverMalformed, [Next]_vars PROVE NeverMalformed'
  OBVIOUS
<1>1. CASE counts' = counts
  BY <1>1 DEF NeverMalformed
<1>2. ASSUME NEW p \in Procs, RecordInsert(p) PROVE NeverMalformed'
  <2>1. Reason(p) # Unrecorded /\ Unrecorded \in Reasons
    BY <1>2, InRecord DEF RecordInsert, Named, Reasons, Unrecorded
  <2>2. InitCounts(Reason(p))[Unrecorded] = 0
    BY <2>1 DEF InitCounts
  <2> QED
    BY <1>2, <2>2 DEF RecordInsert, NeverMalformed, Typed, MapTyped
<1>3. ASSUME NEW p \in Procs, RecordAdd(p) PROVE NeverMalformed'
  <2>1. Reason(p) # Unrecorded /\ Unrecorded \in Reasons /\ Reason(p) \in Reasons
    BY <1>3, InRecord DEF RecordAdd, Named, Reasons, Unrecorded
  <2> QED
    BY <1>3, <2>1 DEF RecordAdd, NeverMalformed, Typed, MapTyped
<1>4. (\E p \in Procs : RecordInsert(p) \/ RecordAdd(p)) \/ counts' = counts
  BY DEF Next, record_drop, Begin, stat_bump, Return, RecordClock, RecordLookup,
         RecordStore, Clear, Tick, history, vars
<1> QED
  BY <1>1, <1>2, <1>3, <1>4

Inv == Typed /\ Counted /\ Told /\ NeverMalformed

LEMMA InitInv == Init => Inv
<1> SUFFICES ASSUME Init PROVE Inv
  OBVIOUS
<1>1. Typed
  BY InitTyped
<1>2. \A p \in Procs : Prev(p) = PASS
  BY DEF Init, Prev
<1>3. Due = {} /\ \A r : Waiting(r) = {}
  BY <1>2, CallKinds DEF Due, Waiting
<1>4. Cardinality({}) = 0
  BY FS_EmptySet
<1>5. Reasons \subseteq Slots
  BY DEF Slots
<1>6. Counted
  <2>1. \A r \in Reasons : stats[r] = 0
    BY <1>5 DEF Init
  <2>2. SumFunctionOnSet(stats, Reasons) = 0
    BY <2>1, ReasonsFinite, SumZero
  <2>3. dropped = 0
    BY DEF Init
  <2> QED
    BY <1>3, <1>4, <2>2, <2>3 DEF Counted
<1>7. Told
  <2>1. Linked = {}
    BY DEF Init, Linked
  <2>2. \A r : Recorded(r) = 0
    BY <2>1, SumEmpty DEF Recorded
  <2>3. \A r \in Named : stats[r] = 0
    BY <1>5 DEF Init, Named
  <2> QED
    BY <1>3, <1>4, <2>2, <2>3 DEF Told
<1>8. NeverMalformed
  BY DEF Init, NeverMalformed, Unrecorded, Reasons
<1> QED
  BY <1>1, <1>6, <1>7, <1>8 DEF Inv

LEMMA NextInv == Inv /\ [Next]_vars => Inv'
<1> SUFFICES ASSUME Inv, [Next]_vars PROVE Inv'
  OBVIOUS
<1>t. Typed /\ Typed' /\ Counted /\ Told /\ NeverMalformed'
  BY NextTyped, NextNeverMalformed DEF Inv
<1>1. ASSUME NEW p \in Procs, Begin(p) \/ stat_bump(p) \/ Return(p) \/ record_drop(p)
      PROVE  Counted' /\ Told'
  BY <1>t, <1>1, StepCounted, StepTold
<1>2. ASSUME UNCHANGED <<stats, dropped, path, at>> PROVE Counted'
  <2>1. Due' = Due
    BY <1>2 DEF Due, Prev
  <2> QED
    BY <1>t, <1>2, <2>1 DEF Counted
<1>3. ASSUME NEW s \in Src, Clear(s) PROVE Counted' /\ Told'
  BY <1>t, <1>2, <1>3, ClearTells DEF Clear
<1>4. ASSUME Tick \/ UNCHANGED vars PROVE Counted' /\ Told'
  <2>1. UNCHANGED <<stats, owner, counts, path, at, dropped, disturbed>>
    BY <1>4 DEF Tick, vars, history
  <2>2. Told'
    <3> SUFFICES ASSUME NEW r \in Named PROVE ToldOf(r)'
      BY DEF Told, ToldOf
    <3>1. ToldOf(r)
      BY <1>t DEF Told, ToldOf
    <3>2. Waiting(r)' = Waiting(r) /\ Recorded(r)' = Recorded(r)
      BY <2>1 DEF Waiting, Prev, Recorded, Linked
    <3> QED
      BY <2>1, <3>1, <3>2 DEF ToldOf
  <2> QED
    BY <1>2, <2>1, <2>2
<1>5. \/ \E p \in Procs : Begin(p) \/ stat_bump(p) \/ Return(p) \/ record_drop(p)
      \/ \E s \in Src : Clear(s)
      \/ Tick \/ UNCHANGED vars
  BY Zenon DEF Next
<1>6. Counted' /\ Told'
  BY <1>1, <1>3, <1>4, <1>5, Zenon
<1> QED
  BY <1>t, <1>6 DEF Inv

LEMMA Invariance == Spec => []Inv
BY InitInv, NextInv, PTL DEF Spec

\* Between runs, nothing is under way.
LEMMA NothingOwed ==
  ASSUME Typed, Busy = {}
  PROVE  /\ Cardinality(Due) = 0
         /\ \A r : Cardinality(Waiting(r)) = 0
<1>1. \A p \in Procs : Prev(p) = PASS
  BY DEF Typed, Placed, Busy, Prev
<1>2. Due = {} /\ \A r : Waiting(r) = {}
  BY <1>1, CallKinds DEF Due, Waiting
<1> QED
  BY <1>2, FS_EmptySet

LEMMA NothingMalformed ==
  ASSUME Typed, NeverMalformed
  PROVE  Recorded(Unrecorded) = 0
<1>1. IsFiniteSet(Linked) /\ Linked \subseteq Elems
  BY AccountingAssumption, FS_Subset DEF Linked
<1>2. \A e \in Linked : Column(Unrecorded)[e] = 0
  BY <1>1 DEF Column, NeverMalformed
<1>3. Recorded(Unrecorded) = SumFunctionOnSet(Column(Unrecorded), Linked)
  BY DEF Recorded, Column
<1> QED
  BY <1>1, <1>2, <1>3, SumZero

\* Between two runs of minecraft_xdp the ten drop counters add up to the XDP_DROP
\* verdicts: no way out forgets to count its drop or counts it twice.
THEOREM EveryDropCounted == Spec => []DropsCountedOnce
<1>1. Inv => DropsCountedOnce
  <2> SUFFICES ASSUME Inv, Busy = {}
               PROVE  SumFunctionOnSet(stats, Reasons) = dropped
    BY DEF DropsCountedOnce
  <2>1. Cardinality(Due) = 0 /\ dropped \in Nat
    BY NothingOwed DEF Inv, Typed, MapTyped
  <2> QED
    BY <2>1 DEF Inv, Counted
<1> QED
  BY <1>1, Invariance, PTL

\* The entries of ip_drop_history never tell more drops than the counters, whatever
\* lost insertions, evictions, deletions and writes through stale pointers do.
THEOREM HistoryBelowStats == Spec => []HistoryNeverOvercounts
<1>1. Inv => HistoryNeverOvercounts
  <2> SUFFICES ASSUME Inv, Busy = {}, NEW r \in Reasons
               PROVE  Recorded(r) <= (IF r = "malformed_handshake" THEN 0 ELSE stats[r])
    BY DEF HistoryNeverOvercounts
  <2>1. CASE r = Unrecorded
    BY <2>1, NothingMalformed DEF Inv, Unrecorded
  <2>2. CASE r # Unrecorded
    <3>1. Cardinality(Waiting(r)) = 0 /\ stats[r] \in Nat
      BY NothingOwed DEF Inv, Typed, MapTyped, Slots
    <3>2. Recorded(r) <= stats[r] + Cardinality(Waiting(r))
      BY <2>2 DEF Inv, Told, Named
    <3> QED
      BY <2>2, <3>1, <3>2 DEF Unrecorded
  <2> QED
    BY <2>1, <2>2
<1> QED
  BY <1>1, Invariance, PTL

\* And they tell exactly those drops as long as no entry was evicted, deleted, or
\* replaced by a CPU that had looked it up too early.
THEOREM HistoryIsStats == Spec => []HistoryMatchesStats
<1>1. Inv => HistoryMatchesStats
  <2> SUFFICES ASSUME Inv, Busy = {}, ~disturbed, NEW r \in Reasons
               PROVE  Recorded(r) = (IF r = "malformed_handshake" THEN 0 ELSE stats[r])
    BY DEF HistoryMatchesStats
  <2>1. CASE r = Unrecorded
    BY <2>1, NothingMalformed DEF Inv, Unrecorded
  <2>2. CASE r # Unrecorded
    <3>1. Cardinality(Waiting(r)) = 0 /\ stats[r] \in Nat
      BY NothingOwed DEF Inv, Typed, MapTyped, Slots
    <3>2. Recorded(r) = stats[r] + Cardinality(Waiting(r))
      BY <2>2 DEF Inv, Told, Named
    <3> QED
      BY <2>2, <3>1, <3>2 DEF Unrecorded
  <2> QED
    BY <2>1, <2>2
<1> QED
  BY <1>1, Invariance, PTL
================================================================================
