-------------------------------- MODULE Readers --------------------------------
(***************************************************************************)
(* Everything that reads the pinned maps: the /metrics collector and its   *)
(* map-size ticker, the HTTP API and the info, stats, top, dump, inspect,  *)
(* health and clear commands.  Each of them is a series of jobs, and a job *)
(* reads one map: it opens it, reads the clock, reads the map entry by     *)
(* entry while the programs write it, and answers.  A behaviour of this    *)
(* module is one job (the ticker's: over and over), with what may happen   *)
(* to its map and to the daemon meanwhile.                                 *)
(*                                                                         *)
(* An entry is the one number the job decides or ranks by: a time, an      *)
(* amount (open sockets, tokens, anomalies, drops) or the end of a ban.    *)
(***************************************************************************)
EXTENDS Collector, LruMap, BpfMaps

CONSTANTS Keys,        \* source addresses
          Bucket,      \* their hash buckets
          MaxEntries,  \* of the map
          Present0,    \* sets of keys the map may hold at first
          Amounts,     \* values of an entry that is an amount
          BanTime,     \* health_blacklist_ns
          MaxTime,     \* bound on the clock
          MaxWrites,   \* bound on changes of the map
          TopN         \* values of -n

ASSUME ReadersAssumption ==
    /\ Keys \subseteq Nat \ {NoKey} /\ IsFiniteSet(Keys)
    /\ Bucket \in [Keys -> Nat] /\ MaxEntries \in 1..Cardinality(Keys)
    /\ \A s \in Present0 : s \subseteq Keys /\ Cardinality(s) <= MaxEntries
    /\ Amounts \subseteq Nat /\ BanTime \in Nat /\ MaxTime \in Nat \ {0}
    /\ MaxWrites \in Nat /\ TopN \subseteq Int

VARIABLES chain,    \* keys in the map, in walk order
          entry,    \* key -> value
          now,      \* CLOCK_BOOTTIME
          walk,     \* the job's own state
          sizes,    \* gauges stored by refreshSizes
          kept,     \* history: keys to be reported in every state since the job
                    \* began, whose element has not been replaced (nor, if it
                    \* is to be ranked, written)
          ever,     \* history: keys to be reported in some state since then
          moved     \* history: has an element been removed or replaced?

map == <<chain, entry, now>>
history == <<kept, ever, moved>>
rvars == <<map, walk, sizes, history>>
vars == <<cvars, rvars>>
--------------------------------------------------------------------------------
(* The jobs. *)

\* A job that answers with a row per entry, or with the number of rows.
Rows(handle, field) ==
    [does |-> "list", handle |-> handle, field |-> field, banned |-> FALSE,
     keys |-> Keys, order |-> "map", n |-> 0]

\* dump, of pinned maps: ages, counts, and for health both and the ban.
dumpTimestampMap == Rows("pinned", "time")
dumpCountMap == Rows("pinned", "any")
dumpRatelimitMap == Rows("pinned", "time")
dumpHealthMap == Rows("pinned", "ban")
dumpDropHistoryMap == Rows("pinned", "time")
cmdDump == {dumpTimestampMap, dumpCountMap, dumpRatelimitMap, dumpHealthMap,
            dumpDropHistoryMap}

\* The listings of the API, through the daemon's descriptors.
handleTimestampMap == Rows("daemon", "time")
handleCountMap == Rows("daemon", "any")
handleDropHistory == Rows("daemon", "time")
handleHealth(all) == [Rows("daemon", "ban") EXCEPT !.banned = ~all]
handleBlacklist == [Rows("daemon", "ban") EXCEPT !.banned = TRUE]
cmdHealth(all) == [Rows("pinned", "ban") EXCEPT !.banned = ~all]

\* One key: /api/ip and inspect read the clock once, then one map after another.
LookupOf(handle, field, k) ==
    [Rows(handle, field) EXCEPT !.does = "lookup", !.keys = {k}]
lookupTimestamp(k) == LookupOf("daemon", "time", k)
lookupCount(k) == LookupOf("daemon", "any", k)
lookupRatelimit(k) == LookupOf("daemon", "time", k)
lookupConnLimit(k) == LookupOf("daemon", "time", k)
lookupHealth(k) == LookupOf("daemon", "ban", k)
lookupDropHistory(k) == LookupOf("daemon", "time", k)
handleIPLookup ==
    UNION {{lookupTimestamp(k), lookupCount(k), lookupRatelimit(k),
            lookupConnLimit(k), lookupHealth(k), lookupDropHistory(k)} : k \in Keys}
inspectTimestamp(k) == LookupOf("pinned", "time", k)
inspectCount(k) == LookupOf("pinned", "any", k)
inspectRatelimit(k) == LookupOf("pinned", "time", k)
inspectConnLimit(k) == LookupOf("pinned", "time", k)
inspectHealth(k) == LookupOf("pinned", "ban", k)
inspectDropHistory(k) == LookupOf("pinned", "time", k)
cmdInspect ==
    UNION {{inspectTimestamp(k), inspectCount(k), inspectRatelimit(k),
            inspectConnLimit(k), inspectHealth(k), inspectDropHistory(k)} : k \in Keys}

\* Populations.
mapPopulations == Rows("daemon", "any")
mapEntryCount == Rows("pinned", "any")
blacklistedNow == [Rows("pinned", "ban") EXCEPT !.banned = TRUE]
cmdInfo == {cmdStats, mapEntryCount, blacklistedNow}
handleInfo == {mapPopulations, readCounters}
countHealth == [Rows("daemon", "ban") EXCEPT !.does = "gauge"]
countKeys == [Rows("daemon", "any") EXCEPT !.does = "gauge"]
refreshSizes == {countHealth, countKeys}

\* top: ranked, from the pins even when the API asks.
Ranked(field, order, n) ==
    [Rows("pinned", field) EXCEPT !.does = "top", !.order = order, !.n = n]
topTimestamp(n) == Ranked("time", "ascending", n)    \* youngest first
topCount(n) == Ranked("amount", "descending", n)
topRatelimit(n) == Ranked("amount", "ascending", n)  \* fewest tokens first
topHealth(n) == Ranked("amount", "descending", n)    \* most anomalies first
topConnLimit(n) == Ranked("amount", "ascending", n)
topDropHistory(n) == Ranked("amount", "descending", n)
cmdTop == UNION {{topTimestamp(n), topCount(n), topRatelimit(n), topHealth(n),
                  topConnLimit(n), topDropHistory(n)} : n \in TopN}

\* clear: the whole map, or one key.
clearMap == [Rows("pinned", "any") EXCEPT !.does = "clear"]
clearMapKey(k) == [clearMap EXCEPT !.does = "clear_key", !.keys = {k}]
cmdClear == {clearMap} \cup {clearMapKey(k) : k \in Keys}

handleTop == cmdTop
handleStats == readCounters
registerAPI ==
    {handleTimestampMap, handleCountMap, handleBlacklist, handleDropHistory,
     handleHealth(TRUE), handleHealth(FALSE), handleStats}
      \cup handleInfo \cup handleIPLookup \cup handleTop

Jobs == registerAPI \cup {Collect} \cup refreshSizes
          \cup cmdInfo \cup {cmdStats} \cup cmdTop \cup cmdDump \cup cmdInspect
          \cup {cmdHealth(TRUE), cmdHealth(FALSE)} \cup cmdClear
--------------------------------------------------------------------------------
(* The map and its writers. *)

Idle == [at |-> "idle", asOf |-> 0, cursor |-> NoKey, count |-> 0,
         rows |-> <<>>, err |-> FALSE]

Present == DOMAIN entry
Banned(v, t) == v > t
Reportable ==
    {k \in Present \cap job.keys : job.banned => Banned(entry[k], now)}

\* Values an entry may have, is created with, and is changed to in place.
Values == CASE job.field = "any" -> {0}
            [] job.field = "time" -> 0..now
            [] job.field = "amount" -> Amounts
            [] job.field = "ban" -> BanTime..now + BanTime
Created == CASE job.field = "any" -> {0}
             [] job.field = "time" -> {now}
             [] job.field = "amount" -> Amounts
             [] job.field = "ban" -> {0}
Changed == CASE job.field = "any" -> {0}
             [] job.field = "time" -> {now}
             [] job.field = "amount" -> Amounts
             [] job.field = "ban" -> {now + BanTime}

Walking == walk.at \in {"next", "look", "delete"}

\* What the histories make of a step that replaced or removed the elements of
\* gone and wrote those of written.
Observe(gone, written) ==
    IF Walking
    THEN /\ kept' = (kept \cap Reportable')
                       \ (IF job.does = "top" THEN gone \cup written ELSE gone)
         /\ ever' = ever \cup Reportable'
         /\ moved' = (moved \/ gone # {})
    ELSE UNCHANGED history

\* The map starts with any content: what happens to it before a job begins or
\* after it has ended is of interest to the ticker only, while somebody can ask
\* for its gauges.
Watched == /\ ~ReadsStats /\ ~Unreadable
           /\ IF job.does = "gauge" THEN phase = "serving" ELSE Walking

\* An element is created or replaced.
bpf_map_update_elem(k) ==
    /\ Watched /\ Event(MaxWrites)
    /\ k \in Present \/ Len(chain) < MaxEntries
    /\ chain' = Linked(chain, Bucket, k)
    /\ \E v \in Created : entry' = Put(entry, k, v)
    /\ UNCHANGED <<job, program, daemon, scrape, now, walk, sizes>>
    /\ Observe({k} \cap Present, {k})

\* A full map makes room for a new element by evicting another.
EvictFor(k, lru) ==
    /\ Watched /\ Event(MaxWrites)
    /\ k \notin Present /\ lru \in Present /\ Len(chain) = MaxEntries
    /\ chain' = Linked(Unlinked(chain, lru), Bucket, k)
    /\ \E v \in Created : entry' = Put(Del(entry, lru), k, v)
    /\ UNCHANGED <<job, program, daemon, scrape, now, walk, sizes>>
    /\ Observe({lru}, {k})

\* A value is changed in place.
WriteElem(k) ==
    /\ Watched /\ Event(MaxWrites)
    /\ k \in Present
    /\ \E v \in Changed : entry' = Put(entry, k, v)
    /\ UNCHANGED <<job, program, daemon, scrape, chain, now, walk, sizes>>
    /\ Observe({}, {k})

bpf_map_delete_elem(k) ==
    /\ Watched /\ Event(MaxWrites)
    /\ k \in Present
    /\ chain' = Unlinked(chain, k) /\ entry' = Del(entry, k)
    /\ UNCHANGED <<job, program, daemon, scrape, now, walk, sizes>>
    /\ Observe({k}, {})

Tick ==
    /\ Watched /\ job.field \in {"time", "ban"} /\ now < MaxTime
    /\ now' = now + 1
    /\ UNCHANGED <<cvars, chain, entry, walk, sizes>>
    /\ Observe({}, {})
--------------------------------------------------------------------------------
(* A job. *)

Step(from, next) == walk.at = from /\ walk' = next

\* The request arrives or the command starts: the map is opened, the clock read.
Begin ==
    /\ Step("idle", [Idle EXCEPT !.at = "next", !.asOf = now])
    /\ job.does # "gauge" /\ ~ReadsStats
    /\ job.handle = "daemon" => phase = "serving"
    /\ busy' = TRUE
    /\ kept' = Reportable /\ ever' = Reportable
    /\ moved' = FALSE
    /\ UNCHANGED <<job, program, events, phase, late, scrape, map, sizes>>

\* The pin cannot be opened: nothing is read.
OpenFails ==
    /\ Step("idle", [Idle EXCEPT !.at = "done", !.err = TRUE])
    /\ ~ReadsStats /\ job.handle = "pinned"
    /\ UNCHANGED <<cvars, map, sizes, history>>

\* Mutant: the sizes are taken once, when the daemon starts.
StartSizeTickerOnce ==
    /\ job.does = "gauge" /\ phase \in {"serving", "draining"}
    /\ Step("idle", [Idle EXCEPT !.at = "next", !.asOf = now])
    /\ kept' = Reportable /\ ever' = Reportable
    /\ moved' = FALSE
    /\ UNCHANGED <<cvars, map, sizes>>

\* The ticker's goroutine, when the daemon starts and then at each interval.  It
\* stops after Shutdown has returned.
StartSizeTicker ==
    /\ job.does = "gauge" /\ phase \in {"serving", "draining"}
    /\ walk.at \in {"idle", "done"}
    /\ walk' = [Idle EXCEPT !.at = "next", !.asOf = now]
    /\ kept' = Reportable /\ ever' = Reportable
    /\ moved' = FALSE
    /\ UNCHANGED <<cvars, map, sizes>>

Iterates == job.does \notin {"lookup", "clear_key"}
Aborted == walk.count > MaxEntries

\* What a row says of a value: its age, never negative, the amount, or what is
\* left of the ban.
Shown(v) ==
    CASE job.field = "time" -> IF v > walk.asOf THEN 0 ELSE walk.asOf - v
      [] job.field \in {"any", "amount"} -> v
      [] job.field = "ban" -> IF Banned(v, walk.asOf) THEN v - walk.asOf ELSE 0

\* Mutant: a ban that has just ended is still listed.
ReportsLong(v) == job.banned => v >= walk.asOf

\* The entries a listing of bans leaves out: blacklist_until_ns <= now.
Reports(v) == job.banned => Banned(v, walk.asOf)

\* MapIterator.Next, first half: the key after the cursor.
IterNextKey ==
    /\ Iterates
    /\ ~Unreadable /\ ~Aborted
    /\ LET k == NextKey(chain, walk.cursor)
       IN  /\ k # NoKey
           /\ Step("next", [walk EXCEPT !.at = "look", !.cursor = k, !.count = @ + 1])
    /\ UNCHANGED <<cvars, map, sizes, history>>

\* Second half: its value, unless it has been deleted meanwhile.
IterLookup ==
    /\ ~Unreadable
    /\ LET k == walk.cursor
       IN  Step("look", [walk EXCEPT !.at = "next",
                !.rows = IF k \in Present /\ Reports(entry[k])
                         THEN Append(@, [key |-> k, shown |-> Shown(entry[k])])
                         ELSE @])
    /\ UNCHANGED <<cvars, map, sizes, history>>

\* The order of sort.Slice: a may precede b.
Hotter(a, b) == CASE job.order = "descending" -> a >= b
                  [] job.order = "ascending" -> a <= b
                  [] OTHER -> TRUE

Arranged(rows) ==
    {r \in {[i \in DOMAIN rows |-> rows[p[i]]] : p \in Bijection(DOMAIN rows, DOMAIN rows)} :
        \A i, j \in DOMAIN r : i < j => Hotter(r[i].shown, r[j].shown)}

\* Mutant: the rows are cut before they are sorted.
AnswersCutFirst(rows) ==
    IF job.does = "top"
    THEN Arranged(IF job.n > 0 /\ Len(rows) > job.n THEN SubSeq(rows, 1, job.n) ELSE rows)
    ELSE {rows}

\* Rows in map order; top sorts them, equals in any order, and cuts them.
Answers(rows) ==
    IF job.does = "top"
    THEN {IF job.n > 0 /\ Len(r) > job.n THEN SubSeq(r, 1, job.n) ELSE r : r \in Arranged(rows)}
    ELSE {rows}

\* The request has been answered.
Answered == busy' = FALSE /\ late' = FALSE
             /\ UNCHANGED <<job, program, events, phase, scrape>>

\* The ticker stores what it has counted.
StoreSizes ==
    sizes' = IF job.does # "gauge" THEN sizes
             ELSE [total |-> Len(walk.rows),
                   banned |-> Len(SelectSeq(walk.rows,
                                    LAMBDA r : job.field = "ban" /\ r.shown > 0))]

\* The end of the map: the answer, the gauges, or the keys to delete.
IterDone ==
    /\ Iterates
    /\ ~Unreadable /\ ~Aborted /\ NextKey(chain, walk.cursor) = NoKey
    /\ \E rows \in Answers(walk.rows) :
         Step("next", [walk EXCEPT !.rows = rows,
                         !.at = IF job.does = "clear" THEN "delete" ELSE "done"])
    /\ StoreSizes
    /\ IF job.does = "clear" THEN UNCHANGED cvars ELSE Answered
    /\ UNCHANGED <<map, history>>

\* The iterator gives up: the map was closed, or it has seen more keys than the
\* map can hold.  Only dump and clear look at iter.Err; the others answer with
\* the rows they have, the ticker stores their number.
IterFails ==
    /\ Iterates /\ walk.at \in {"next", "look"}
    /\ Unreadable \/ (walk.at = "next" /\ Aborted)
    /\ walk' = [walk EXCEPT !.at = "done", !.err = TRUE]
    /\ StoreSizes
    /\ Answered
    /\ UNCHANGED <<map, history>>

\* A lookup of one key: a row, or none if the key is absent or the map closed.
Lookup ==
    /\ job.does = "lookup"
    /\ \E k \in job.keys :
         Step("next", [walk EXCEPT !.at = "done", !.err = Unreadable,
                !.rows = IF ~Unreadable /\ k \in Present
                         THEN <<[key |-> k, shown |-> Shown(entry[k])]>> ELSE <<>>])
    /\ Answered
    /\ UNCHANGED <<map, sizes, history>>

DeleteElem(k) ==
    /\ chain' = Unlinked(chain, k) /\ entry' = Del(entry, k)
    /\ kept' = kept \ {k}
    /\ UNCHANGED <<now, ever, moved>>

\* Mutant: the deletion stops at the first key that is already gone.
ClearDeleteStops ==
    /\ walk.rows # <<>>
    /\ LET k == Head(walk.rows).key
       IN  /\ DeleteElem(k)
           /\ Step("delete", [walk EXCEPT !.rows = IF k \in Present THEN Tail(@) ELSE <<>>])
    /\ UNCHANGED <<cvars, sizes>>

\* clearMap deletes the keys it has collected one by one; errors are ignored.
ClearDelete ==
    /\ walk.rows # <<>>
    /\ LET k == Head(walk.rows).key
       IN  /\ DeleteElem(k)
           /\ Step("delete", [walk EXCEPT !.rows = Tail(@)])
    /\ UNCHANGED <<cvars, sizes>>

ClearDone ==
    /\ walk.rows = <<>>
    /\ Step("delete", [walk EXCEPT !.at = "done"])
    /\ Answered
    /\ UNCHANGED <<map, sizes, history>>

ClearKeyDelete ==
    /\ job.does = "clear_key"
    /\ \E k \in job.keys : DeleteElem(k)
    /\ Step("next", [walk EXCEPT !.at = "done"])
    /\ Answered
    /\ UNCHANGED sizes

Reading == IterNextKey \/ IterLookup \/ IterDone \/ IterFails \/ Lookup
             \/ ClearDelete \/ ClearDone \/ ClearKeyDelete

Init ==
    /\ CInit
    /\ job \in Jobs
    /\ now = 1
    /\ IF ReadsStats
       THEN chain = <<>> /\ entry = EmptyMap
       ELSE \E present \in Present0 :
              chain \in Chains(present, Bucket) /\ entry \in [present -> Values]
    /\ walk = Idle
    /\ sizes = [total |-> 0, banned |-> 0]
    /\ kept = {} /\ ever = {} /\ moved = FALSE

Next ==
    \/ (Counting \/ Summing) /\ UNCHANGED rvars
    \/ /\ ReadsStats \/ (job.handle = "daemon" /\ Walking)
       /\ cmdRun /\ UNCHANGED rvars
    \/ \E k \in Keys : \/ bpf_map_update_elem(k) \/ WriteElem(k) \/ bpf_map_delete_elem(k)
                     \/ \E lru \in Keys : EvictFor(k, lru)
    \/ Tick \/ Begin \/ OpenFails \/ StartSizeTicker \/ Reading

\* The Go scheduler runs the ticker's goroutine and a job that has begun.  Nothing
\* is assumed of requests, signals, traffic and the clock.
Spec == Init /\ [][Next]_vars /\ WF_vars(Reading) /\ WF_vars(StartSizeTicker)
--------------------------------------------------------------------------------
(* Properties. *)

Done == walk.at = "done" /\ ~walk.err
Listed == {walk.rows[i].key : i \in DOMAIN walk.rows}

\* A listing is no snapshot, yet it can be relied on: an entry that was there to
\* be reported all the while, and was not moved by an update, is in it; whatever
\* is in it was there at some moment; and nothing is listed twice unless an
\* element was removed or replaced under the cursor.  A walk that has begun is cut
\* short, which only dump and clear report, when Shutdown timed out or when
\* removals made it start over too often.
ScanFaithful ==
    /\ Done /\ job.does \in {"list", "lookup", "gauge"} =>
         /\ kept \subseteq Listed /\ Listed \subseteq ever
         /\ ~moved => Cardinality(Listed) = Len(walk.rows)
    /\ walk.err => walk.count = 0 \/ Unreadable \/ (moved /\ Aborted)

\* top shows the hottest sources: an entry that did not change meanwhile is left
\* out only if the answer is full of rows that are at least as hot.
HotSourceShown ==
    Done /\ job.does = "top" =>
        \A k \in kept \ Listed :
            /\ job.n > 0 /\ Len(walk.rows) = job.n
            /\ \A i \in DOMAIN walk.rows : Hotter(walk.rows[i].shown, Shown(entry[k]))

\* When clear reports success, no element that was in the map when it began is
\* still there, whatever the programs inserted, replaced and removed meanwhile.
ClearSweeps == Done /\ job.does \in {"clear", "clear_key"} => kept = {}

GaugesExact ==
    job.does = "gauge" =>
        /\ sizes.total = Len(chain)
        /\ job.field = "ban" =>
             sizes.banned = Cardinality({k \in Present : Banned(entry[k], now)})

\* If the daemon keeps running and the traffic pauses (writes and the clock are
\* bounded), the gauges of the ticker become exact and stay so.
GaugesConverge == <>[](phase = "serving") => <>[]GaugesExact
================================================================================
