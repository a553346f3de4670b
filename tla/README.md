# A TLA+ model of minecraft-ebpf

minecraft-ebpf is an XDP filter in front of a Minecraft server. An XDP program
judges every TCP segment to the server's port, a sock_ops program follows the
connections the kernel establishes and closes, both share pinned BPF maps keyed
by source address, and a Go daemon loads, attaches and observes them. This
directory holds a specification of that system, the TLC runs that check it on
small instances, and TLAPS proofs of its main properties for all instances.
`PROJECT.json` maps every definition to the source lines it models.

## 1. The system

| Part | Source | State | Operations |
|---|---|---|---|
| XDP filter | `bpf/minecraft_xdp.bpf.c` | the IP-keyed maps, the per-CPU breaker | one run per ingress segment, twenty ways out |
| Handshake classifier | same, `classify_handshake` | none | bytes of a segment → NONE, STATUS, LOGIN, MALFORMED |
| Token buckets | same, `*_ratelimit_take` | tokens, time of last refill | take a cost, or refuse |
| Socket callbacks | `bpf/minecraft_sockops.bpf.c` | `tcp_established`, `tcp_open_count`, … | connection established, connection closed |
| Counters | `bpf/shared/stats.h`, `maps.h` | `stats`, `ip_drop_history` | `stat_bump`, `record_drop` |
| Loader, daemon | `internal/loader`, `cmd/…/run.go` | two links, pinned maps | `Load`, `Close`, crash, restart |
| Operator tools | `cmd/…/clear.go`, `deploy/install.sh` | the pinned maps | clear maps or one address, wipe them |
| Collector | `internal/metrics/collector.go` | sums of one scrape, gauges | a scrape, a refresh of the gauges |
| Readers | `cmd/…/api.go`, `info`, `stats`, `top`, `dump`, `inspect`, `health` | cursor, clock and rows of one reading | walk a map, look up a key, rank, answer |

How they interact. The programs call nothing of each other: they meet in the
maps. `tcp_established` (written by sockops) is what lets the XDP program meter
and promote a source; `tcp_whitelist` (written by XDP, erased by sockops) is
trust; `tcp_open_count` (sockops) decides the open cap and whether a segment is
looked at (XDP). The daemon does not take part in verdicts. The maps outlive it,
its links do not.

What is hard here: programs run on all CPUs at once on the same entries; a source
has several connections but one entry; every check before an early return must be
repeated or deliberately left out on the other paths; unsigned times are
subtracted; the daemon may die between any two steps while connections live on;
full maps evict entries of live connections; readers walk maps that change under
them; lengths of three kinds bound the parser. `PROJECT.json` lists these hazards at
their lines with the properties aimed at them.

## 2. The modules

| Module | Models |
|---|---|
| `RateLimit` | bucket arithmetic, as operators |
| `Tunables` | how `loadXDP` turns rates into periods and splits the breaker over CPUs |
| `TokenBucket` | one bucket over time, set up from a configured rate, with a measuring window |
| `BpfMaps` | kernel hash maps as partial functions (external) |
| `Filter` | both programs, each run one atomic step, and the TCP stack behind them |
| `Trust` | abstract specification: what the filter promises about trust and bans |
| `Accounting` | `stat_bump` and `record_drop` on every path of `minecraft_xdp`, on several CPUs, over an LRU map |
| `SockopsSmp` | the callbacks and logins on several CPUs, one action per access to shared state |
| `BucketSmp` | `ratelimit_take` on several CPUs, one action per access, in 64-bit arithmetic |
| `TrustSmp` | the time of a whitelist entry on several CPUs, one action per access, in 64-bit arithmetic |
| `Handshake` | `classify_handshake` on bytes, the packet format as a grammar, and the documented class of a payload |
| `LruMap` | in which order a kernel hash map is walked (external) |
| `Collector` | readings of the per-CPU counters, and the shutdown of their server |
| `Readers` | every reading of a pinned map by the ticker, the API and the commands, and `clear` |
| `Daemon` | `Filter` inside the life of the daemon, with `clear`, `install.sh` and eviction |
| `TokenBucketProofs`, `FilterProofs`, `AccountingProofs`, `SockopsSmpProofs`, `HandshakeProofs`, `DaemonProofs`, `ReadersProofs` | theorems and their proofs |
| `SumFacts` | lemmas about sums over finite sets, for the proofs about counters and VarInts |
| `MC…` | names for the inputs the `.cfg` files choose from |

`Filter` has one action per way out of `minecraft_xdp`; its conjuncts are the
conditions on the way there. Each action reports in `out` the verdict, the reason it
drops for and the bucket a handshake was metered by. A run is one step here: what
happens when runs overlap on several CPUs is the subject of the `…Smp` modules and of
`Accounting`, each for the entries of one kind. A segment is its source, CPU, flags,
length and payload class; what bytes have which class is the business of `Handshake`.
`first` marks the segment that carries a connection's handshake. The TCP stack is
external: per source it has half-open connections, open sockets (`socks`), and among
them those that have not sent data (`fresh`). `tcp_established`, `tcp_syn_seen` and
`tcp_first_data` are sets, since only presence is ever tested. `Stray` allows data
of no open connection, as forged senders produce it.

`Accounting` writes each way out of `minecraft_xdp` as the sequence of calls the source
makes on it: which reason is recorded, which counters are bumped, in which order, and
what is returned. CPUs run through these sequences side by side; which segment takes
which path is left open, so every property holds for any traffic. `record_drop` is
split at every access: clock, lookup, insertion or the two stores. The drop history is
an LRU map of elements: an insertion takes any element, evicting what it held and
replacing an entry of the same source made since the lookup, and a pointer held by
another CPU stays usable while its element is given to another source. `disturbed`
remembers whether an entry was ever evicted, replaced or deleted.

`TokenBucket` computes `Period` and `Burst` from `Unit`, `Rate`, `Allowed` and
`Shares` with the operators of `Tunables`: `Shares` is the number of possible CPUs
for the global breaker and 1 for the limits kept per address.

`SockopsSmp` drops everything but one source's entries and splits the handlers at
every shared access; the compare-and-swap loop has its eight attempts as `Tries`.
Connections come and go without end; `MaxCount` bounds only how many the count shows
at a time. The login bucket is read in one step and written in another, as the code
does without atomics, and is not refilled: the run is shorter than a period. History
variables record what the races did: closes that gave up (`lost`), how often others
changed the count under a close (`hits`), logins granted, bucket writes over a value
not seen (`overlaps`), promotions under way when trust was deleted (`overtaken`), and
whether trust was last written by one of these (`ghost`).

`BucketSmp` has the refills that `SockopsSmp` leaves out: the clock is read before the
bucket, `last_refill_ns` is loaded, tokens are loaded, tokens are stored, and
`last_refill_ns` is advanced with a `+=` that may use the value loaded before or load it
again (`Reload`). A source without an element is inserted by every CPU that missed it,
the last one staying. `raced` counts the runs another CPU wrote into. `TrustSmp` does the
same for `tcp_whitelist`: lookup, clock, comparison, then deletion or a store through the
pointer, against promotions, demotions and the deletion at the end of a session.

`Daemon` conjoins the life of the daemon with actions of `Filter`: a segment is
filtered only while the XDP link exists, an open or close is heard only while the
sockops link exists (and, for a close, if the socket was opened under one:
`tracked`). The phases of `Load` that look the same from outside are one step; each
may fail. `clear` empties one map per step (with `--ip`, of one source) while
traffic goes on. `Evict` removes an element from a full map: which one, and when,
depends on the traffic of other sources, so it may be any. `orphaned` remembers
the connected sources that lost their count or their established mark.

`Collector` keeps of the programs only the order in which a handshake's run bumps
its counters, and splits a reading into the single values the kernel copies.
`Readers` has one definition per Go function that reads a map. It says what the
function does with the map, in a record `job`: through which descriptor it reads
(the daemon's own, or the pin), whether it lists, looks up, ranks, counts or
clears, which field of the entry decides, and whether only bans are wanted. A
behaviour is one job against a map that is written, evicted from and deleted from
between any two of its system calls (the ticker's job is repeated). The map is kept
as the chain the kernel walks: an insert or update puts its element at the head of
its bucket, a walk whose cursor is gone starts over, and the iterator of
cilium/ebpf gives up after more steps than the map has room for. An entry is one
number, the time, amount or end of a ban that the job decides by. `clear` is here
key by key; in `Daemon` it is map by map, and its effect on connections is checked.

## 3. The runs

Passing runs:

| Run | Shows |
|---|---|
| `Clocks` | Where the filter measures time, three subjects that share nothing and are explored one at a time. One bucket whose calls do not overlap: in any window no more than the burst plus one token per period is granted (`WindowBound`); refused packets do not delay the refill (`NoStarvation`); tokens and times stay sane (`BucketSane`); beyond the burst a window passes this CPU's share of the configured rate, up to one nanosecond per token (`ConfiguredRate`); the strengthening used in the proof holds (`WindowInv`). A rate of 5 per 7 ticks and a burst of 9 are split over 2 CPUs: period 3, burst 4, both rounded; costs 1, 2 and 5 lie below and above the burst. A bucket two CPUs race for, period 2, burst 2: `RaceCost`, a run another CPU wrote into is worth at most two bursts more than one CPU alone would grant, even when the refill wraps; `SoloHeals`, the next take without company puts the bucket right. A whitelist entry two CPUs race for: `FreshTrustKept`, trust within its TTL runs out only on a CPU whose run was written into. |
| `FilterSession` | Two CPUs, a source with up to three overlapping connections, the SYN gate with all its limits: `SessionTracked`, `OpenBounded`, `BreakerSparesRefused`. Flags include an illegal combination. |
| `FilterFlood` | Both packet and byte caps, bans, TTL expiry and forged data: `BannedNotTrusted`, `BanEarned`, `BanDelivered`; `OnlyConnectedCharged`, an account changes only on its source's segments and while it is connected; and refinement of `Trust` (`TrustLifecycle`). |
| `Accounting` | Two CPUs, two sources and an LRU map of two elements, all twenty paths: every drop is counted under exactly one reason (`DropsCountedOnce`), the history never holds more than the counters (`HistoryNeverOvercounts`), and holds the same as long as no entry was lost (`HistoryMatchesStats`). |
| `SockopsSmp` | Three CPUs, two attempts at the compare-and-swap, so that closes do give up: `CountExact`, the count is off by exactly those; `GivesUpOvertaken`, a close gives up only if others changed the count at each of its attempts; `NoGhostSession` and `TrustEnds`, the exceptions being a close that gave up and a promotion overtaken by the last close; `LoginsMetered`, a racing bucket write costs at most a burst. |
| `Handshake` | Clean and damaged packets delivered byte by byte, with padding and truncation: `ClassifierExact`, the class is the documented one outside the payloads of `HandshakeLong` and over-long addresses (section 5); `ClassStable`. |
| `Daemon` | Failing loads, shutdown, crash, restart, clear, eviction and wipe under traffic: `AllOrNothing`, `RestartSafe`, `PlayersKeepFlowing`. Only the loss of a count or an established mark does harm; the whitelist, SYN and first-data maps may lose entries at any time. |
| `Readers` | Every job against a map of two entries and three keys in two buckets. `ScanFaithful`: what a listing may be relied on for; it is cut short only when elements were removed under it or `Shutdown` timed out. `HotSourceShown`: a source that stays hot is in the `top` answer. `ClearSweeps`: no element older than the command survives `clear`. `GaugesConverge`: the ticker repairs its gauges. And of the counters, with two CPUs counting, shutdown with its time limit, crash and restart: `CountersNeverRegress`, and `OutcomesWereSeen`, which rests on the order of the slots. |

Runs that end in a violation, each a disagreement between code and
documentation, comment or test (quoted in `PROJECT.json`):

| Run | Shows |
|---|---|
| `FilterRetransmit` | The first-data mark is set before the bucket is asked, so the retransmission of a refused handshake passes unmetered. |
| `SockopsStranded` | A new connection on another CPU, between the count reaching zero and the delete, loses its `tcp_established` entry. |
| `HandshakeLong` | A Login packet 254 bytes long begins with 0xFE and is taken for a legacy ping. |
| `DaemonStaleCount` | Closes missed while detached leave `tcp_open_count` too high; a source without a socket is refused. |

### Bounds

Time is counted in abstract ticks; what matters is the order of ages, periods,
windows and the TTL, and the bounds let each be below, at and above its limit.
`MaxTime` ends the clock, `Backlog` and `MaxSocks` bound connections per source,
`MaxRuns` (in `Accounting`) bounds runs because the counters grow: with three, two
CPUs can race for an insertion and a third run meet the result. `MaxLogins` bounds
logins in `SockopsSmp` and `MaxTakes` grants in `BucketSmp` (none begins after so many
have been granted); eight takes are what two wrapped refills of a burst of 2 need.
`RaceCost` was also tried with three CPUs and a burst of 1, and its factor is tight: with
one burst instead of two TLC finds a behaviour that exceeds it. `Word` stands for 2^64: it
is larger than any sum of times and tokens of the run, so a subtraction wraps exactly when
the code's would. `MaxCount` bounds the count in `SockopsSmp`, and the count that missed closes
let grow in `Daemon`, `MaxEvents` bounds segments and readings of the counters,
and `MaxWrites` the changes made to a map under one job of `Readers`: two are
enough to move one entry behind the cursor and remove the cursor itself, and to
make a walk of a map of two abort. Sources meet only in the global breaker and in
the map of `Accounting`, so most runs have one and `Accounting` has two, with
symmetry in sources, elements and CPUs. `Daemon` clears the four maps that decide about sessions, one at a time
in any order, which includes the order of `clear --map all`; with its one source
`clear --ip` and the clear of a whole map coincide. Runs with deadlock
checking off are those that must end when their bound is used up (`Accounting`,
`SockopsSmp`, `Clocks`, `Handshake`, `Readers`).

### Fairness

Only `Readers` assumes any: weak fairness of the steps of a job that has begun and of the
ticker's next refresh, which the Go scheduler and `time.NewTicker` give. Nothing is
assumed about requests, signals, traffic or the clock; `GaugesConverge` speaks of
daemons that keep serving, after traffic has paused.

### Mutants

Each property of a passing run has a mutated definition, kept next to the one it
replaces (comments begin with "Mutant"), that changes the code the way a
plausible mistake would and breaks the property.

## 4. The proofs

From the named assumptions on constants (naturals, flag sets, payload kinds; in
`TokenBucket` a rate that is on and at most one per nanosecond and CPU), for any
sources, CPUs, tunables and bounds:

* `TokenBucketProofs`. `WindowBound` is not inductive: what is left in the bucket
  may still be taken in the window. `WindowInv` counts tokens in the bucket as
  already taken and time only up to the last refill; with `BucketSane` and typing it
  is inductive (`InductiveInvariant`), and gives `RateIsBounded`.
  `RateAsConfigured` goes on from there: a period rounded down is short by less
  than one nanosecond per token, and the shares of a rate add up to no more than
  the rate (`ShareFacts`). `TypeCorrect`, `WindowStrengthening`, `Sanity` and
  `RefusalsDoNotStarve` follow from the same invariant; lemmas isolate the facts
  about division.
* `FilterProofs`. `FilterTypes`: in a model whose runs do not overlap, typing needs that
  no stored time is ahead of the clock, and both are inductive together.
  `Sessions` (`SessionTracked`) and `OpenCap` (`OpenBounded`). `Bans` (`BanEarned`) and
  `BansEndTrust` (`BannedNotTrusted`): a ban needs a source with an open connection, and
  a promotion one that is not banned, so they are proved with the session invariant.
  `BansDelivered` (`BanDelivered`) has the hypothesis that the threshold is above 1, which
  is needed (section 5). `OnlyConnectedPay` (`OnlyConnectedCharged`): every
  write to the status, login and packet budgets and to the anomalies stands behind a lookup
  of `tcp_established` or of trust, and by the session invariant both mean an open
  connection. `FilterImplementsTrust`: every step of `Filter` is a step of `Trust` or a
  stutter, under these invariants. One lemma per group of actions.
  `BreakerOnlyForAdmitted` (`BreakerSparesRefused`) needs no invariant: only the
  checks in front of the payload record these reasons, and none of them that refuses
  writes the breaker's bucket.
* `DaemonProofs`. `LoadIsAtomic`: `AllOrNothing` from an invariant that says what is
  attached in each phase; traffic, operators and evictions leave the links alone.
  `MapsSurviveRestarts`, `RestartsOvercount` (`RestartSafe`) and
  `PlayersPassSynGate` (`PlayersKeepFlowing`): the lemmas of `FilterProofs` about the
  actions of `Filter` are used again inside `Daemon`, where the session invariant of
  `Filter` no longer holds. What replaces it is `RestartSafe` with the typing of
  `tracked` and `orphaned`, which is inductive: a callback that is missed makes
  `tracked` smaller than the count, never larger.
* `SockopsSmpProofs`, for any set of CPUs, any number of connections and any `Tries`.
  `SmpTypes`. `CountStaysExact` (`CountExact`) is inductive with typing: an increment is one
  atomic step, a compare-and-swap that succeeds found the value it had loaded, and a close
  that gives up enters `lost`. `NoOpenMissed` follows: the count may be too high, never too
  low. `GivingUpIsRare` (`GivesUpOvertaken`): a failed attempt means that the count changed
  since the load, so `hits` never falls behind the attempts. `SessionsEnd`
  (`NoGhostSession`) and `TrustEndsWithSession` (`TrustEnds`): every mark that is left has a
  handler under way that will delete it (`Held`), or a count above zero.
  `LoginsArePaid` (`LoginsMetered`) comes from `Paid`: a write over the value it was
  computed from keeps `granted + tokens`, any other adds a burst at most and is an overlap.
* `SumFacts` and `AccountingProofs`. Counters are sums over sources, reasons and
  CPUs (`SumFunction`, `SumFunctionOnSet` of the community modules, which are
  folds: recursive functions on finite sets). `SumFacts` proves that the recursion
  is well defined and that a sum may be taken in any order, changes with one value,
  and is additive and monotone. Each fact takes a least counterexample, which
  needs no induction rule. `EveryDropCounted`
  (`DropsCountedOnce`), `HistoryBelowStats` (`HistoryNeverOvercounts`) and `HistoryIsStats`
  (`HistoryMatchesStats`) are proved for any CPUs, sources, elements and traffic. Between
  runs they speak of totals only, so the invariant says what each run under way has still
  to do: its path and position tell which counters it will bump, whether it will record,
  and whether it will drop. With these debts included, the counters equal the verdicts
  (`Counted`), and the linked elements hold at most what is counted, exactly that while
  nothing was disturbed (`Told`); `NeverMalformed` is the one reason without records.
* `ReadersProofs`, for any set of CPUs and any job. `CountersOnlyGrow`
  (`CountersNeverRegress`): with `Ahead(x)` for the present values that a reading has
  still to copy, `sums[x] + Ahead(x)` never falls while a reading lasts, does not
  exceed the total, and equals the total when the reading begins; the last answer is
  below it. `OutcomesNeverAhead` (`OutcomesWereSeen`): on each CPU outcomes never
  exceed handshakes, those that the run under way still owes included (`Earned`), so
  neither do their totals; when the reading comes to slot 4, slots 2 and 3 are
  complete, and what they hold is bounded by what slots 4 and 5 hold at that
  moment and later (`Seen`). The order of the slots is used in exactly that place.
* `ReadersProofs` again, for any keys and buckets, maps of any size and any number of
  writes: what a walk through a live map may be relied on for. `Changes(gone,
  written)` is all that a walk can notice of an update, an eviction, a write in place,
  a delete or a tick: elements that stay keep their order, and one that is linked
  comes before all others of its bucket and of later ones (`LinkedChain`). The
  invariant, for a walk that is not over (`WalkInv`):
  - `NotPassed`: entries that have to be reported and are not yet lie after the
    cursor. That alone is not inductive, because the cursor's key may be evicted and
    inserted again; the invariant says also that they lie in the cursor's bucket or in
    a later one even when its key is not in the map, so that it comes before them
    wherever it returns to. `NothingLeft`: at the end of the map all is reported.
  - `InOrder`: unless an element was removed or replaced, the iterator has made no
    more steps than there are keys up to its cursor, so it does not give up, and what
    it has reported is behind it, so nothing is reported twice (`Once`).
  - `Fresh`: a row of `top` for an unchanged entry shows its value; sorting loses no
    row (`ArrangedRows`), and cutting keeps the hottest (`TopAnswer`).
  - `Collected`: what `clear` was to delete and has not deleted is still in its list.

  `TopIsComplete` (`HotSourceShown`) and `ClearLeavesNothing` (`ClearSweeps`) follow.
  `ListingsAreFaithful` (`ScanFaithful`) needs also that what a walk comes upon was
  reportable at some moment (`Known`), which is true only if `BanTime > 0`:
  `--health-blacklist 0` is accepted (`run.go:46`), and TLC then finds a ban of length
  zero that is written during a listing, ends later than the clock value the listing
  goes by, and is listed though it was in force at no moment. The theorem has the
  hypothesis; the other two do not.
* `HandshakeProofs`, for any byte streams. A VarInt has at most five bytes, so the
  recursion of `load_varint` is unrolled (`VarintUnrolls`) and compared with the
  grammar (`VarintExact`). `MatchParses` and `ParseMatches` go through the fields in
  their order: what the early returns let pass is a packet of the format that lies
  within both the frame and the claimed length, and conversely; that a packet of
  the format has a length between 3 and 1024 is part of the argument. A stream can be
  parsed in one way only (`ParseUnique`), and a longer one like its beginning
  (`PrefixParsed`). `ClassIsFinal` (`ClassStable`) follows, and `ClassifierIsExact`
  (`ClassifierExact`): the class the code computes is the documented one outside the
  disputed payloads (`DocumentedClass`).

Only model-checked: liveness (`GaugesConverge`), which needs fairness and `ENABLED`; and
`RaceCost`, `SoloHeals` and `FreshTrustKept`, on the instances of their runs. Every other
invariant and action property of the passing runs is a theorem.

## 5. Divergences without a run

Met while modelling, faithful in the modules, not stated as properties:

* A second connection whose sibling has spoken and closed is not classified
  (`minecraft_xdp.bpf.c:419`), though `xdp_datapath_test.go:432` calls skipping
  classification of a later connection a failure.
* The open cap counts established sockets only, so a source may exceed it by its
  half-open connections (`OpenBounded` is what holds); `config.example:42` calls it
  a cap on open sockets.
* SYNs of a trusted source are not charged to `syn_ratelimit`
  (`minecraft_xdp.bpf.c:352`); `README.md:154` says they are bounded by the
  new-connection cap.
* A malformed handshake is neither an anomaly nor in the drop history
  (`minecraft_xdp.bpf.c:444`; `README.md:23`).
* `STAT_PASS_TCP` is bumped before the payload is judged, so some drops count as
  passes (`minecraft_xdp.bpf.c:405`).
* A promotion that has looked up `tcp_established` when the last connection closes
  leaves a whitelist entry behind (`minecraft_xdp.bpf.c:475`; `README.md:28`), until
  the TTL or the end of the next session: the exception in `TrustEnds`.
* Two CPUs that take from one bucket may spend the same token, and a late store puts
  back what others took (`minecraft_xdp.bpf.c:226`): `LoginsMetered` is what holds. They
  may also push `last_refill_ns` past the clock (line 227), or one of them may have read its
  clock too early (line 207): the next subtraction wraps and fills the bucket. `RaceCost`
  and `SoloHeals` are what holds.
* Forged SYNs drain the `syn_ratelimit` of the address they carry
  (`minecraft_xdp.bpf.c:383`), and forged data is charged to an address whose owner is
  connected (line 434); `OnlyConnectedCharged` covers what the code can tell apart.
* A close that loses eight compare-and-swaps leaves `tcp_open_count` too high for good
  (`minecraft_sockops.bpf.c:26`), and with it the marks of the session: the `lost` in
  `CountExact`, `NoGhostSession` and `TrustEnds`.
* Two CPUs that drop the first segments of a source both insert its history, and one drop
  is forgotten; so are drops recorded through a pointer to an evicted element
  (`minecraft_xdp.bpf.c:155`): the `disturbed` in `HistoryMatchesStats`.
* `record_drop` reads the clock before the lookup (`minecraft_xdp.bpf.c:146`): of two CPUs
  that drop segments of one source, the one that read first may store last, and
  `last_drop_ns` goes back, even below `first_drop_ns` (`xdp_datapath_test.go:689` calls it
  an error when the "last drop went backwards").
* A handshake that announces an address of more than 255 bytes is unclassified and passes
  (`minecraft_xdp.bpf.c:115`); `README.md:23` and `config.example:72` call it malformed.
  `Disputed` keeps it, and the packets of `HandshakeLong`, out of `ClassifierExact`.
* A CPU that read its clock before another one refreshed the whitelist entry subtracts a
  later time; the difference wraps and the trust refreshed a moment ago is deleted
  (`minecraft_xdp.bpf.c:341`; `config.example:11`): the `raced` in `FreshTrustKept`.
* With a health threshold of 1 the first anomaly inserts an entry and returns before the
  comparison, and the ban comes one anomaly late (`minecraft_xdp.bpf.c:169`;
  `config.example:75`).
* A configured share above one per nanosecond becomes period 0 (`loader.go:156`):
  the SYN and connection limits are then off, the status and login buckets never
  refill. A global rate below the number of CPUs is raised to one per CPU
  (`loader.go:181`).
* Only `dump` and `clear` look at the error of the map iterator. The API, `top`,
  `health`, `info` and the ticker present a walk that was cut short as complete
  (`api.go:123`, `top.go:75`, `collector.go:220`).
* `/health` cannot say "degraded": the links it asks about are never set to nil
  while the daemon runs (`run.go:134`).
* The installer's wipe and `clear --map all` make the filter drop connected players
  as `no_syn`: `PlayersKeepFlowing` exempts sources whose state was deleted under
  them (`install.sh:45`, `clear.go:44`; `README.md:163` says that a player whose
  connection survives the restart keeps flowing).
* A scrape that outlives the five seconds of `Shutdown` reads closed maps and
  reports zeros (`collector.go:270`), a counter reset to Prometheus.

## 6. Not modelled

* Reassembly: a handshake split over segments is a NONE payload.
* Races of several CPUs on a health entry (its window restarts, counts and bans in separate
  stores), and of a promotion with a ban imposed on another CPU. The two halves of a
  connection bucket race like the buckets of `BucketSmp`. The fields of a bucket are loaded
  and stored in the order of the source; a compiler that reorders them is not modelled.
  In `BucketSmp` the source stays in the map: eviction of its bucket gives it a new burst.
* In `Readers`: JSON and text layout, flags, unknown map names, the repetition of
  `--watch`. `/api/ip` and `inspect` read several maps one after another; each is a
  job of its own, and nothing is said about two maps together. A value of several
  words may be torn by a concurrent write. The window age of `/api/blacklist` is the
  one age that is not clamped at zero.
* The file handling of `install.sh`, command-line usage, dashboards, build scripts.

## 7. Plan

To extend the model: reassembly of split handshakes, the races on health entries, and two
maps read together by `/api/ip`. To prove: the properties of `TrustSmp` and `BucketSmp`
for any number of CPUs.
