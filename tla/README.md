# Proxier: a TLA+ verification of the proxy rotator

Proxier downloads public proxy lists, probes every proxy on them, keeps the
working ones in a pool and hands them out over HTTP. This directory models the
parts of it that carry state and concurrency, checks them with TLC on small
instances, and proves with TLAPS, for every instance, each safety property that
the passing runs check: that the pool's bookkeeping is exact and what of it survives
the validators' unlocked writes, that a sequential keepalive never validates a
struct twice at once, that the scanner loses and repeats nothing and gives every slot
of its semaphore back, how far the table of stored proxies can be trusted, that every
probe is counted once, and that requests are served in turn, in proportion and in order.

## 1. The system

    sources --HTTP--> Scanner --proxyCh--> Validator.Run (N workers)
                                               |  pool.Add
                     keepalive loop  <-----> Pool  <---- REST handlers, metrics
                     (and its workers)         |  DirtyAll
                                           persistPool ----> SQLite

| component (source) | state it keeps | operations | what makes it correct |
|---|---|---|---|
| pool (`internal/pool/pool.go`) | map id -> `*Proxy`, cached ids of the ALIVE ones, atomic counters, per-protocol counts, timestamps of deaths, round-robin index | Add, Remove, SeedCounters, DirtyAll, All, Get, GetRandom, GetRoundRobin, GetN, DetailedStats | counters and cached ids equal a recount of the map after any sequence of calls; a re-added candidate loses nothing that was learnt |
| validation engine (`internal/validator/validator.go`) | the structs themselves: state and streaks, statistics counters, `keepaliveCh` | Run's workers, StartKeepalive, StartKeepaliveWorkers, validateOne, handleFailure | one goroutine per struct; ALIVE and DEAD are earned; ALIVE is on offer and DEAD is not; every candidate ends up in the pool; stuck proxies are resolved; cycles end |
| scanner (`internal/scanner/scanner.go`) | the seen map with times, figures, the drop counter | Run/runOnce, RunContinuous/fetchAllSources/pushToChannel, deduplicate, cleanupSeen | no address twice within the TTL, none suppressed beyond it; bounded parallel fetches; every discovery sent or counted as dropped; never blocks; stops on a signal |
| storage (`internal/storage`) and the flush loop (`cmd/proxier/main.go:96-135`) | the table | SaveBatch, LoadAll, persistPool | what was flushed survives a restart; no older row overwrites a newer one |
| lifecycle (`cmd/proxier/main.go`) | the context, which modes run | load, start, signal, final flush | a signal ends the process; a restart finds what was earned |
| HTTP API (`internal/server`) | none of its own; /rotate advances the pool's index | GET /proxy, /proxies, /rotate, /stats; POST /validate | every proxy in its turn, in proportion to its score, or in order, whoever else asks or writes |
| transports and the socks4 dialer (`createTransport`, `internal/socks4`) | connections, with a deadline or not | Dial; what net/http does with a connection | a probe ends whatever its proxy does; connections are closed; a deadline never outlives the handshake it is for |
| metrics, config | none across calls | formatting; reading once at start | |

**Interaction.** Goroutines of this program share three things, and net/http
adds goroutines of its own, which dial. The proxy channel goes from the
scanner (which drops rather than waits) to the workers; in one keepalive mode the
keepalive loop sends on it too. The pool is behind a read-write lock. The
`models.Proxy` structs are behind no lock at all: `pool.Add` keeps the pointer it
is given, `pool.All` gives it out, and `validateOne` writes through it. Most of
what is hard about this program follows from the last of these.

**What is hard.** Races on structs between workers, keepalive workers and the
keepalive loop; the pool's incremental bookkeeping under such writes; bounded
channels, one of them written to outside a select; deduplication by age with two
comparisons at one boundary; a semaphore that must be given back on every path;
a signal at any moment; structs copied while they are written to, and flags
cleared before a write that may fail; two flushes at once; dials that outlive the
probe that wanted them; an index shared by requests with different filters. The
full list, with lines, is under `hazards` in `PROJECT.json`.

## 2. Modules

| module | models | extends |
|---|---|---|
| `PoolContract` | what callers may rely on: a table, with figures and ids on offer computed from it | |
| `Pool` | pool.go: the operations that write, each one action | |
| `PoolProofs` | theorems about `Pool` | `Pool` |
| `PoolRefinement` | proof that `Pool` implements `PoolContract` | `PoolProofs` |
| `Validation` | validator.go and pool.go together: goroutines, channels, the keepalive loop, `Add` in two steps | `Pool` |
| `ValidationProofs` | theorems about `Validation` | `Validation`, `PoolProofs` |
| `Scanner` | scanner.go, both modes | |
| `Recursion` | lemmas: induction over the positions of a list, and that a loop has a history | |
| `ScannerProofs` | theorems about `Scanner` | `Scanner`, `Recursion` |
| `Persistence` | main.go, sqlite.go and DirtyAll: flushes, the table, signal, crash and restart | |
| `PersistenceProofs` | theorems about `Persistence` | `Persistence` |
| `Probe` | validateOne, createTransport, socks4.go and validateProxy: connections, verdicts, counters, the score | |
| `ProbeProofs` | theorems about `Probe` | `Probe` |
| `Serving` | server.go over the selections of pool.go: GetRandom, GetN, GetRoundRobin | |
| `ServingProofs` | theorems about `Serving` | `Serving`, `Recursion` |
| `MCPool`, `MCValidation`, `MCScanner`, `MCPersistence`, `MCProbe`, `MCServing` | the instances TLC checks | |

`PROJECT.json` maps every definition to the lines it models.

One struct is at the centre of four modules, each of which looks at it from a
different side: `Validation` at its state and streaks under several validators,
`Persistence` at its flag and its copies, `Probe` at what happens while it is
VALIDATING, `Serving` at the latency and the score that requests read. What one of
them abstracts is in another; the head of each module says where.

### Pool

A pointer is a member of `Obj`, and `obj` is the heap. `proxies`, `aliveIDs`,
`total`, `count`, `protoCount` and `deadTimes` are the fields of the struct
`Pool`. `Add(h, o)` is the whole method: `Merge` (lines 77-84), `TotalAfterAdd`
(86-88), `PrevState` (90-93) and `Publish`, which files the pointer, moves the
counters and rebuilds the ids when the code does. The operators take the heap as
a parameter so that `Validation` runs the same ones with its own timing.
`aliveIDs` is a set, because the order of the slice is that of a Go map; it is
assigned, never appended to, so it has no duplicates to lose. `deadTimes`
counts the timestamps younger than an hour and `TimestampsAge` is the clock:
pruning (lines 360-368) removes only timestamps that no longer count.

`PoolSpec` is the pool in the hands of a caller that owns a struct until it adds
it and does not write to it after that (as every test of the package does): the
caller adds a fresh struct, or adds one that is already there, removes, seeds or
flushes, in any order.

### Validation

A thread is a worker of `Run`, a dedicated keepalive worker, or the keepalive
loop (`Coord`). `th[t].pc` is its place in `validateOne`:

    idle --Receive / ReceiveKa / Visit--> probing     state := VALIDATING (304)
    probing --ProbePasses / ProbeFails--> passed / failed    streak read (357, 373)
    passed --RecordPass--> adding                     streaks and state written
    failed --CountFail--> judging                     longer streak written
    judging --Judge--> adding                         streak read again (378), verdict
    adding --LockAdd--> publishing                    lock taken, previous state read
    publishing --CommitAdd--> idle                    new state read, published, unlocked

`Record` is the last three. Plain writes of one goroutine to one struct that follow
each other are one step. `handleFailure` reads the streak again after two atomic adds
(378), when another validator may have written it, so the judgement is a step of its
own. The read and the write of an increment are two, and so are the two reads of
`Add`, because other goroutines can write between them. `CommitAdd` reads the
state and rebuilds the ids in one step.

The loop (`coord`) goes through the phases `alive`, `validating` and `dead`, each
over a copy of the map taken at its start. In sequential mode it validates the
ALIVE structs itself (`Visit`); in parallel mode it hands them on (`HandOver`,
`SendKa`, `SendMain`). `SendKa` waits for room and `SendMain` does not.
`KaWorker = {}` and `UseMainChannel = FALSE` is the sequential mode.

Time is left out: a tick may come whenever the loop waits, and a struct whose
turn it is in a retry phase may be due (`Visit`) or not (`Skip`). This allows
every timing of the program and some that need unlucky clocks; the findings below
were checked not to need any.

`Init` is the state after main has loaded the rows of a former run and called
`SeedCounters`.

### Scanner

`mode` is chosen once. `pc` goes from idle through fetching and pushing. A fetch
returns one of the lists `Serves` names, or nothing, which stands for errors,
bad statuses, unparsable bodies and cancelled requests. `seen` holds ages, not
times; ages saturate one unit past the TTL, where nothing tells them apart, and
`Clock` makes everything a unit older at any moment. The TTL of two units gives
each side of both comparisons (`>` in cleanupSeen, `<` in deduplicate) a value,
and the boundary one of its own. `since` and `taken` are history variables.

`slots` is the buffer of the semaphore, apart from the goroutines that hold a place
in it: `AcquireSlot` sends a token, and `Released` is the receive deferred after it,
which both ways out of a fetch run. A goroutine that gives up on a signal never sent
and must not receive. `FetchInTurn` is interval mode, which has no semaphore.

In continuous mode the figures are written after the push, in interval mode
before it; `Unreported` in the invariant `Accounted` is that difference.

### Persistence

`mode` is the keepalive configuration: `sequential` is `KEEPALIVE_WORKERS=0` without
the main channel, `parallel` any other. `stage` counts, per struct, the goroutines
that wait for their probe of it and those that have written a verdict and are about
to add it. In sequential mode there is at most one, which is what
`ValidationProofs!OneValidator` shows; in parallel mode there are up to `MaxProbers`,
since nothing at validator.go:301 keeps a second one off. `known` are the structs that
the loop, `keepaliveCh` or the main channel may hold, replaced ones included. A
goroutine that shares its struct may find its writes overwritten, so what is left
after it is one of the `Mixtures` of the two outcomes and what was there.

The flag and the copy are the point: `DirtyAll` is the steps `StartFlush` (read lock, list of
ids), then for each dirty struct `BeginCopy`, `EndCopy`, `ClearFlag`, and
`EndScan`. `validateOne` takes no lock, so `Discover`, `Recheck` and `Verdict`
may come between any two of them; `AddProbed` needs the write lock and waits
until no flush is scanning. `EndCopy` may find the struct as it was at
`BeginCopy`, as it is now, or with the state of one moment and the streaks of
the other. `Commit` is the transaction of `SaveBatch`; `SaveFails` rolls it back.

There are two flushers. `periodic` is the loop of main; `final` is the one main
calls itself after the signal, without waiting for the first. `Return` ends the
process when the final flush is over, `Crash` at any moment, and `Boot` starts
another one from the table, or from nothing when `LoadAll` failed. The histories
`lost`, `overlap`, `torn` and `shared` exist to name the exceptions to the properties:
without them the exceptions could not be shown to be the only ones. `RowsEarned` has
two (`Excused`). A row copied while a probe wrote to its struct may mix two moments
of it. And in parallel mode an address one of whose structs had two validators may be
stored unearned without any tear: one probe makes it ALIVE with no failures, and the
retry phase's probe, begun while it was VALIDATING, then adds a failure that leaves the
state alone, so that the row says ALIVE with `fail = 1`.

A struct that the pool has replaced and nobody probes is garbage, and its pointer
may be used again.

### Probe

The state is that of a connection (`conn`) as much as that of a prober (`at`),
because the two part company: net/http dials in its own goroutine, and since Go
1.23 on a context detached from the request's, so that `GivesUp` leaves a dial
behind. What becomes of it is `DialFails` or `Connected`, and if nobody waits
any more the connection goes to the idle pool of a transport that is not used
again. `Connected`, `IdleTimeout` and what `GivesUp` does to the connection are the
behaviour of net/http that createTransport relies on, and are marked external.

A SOCKS4 dial is `connect4, arm, write, read, disarm, reply` (socks4.go:20-79), with
`AfterError` for each early return. A SOCKS5 dial is `connect5, greet`: the dialer of
golang.org/x/net/proxy gets neither context nor deadline (validator.go:409-411).
The prober's later places are the counters: `CountCheck`, `CountOutcome`, `Finish`.
`Load` is one of the three loads of `DetailedStats`, with anything in between.

### Serving

A request is `listed` while it holds the read lock, and `picked` or `sorted` when
it has let go of it and has yet to write its response. `Write` may change latency
and score of any struct at any moment; `Rebuild` (an Add) waits for the lock.
`calm` says that nothing was written since the candidates were listed, which is
when a promise can be made about weights and orders. `turns` counts unfiltered
rotations per proxy since the last rebuild.

A threshold of `cryptoRandFloat64` is a real number below the sum of the scores.
With scores that are small whole numbers, what matters is the unit interval a
threshold falls into; `Thresholds` has 0 and the middle of each, doubled.
Go's `sort.Slice` promises nothing when the order changes under it;
`SortResults` is then any permutation.

## 3. Runs

| run | instance | shows |
|---|---|---|
| `pool` | 2 addresses, 3 structs, 2 protocols, saturation at 1 | `PoolTypeOK`, `CountersExact`, `RotationExact`, `ProtoCountsExact`; the refinement `ImplementsContract` |
| `pipeline` | 2 workers, 3 structs over 2 addresses, one of a protocol without transport, channel of 2, any stored row or none, 1 tick onto the same channel | `PipelineExact`: bookkeeping exact until the first tick, rediscoveries included; `NeverDiscovered`; `SumConserved` |
| `sequential` | 1 worker, sequential loop, 2 structs (one or both stored), unlimited ticks, signal, fair | `SingleValidator`, `StateEarned`, `CandidateLands`, `StuckResolved`, `WorkersStop` |
| `parallel` | 1 worker, 1 keepalive worker, `keepaliveCh` of 1, 2 structs (one or both stored), 1 tick, fair | `TypeOK`, `SumConserved`, `CycleEnds` |
| `scanner` | 3 sources, 2 addresses (one under two protocols, one listed twice), 2 slots, channel of 1, TTL 2, 2 cycles, fair | `TypeOK`, `FetchBound`, `Accounted`, `NoDuplicates`, `NotWithinTTL`, `NothingLost`, `CycleEnds`, `Returns` |
| `persistence` | 1 address, 1 struct, `MaxFails` 2, both modes, at most 2 goroutines on the struct, signals in sequential mode, any number of flushes, failures, crashes and restarts, fair | `StoreTypeOK`, `CleanIsSaved`, `RowsEarned`, `CatchesUp`, `ProcessEnds` |
| `probe` | 1 worker, 1 handler, 2 connections, 2 probes of any protocol, fair | `TypeOK`, `DeadlineScoped`, `VerdictsAddUp`, `ReportClose`, `ProbeEnds`, `ConnCloses` |
| `serving` | 3 proxies, 2 clients (one only rotates), with and without a filter, limits capped at 2, scores 0 and 2, an index that wraps at 4 | `TypeOK`, `RotateEven`, `Proportional`, `ListLawful` |

`FetchBound` says that in continuous mode the semaphore holds one token for each fetch
under way, no more than its capacity: a path that keeps its slot, or that gives one
back it never had, breaks the equality, and the second kind lets a sixth download start.

An operator with the comment "mutant" is a variant of the definition after it with a
plausible bug in it; `PROJECT.json` pairs each property with one that breaks it.

Deadlock is checked in `pool` and `serving`. The others set `CHECK_DEADLOCK
FALSE`: after a signal everything stops, and with the structs, ticks, cycles or
probes used up the instance has nothing left to do.

**Bounds.** Two addresses are enough for an operation on one to disturb another;
three structs are the one held, its replacement and one of another address.
`MaxFails` of 2 separates a failure that kills from one that does not.
`MaxStreak` of 1 separates no success from some: nothing but the health score
reads more. Channels of capacity 1 are full at once, which is the interesting
case. One tick lets all three phases of a cycle race with the workers; the
sequential run has no bound on ticks. `RetryValidating` and `RetryDead` are 1,
so that the caps are reached. Two cycles of the scanner are one that marks
addresses and one that finds them marked.

`persistence` has a single struct, because the two flushes, their copies, and a
process that restarts for ever already make a large state space, and every race of
the code is between a struct's probers and the flushes that visit it. Two probers are
the least that can lose a write. `Signalled` lets the signal, and with it the second
flush, come in sequential mode only: the two flushes and two probers together are
too many states for TLC. `ProcessEnds` is therefore checked in that mode; `Return` waits
for no prober in either. The three theorems hold for every `Signalled` and every
number of probers. What two
structs would add, a replaced pointer, a batch of several rows and a pointer used
again, is in the theorems, which hold for any number of both.

Two connections in `probe` are the one a probe is waiting for and the one an earlier
probe left behind; two probes are one that times out and its successor. Three
proxies in `serving` are the least for which a filtered list and the whole list have
lengths that do not divide one another, and 4 is no multiple of 3, so that wrapping
round upsets the turns, as 2^64 does.

Two settings of the program lie outside the constants' assumptions: a channel
buffer of 0 (a rendezvous) and `MAX_CONSECUTIVE_FAILS` of 0 or less (every failure
kills).

**Fairness.** `Validation!Fairness` is weak fairness for each goroutine (the Go
scheduler runs what can run; a probe has a timeout) and for the keepalive loop's
own steps, and strong fairness where a step needs the pool's lock, which
`sync.RWMutex` grants in turn. The ticker is fair. `SF_vars(Visit(o))` says that
a struct that is due at infinitely many visits is retried at one: the cooldown of
60 s ends while cycles go on, and the map is iterated in random order, so the
cap does not exclude the same struct for ever. `Scanner!Fairness` is weak
fairness of the loop and of the fetches, which end because the HTTP client has a
timeout of 30 s; it says nothing of the validator, the clock or the signal. In
interval mode a loop that finds both the ticker and the context ready picks one at
random; that it picks the context in the end is here a consequence of `MaxCycles`.

`StuckResolved` rests on more than fairness. Every rediscovery of an address is a fresh
struct whose streaks begin at 0 (disagreement 2), and `Obj` is finite, so that
rediscoveries come to an end. A scanner that sent an unlucky address again before its
failures reached the limit, and did so for ever, would keep it VALIDATING for ever;
the dedup TTL makes that rare, not impossible, and the property does not deny it.

`Persistence!StoreFairness` lets a flush go on, the loop's timer fire and main return.
No probe has to end: `CatchesUp` speaks of entries that are no longer probed, and main
waits for no probe. Signals, crashes and restarts are not fair, and a save may fail
every time: `CatchesUp` has to allow for that, and `ProcessEnds` holds all the same.
`Probe!Fairness` gives every probe its time limit and every dial step an end, with one
exception that the code makes: `Timed` is false of a SOCKS5 handshake, which no
deadline covers, so that nothing ends it but the proxy. `ProbeEnds` holds in spite of
it; `ConnCloses` names it. `Serving` has no liveness to speak of: its requests wait
for nothing.

### Disagreements found

Four runs end in a counterexample; each shows a sentence of the repository that
the code does not keep.

1. `rotation`: a proxy the keepalive loop finds dead stays on offer
   (README.md:319), and one a retry finds working is not put on offer
   (README.md:318). The struct validated is the one the pool holds, so `Add` reads
   the new state as the previous one too, and rebuilds nothing. The counters miss
   the move as well; when a rediscovered struct then replaces such an entry, the
   wrong counter is taken down, and `/stats` can show a negative figure.
2. `rediscovery`: re-discovered proxies do not keep their history
   (pool.go:69-70): `validateOne` marks them VALIDATING before `Add` can see
   DISCOVERED, and `NeverDiscovered` shows that this is so on every path.
3. `duplicate_work`: a proxy under validation by a keepalive worker looks stuck to
   the loop's retry phase, which validates it again at the same time
   (README.md:97). Its LastChecked is a cycle old, so the cooldown does not help.
4. `two_protocols`: an address listed under two protocols leaves a protocol count
   too high (pool.go:50). The scanner lets the second listing through when the
   TTL of the first is over.

`sequential` bounds item 3: in sequential mode no struct has two validators.
`parallel` and `pipeline` bound item 1: whatever the races, the three counters
still add up to the number of entries, because each `Add` moves one unit.

Four smaller ones need no run, since no order of steps is involved:

- the flush cycle is 5 s (main.go:101), where README.md:302 says 30 s;
- `dead_last_hour` (README.md:240) counts every DEAD row loaded at start as a death of
  that moment (main.go:49, pool.go:357);
- "All sources are fetched in parallel" (README.md:337): in interval mode they are
  fetched one after the other (scanner.go:100-107), and in continuous mode five at a
  time (scanner.go:139);
- "Proxies fetched in last cycle" (README.md:250): interval mode reports what the
  sources listed (scanner.go:112), continuous mode only what was new (scanner.go:212).

## 4. Proofs

| theorem | says |
|---|---|
| `PoolProofs!Invariance` | `PoolSpec => []IInv` |
| `PoolProofs!TypeCorrect` | `PoolSpec => []PoolTypeOK`: types, and counters never negative |
| `PoolProofs!CountersAreExact` | `PoolSpec => []CountersExact` |
| `PoolProofs!RotationIsExact` | `PoolSpec => []RotationExact` |
| `PoolProofs!ProtoCountsAreExact` | `PoolSpec => []ProtoCountsExact`, if `OneProtocol` |
| `PoolRefinement!PoolImplementsContract` | `PoolSpec => ImplementsContract`, if `OneProtocol` |
| `ValidationProofs!EngineInvariance` | `Spec => []VInv` |
| `ValidationProofs!EngineTypeCorrect` | `Spec => []TypeOK` |
| `ValidationProofs!MergeNeverRuns` | `Spec => []NeverDiscovered` |
| `ValidationProofs!SumIsConserved` | `Spec => []SumConserved` |
| `ValidationProofs!OwnershipInvariance` | `Spec => [](VInv /\ Owned)` |
| `ValidationProofs!OneValidator` | `Spec => []SingleValidator`, if `~Parallel` |
| `ValidationProofs!StatesAreEarned` | `Spec => []StateEarned`, if `~Parallel` and `StoredEarned` |
| `ValidationProofs!PipelineIsExact` | `Spec => []PipelineExact`, if `OneProtocol` and `CountTicks` |
| `ScannerProofs!Invariance` | `Spec => []IInv` |
| `ScannerProofs!ScannerTypeCorrect` | `Spec => []TypeOK` |
| `ScannerProofs!FetchesAreBounded` | `Spec => []FetchBound`: one token in the semaphore per fetch under way, whichever paths the goroutines leave by |
| `ScannerProofs!EveryDiscoveryAccounted` | `Spec => []Accounted` |
| `ScannerProofs!BatchesAreSets` | `Spec => []NoDuplicates` |
| `ScannerProofs!TTLIsRespected` | `Spec => NotWithinTTL` |
| `ScannerProofs!DedupLosesNothing` | `Spec => NothingLost` |
| `PersistenceProofs!StoreTypeCorrect` | `StoreSpec => []StoreTypeOK` |
| `PersistenceProofs!ClearFlagMeansSaved` | `StoreSpec => []CleanIsSaved` |
| `PersistenceProofs!TableIsHonest` | `StoreSpec => []RowsEarned`, in both modes, with any number of goroutines on a struct |
| `ProbeProofs!ProbeTypeCorrect` | `Spec => []TypeOK` |
| `ProbeProofs!DeadlineIsScoped` | `Spec => []DeadlineScoped` |
| `ProbeProofs!EveryProbeCounts` | `Spec => []VerdictsAddUp` |
| `ProbeProofs!ReportIsClose` | `Spec => []ReportClose` |
| `ProbeProofs!ScoreIsShare`, `ScoreIsMonotone` | the score lies in [0, 1]; latency never raises it, a streak never lowers it |
| `ServingProofs!ServingInvariance` | `Spec => []IInv` |
| `ServingProofs!ServingTypeCorrect` | `Spec => []TypeOK` |
| `ServingProofs!RotationsAreEven` | `Spec => []RotateEven` |
| `ServingProofs!WeightsAreHonoured` | `Spec => []Proportional` |
| `ServingProofs!ListsAreLawful` | `Spec => []ListLawful` |

They rest on the assumptions the modules name: `PoolAssumption` (finitely many
addresses, nil is no pointer, callers hand over well-typed structs),
`ValidationAssumption` (one role per goroutine, channels with room, some candidate in
state DISCOVERED, as the parsers of the scanner make them, and stored rows that are
well typed and not DISCOVERED: SaveBatch writes what the pool holds, of which
`MergeNeverRuns` says the same), `ScannerAssumption` (a TTL, capacities, well-typed
lists), `PersistenceAssumption` (the same of its constants, at least one validator per
struct, and that LoadAll allocates a pointer per row), `ProbeAssumption` (finitely
many goroutines, none of which is both a validator and a handler) and
`ServingAssumption` (finitely many proxies, whole numbers for latencies, scores and
limits, a default limit within the cap).

Five theorems have a hypothesis besides, stated in the theorem:

- `OneProtocol`: no address is listed under two protocols. Without it the protocol
  counts are wrong, as run `two_protocols` shows.
- `~Parallel`: the keepalive loop validates by itself. Otherwise `SingleValidator` and
  `StateEarned` fail, as run `duplicate_work` shows of the first.
- `StoredEarned`: the rows LoadAll returns are DEAD or ALIVE for a reason. That is
  what `Persistence!RowsEarned` says of the table, torn copies and the addresses
  excepted whose struct had two validators in a parallel process.
- `CountTicks`: `ticks` counts the cycles begun, so that `ticks = 0` means that none
  was. An instance without it uses `ticks` for nothing.

**The pool.** The inductive invariant `IInv` is `Shape /\ KeysMatch /\ CountersExact /\
RotationExact`. `Shape` is the type invariant with counters in `Int`: that they
are natural numbers is not inductive by itself (a decrement needs a reason) and
follows from `CountersExact`, since a cardinality is. `KeysMatch` is needed because
`Add` looks up and files by the id inside the struct: without it an Add under one
id could change the state of a struct filed under another. `RotationExact` needs no
help from the counters but does from `KeysMatch`.

The argument: adding or removing one id changes the set of ids in each state by
at most that id (`OthersKept`), so its cardinality changes by at most one
(`Recount`, from the library's facts on finite sets), and that is what
`AdjustCounters` does (`TransferStep`, `AdjustStep`). There is a lemma per action.
When the struct added again is the one already held, previous and new state
agree and nothing moves (`MergeStep`).

The protocol counts need `ProtoInv` as well: what is filed under an address has
the protocol callers give that address. Without `OneProtocol` they are wrong, as
run `two_protocols` shows; the refinement rests on the same assumption, because the
abstract table reports exact counts.

For the refinement, `TableView` relates the abstract table to the map,
`FiguresMatch` derives the abstract figures from the invariant, before and after a
step, and `StepOfTable` gives each action the abstract step it is: an added
struct is a report (the merge of lines 77-84 is `Learn`), Remove forgets, and
the rest, adding again included, changes nothing that can be seen.

**The validation engine.** `VInv` holds in every mode and for any number of goroutines.
Beside types (`PoolTypes`, `EngineTypes`) and what a thread holds at each place of
validateOne (`Threads`), it has three parts. `Begun` and `Filed` say that no struct in
validateOne, and none in the pool, is DISCOVERED: marking comes first, and no later
write takes it back. `Tally` is what makes `SumConserved` inductive: the sum of the
three counters is the number of entries at every moment, but `total` is ahead by one
while an Add that brings in an entry is between its halves (`Reading`). It does not
matter that the state read as previous may be wrong: by `Filed` it is one of three
counted states, or the entry is new, so that each Add moves one unit or brings one in.

`Ownership` says where a struct can be while the loop hands nothing on. A pointer is once
on the channel, or with one thread, or in the pool, and of the pool only the loop
takes anything; a struct that Add replaces is left to nobody. Two validators of one
struct would be two places. `Owned` carries the same up to the first cycle of a
parallel instance (`Alone`), because the pipeline's exactness needs it: the state
that `LockAdd` reads is then still the one the counters have, since nobody else
writes to what is in the pool (`FiguresExact`, last conjunct). With keepalive workers
it is not, and run `rotation` is what comes of it. `EarnedInv` needs `SingleValidator`
as well: two threads that read a streak and write it back lose an increment, and one
may judge the streak that the other wrote. `Marking`
keeps a struct VALIDATING between its marking and its verdict, so that a claim about
DEAD or ALIVE has to be shown at one step only.

**Scanner.** `SeenIsSince` ties the seen map to the history: an address it holds was
accepted that long ago, and one it does not hold longer ago than the TTL. It relates
the two comparisons of the code, and `TTLIsRespected` and `DedupLosesNothing` are its
two directions at the step that deduplicates. What that step does to a list of any
length is `DedupReturns`: the batch has the addresses that are not recent, each once,
and those are recorded. `FetchBound` is inductive with the types, by the library's
facts on adding an element to a finite set and removing one; `slots` never goes below
zero because of it (`TokenHeld`), so that the types need it in turn. For `Accounted`,
`Unreported` covers the time a mode has yet to write its figures.

**Loops.** `Dedup`, `FilterAlive` and `Sums` are recursive functions on the positions of
a list. The induction theorems of the library take a predicate as parameter, which
the provers cannot instantiate; `Recursion` states induction for sets of numbers
instead, from the least-element principle. `LoopExists` says that the defining
equation of such a function has a solution, without which its CHOOSE says nothing.

**Serving.** `GoneRound` says where the turns are: those one ahead are the `m` positions
the index passed last, going round the order from wherever it stood at the last
rebuild. It speaks of the remainder of the index; `NextRemainder` gives the next one,
and `RrMod` matters only when the index wraps, which counts as `skewed`. A waiting
unfiltered request has the list still on offer (`Current`), because its read lock keeps
the rebuild out; that is the step where the lock is needed. For `Proportional`,
`PickWeighs` shows of any list of weights that the thresholds that stop at a position
are those between two neighbouring running sums (`SumsRise`, `SumsCover`), and
`TotalCurrent` that the total a calm request holds is still the last of these sums.
`ListLawful` is inductive by itself: `SortIsLawful` shows it of the step that sorts,
`PositionsPermuted` being the fact that nothing is duplicated or lost whatever
`sort.Slice` makes of fields that change under it, and a write only takes the calm away.

**The table.** That a clear flag means saved is not inductive. It is a claim about
entries no flush holds, and is made true by a commit; so the invariant has to say
what a batch under way is worth. `CopyTrue` says it of the row being copied:
whatever it may still become, it is the struct as it is if nobody is probing it.
`BatchTrue` says it of the rows already copied: such an entry is as the batch says
or is dirty again. `Control` says who can be where: `OneCopy`
(a flusher copies one struct at a time), `Alone` (without an overlap one flusher at
most is under way), `Rests` (a flusher that is not scanning has nothing left to
visit, and an idle one no batch). A probe that writes
to the struct being copied does no harm because it ends in an Add, which sets the
flag, and which the read lock holds back until the copy is over. The theorem says
that these writes, whenever they come, leave no change behind; the overlap of a
shutdown does, and so does a batch that fails, and nothing else.

`RowsEarned` rests on `Honest`: what it says of rows holds of every struct and of every
batch under way, or the address is excused. A failure that is not the last one
leaves the state as it is, so the argument needs that a struct says VALIDATING while
its probe is under way. That is so if nobody else is at it; if it was ever otherwise
since the struct was idle (`raced`), the address is in `shared`, which outlives crashes
as the rows do. That sequential mode never comes to this is where `Crew` is used.

**Probes.** `Links` relates the two sides of a connection: a prober that waits has one
that is being dialled, one past waiting has one in use, no two have the same, and one
in use has a user. That is bookkeeping of the model, not a promise of the code.
`Deadlines` is exact: a deadline is set in the stages `write`, `read` and `disarm`,
and in no other. Both are inductive with the types; `DeadlineScoped` follows. For the
counters, `AddUp` is `VerdictsAddUp` with its two sets of probers named, and needs
`Apart`, that no handler of POST /validate is at a place where something is counted.
The lemma `OneMoves` is the arithmetic: a prober that moves changes the size of a set
of places by one or by nothing. `Close` extends `ReportClose` to reports half loaded:
once the checks are loaded, the outcomes still to be loaded can only grow
(`OutcomesGrow`), so the gap at that moment, which is at most one per goroutine,
bounds the gap in the end. In the other order of loads it would not be bounded, which
is the mutant of this property.

**Only model-checked**: the liveness properties (`CandidateLands`, `StuckResolved`,
`WorkersStop`, both `CycleEnds`, `Returns`, `CatchesUp`, `ProcessEnds`, `ProbeEnds`,
`ConnCloses`), because fairness and ENABLED are beyond the prover. Every invariant
and action property of a passing run is a theorem.

## 5. Not modelled

- **Metrics**: formats the figures of the three DetailedStats, and has neither state
  nor control. The averages in those figures (health, latency, success rate) are
  quotients of loads made at different moments; nothing in the code limits how far
  apart they are, so there is nothing to state about them.
- **Storage.Save and Delete**: nothing calls them. Opening the database, preparing
  and closing statements are I/O with an early return each.
- **Routing, query and proxy string parsing, JSON, the server's start and shutdown**:
  no shared state. `Serving` starts from a parsed filter and limit.
- **Parsers of source lists, configuration, self-IP detection**: data in, data out,
  once.
- **LastChecked**: the cooldown of 60 s and the hour of a DEAD retry are choices
  (`Visit` or `Skip`); what depends on them is in the fairness of `Validation`.
- **Save order beyond a shutdown**: only the two flushes of one process can overlap;
  SQLite serialises their transactions.

## 6. Plan

1. *Done*: every module of section 2 and the theorems of section 4.
2. Worth proving next: that the pipeline before its first cycle implements
   `PoolContract`, from `PipelineIsExact` and the refinement of `Pool`; that `StoredEarned`
   and the assumption on stored rows follow from a model of one process feeding the
   next, which would join `Validation` and `Persistence`. It would replace `Crew`, too,
   by the goroutines themselves.
