# LASM in TLA+

A verification development for `llm-agent-spend-manager`, a Go program that
watches what a fleet of LLM agents spends and, optionally, holds it to a cap.
It has two halves. The **enforcement half** sits in the path of every call: a
reverse proxy (`internal/proxy`) asks a shared counter (`internal/enforce`)
before it forwards, and settles the tokens a call really used once the answer
has been read. The **observation half** reads the sessions the agents leave on
disk (`internal/adapters`), adds them up (`internal/aggregate`), estimates the
provider's quota (`internal/quota`), and serves reports and advice
(`internal/server`, `internal/advise`, the `cmd` subcommands).

Everything here is plain TLA+. `tlc -config X.cfg M` runs a model, `tlapm M.tla`
checks a module's proofs. `PROJECT.json` is the index: which definition stands
for which lines, what every run checks, and which change of the code each
property would catch.

## 1. Inventory

| component | state | operations | what is hard |
|---|---|---|---|
| cap counter, `internal/enforce` | two integers a key, in memory, in a SQLite file shared by processes, or in Redis | `Add` (memory, SQLite, Redis), `Limiter.Allow` | callers racing near the cap, bucket boundaries, the clock read outside the statement, errors after the charge applied, restarts |
| proxy, `internal/proxy`, with the diagnosis of cuts, `diag.go` | one record per request in flight, the counter, the request cache | `ServeHTTP`, `tapUsage`, `settleUsage`, `errorHandler`, `logf` | check before, charge after: every call in flight passes one check; settle once whether the body ends, fails or is closed; client gone; counter down |
| usage scanner, `internal/proxy/usage.go` | partial line, running maxima | `Write`, `Flush` | events split at any byte, lines past the bound, counts that repeat cumulatively |
| request cache, `internal/lru` | map and linked list under a mutex, two atomics | `Get`, `Put`, `Delete`, `Clear`, `RecordRequest` | map and list must agree, eviction order, counters outside the lock |
| session window, `internal/sessionreset` | last state, busy flag | `Note`, `currentAt`, `Refresh` | single flight, a scan that outlasts the window it describes, everything a function of the wall clock |
| dashboard cache, `internal/server` | snapshot, last error, attempt time, loading channel | `Warm`, `cachedLoad`, `fresh`, `startLoadLocked`, handlers | stale while revalidate, single flight, failed rescan keeps the good snapshot, bounded wait at warm up |
| quota, `internal/quota` | none; a function of the history | session windows, windowed spend, calibration, plans, levers, report | windows that anchor on first use, refusals written many times over, agents with other accounts, division by zero at the edges |
| aggregation, `internal/aggregate` | none | collect, dedupe, group, rank | the same call in two agents' stores, dated differently; weeks and midnights |
| context fill, `internal/contextfill` | none | occupancy, shifts of the ceiling | threads of one session interleaved |
| boot files, `internal/bootfiles` | a snapshot file | measure, compare, save | a crash while it is written, two commands at once |
| outcome, `internal/outcome` | none | level shift, changes, attribution | lags in active days, unreadable parts of the log |
| advice, `internal/advise` | none | findings, alerts, escalation, savings, ledger | advice that moves between lists, blocks of active days |
| workload, `internal/workload` | none | classify, route | threads without a price, capped moves |
| context curve, `internal/contextcurve` | none | growth runs, the turn of no return, savings | a rounded root, two sides built from different pieces |
| adapters, `internal/adapters/*` | none | read each tool's sessions | half-written lines, copies of conversations, estimates |
| pricing, `internal/pricing` | a table | price of a call, context window of a model | the names a model goes by |
| small helpers, `humanize`, `tokenize`, `lan`, `sqliteutil` | none | formatting, estimates, opening SQLite | none |
| command line, `cmd/llm-agent-spend-manager` | flags | wiring of all of the above | which lanes share a cap, which file, which window |
| deployment, `deploy`, `desktop` | none | systemd units, a web view | two lanes on one cap file |

How they interact:

- Two proxies run on one machine (`deploy/systemd`): the robots' lane has a cap,
  the interactive lane has cap 0. Both count against the same key in the same
  `cap.db`, so a human's calls use up the robots' cap and never wait for it.
- The proxy calls `Limiter.Allow` before a request is forwarded (amount 1, or
  0 when tokens are what is counted) and, in token mode, once more when the
  response body has ended, on a context of its own.
- The server and the commands load all adapters, aggregate, and evaluate; the
  server keeps the result in a cache that one background load at a time renews.
- A proxy that rejects a call says when the provider's window refills:
  `sessionreset` reads the sessions in the background and answers from its last
  reading meanwhile.

## 2. The modules

| subject | modules | composed by | run |
|---|---|---|---|
| cap counter | `SlidingWindow`, `CapLedger` (the promise), `CapCounter` | `MCBackends`, `MCCapCounter` | `counters`, `late_charge` |
| requests and charges | `Proxy`, over `CapLedger` | `MCProxy` | `proxy`, `proxy_walkaway` |
| one response, byte by byte | `UsageTap`, `RequestOrder` (the promise), `RequestCache` | `Exchange`, `MCExchange` | `response` |
| session window | `Ordering`, `SessionWindows`, `SessionReset` | `MCSessionReset` | `reset` |
| dashboard cache | `ServedSnapshot` (the promise), `ServerCache` | `MCServerCache` | `dashboard_cache` |
| reading the agents' stores | `Pricing`, `Transcripts`, `Rollups`, `Activity`, `Aggregation` | `Fleet`, `MCFleet` | `one_read` |
| quota | `Ordering`, `SessionWindows`, `ContextFill`, `Quota` | `Account`, `MCAccount` | `quota`, `calibration_strangers` |
| advice and outcomes | `ContextCurve`, `Workload`, `Outcome`, `BootFiles`, `Advice` | `Adviser`, `MCAdviser` | `advice`, `cutting_saves` |

The observation half has no state of its own: it is a function of what the
agents left on disk. Its modules are therefore operators, one per function of
the code, and `Fleet`, `Account` and `Adviser` are the machines they are asked
on: histories that grow a turn, a refusal, a torn line, a day of silence, a
crash at a time, and every report is held against what really happened.

The proofs (`CapCounterProofs`, `ProxyProofs`, `ExchangeProofs`,
`SessionResetProofs`, `ServerCacheProofs`, `AccountProofs`, `AdviserProofs`) are
described with the modules they are about. One module of lemmas comes before
them: `SequenceLemmas`, on the least and the largest of a set of numbers, on
sequences sorted, filtered and summed, on sets put in order, on what the folds,
`FlattenSeq`, `SetToSeq` and a recursive function compute step by step, and on
sequences without repetition. In the modules a proof needs no operator is recursive, and
what they filter, sum or sort they do with the operators of `Ordering`: the
provers know nothing of `SelectSeq` and `SortSeq`, so these are recursive
functions, a sort that says at which place each element comes, and one that
inserts the elements of a set where an order wants them.

An operator marked `Slip` is a mistake one could have made in the definition
after it; no behaviour uses it. `PROJECT.json` (`mutants`) pairs each property
with the slip it catches.

## 3. The cap counter

### What is modelled

`SlidingWindow` is `window.go`: `BucketIndex`, `Advance`, `Carry`, `Estimate`.
Times are integer milliseconds. The code computes the carried part in float64;
the model uses the exact rational and the same rounding (`int64(x + 0.5)`),
which agree as long as `previous * window` fits the 53 bits of a double.

`CapCounter` is `Limiter.Allow` over a backend chosen by the constant `Backend`.

| code | model |
|---|---|
| `MemoryCounter.Add`, all of it under the mutex | `MemoryAdd` |
| `SQLiteCounter.Add`: `now := c.now()` | `ReadClock` |
| ... its DELETE, a transaction of its own | `DropStale` |
| ... its upsert, a transaction of its own | `Upsert` (through `Write`) |
| `RedisCounter.Add`: clock, then the script | `ReadClock`, `Upsert` |
| `PEXPIRE` two windows out | `expires`, `Expire` |
| a statement fails, nothing applied | `FailBefore` |
| it applied and the answer is lost | `FailAfter` |
| `Limiter.Allow`'s decision | `Decide` in `CapLedger` |
| a process dies and comes back | `Restart` |

`Capped` callers have a limit, the others have 0, as the two lanes do.
`ledger`, `admitted` and `lapsed` are history: what was charged, what capped
callers were allowed, and whether the promise still stands.

### What it promises

`CapLedger` keeps, for every key and every bucket of absolute time, the total
charged, forgets nothing, and answers a call atomically with the estimate over
the two entries it needs. `KeepsPromise` says the counter implements it: the
rows, the sweep, the rollover and the expiry are invisible in the answers.

The promise lapses (`lapsed`) in two cases only: a charge reaches the counter
after its bucket has closed (its caller read the clock before the boundary and
wrote after it), or a tally kept in memory dies with its process. Nothing is
said of the answers from then on, except `NeverOvercounts`, which is proved.

### Runs

| run | instance | shows |
|---|---|---|
| `counters` | each of the three backends, 2 capped callers, 1 key, 3 calls, window 2, clock to 5, restarts | `RowsMatchLedger`, `CapPerBucket`, `BoundaryBurst`, `KeepsPromise` with the statements of two callers interleaved, expiry, lost replies and late charges |
| `late_charge` | SQLite, 2 capped callers, 4 calls, clock to 3 | the counterexample below |

The bounds: three calls are what a boundary effect takes (fill a bucket, cross,
cross again); a clock of two and a half windows makes distances of 0, 1 and 2
between a row and a caller all happen, and lets a Redis key expire. A cap of
2 with amounts 1 and 2 puts calls exactly at the cap and one past it. One key is
enough: no step but the sweep touches another key's row, and the proofs have any
number.

**Finding.** `late_charge`: the clock is read before the statement that uses
it. When two calls straddle a boundary and reach the upsert in the other order,
the later one finds a distance of -1, which falls into the CASE's ELSE arm: the
row goes back to the closed bucket holding that one charge, and what the new
bucket had counted is gone. The comment on `upsertWindowSQL` says that two
concurrent requests can never overshoot the cap. The window for it is the time
between `c.now()` and the upsert (a busy wait on SQLite's lock can make it long),
once per bucket.

### Proofs

`CapCounterProofs` proves, for every window, cap, backend, and number of
callers, keys and calls: `TypeCorrect`, `RowsAreEnough`, `ErrsToOneSide`,
`CapHolds`, `BurstHolds` and the refinement `CounterImplementsLedger`. The only
assumptions are the named ones on the constants (the window is positive, the
limit is positive, amounts are naturals).

The inductive invariant `Inv` adds to the checked properties three facts:
nothing has been charged ahead of the clock (`NothingAhead`), so a bucket just
opened is empty; what was admitted was charged (`AdmittedWasCharged`), so a
ledger entry within the cap bounds what was admitted; and a key is not collected
before two windows have passed since its row's bucket (`ExpiresLate`), so
`Expire` only removes rows that say nothing any more. All steps that charge go
through one predicate (`Lands`): a base of rows that matches the ledger, one of
them advanced; its lemmas are proved once and used for `MemoryAdd`, `Upsert` and
`FailAfter`. `DropStale` and `Expire` replace rows by `NoRow` when both buckets
are behind, which changes no `Recorded` value that matters.

### Not modelled

The wall clock stepping back (a late charge produces the same reset), two proxies
with different `--window`s on one file (the row does not say how long its buckets
are), float64 rounding beyond 2^53, int64 overflow of a tally (2^63 tokens), and
the text of errors.

## 4. The proxy

### What is modelled

`Proxy` is a request from `ServeHTTP` to the return of its handler. It EXTENDS
`CapLedger`: the counter it talks to is the one section 3 shows to be
implemented, plus its failures. Two lanes (the callers with a cap and those
without) are two processes over one file, as `deploy/systemd` starts them.

| code | model |
|---|---|
| `ServeHTTP`, up to `Limiter.Allow` | `Arrive`; `Upfront` is `NoUpfrontAmount` or the `AmountFunc` |
| `Allow` answers: recorded and forwarded, or 429 | `Check` |
| `Allow` errs: forwarded all the same | `CheckFails` |
| the upstream's response, `tapUsage` | `UpstreamAnswers`, `Generate`, `Report`, `BodyEnds`, `BodyBreaks` |
| `errorHandler` | `UpstreamFails` |
| `usageTap.Read` / `Close`, each calling `settle` | pc `"ended"` and `"closing"`; `NothingDue`, `SettleUsage`, `SettleLost` |
| `settleUsage` on a context of its own with `usageChargeTimeout` | `SettleUsage`, `SettleLost` not asking `gone` |
| the inbound context is done | `Leave`; then `Abandon` is what it does to the outbound request |
| a lane's process dies | `Restart` |

Usage blocks are cumulative, so `Report` raises what was read to what was
billed.

A charge is not dated when it lands: `SQLiteCounter.Add` reads the clock
(`sqlitecounter.go:75`), then waits for the file. `Dates(c)` are the times it may
carry, any from when the handler began to ask (`since`, set by `Arrive` and by
`Stop`) to now, and `Charge` of `CapLedger` puts it in the bucket of that time: on
time, and answered by what the ledger has (`ChargeOnTime`), or after that bucket has
closed (`ChargeLate`), which is the late charge of section 3. From then on the
promise has lapsed, and an answer may be anything from the amount itself to the
right total. So the race that `late_charge` exhibits is in this model too.

`tally` is history: what calls that the cap let through added to the counter, in the
bucket each charge is dated in.

### Runs

| run | instance | shows |
|---|---|---|
| `proxy` | one key, a cap of 1, up to two tokens a call, two buckets, both units of the cap; three scenes, below | `ChargedOnce`; `CountsWhatWasRead`: while the counter works and no lane dies, the ledger has, once everything is settled, exactly what the taps read; `OvershootBound`: until a charge lands late, what calls that passed the check add to one bucket is at most the cap and what every capped handler can have in flight; `GoneIsFreed` under fairness |
| `proxy_walkaway` | the same | the counterexample below |

The unit and the scene are chosen in the initial state and kept:

| scene | callers | calls | counter, lanes | clock |
|---|---|---|---|---|
| `"works"` | a robot and a client of the interactive lane | 2 | it answers; none dies | crosses a boundary |
| `"fails"` | the same, a token each | 2 | it fails, hangs and recovers; both may die | one bucket |
| `"race"` | two robots whose clients stay | 3 | it answers; none dies | crosses a boundary |

In the race the bound is 5 (a cap of 1 and two tokens for each of two handlers), and
calls go up to it: one adds a token, then two pass the check at an estimate of 1 and
settle two each. A check that lets one token more through lets the first add two and
gets to 6, so the run tells the two apart. A bound that does not except `lapsed` fails:
after a late charge the counter has forgotten what it was told. A race with a counter
that fails is left to the proof.

`CountsWhatWasRead` is a conservation law over the whole history: `spent` adds up
what the tap of each request read when its handler returns, and the buckets of the
ledger must come to the same, with calls settled late, in another bucket, after the
client has left or the upstream has cut off. It is claimed only of the scene
in which the counter answers and no process dies with a request in flight: a charge
that meets a counter that fails or hangs is given up and logged (`SettleLost`), and
what a handler had yet to settle dies with its process (`Restart`), which nothing in
the code recovers.

The ledger outlives a `Restart`, as the SQLite file does. A tally in memory does not;
that backend is for a throwaway proxy (`counter.go:18`), and its loss is in
`CapCounter`, not here.

`GoneIsFreed` assumes that a handler which can take a step of its own takes it
(`Decided`, `Settle`, `Return`: these are goroutines of the proxy, and both waits
on the counter are bounded by a context) and that a cancelled context ends the
outbound request (`Abandon`: `net/http` promises it). It assumes nothing of the
upstream or of the counter, which may hang for ever.

**Finding.** `proxy_walkaway`: a stream that is left before its last usage block
is charged what had been read, less than the provider bills, or nothing. The
comment on `usageTap.Close` says it still counts.

### Proofs

`ProxyProofs`, for any number of handlers, keys and calls, both ways of counting,
and charges that land on time or late: `TypeCorrect`, `ChargesOnce` and
`OvershootHolds`. The last needs three strengthenings: what was tallied was charged
(`TallyCharged`), nothing is tallied ahead of the clock (`TallyAhead`), and, until
the promise lapses, `Reserve`: in the bucket that is open, the tally and the tokens
of the calls let through and not yet settled (`Waiting`) fit under the bound.
`Reserve` is why the bound holds when a bucket turns over with calls in flight: they
may all settle in the new bucket, where the tally is 0. A call that passes finds an
estimate within the cap, so that the bucket's tally is, and the set of those waiting
is at most all capped handlers; a call that settles leaves the set and pays for it.
A charge dated in a closed bucket ends it, and nothing is claimed from there on.

## 5. One response, byte by byte

### What is modelled

`Exchange` follows one forwarded request at a time through what `Proxy` leaves
out: the record it leaves in the request cache, the usage scanner that rides on
the response, and the diagnosis of a break.

| code | model |
|---|---|
| `recordRequest` | `Arrive` |
| `tapUsage` | `Answers` |
| `usageTap.Read`, `usageScanner.Write`, `appendToLine`, `endLine`, `apply` | `Reads` of any number of bytes; `Write`, `AppendToLine`, `EndLine`, `Apply` in `UsageTap` |
| `Close`, `settle` | `BodyEnds`, `BodyBreaks`, `Settles` |
| `settleUsage` and what it logs, `billable` | `Said`, `billable` |
| `newRequestDiag`, `context.AfterFunc`, `markClientGone`, `defer stop()` | `marker`, `MarkClientGone`, `Stop` |
| `errorHandler`, the recover in `forward` | `ForwardFails`, `Classified`, `LookAtContext` |
| `fields`, `firstCut` | `LogFields`, `Dated`, `FirstCut` |
| `lru`: `Put`, `Get`, `Delete`, `Clear` and their list surgery | `RequestCache`, node by node; `UseCache` for other goroutines |

A body is lines of one letter per byte, so a piece may end anywhere, inside a
line too. JSON is what a line reports and nothing else.

### Run

| run | instance | shows |
|---|---|---|
| `response` | four exchanges one after the other, lines that just fit the buffer (3) and lines one byte too long, three keys in a cache of two; two scenes, below | `CutsDoNotMatter`, `ShortOnlyIfDropped`, `BlameHasGrounds`, `EveryCutIsLogged`; `KeepsOrder`: the list is whole and implements `RequestOrder` |

In one scene anything may happen to a response, and all requests have one key. In the
other requests have any key and other goroutines use the cache at any time, while
responses pass in one piece. The two share nothing but `recordRequest`, so what they
would do together is what each does.

`CutsDoNotMatter` says that the charge is a function of what passed.
`ShortOnlyIfDropped` compares it with what the provider billed: a body that passed
whole is charged all of it unless the scanner dropped a line, never more, and if
what was dropped left a billable call with nothing, the log says so. Every line of a
stream but the first may be the one that is too long, so bodies do end with a figure
that is short and not zero. `BlameHasGrounds` is what holds of the verdict in
every order: the upstream is named only if the client was there when the forward
broke, the client only if it had left by the time the line was put together.

Three exchanges are what an eviction takes, and one more a second; three keys make a
node the head, in the middle, and the tail.

A break leaves its line (`EveryCutIsLogged`); that it never leaves two is not stated.
The hit and miss counters of the cache are atomics outside its lock and are not
modelled, nor are the response's status and byte counts in the log line. `Return`
drops the response and its tap with the handler; what was charged is judged until
then.

### Proofs

`ExchangeProofs` proves every property of the run for any bound on a line, any
keys and infos, any room in the cache and any number of exchanges. It assumes
that the bound is positive (`TapAssumption`; in the code it is 2 MB), that
`LASM_LRU_CAPACITY` is an integer, and that no key is the null pointer
(`CacheAssumption`).

*Blame* (`BlameStands`, `BreaksAreLogged`). The inductive invariant says that
whatever has the client gone has it from a client that left (`Leaving`), and that
the line is put together once, after the break, from a look at the context that
came after it (`Verdict`). The second is what makes the callback's delay harmless:
if the client was gone when the forward broke, the look finds the context done,
whether or not the callback has run. It is not harmless the other way round: a client
that leaves after the upstream broke and before the look is named for the break
(section 13), and `BlameStands` does not say otherwise.

*The charge* (`CutsAreHarmless`, `ShortIsDropped`). The argument goes through
the scanner:

1. `Write` of a piece is a write of its first bytes, then of its last one
   (`AppendTwice`, `WriteIs`): the code searches for newlines within a piece, and
   where pieces end makes no difference.
2. A response is laid out line after line: the bytes of line `i` start after
   those of the lines before it and their newlines (`Laid`, `TextIs`).
3. At every byte the scanner has what the bytes before say (`Tracks`): `usage` is
   what the last whole line that fits and reports a side said, `line` is the part
   of the line in progress unless it is over the bound, and `dropped` is whether
   more of some line has passed than the bound. A byte and a newline both keep it
   (`ByteTracks`, `NewlineTracks`), so every piece does (`WriteFollows`), and
   `Flush` gives the charge (`FlushIs`).

The invariant `Reading` says so of the exchange's scanner until it is settled.
`ShortIsDropped` adds that the provider's figures never fall (`Rising`), which holds
of the responses in `Bodies` (`BodiesAre`): with it the last figure is the largest. What
the log says of a settlement is kept with it (`SaidRight`).

*The list* (`OrderKept`). The cache is the sequence of its keys, most recent
first: a node's pointers are its neighbours in the sequence, `head` and `tail` are
its ends, and its members are the map's keys (`Holds`). Unlinking a node removes
it from the sequence, `addToHead` puts it in front, `evictTail` drops the last
(`MoveToHeadHolds` and the lemmas around it), and a walk along either pointer
reads the sequence (`WalkIs`). That every operation keeps `Holds` and does to the
sequence what `RequestOrder` does is the refinement.

## 6. The session window

### What is modelled

`SessionWindows` is `quota/window.go`: windows that open at the first turn while
none is open. `SessionReset` is `Resolver` with the scan behind it.

| code | model |
|---|---|
| `Note`: the clock, then the lock | `Ask`, `Answer` |
| `currentAt` starts a background refresh | `Answer` with `Starts`, `StartScan` |
| `load`: each adapter reads file after file | `ReadFile`; `SkipFile` for a file it cannot read to its end |
| `read`: the time is taken when the load has ended | `Loaded`, `LoadFails` |
| the new state, then `clearBusy` | `Publish`, `ClearBusy` |
| `State.at`, `needsRead` | `At`, `NeedsRead` |

`opened` is the environment: when the provider opened its windows. A file is
read atomically; that is generous to the code, and the counterexamples do not
need more.

### Runs

| run | instance | shows |
|---|---|---|
| `reset` | 1 lookup that keeps asking, 2 goroutines, 2 files, 2 turns, windows of 2, clock to 3 | `OneScan`; `AnswersAreRight`: a live answer is off by at most the length of its scan, an idle one is right; `AskingLeadsToAReading` under fairness |

Two files are what it takes for a scan to miss a turn and see a later one; a
clock one past a window's length reaches its end and the turn after it. Goroutines
are interchangeable and so are files, but a liveness property admits no symmetry
set: `MCSessionReset` picks the first free goroutine and the first file by hand.
Fairness:
a lookup that has asked takes the lock (`Answer`), and a scan, which waits for
nobody, gets to its end (`Step`).

A scan that skipped a file is published like any other (section 13), so
`AnswersAreRight` is said of scans that read every file.

### Proofs

`SessionResetProofs`, for any number of lookups, goroutines, files and turns, any
clock and any length of a window: `TypeCorrect`, `SingleFlight` and `ToldTruly`,
that is, both safety properties of the run.

`SingleFlight`: the busy flag is up as long as a goroutine is anywhere but idle,
and so a lookup that finds it down finds them all idle (`Flight`).

`ToldTruly` rests on what `SessionWindows` computes. `AscendingSorts` shows
that the stamps are sorted whatever order they come in, and `WindowsAreRebuilt`,
by induction over the stamps, that the windows made of them open at one of them
each, do not overlap, and hold every stamp. Windows that open so are determined by
the turns, and those rebuilt from some of the turns are the provider's as far as
no turn is missing (`SameOpenings`). The inductive invariant has three parts
besides the types: the provider's windows open with its turns (`Provider`); a
scan has every turn that was there when it began, but for the files it has yet to
read or has skipped (`Readings`, with `SeenFrom`); and what was said is right of
the time it was found (`Told`). Turns sent after the scan began may have been seen
or not: that is where "at most the length of its scan" comes from (`ReadFinds`).

## 7. The dashboard cache

### What is modelled

`ServedSnapshot` is the promise: `held` is what a request is told; it is replaced
by a version that was on disk since the last load landed, or by an error if no
snapshot is held. `ServerCache` is `cachedLoad` and the goroutine it starts.

| code | model |
|---|---|
| `Warm` in `Serve` | `Warm` |
| `cachedLoad` under its first lock | `Enter`, with `fresh`, `startLoadLocked` |
| the select: `done`, `timer.C`, `ctx.Done()` | `Wake`, `TimeUp`, `Leave` |
| the load, without the lock | `ReadDisk`, `ReadFails` |
| what it does under the lock | `Land`, with `Holds` |
| the deferred `Unlock`, then the deferred `close(done)` | `Close`, a step after `Land` |

A load is read at one instant (`ReadDisk`), anywhere between its start and its
landing. `floor` is history.

### Runs

`dashboard_cache`, with 2 requests, 2 goroutines, 2 writes, a TTL of 2 and a clock to
4, checks `OneLoad`, `NobodySleepsOn`, that the cache implements the promise (`KeepsPromise`), and
`AttemptsGoOn`. The clock is twice the TTL: a snapshot gets stale, the load
behind it fails, and another has to be attempted. Fairness: the dashboard polls
(`Enter`; without requests nothing is renewed, and the code does not say it is),
waiters wake, a load comes to its end well or badly (`Step`). A load that hangs
for ever would block every later one; that it does not is an assumption on the
file systems and databases it reads.

### Proofs

`ServerCacheProofs`: `TypeCorrect` (something is held from the first load on), `SingleFlight`, `NoLostWakeUp`, and the
refinement `CacheImplementsPromise`. The inductive invariant adds: the load that
requests wait on is the one that is running (`LoadingRuns`); what a load has read
is not older than the floor (`ReadSinceFloor`, which needs single flight: with
two loads the one that read first could land last); whoever waits unwoken waits
for a load that is still running while nothing is held, or has landed and will
close its channel (`WaitsForTheFirst`).

## 8. Reading the agents' stores

### What is modelled

`Transcripts` and `Activity` are the adapters, `Aggregation` is `collect.go`,
`Rollups` is `aggregate.go`, `Pricing` the price table. `Fleet` is the machine they
read: four agents that write to their stores, in the shapes the adapters were
written for. Its actions are external; the code is what `Records` and `Limits`
compute from the stores, after every one of them.

| code | model |
|---|---|
| `claudecode`: `Collect`, `collectFromFile`, `limits.go` | `Collect`, `ResolveReset` |
| `openclaw`: transcripts, canonical sessions, fallback and cron records | `CollectUsage`, `OwnsTurn`, `DedupeRepeatedTurns`, `CollectCronUsage` |
| `cursor`, `antigravity` | `CursorEntries`, `AntigravityEntries` |
| `CollectSnapshot`, `DedupeAgainst` | `CollectRecords`, `DedupeAgainst` |
| `ByAgent`, `ByModel`, `ByWorkspace`, `ByAgentDay`, `FilterWindow` | the same names |

Prices are in cents per million tokens and costs are integers, exact; the code
uses float64. `calls` is history: who really made which call.

### Run

`one_read`: three more writes on an empty machine and on one that already has a
conversation of every agent. `CountedOnce`: a call is counted once if it has an
event id or is in one store, and not before a readable line has it;
`CallsKeepTheirOwner`; `CopiesAreFree`: a copied conversation or a side record
changes no total; `ResetsAsAnnounced`: a refusal's time of day becomes the instant
the provider announced, around midnight too; `WindowsAgree`: the day rows and the
window of today are two ways to one sum, and Go's Sunday is not the report's
Monday; `EstimatesBracket`. Three writes after a past are what it takes to make a
call, copy it, and tear a line of the copy. Days have four hours and weeks two
days: every hour is next to a midnight, every day next to a Monday.

`EstimatesBracket` excepts a factor that the integer division of
`deriveTokensPerCodeHash` rounds to zero: such a conversation is worth nothing.

## 9. The quota

### What is modelled

`Quota` is `internal/quota`, an operator a function; windows come from
`SessionWindows`, contexts from `ContextFill`. Measures keep the low end, the
point and the high end that the code keeps, and shares are fractions. `Account`
is the history: an account whose window opens with its first turn, two agents
that draw on it, agents that do not, refusals once it is dry, retries, and time.

| code | model |
|---|---|
| `Calibrate`, `observe`, `firstOfEachWall`, `weighModels` | `Calibrate`, `Observe`, `FirstOfEachWall`, `WeighModels` |
| `Plan.Cycles`, `billingMonth` | `CyclesOf`, `BillingMonth` |
| `BurnRate`, `Project` | `BurnRate`, `Remaining` and the forecast |
| `levers` | `Levers` |
| `contextWindowsOf`, `internal/contextfill` | `ContextWindowsOf` |
| `cmdQuota`'s tables, `noFillReason` | `WriteQuota`, `NoFillReason`, `FleetRow` |

### Runs

`quota`: four more steps on an empty history and on one with a window drained by
each of two models, under three settings. `CalibrationIsSound`: as long as only
the account's agents ran and nobody went on trying, the observations are the
windows that were drained, at the consumption and the reset they had, and a
heavier model is one whose windows died on less. `PlansForTheWorst`: a cycle said
to hold would hold against the smallest ceiling, and one more turn never makes
the outlook better. `CyclesAreInFlight`, `NoHopefulZero` (a number is shown only
where something was read), `EveryThreadStands` (threads of one session are not
mixed), `SavingsAreSeen`. Two walls are the smallest calibration and the past
provides both; four steps are a turn, a wall, a retry and the window after. The
code's constants (five hours, two minutes, thirty) are small numbers in the same
order. Months have two or three days, so that renewal day 29 has to be clipped
and day 2 falls on either side of now.

**Finding.** `calibration_strangers`: `Analyze` hands all records to `Calibrate`
(`report.go:76`), those of Cursor and Antigravity included, while the cycles are
filtered by `Covers`. A turn on another account moves the start of the window, or
is counted into the ceiling of this one.

A refusal that is repeated later than `sameWallWithin` counts the same window
once more; `CalibrationIsSound` excepts it (`Retried`).

### Proofs

`AccountProofs` proves `InFlightAlways` (`CyclesAreInFlight`), `WorstAlways`
(`PlansForTheWorst`) and `SavingsAlways` (`SavingsAreSeen`), for any kinds of turns, settings, histories from before,
calendar, length of a window, a day and a week, and any number of steps. What is
assumed of the constants:

| assumption | says | because |
|---|---|---|
| `KindsAssumption` | a turn has its fields, and natural amounts; an estimate is never of the account | `aggregate.Record`; only `cursor` and `antigravity` estimate, and `Covers` leaves them out |
| `BacklogAssumption` | a past was written in order, and its last window has ended | the account's window at the start of a behaviour is none |
| `CalendarAssumption` | every month has the day a plan renews on; the calendar lasts for the behaviour and begins before its past ends; a plan's price is an integer | settings with a renewal day past 28 are refused (`config.go:76`), and no month has fewer days |
| `QuotaAssumption`, `DayAssumption`, `WeekAssumption`, `LengthAssumption` | the code's constants are positive | they are, where they are declared |

*The cycles* (`InFlight`). A cycle has begun and not ended, the month's has the turns
since the last renewal, and the session cycle is there exactly while the account's
window is, with its start and what was used in it. The last is about two histories
that know nothing of each other: the window the environment opened at one of its
turns, and the ones the code makes of the turns' times at every report. The
inductive invariant `AccountInv` keeps them together: the last window made of the
turns so far is the one open or has ended as that has (`WindowKept`), and what the
environment counted in it is the sum over the turns in it (`UsedKept`). It needs
that turns are in order and in the past (`WrittenBefore`, which is why sorting the
times does nothing, `AscendingKeeps`), and that the present has a month
(`InCalendar`). Making windows of one more turn is adding that turn to the windows
of the rest (`WindowsAppend`, `LastAfterTurn`). A month is found as the last whose
first day has come (`MonthIs`), and the cycle of a plan begins at the last renewal
that has (`BillingMonthIs`: renewals ascend, so the one before the next is the last
past); the week by division (`WeekIs`).

*The outlook* (`WorstOutlook`). A cycle said to hold holds for the smallest ceiling
the calibration left possible at the rate the last turns were spent at, and one
more turn, of whatever kind, never turns "does not hold" into "holds". The first
is the forecast's arithmetic (`WorstCase`: that the time left at that rate is no
less than the time to the reset is a comparison of two products). The second (`NoBetter`) needs that a turn only adds: what a filter keeps of a sequence
with one more element is what it kept, or that and the element (`KeptGrows`), so
what is charged and what was burned do not fall (`UsedGrows`, `NoFewerUsed`), in any
cycle; and that the turn changes nothing else the outlook reads (`OneMore`).

*The saving* (`SavingsOver`). It holds of any turns, so the invariant gives it no
more than that the records are turns. A row adds up naturals (`GrandType`, by the
recursion the sum is), and there are finitely many (`RowsAre`), so the ranking has
all of them (`RankedIs`) and the worst is one of those with turns enough
(`WorstIs`). The median is no less than one of the values (`MedianIs`), which is
another workspace's because the worst has twice the median. What is left is
`SavingIs`: the quotients drop less than a token a turn.

Times are whole numbers and sorting is stable here. `sort.Slice`, which the code
uses on refusals (`calibrate.go`), is not: two refusals of one instant may come in
either order. They are one wall either way.

`CalibrationIsSound`, `NoHopefulZero` and `EveryThreadStands` are model-checked only.

## 10. Advice and outcomes

### What is modelled

`Advice` is `internal/advise` on top of `Workload`, `ContextCurve`, `Outcome` and
`BootFiles`. `Adviser` is the commands and the dashboard's handlers over a history
of conversations, silent days, commits, log lines and growing files.

| code | model |
|---|---|
| `cmdAdvise`: reads, analyses, loads the snapshot and weighs the files | `AdviseReads` |
| ... then `SaveSnapshot`, not atomic | `AdviseWrites`; `AdviseDies` leaves a torn file |
| `handleAdvice`, which never saves | `HandleAdvice` |
| `cmdOutcome`, `BuildOutcomeLedger` | `HandleOutcome`, `BuildOutcomeLedger` |
| `splitEscalated`, `recentWindows`, `replayFindings` | `SplitEscalated`, `RecentWindows`, `ReplayFindings` |
| `noReturnTurn`, `counterfactualContextUSD` | `NoReturnTurn` and the curve of `AnalyzeCurve` |
| `counterfactualOf` | `CounterfactualOf` |
| `detectLevelShift`, `windowFor`, `readLogChanges` | `DetectLevelShift`, `WindowFor`, the reading of the log |

The slope of a context is a quotient; it is kept in parts (`GrowthUnit`, a common
multiple of the divisors that occur). `NoReturnTurn` is the code's closed form, the
ceiling of `(1 + sqrt(1 + 4 * target)) / 2` with the floor of two: the target is a
quotient of two whole numbers, its root is rounded up (`CeilSqrt`), and so is half of
that and one; rounding up twice is rounding up once, for half of one and the root is whole
only where the root is. The code has it in float64, where a
root that should be whole may come out one bit above it.

### Runs

`advice` starts from scenes: conversations of ten kinds (long, brief, big, one
shot, scheduled, unpriced, of an editor, without a session) on an empty history
and after one that builds its cache; a metric with a past and changes in
repositories and a log that may be torn; boot files weighed by two commands at
once; and a setting that is refused. A scene says how often each kind of event
happens: two conversations, two silences and a question are what a recurrence
over two blocks of one day takes (longer blocks rest on the proof); two resizes and three commands are what it
takes to overlap, tear and find a snapshot.

`EscalatedIsRecurrent`, `EveryAdviceCounts` (nothing that fired is lost or doubled
between advise's report and its feed, or between outcome's and its ledger: `cmdOutcome`
and `handleOutcome` attach no boot files, so their advice, E-08, is fed and never
graded), `WorkloadPays` (classes add up to what was
spent; a move never costs more), `CutPays` (the turn the closed form gives is the
first at which what was dragged, added up turn by turn, is no less than a restart;
the comment asks for more, section 13),
`OutcomesAreAccounted` (a clean step is found with its causes, or part of the log is
said to be unreadable), `SnapshotIsHistory` (a delta is to a size that some command found).

### Proofs

`AdviserProofs` proves `SnapshotIsHistory` (`SnapshotsAreHistory`),
`EveryAdviceCounts` (`AdviceAlways`), `EscalatedIsRecurrent` (`EscalationsRecur`),
`CutPays` (`CutsPay`) and `OutcomesAreAccounted` (`OutcomesAlways`) for any records,
repositories, log, watched files, sizes, settings and number of advise commands.
`SceneAssumption` says where a behaviour may start and what its events may be: a
time, conversations whose turns have a count in each bucket, finitely many
repositories and a log whose entries are dated, and a size or `Unreadable` for every
file that is watched. `DayAssumption`: a day has
a length; `BlockAssumption`: a recurrence is over one or more blocks of one or
more days; `RunAssumption`: a token has parts, and a run worth a slope has two turns
or more (a slope is a quotient by the turns less one); `RiskAssumption`: so many
risks are listed; `SideAssumption`: a side of a shift has two days or more, for of
two single days nothing says how far they disperse, and the lag is no longer than
a side (the code has 4 and 2).

The snapshot:

The delta is between what the disk has now and one entry of the snapshot, and an
entry may have been carried from command to command, so the property is not
inductive. The invariant says what the snapshot is (`Snapshot`: what the command
that wrote last had found, unless it is torn, and missing only if none wrote
since), that every size saved or about to be saved was found by then (`Saved`,
`Unsaved`), and, as long as no two commands were at work at once, `InOrder`: each
entry of the last command was found first by some command (`Since`: every one
after it found the same, the one before it did not, all before it are older), and
a command that has yet to write carries an entry on as it is or found another size
later than anything saved (`GoesOn`). That is where overlapping commands break it:
the later writer has compared with a snapshot that is not the last. It rests on
`NextIs`, what one check finds of a file; the other actions leave the commands and
the snapshot alone (`KeptStays`).

The advice: the state only has to say of what a report was made (`Reported`:
records are dated turns; a report, printed or about to be, is `Analyze` of some of
them, with or without boot files, and a ledger is built from its report and
records). What matters is then a fact about those functions:

- `FindingsAre`: a rule fires at most once, under its own id and the name of a
  metric that has one series or none. So a set of findings can be sorted
  (`SortFindings`) with nothing lost or doubled.
- `ReplayIs`: each of them names a series of the ledger or has none. The rule on
  the dominant bucket takes its name from that bucket: `TopIs`, over `CostsAre`
  and `SumsAre`, says that the sums are numbers and the first of the ranking one of
  the four.
- `ReportIs`: the findings of a report are those that fired and are no gap, with
  E-08 when a boot file is too large, and its escalations are the gaps, in turn.
- `AlertsAre`: an alert is about one of those, and each has one; the ids of any two
  differ, so the fingerprints do.
- `GradesAre`: an advice has one series, so it is in the entry of that series only,
  or it has none and is listed as unmeasured.
- `WindowsAre`: the n-th of `RecentWindows`, cut by position from the sorted days,
  holds the records of the days that have a given number of active days after
  them, which is how `EscalatedIsRecurrent` counts a block. `GapIs` puts the
  comparison of the metrics next to it.
- `CurveIs`: what a curve says of the turn to cut at, for any turns. `NoReturnTurn`
  is the closed form; `CeilDivIs` and `CeilSqrtIs` say what its roundings give,
  `SolutionIs` that together they give the first `t`, from 2 on, for which `t * (t - 1)`
  times the drag covers the target (`NoReturnIs`), and `DraggedIs` that the
  left side is the sum of what the turns before it dragged along, which is what the
  property adds up turn by turn. `RunsAre` and `ShapeIs` give it a baseline and a
  slope that are no less than nothing (a run peaks no lower than it starts), the
  guards of `NoCutReason` a slope and a price above it. `PastCut`: turns are counted
  past the cut only if a run, and so the stream, is longer. `SessionsAre` and
  `StreamsAre` then say that the streams of a report are turns of its records.

The ledger: `Journal` adds that commits and log stay dated and that a ledger, as
long as it is the last output, was made of the changes as they are. Then:

- `StepIsFarthest`: on a series of two levels the walk of the deviations is a
  multiple of the difference of the levels (`WalkIs`), farthest from zero at the step
  and nowhere else, so the series is split there, on either side of which nothing
  disperses (`SidesAre`): any difference is a shift, and without a step there is
  none (`NoShiftIs`).
- `CausesAre`: the window that `WindowFor` cuts by position in the series holds the
  changes since which no more than `LagDays` of its days have passed, which is how
  the property counts. It needs the days in order and each there once, and that is
  what `DailySeriesAre` says.
- `LogCounts`: a line of the log is a change that is kept, no change, or counted as
  unreadable, and a line that ends the reading has been counted. `ChangesAre`: the
  merge with the commits and the two sorts lose none.

**Finding.** `cutting_saves`: the observed side of `SavingsUSD` has the cache writes
of every turn's growth, the counterfactual only those of the baseline. A stream
that ended before its turn of no return, where nothing would have been cut, is
said to have wasted its own writes.

## 11. What is proved, and what is only checked

Proved with TLAPS for all values of the constants: every safety property, every
action property and every refinement of the cap counter, the proxy (but for
`CountsWhatWasRead`), the forwarded exchange, the session window and the dashboard
cache, that is, of all the parts that have a state of their own and concurrent callers; which cycles the quota
report has, what it says of how long they last and what a lever saves; what is
said of the boot files against their snapshot; and what becomes of an advice, in
the report, the feed and the ledger, when it is escalated, where a stream is said
to be worth cutting, and on which day and for which changes a series is said to
have moved. The type invariants of the cap counter, the proxy and
the dashboard cache and `NeverOvercounts` are proved and not run; everything else a
theorem states is also checked by a run.

Model-checked only:

- Liveness (`GoneIsFreed`, `AskingLeadsToAReading`, `AttemptsGoOn`), which the
  provers do not do under fairness.
- `CountsWhatWasRead`, which is stated with a history of its own in `MCProxy`.
- Section 8; `CalibrationIsSound`, `NoHopefulZero` and `EveryThreadStands` of
  section 9; `WorkloadPays` of section 10. Their properties are about reports computed from a history by many operators on
  sequences, sets and functions. The library's induction on data cannot be used
  with the installed provers; `SequenceLemmas` does it by sets instead
  (`EverySequence`: a set that holds the empty sequence and every sequence one
  longer than a member holds them all; `Agree`, for a recursive function), which
  is how the proofs of the quota and of the advice get at filters, sums, sorts and
  groups. The others would each need such facts about operators of their own:
  joins of records with `SelectSeq` and functions merged with `@@`, of which the
  provers know nothing, and quotients of sums.

## 12. Not modelled

- Text: layout of tables, wording of advice and errors, JSON and protobuf as
  formats. A line is what it reports, or torn.
- The helpers (`humanize`, `tokenize`, `lan`, `sqliteutil`), flags and the wiring
  of commands, the access token, the static pages and the desktop's
  web view: no state that anything else depends on.
- Keys taken from a header and amounts by size (`AgentHeaderKey`,
  `ContextBytesAmount`): the constants of `Proxy` stand for any of them.
- Float64 arithmetic: costs and slopes are exact, and so are the shares of the quota
  and of the advice. The values of an outcome series are not: a day's share is floored
  to thousandths and a cost per turn to the unit (`DayValue`), where the code keeps
  floats.
- Many clients of one `Exchange` at a time: requests share the counter (section
  4) and the cache (`UseCache`), nothing else.

## 13. What the code does that its comments do not say

Seen while modelling, and no run spent on them:

- `proxy.go:215` says that counter errors are only reachable with Redis; the
  SQLite counter returns them too and they take the same path (`CheckFails`).
- `proxy.go:154` says each forwarded request is recorded; one that failed open
  returns before `recordRequest`.
- A rejected call has been counted already (`Allow` increments, then decides), so
  in request mode clients that go on retrying keep themselves out.
- A response with a `Content-Encoding` is not tapped and never charged.
- `resolver.go:24` calls the previous answer exact while its window is open; it
  is off by up to the length of its scan (`LiveIsNearlyExact`).
- `resolver.go:96` speaks of an explicit unknown for a half-read machine;
  `claudecode.go:135` skips a transcript it cannot read and returns no error, so
  a state read from the rest is published like any other.
- `server.go:381` says `SnapshotAt` is when the disk was read; `server.go:348`
  stamps it when the load has ended, seconds later.
- `cmdAdvise` fails as a whole on a torn snapshot until somebody deletes it, while
  the dashboard leaves the boot files out without a word.
- A snapshot forgets the paths that are not watched any more.
- `usage.go:63` says of a dropped line that it is reported instead of swallowed.
  `settleUsage` prints the flag only of a billable call that reported nothing at all: a
  stream of which one usage block was read, and whose last one was longer than 2 MB, is
  charged the smaller figure and logged like any other. `ShortOnlyIfDropped` claims what
  is left: short only if the scanner dropped a line, and said so if nothing was read.
- `diag.go:133` says that if the error arrived with the client still connected, the cut
  came from the upstream, and `diag.go:99` that the late stamp is never wrong. The
  client is looked for when the line is put together: one that leaves between the break
  and that look is logged as `first_cut=client`. `diag.go:139` grants that a gap of
  microseconds deserves less confidence. `BlameHasGrounds` claims no more than that
  whoever is named for leaving had left.
- `contextcurve.go:185` says the turn of no return is the first at which dragging
  "passes" a restart, with `>` at lines 189 and 203 and in section 7.3 of
  `docs/automejora.md`, and `contextcurve_test.go:77` calls equality an error. The
  ceiling adds nothing to a root that is whole: a stream of Gemini that grows from 3
  tokens by 10 a turn has a target of 6, in float64 too, and is told turn 3, where
  both have cost the same. `CutPays` has `>=`.
- The ratio of short sessions (E-03) counts conversations of Cursor and
  Antigravity, which have one record each whatever their length.
- `counterfactualOf` counts turns without a price among the turns that could move.
- Two models of one price are ranked by the order of a map (`priciestModel`).
