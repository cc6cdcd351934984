# A TLA+ verification of HwGauge

HwGauge is a daemon that samples hardware (CPU, GPU, NPU, the system, a Redis
based cluster) at a fixed interval and hands each sample to several sinks:
terminal, CSV file, Prometheus gauges, PostgreSQL and a local HTTP API. This
directory models the part of it where order, failure and concurrency matter,
checks the models with TLC and proves their main properties with TLAPS.
`PROJECT.json` maps every definition to the source lines it stands for.

## 1. Inventory

| Component (src/HwGauge/...) | State it keeps | Operations | Hard behaviour | What makes it correct |
|---|---|---|---|---|
| Process and loop: `main.cpp`, `Exposer/` | `g_stop_requested`, `Exposer::running`, the collectors, `next_tick` | `add_collector`, `run`, `collect`, `stop`, teardown | two threads and a signal; exceptions of any collector; order of destruction | a stop is obeyed, rounds are whole, nothing is used after it was destroyed |
| Power context: `Collector/Common/Context.hpp` | four optional sums | `setContextInfo`, `reSet`, `getTotalPower` | filled in the order of collectors, left unreset by a fatal round | a total never mixes rounds |
| Device pipeline: `Collector/Base/DeviceCollector.hpp` | labels, one object per sink | constructor, `collect` | one sink of several fails | sinks agree on the rounds they saw |
| Database sinks: `Base/Database.hpp`, `*Database.cpp` | a PostgreSQL connection, two tables | `init`/`writeInfo`, `writeMetric`, `BEGIN`/`COMMIT`/`ROLLBACK` | lost connections, rejected inserts, lost answers, restarts | rounds are atomic, reports are true |
| CSV sink: `Base/CsvLogger.hpp`, `*CsvLogger.cpp` | an append stream | `init`, `write` | a stream that fails without an exception | what is reported as written is written |
| Prometheus sink: `Base/Prometheus.hpp`, `*Prometheus.cpp` | gauges | `write` | scrapes run concurrently | a scrape shows nothing older than the last whole write, and mixes little |
| HTTP API: `Base/HttpApi.hpp` | last time, labels, metrics under a mutex; the server thread | `start`, `init`, `write`, `stop`, handler | handlers against writes, registration and destruction | a response is one round |
| Cluster collector: `ClusterCollector/` | a Redis context and its flag under `redisMutex_`, `keepRunning_` | `ensureConnection`, `sample`, heartbeat, destructor | two threads, connections that break at any command | one user at a time, no leak; live nodes are counted, dead ones forgotten |
| System sampling: `SYSCollector/SYSImpl.cpp` | previous counters, cached power | `sample`, `powerWorker` | background thread, counters that wrap or restart | rates match traffic, power is recent |
| CPU sampling: `CPUCollector/PCM.cpp` | baseline snapshot, count of zero readings | `sample`, `resetPCM` | a reset in the middle of a series | differences never span a reset |
| GPU and NPU sampling: `NVML.cpp`, `NPUImpl.cpp` | device handles | `labels`, `sample` | partial failure of a driver query | which errors are recoverable |
| Options, terminal output, scripts, build files | - | - | none the program itself has | - |

How they interact. `main()` starts the HTTP server, constructs the collectors
(each constructs its sampler and its sinks) and starts the watcher thread;
`Exposer::run()` calls `Exposer::collect()`, which calls each collector in the
order it was added. A collector samples, shares its power in `sharedPower`, and
writes to its sinks one after the other. `RecoverableError` skips the rest of
one collector, `FatalError` ends the loop. Other threads are the signal
watcher, the power worker, the heartbeat, the HTTP server's and Prometheus'.

## 2. Modules

| Module | Role |
|---|---|
| `CollectionService` | abstract specification of the process: a roster, whole rounds, an end that was asked for |
| `Exposer` | the process: main thread, watcher, SIGINT, collectors by their outcomes, power context, teardown |
| `MCExposer` | instances of `Exposer` for TLC |
| `ExposerProofs` | its theorems, and that it implements `CollectionService` |
| `Database`, `MCDatabase` | a collector's database sink against a session that can be lost |
| `ClusterImpl`, `MCClusterImpl` | the Redis connection shared by `sample()` and the heartbeat |
| `LatestValue` | abstract specification of the HTTP API: an atomic register per route |
| `HttpApi`, `MCHttpApi`, `HttpApiProofs` | the HTTP server, its routes, handlers, writes and teardown; implements `LatestValue` |
| `PCM`, `MCPCM` | CPU sampling: baseline, hang detection, reset |
| `SYSImpl`, `MCSYSImpl`, `SYSImplProofs` | rates from /proc counters, the power worker |
| `Ticker`, `MCTicker`, `TickerProofs` | the pace of `Exposer::run()` |
| `CsvLogger`, `MCCsvLogger`, `CsvLoggerProofs` | the CSV sink against full disks, crashes and restarts |
| `PowerContext`, `MCPowerContext` | the values in `sharedPower` over one round |
| `PowerProofs` | the theorems about `PowerContext` and `PCM` |
| `Sinks`, `MCSinks` | one `DeviceCollector`: its sinks in their order, and scrapes of its gauges |
| `DeviceCollectorProofs` | the theorems about `Sinks` and `Database` |
| `Membership`, `MCMembership` | heartbeat keys with a life, several nodes, and the count one of them samples |
| `ClusterCollectorProofs` | the theorems about `Membership` and `ClusterImpl` |

`Exposer` sees a call of a collector as one step with an outcome; `Ticker`,
`PowerContext`, `PCM`, `SYSImpl`, `ClusterImpl`, `HttpApi`, `Database`,
`CsvLogger` and `Sinks` each open up one part of what happens in such a step, or
beside it. `Sinks` in turn sees the CSV file, the database and the HTTP snapshot
by the last round that reached them, and `Membership` sees `ClusterImpl` by how
long a heartbeat takes and how it ends.

### Exposer

`pc` is the place of the main thread, from `add_collector` (`add`) through
`run()` (`enter`, `check`, `collect`, `pace`) to the teardown (`join`, `reset`,
`httpStop`, `exited`). `watcher` is the place of the signal_watcher thread
between its load of `g_stop_requested` and its call of `Exposer::stop()`; that
gap is where the hazards are. `running` and `stopRequested` are the two
atomics. One call of a collector is one step: `CollectOk`,
`CollectRecoverable` (samplers that throw it, NVML and NPU, before they share
their power; a CSV sink that throws it after that) or `CollectFatal` (any of
them). `sharedPower` holds, per source, whether the readings it sums
stem from this round or an earlier one, which is all that "mixes rounds" needs.
`outcome` and `fatal` are history variables. `Optional` collectors may be skipped
(`--sysInfo`, `--clusterInfo` not given). `AddFails` and `DestroyCollector`
include the abort that the joinable `powerThread_` of `SYSImpl` causes, also when
a later member of `SYSCollector` fails to construct, and `AddFails` the end by
`std::terminate` when listing the sensors throws `filesystem_error`
(`MayTerminate`).
No counter is kept, so the state space is finite without a bound.

`CollectionService` knows no threads and no flags. The refinement maps the
place of the main thread to a phase, the collectors to a roster and the
recorded outcomes to those served in the round. It says that a round serves
each collector exactly once, that only a breakdown cuts a round short, and that
the service never leaves the idle phase without having been asked.

### Database

All four subclasses follow one protocol (ask `isConnected`, `BEGIN`, an insert
per device, `COMMIT`, `ROLLBACK` when an insert fails), so one module stands for
them; `map` names the subclass that shows an operation best. `conn` is what
libpq knows, `link` and `session` what is really there: they differ from the
moment a session breaks until the next statement. COMMIT is two steps: the server
obeys it (`ServerCommits`), and later its answer arrives (`Commit`) or does not
(`CommitFails`, which may also come before the server has obeyed, or be its refusal).
`Killed` and `Connect` are the restart; `Killed` can fall between the two, and
the call it ends is recorded as "killed", in doubt like one whose answer was lost.
`sink` is the sink at hand, a rigid variable: one of `Sinks`, with `NumLabels`
devices, where `Keyed` are those like `SYSDatabase` (primary key, no info
table). The server
(`LinkBreaks`, `SessionLost`, `ServerCommits`, the key) is external.

### ClusterImpl

`mpc` is the place of the main thread in the constructor, `sample()` and the
destructor, `hpc` that of the heartbeat thread, `mutex` the holder of the
recursive `redisMutex_` (recursion is invisible: the inner locks are taken by
the holder). Each Redis command is one step, in which the reply is there or
null; between two steps the connection may break (`Breaks`) or the server
become unreachable. `contexts` counts hiredis contexts allocated and not freed.

### HttpApi

`pc` is the main thread from `LocalHttpServer::start()` to the return of
`main()`, `thread` the life of `server_thread_`, `table` the routes registered
with the server, `objects` the `HttpApi` objects alive. A round is a number;
`time` is `last_time_`, `data` both `last_labels_` and `last_metrics_`, which
one lock scope assigns and reads. A write is two steps (`WriteTime` takes the
mutex, `WriteData` releases it), and so is a handler (`ReadTime`, `ReadData`).
`Undefined` is an answer read from a destroyed object, or looked up in the table
of routes while `Server::Get()` grows it. A handler that comes to the lock of a
destroyed object may also get no further (`LockDestroyed`): it hangs, and with it
`stop()`. The refinement to `LatestValue` takes
the requests that arrive while `run()` loops (`OnOffer`) as those the service
answers for.

### PCM

A snapshot is the instant it was taken at and the epoch of the counters, which
`cleanup()` and `program()` start anew. The metrics of a sample matter
through `isSystemActive` and `allBandwidthZero` only, so a sample is sound or
suspicious. `SampleResets` and `SampleResetFails` are the whole of a sample that
reaches the limit, `resetPCM()` and the early return included.

### SYSImpl

A device is a line of /proc/diskstats or /proc/net/dev with one counter modulo
`W`; `known` and `last` are `lastDiskStates` / `lastNetStates`. `Baseline` is
the discarded first reading of the constructor, `Sample` a whole `sample()`.
`Moves`, `Leaves` and `Appears` are the kernel. `worker` is `powerThread_`,
whose end belongs to `Exposer`.

### Ticker

The loop of `Exposer::run()` with its clock: a round may take up to `MaxCollect`
and a wake-up be up to `MaxLate` late. That `collect()` is bounded is an
assumption about drivers and time-outs, and `StopIsPrompt` rests on it. `fits`
records whether every round so far left room for a late wake-up: the premise
under which lateness does not add up.

### CsvLogger

`file` are the lines that reached the operating system, `buffer` those in
`m_ofs`. `Overflows` is a write on a full disk: some lines arrive, the next one
possibly in part (`Fragment`), and the stream is bad from then on: libstdc++
then ignores output without an exception, and offers the buffer once more when
the file is closed. A row is known by start, round and device; its text is not
modelled. A file that cannot be opened is a `FatalError` of the constructor, on which
`add_collector` ends the process (`AddFails` of `Exposer`).

### PowerContext

One step per device sampled, with the power it draws and the power that is read
(`Unknown` is the -1 of a failed query), one per `setContextInfo()`. The round's
end, with `reSet()`, is part of `PublishTotal`: only `ClusterCollector` comes
after `SYSCollector`, and it does not touch the context. Stops, fatal errors and
which collectors exist are in `Exposer`.

### Sinks

`phase` is how far `DeviceCollector::collect()` has come, `enabled` the sinks
chosen on the command line. `csv`, `db` and `http` are the last round in each
sink, `round` the last one that went past the CSV file. `stream` is the state of that
file's stream: once "failed", it drops the rows of every later round without a word
(`WriteCsvLoses`) while the other sinks go on; "partial", it holds rows of a sample
abandoned in `WriteCsvThrows`, which reach the file with the next flush and no other
sink ever. The gauges are a function
from family and device to the round they show, 0 before their first `Set()`,
`Absent` before their `Add()`; `write()` goes through them device by device
(`After`). `Add` waits for the mutex of the family, which a scrape holds while it
reads that family (`lock`); `Set` is an atomic store and waits for nothing. A
scrape (`BeginScrape` to `EndScrape`) is prometheus-cpp's and external: families
in the order of registration, one mutex after another, one scrape at a time, for
the registry has a mutex too. `scrape.since` is history: the round that the gauges
showed as a whole when the scrape began. One `DeviceCollector` suffices, since
collectors share no family.

### Membership

Time is discrete: `Tick` lets keys expire, sleeps end and waits grow. `life` is
what is left of each node's key, `wire` how much longer its SET may be on its way,
also when the sender has given it up after its 500 ms or died. `phase` and `timer`
are the heartbeat thread: `due` (waiting for mutex and connection), `sent`,
`answered`, `asleep`, `down`. A heartbeat may fail (`BeatFails`, `Rejected`), take
longer than `MaxDelay`, or never end; a node may die and return at any moment. The
sample of the `Observer` counts keys over several SCAN commands
(`ScanPage`, `LastPage`); during it the observer's own heartbeat waits for
`redisMutex_`. SCAN is Redis': it returns keys that exist, any of them again, and does
not end before it has returned all that existed throughout. `scan.steady`,
`scan.gone`, `scan.again` and `ok` are history. `Interval` leaves out the floor of
100 ms, which no TTL of a whole second reaches.

`RenewalAssumption` (`Interval + 2 * MaxDelay < TTL`) says what "late" has to mean
for a live node to stay in the count: a renewal is due half a TTL after the last
answer, which itself may have come `MaxDelay` after the SET. It is tight: with
`MaxDelay = 2` TLC finds a live node missing. For the default TTL of 5 s
it leaves each heartbeat less than 1.25 s.

## 3. Runs

| Run | Question | Result |
|---|---|---|
| `exposer_process` | five collectors, with or without `--sysInfo` and `--clusterInfo`: mixing of rounds, order of teardown, final stop, refinement; does a stop end the process, does a collector starve | holds |
| `exposer_ctrlc` | does SIGINT always stop the process | violated: the finding below |
| `database_sink` | a device sink and the keyed sink, killed at any statement, also between COMMIT and its answer: atomicity, truth of reports, silence of outages | holds |
| `cluster_redis` | exclusion, leaks, null contexts; destructor, heartbeat retries, end of a sample | holds |
| `httpapi_api` | two workers, two rounds: workers left over, refinement; are requests answered, does the teardown end, unless a destroyed mutex is waited for | holds |
| `pcm_safety` | intervals and their times, resets, hangs | holds |
| `sysimpl_safety` | rates across wraps, absences and replacements | holds |
| `ticker_pace` | lost ticks, lateness that adds up, delay of a stop | holds |
| `csvlogger_safety` | one header, true reports while the stream is good, losses at the end only | holds |
| `powercontext_safety` | is the total ever too high, what may lack in it | holds |
| `sinks_scrape` | do the sinks drift apart when a sample, a row, the CSV stream or the database fails; how old, and how mixed, can a scrape be | holds |
| `membership_count` | is a live node counted, a dead one forgotten, does the count converge once the cluster settles | holds |

Bounds. `Exposer` and `ClusterImpl` have none: the runs are exhaustive for
their constants. `Database` bounds the calls (`MaxCalls = 3`: a good round, the
one an outage hits, and the one after it) and the timestamps (`MaxTime = 2`:
equal, forward and back); one sink has two devices, enough for a round to stop
half way, the other one and a key. `HttpApi`: one route, two workers and two
rounds, so that two handlers and a write contend for one object's mutex; routes
share nothing but the table, which the proofs cover for any number. `PCM`: a
limit of 3 for 50, five instants, three epochs - a reset that succeeds, one that
fails, one that fails again. `SYSImpl`: counters modulo 3 and up to 2 units per
interval, the most that is not ambiguous. `CsvLogger`: two rows, three rounds,
two starts - a bad stream in one round, its effect on a later one, and the file
a restart finds. `PowerContext`: two sockets, two GPUs, one NPU, up to 2 W each;
it has no other bound. `Sinks`: two families, three devices and three rounds, so
that a scrape is overtaken between families by more than one round, and within a
family before, at and after the device it reads; every choice of sinks.
`Membership`: an observer and one other node, a TTL of 5 units with heartbeats
every 2 that may take 1, SETs under way for up to 2, and samples of up to two SCAN
commands; its timers count down or up to a bound, so runs of any length are
covered. `Ticker`: 30 units of time, ten ticks at an interval of
3, rounds of up to 8 units and wake-ups up to 2 late. What is proved is proved for
all values of these.

Fairness. `Exposer`: weak fairness of each thread as a whole - the operating
system schedules both, and no call of a collector blocks for ever (database and
Redis calls time out; the driver calls are assumed to return). The user owes no
signal. `ClusterImpl`: weak fairness of the steps of each thread (each Redis
command ends after 500 ms at the latest, connecting after 1 s); strong fairness
of `BeatLock`, since `std::mutex` promises no order but the main thread sleeps
most of each interval, so the mutex is free again and again; strong fairness of
the SCAN cursor's return to 0, which Redis guarantees. There is none on
`SampleStart`, `StopHeartbeat`, on breaking links or on reachability.
`HttpApi`: weak fairness of the main thread from the begin of the teardown (and
of a write once it has begun) and of each worker; strong fairness of `ReadTime`,
the taking of `data_mutex_`, which the main thread holds for moments only; weak
fairness of the return of `listen()` after `stop()`, as cpp-httplib promises. There
is none on `LockDestroyed`: a destroyed mutex may let the handler through or not, and
`StopEnds` and `RequestsAreAnswered` except the case that it does not.
`Membership`: weak fairness of `Tick` alone - time passes; no node, command or
sample is assumed to go on, and `CountConverges` speaks of the counts that are
published after the cluster has settled. One assumption of `ClusterImpl` has a
hole: AUTH is sent before `redisSetTimeout()` (`ClusterImpl.cpp:91`, `:106`), so a
server that accepts the connection and never answers AUTH blocks the thread, mutex in
hand.

## 4. Findings

`Exposer.cpp:36`: `run()` stores `running = true` whatever happened before.
SIGINT between `std::signal` and that store lets the watcher call `stop()`
and end; the loop then runs for ever (`CtrlCStops`), contrary to `main.cpp:160`.

Other observations, without a run of their own:

- `SYSImpl.cpp:46`: the destructor neither raises `stopThread_` nor joins
  `powerThread_`, so `exposer.reset()` aborts the process whenever `--sysInfo` is
  given. `ImplementsService` counts that end as a breakdown.
- `CsvLogger.hpp:78`: the state of the stream is never looked at; after a full
  disk every round is still logged as inserted. `TrueWhileGood` and
  `LostAtTheEnd` say what holds nevertheless, and `SinksAgree` that the gauges and the
  HTTP snapshot go on without the file.
- `ClusterImpl.cpp:127`: the next attempt after a failed heartbeat comes half a TTL
  later, and two halves are the whole life of the key: one failure always drops the
  node from the count for a moment. A reconnection (up to 1 s) and a SET (up to
  0.5 s) can also take longer than the 1.25 s that the default TTL leaves.
- `ClusterImpl.cpp:220`: a key that SCAN returns twice counts twice; Redis
  leaves duplicates to the client. `DeadIsForgotten` and `CountConverges` allow for
  them (`again`).
- `ClusterImpl.cpp:127` multiplies `ttlSeconds` by 1000 as an `int`, and a TTL of 0
  or less passes the command line although Redis rejects it. `main.cpp:86` gives
  all nodes without `--clu-nodeId` one name, and so one key.
- `main.cpp:96` constructs the Prometheus exposer before the command line is parsed,
  so `--address` has no effect on it.
- `CPUDatabase.cpp:42` and its GPU and NPU twins create the metric tables without the
  primary key (timestamp, device) that `Database.md:36`, `:65` and `:115` give them.
  Where the local time of `getNowTime()` stands or steps back, two rounds are stored
  with one key; only the table of `SYSDatabase` rejects the second (`MustReject`). No
  property is stated about keys: in that table PostgreSQL enforces one, in the others
  there is none.
- After a FatalError the process waits for SIGINT (`main.cpp:175`), and scrapes and
  HTTP requests keep being answered with the last round.
- `ClusterImpl.cpp:245`: `redisConnected` stays 1 when PING or SCAN lose the
  connection, contrary to `ClusterMetrics.hpp:18`.
- `main.cpp:176`: `exposer.reset()` destroys the `HttpApi` objects while the
  server still serves the routes whose handlers point to them. In `HttpApi` such
  a request gets an `Undefined` answer or hangs for ever, and the process with it;
  `ImplementsRegister` promises nothing about requests that arrive in the teardown.
- `PCM.cpp:124`: when `program()` fails in `resetPCM()`, the baseline stays and
  the next sample subtracts across the reset, the spike that the comment at
  `PCM.cpp:127` wants to prevent. `SpikeNeedsFailedReset` shows that nothing
  else leads to it.
- `GPUCollector.hpp:61` and its NPU twin: a power that could not be read enters
  the total as -1 W, contrary to `README.md:269`. `ContextIsThere` allows for it.

## 5. Proofs

Every module has its theorems, proved for every value of the constants (any subset of
collectors, any number of devices, nodes, families, rounds, calls and timestamps, any
interval and time to live, heartbeat or not):

- `Exposer`: `IndInv`, then `TypeOK`, `PowerIsThisRound`,
  `TotalIsComplete`, `OrderlyExit`, the action
  properties `StopIsFinal` and `RoundsAreWhole`, and the refinement. The
  invariant adds to the properties that the collectors follow the order of
  `main()` (`OrderKept`: without it, `TotalIsComplete` has no hold on where SYS
  stands), who had a turn at each loop index (`TurnsTaken`), and what the flags
  can be at each place (`Stages`: a watcher that is done is what makes a stop
  final, a flag down in the loop means a watcher done or a fatal round).
- `Database`: `DBInv`, then `RoundIsAtomic`, `SessionIsClean`,
  `ReportIsTrue`, `OneSilentLoss` and `InfoIsAtomic`. The
  strengthening ties the rows pending on the server to the loop index of the
  client (`SessionAtPlace`), says that the call under way has no rows in the table
  until the server has obeyed its COMMIT and all of them from then on
  (`RowsOfPastCalls`), and ties silence to what libpq knows (`SilenceIsNoticed`).
- `ClusterImpl`: `RedisInv`, then `OneUser`, `ContextAtHand`, `OneContext`
  with `FlagMatchesContext`, and `CountIsBacked`. Mutual exclusion and the
  state of the connection need each other: that a command finds a context is
  stable only because the other thread is not between its own commands.
- `HttpApi`: `IndInv`, then `TypeOK`, `AnswerIsOneRound`, `NothingRunsOn`
  and the refinement to `LatestValue`. The strengthening says who holds a mutex
  and what is equal while nobody does (`Locks`), which rounds an object can have
  (`Stages`), that a request the service answers for finds its object
  (`CoveredIsServed`), and that the server ends before the process
  (`ServerDown`).
- `PCM`: `PCMInv`, then `ElapsedIsTheInterval`, `HangIsBounded`,
  `IntervalsAdjoin`, `SpikeNeedsFailedReset`, `RetryAtOnce`. `BaselineInPlace`
  ties the baseline to its time, epoch and the last sample, `CounterFollows` the
  counter to the history of resets.
- `SYSImpl`: `IndInv`, then `RateIsTraffic` and `PowerIsKept`, from lemmas
  on differences modulo `W` (`DiffAdds`): a remembered value is the counter less
  what has moved since (`StatesMatch`).
- `Ticker`: `IndInv`, then `NeverEarly`, `NoTickLost`,
  `LatenessDoesNotAddUp`, `StopIsPrompt`. That a stop is obeyed within an
  interval, however far the loop is behind, needs that no round is early.
- `Sinks`: `IndInv`, then `SinksAgree`, `ScrapeIsRecent`,
  `FamilyHoldsTogether`. `SinksInPlace` lets the CSV file be behind the round only with
  a failed stream. `GaugesInPlace` says what each gauge shows by its place
  against the one `write()` comes to next; `HeldFamily` what the values read from
  the family whose mutex is held can still differ in from its gauges. `Set` does not
  need the mutex that `Add` took, so one gauge can go on under the scrape's eyes
  (`Outrun`), and the next `Add` of that family waits: this is why a family mixes
  two rounds and not three.
- `CsvLogger`: `IndInv`, then `HeaderLeads`, `TrueWhileGood`, `LostAtTheEnd`. File
  and buffer are one `Stream`: in a good one the last lines are the rows of the round
  under way (`RowsAreLast`) and, once it is reported, no fragment is left at the end
  (`EndsWithRow`). A header waits in the buffer of an empty file only (`HeaderWaits`).
  When the stream goes bad in a round, that round is the cut (`CutInRound`): earlier
  reports of this start are stored, and neither file nor buffer has a row of a later
  round, so that what is written when the file is closed cannot bring one back.
- `PowerContext`: `IndInv`, then `TypeOK`, `ContextIsThere`, `TotalNeverTooHigh`. A
  source has added nothing before its turn (`NotYet`), what it has sampled so far is at
  most what its devices draw and at least -1 W for each (`Sampling`), and what it has
  added stays (`HasAdded`). What `SumOf` computes would take an induction over the
  samples; instead the invariant carries the partial sums (`SumsUp`): they exist, and
  whatever they are, they end in these bounds. One sample more makes them one longer
  (`LongerSum`), and `SumOf` chooses one of them (`ChosenSum`).
- `Membership`: `IndInv`, then `SteadyIsCounted`, `DeadIsForgotten`. That a renewal is
  in time rests on three facts: a heartbeat answered in time leaves a key at least as
  long-lived as the TTL less its timer (`AnswerIsFresh`), the sleep ends after
  `Interval` (`SleepIsShort`), so a node whose heartbeats are in time has a key that
  outlives the next one (`OkOutlives`, with `RenewalAssumption`); hence its key stays
  through the sample (`SteadyStays`). A dead node's key and the SET it has under way run
  out together (`DeadFades`), and the count is the number of distinct keys seen plus
  those returned again (`CountKept`), of which none is a gone node's (`GoneIsGone`).

Components that belong together share a module of theorems, which extends both. For
that the parts that every specification has are named apart in one of the two:
`RedisInit`, `RedisNext`, `RedisSpec` and so on in `ClusterImpl`, `PCMInit` in `PCM`,
`DBInit` in `Database`, with `RedisInv`, `PCMInv` and `DBInv` for their inductive
invariants.

Every inductive invariant, with the type invariant in it, held in TLC on the instances above
before it was proved, that of `PowerContext` with the one sum that `SumOf` computes in
place of all those that `SumsUp` speaks of, which TLC cannot enumerate. What is proved
and says little beyond an action or a place
(the type and the inductive invariants, `TotalIsComplete`,
`RoundsAreWhole`, `RetryAtOnce`, `PowerIsKept`, `NeverEarly`,
`FlagMatchesContext`, `InfoIsAtomic`, `CountIsBacked`, `AnswerIsOneRound`) is not
repeated in the runs. Assumptions are only the types
of the constants (and that a keyed sink of `Database` has one label, that `None` of `HttpApi`
is no thread, the times
of `Membership` with `RenewalAssumption`, and that no device of `SYSImpl` moves a whole counter width
between two samples).
Model-checked only is liveness, which rests on fairness and is beyond the prover:
`StopInLoopEnds`, `NobodyStarves`, `DestructorEnds`, `HeartbeatRetries`, `SampleEnds`,
`RequestsAreAnswered`, `StopEnds`, `CountConverges`. Every invariant and every action
property of the passing runs is proved, and so are both refinements.

## 6. Not modelled

Formatting (terminal, CSV rows, JSON, SQL columns), option parsing, the names
of gauges, the individual driver queries of NVML, DCMI and
PCM, build files, shell scripts and Ansible playbooks. They have no control
that a state-based property could tell apart.

## 7. Plan

Every module planned is there: `Exposer`, `Database`, `ClusterImpl`, `HttpApi`,
`PCM`, `SYSImpl`, `Ticker`, `CsvLogger`, `PowerContext`, `Sinks`, `Membership`.
Every safety property of the passing runs has its theorem. What could be added, in this order:

| Order | Module | What | Argument |
|---|---|---|---|
| 1 | `ClusterImpl` with `Membership` | that a heartbeat of `ClusterImpl` is one of `Membership` | steps of the heartbeat thread map to `Send`, `Answer`, `BeatFails`; needs a clock in `ClusterImpl` |
| 2 | `Sinks` with `Database` and `CsvLogger` | that `Store`, `StoreLoses` and `WriteCsv` are what these two modules promise | an abstract sink, implemented by both |
