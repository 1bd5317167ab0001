# Verification of learn_apue

The repository holds two programs worth specifying: `rk3588-media-gateway`, a
daemon (`gatewayd`) that supervises one FFmpeg worker per video channel, and
`apue`, exercises in systems programming, some of which are small concurrent
libraries. This directory models their control flow in TLA+, checks it with TLC
on small instances, and proves the safety of the gateway and of the apue libraries
with TLAPS for every instance.

Paths below are relative to the repository; `gw/` stands for
`rk3588-media-gateway/`.

## 1. Inventory

### The gateway

| Component | State | Operations | Hard behaviour |
|---|---|---|---|
| Channel state machine `gw/src/channel/channel_state.c` | state, failure count, delay | eight events | saturation, order of events |
| Process Manager `gw/src/process/process_manager.c` | handle: pid, pipes, running/reaped, wait status | start, read, poll_exit, stop, close | pid reuse, partial failure of system calls, descendants, grace period |
| Supervisor `gw/src/channel/supervisor.c` | lifecycle, one attempt, time stamps, published snapshot | `gw_supervisor_run`, `run_worker_attempt`, `wait_for_backoff` | exits, timeouts, records and stop requests race one another |
| Channel Manager `gw/src/channel/channel_manager.c` | table of entries, one thread each, lifecycle lock, atomics | create, start, reload, start/stop/restart a channel, request_stop, wait, destroy | joins under a lock, lock-free stop, partial reload |
| Main loop `gw/src/main.c` | pending signals, locals | boot, signals, reload, shutdown | decisions on a sample that is already old |
| HTTP Control API `gw/src/api/http_server.c` | one thread, a stop flag, one connection | receive, route, send | commands that arrive during shutdown, slow clients |
| Config Manager `gw/src/config/config.c` | none | load, validate | uniqueness of ids and paths |
| Metrics Collector `gw/src/monitor/process_metrics.c`, `sample_process_metrics` | CPU baseline and sample per entry | copy targets, read `/proc`, store | stale pid and generation |
| Progress parser `gw/src/monitor/progress_parser.c`, stderr lines in `supervisor.c` | a partial line | consume, flush | lines split over reads, lines too long, redaction |
| Pipeline Builder, MediaMTX renderer, recording status, `gateway_metrics`, scripts | none | formatting, I/O | none |

The main thread and the HTTP thread call the manager. The manager creates one
supervisor thread per entry; that thread owns one worker process through a
`gw_process` handle, moves through the lifecycle table, and publishes a snapshot
that HTTP clients and the metrics thread read. Stop requests travel the other
way through atomics without a lock.

### apue

| Component | State | Hard behaviour |
|---|---|---|
| Relays `apue/stdio/adv/{nonblock,select,poll,epoll}/relay.c` | two state machines, buffer, interest sets | short writes, waiting for the wrong event, hang-up |
| Timer library `apue/para/thread/posix/anytimer_mt` | table of timers, handler thread | callback without locks, cancel and wait race it, exit in a pass |
| Prime pools `primer1_pool_cond.c`, `primer1_pool_busy.c` | one task slot, workers | lost wakeups, overwritten tasks |
| Signal timers `apue/para/signal/anytimer` | table of timers | a handler between any two statements |
| Token buckets `mytbf_mt`, `apue/para/signal/mytbf` | tokens of a bucket | lost updates, a pause that misses its signal |
| Semaphore `mysem` | a counter | wakeups, freed after the last use |
| Rings `abcd.c`, `abcd_e.c` | whose turn it is | a turn passed to a thread that sleeps or is not there yet |
| File, process and system exercises | none | pure I/O |

What makes each of them correct is listed, line by line, under `hazards` in
`PROJECT.json`, with the property that would catch it going wrong.

## 2. Modules

| Module | Models | EXTENDS / uses |
|---|---|---|
| `ChannelState` | the lifecycle table as operators | |
| `ChannelMachine` | the table as a state machine, every policy | `ChannelState` |
| `ProcessManager` | one handle, the kernel's process table, the pipes, the worker as environment | |
| `Supervisor` | one supervisor thread | `ChannelState`, `ProcessManager` |
| `ChannelContract` | abstract: what a supervised channel promises | refined by `Supervisor` |
| `PublishedWorker` | abstract: what a supervisor thread promises the readers of its snapshot about the worker's pid | refined by `Supervisor` |
| `Metrics` | the metrics thread and one entry | `PublishedWorker` |
| `WorkerOutput` | lines and records out of the bytes of a worker | |
| `ChannelManager` | entries, threads, lifecycle lock | threads by the contract |
| `Gateway` | main and HTTP thread, signals | `ChannelManager` |
| `Relay`, `AnyTimer`, `SignalTimer`, `TokenBucket`, `PrimerPool`, `Turns`, `Semaphore` | the apue programs | |
| `MCComponents` | the modules that share nothing with others, side by side, for one run | `WorkerOutput` and five of apue |
| `ChannelStateProofs`, `ChannelMachineProofs`, `SupervisorProofs`, `GatewayProofs`, `MetricsProofs`, `AnyTimerProofs`, `RelayProofs` | theorems | the modules they name, TLAPS |
| `ComponentProofs` | theorems about the pools, the semaphore, the rings, the signal timers, the token buckets and the output of a worker | `PrimerPool`, `Semaphore`, `Turns`, `SignalTimer`, `TokenBucket`, `WorkerOutput`, TLAPS |
| `MC...` | constants for TLC | |

Definitions keep the names of the source where there is one; an operator called
"a wrong X" is a plausible slip in X that `PROJECT.json` uses to show that a
property would notice it. It takes no part in any specification.

### How state and steps correspond to the code

* **Supervisor.** `pc` is the place in `gw_supervisor_run` or in the
  `run_worker_attempt` it calls. A step ends where something outside the thread
  can happen: a system call, a publication, a look at the stop flag. Time is a
  set of timers: one that is armed elapses at some later moment and stays
  elapsed until the code takes a new time stamp, so every order of timeouts and
  other events is covered without counting seconds.
* **Process Manager.** `worker` is the kernel's process table over a small set of
  pids that are used again, `writers` who holds a pipe open, `data` how many
  chunks it buffers. `gw_process_stop` takes time and is a machine of its own
  (`call`). What may fail is a constant, `Faults`: building the pipeline, fork
  and pipes, the clock, poll, read, a malformed record, kill, waitpid.
* **Channel Manager.** A call under the lifecycle lock is a small program: `lock`
  is its caller, `frame` the statement and entry it has reached. Its steps
  interleave with the supervisor threads, with the stop request (no lock) and
  with the signals. A supervisor thread does what `ChannelContract` allows, the
  failure count left out.
* **Gateway.** `pc` is the place in `run_channels`, `http` the server thread,
  `signals` what waits in the signalfd. A candidate configuration is any member
  of `gw_config_load_file`, the configurations among `Configs` that the loader
  accepts: at most `GW_MAX_CHANNELS` channels, possibly none, with different ids and
  output paths. A start that fails, for a channel or for the metrics thread, walks the
  table once more (`AbortSlot`), returns its error and ends the daemon.
  A connection is received piece by piece: `used` counts towards
  `HTTP_REQUEST_CAP`, and what a piece completes (a command, any other request, an
  error) is a choice.
* **Metrics.** One entry of the table. `sampler` is the round under way with the
  target it copied under the lock; a reading is known by whose it is (`of`: the
  worker started last, or one before it), which no variable of the program says.
* **WorkerOutput.** A behaviour picks a stream and what a worker writes to it, and
  reads it in pieces of any size. The parser and the line buffer go through the bytes
  of a piece one by one, as in the code, and `redact_source_url` through the bytes that
  are left of a line; the loops are recursive functions of a position. What they should
  compute is stated without them, by the positions of the line ends in the whole text
  (`Ends`, `LineUpTo`, `RecordUpTo`). A behaviour also picks `GW_URL_CAP` (`url_cap`,
  which no step changes): a URL that just fits its buffer need not fit it any more once
  its password is three stars, `gw_redact_url` then fails with `GW_ERR_OVERFLOW`
  (`UrlOverflows`), and every line is logged as `[line omitted]`.
* **Relay.** The four copies of `fsm_driver` are the same code, so there is one
  model of it and four of the loop; the map names lines of different copies. A
  byte is its position in what was typed. There is an action for each outcome of read
  and write: some bytes, the end, EAGAIN (a read has stored its -1 in `len` by then) and
  any other error. A terminal that was hung up reads as its end or as an error; one that
  is there does not fail.
* **AnyTimer.** Whoever holds a timer's mutex waits for nothing, so what is done
  under it is one step; `mut_job` is held by the handler through a pass.
* **SignalTimer.** One thread and a handler that runs as a whole between any two of
  its steps; `at_canceltimer` is a test and a store.
* **TokenBucket.** The two libraries have the same operations. Under the mutex of
  the threaded one an operation is a step; in the signal one `token -= n` is a load
  and a store. The users are the loops of the two `main.c`. The tokens in the hands of
  the users are counted as a set (`InHands`).
* **PrimerPool, Turns, Semaphore.** What is done under a mutex up to a
  `pthread_cond_wait` is one step; a wait may end by itself.

## 3. Runs

| Run | Specification | Result |
|---|---|---|
| `machine` | lifecycle table, 60 policies, counter that saturates at 7 | passes |
| `sup_faults` | supervisor, every fault, two pids, workers fork | passes |
| `sup_live` | supervisor under fairness, kill and waitpid working, and two refinements | passes |
| `sup_group` | workers fork | **GroupStopped violated** |
| `metrics` | metrics thread, two pids, three generations | passes |
| `gateway` | two entries, reloads, connections, commands, failing creation, one-shot | passes |
| `gateway_live` | daemon under fairness, failing creation | passes |
| `gateway_oneshot` | `--exit-when-idle` under fairness | **StopHonoured violated** |
| `relay` | all four relays | passes |
| `relay_epoll` | epoll relay | **EpollDelivered violated** |
| `anytimer` | two slots, two clients, two blocks | passes |
| `components` | worker output, token buckets, prime pools, rings, semaphore, signal timers | passes |

To repeat one: `tlc -config MCSupervisorFaults.cfg MCSupervisor`.

What they show:

* *Lifecycle.* `BackoffSchedule` compares the doubling loop with the power of two
  it should be; `RetryBudget` and `ExhaustedStaysExhausted` relate state, count
  and policy over any sequence of events.
* *Workers.* `NoStrayWorker`, `SignalsOwnWorker`: no path leaves a worker or a
  zombie, and no signal goes to a pid that was reaped. `ReturnCode`,
  `PublishedAtRest`, `FailureMemory`: whatever fails, the return code agrees with
  the published state, nothing of an old worker stays published, and only a stable
  period forgives failures. `StopAnswered`, `WatchdogBites`, `Recovers`: stops are
  answered, silent workers are stopped, channels in a daemon are always tried again.
* *What the others rely on.* `ImplementsContract` is the refinement the manager
  model is built on, `PublishesWorker` the one the metrics model is built on: a pid
  is published after the spawn and withdrawn before the next one.
* *Metrics.* `SampleOfGeneration`: a client is shown no sample of a configuration
  that was replaced while the sample was taken. `MetricsOfWorker`: the sample, and
  both readings of its CPU share, are of the worker whose pid is shown, unless the
  kernel hands out a pid again within one round of its last holder's end (then the
  code has no means to tell). `MetricsArrive`: the guard does not discard them all.
* *Output.* `ReadsAsWritten`: what is parsed and logged is a function of what was
  written, wherever the reads end, and no password is logged in a URL; it names the
  case in which the redacted URL has no room and all lines are omitted.
* *Manager, main loop, HTTP.* `NeverStartedTwice`, `ActiveThreadsExact`,
  `SnapshotCurrent`, `ConfigurationInForce`, `PathExclusive`, `OrderlyExit`,
  `StopHonoured`, `ConnectionsEnd`. The last holds because the request buffer is
  finite: a client that sends a byte just within every two seconds holds the only
  HTTP thread, and a shutdown, for that time times `HTTP_REQUEST_CAP`.
* *apue.* `CopiesInOrder`, `Delivered`, `Ends`; `MemorySafe`, `CalledOrCanceled`,
  `OnTime`, `WaitsReturn`, `Unloads`; `FiresOnce`; `RateKept`, `FetchReturns`;
  `EachTaskOnce`, `Terminates`; `RoundRobin`; `Throttled`.

The type invariants (`TypeOK` and its like) were checked on the same instances, and
all of them are proved, most as part of an inductive invariant. The inductive
invariants of section 6 were checked with TLC on the instances of these runs before
they were proved.

### Where the code and its documentation disagree

1. `gw/include/gateway/process_manager.h:43` says that `gw_process_stop` stops the
   process group and escalates to SIGKILL. It returns when the direct child is
   reaped: a descendant that ignores SIGTERM stays (`sup_group`).
2. `gw/README.md:165` says that SIGINT and SIGTERM stop all channels. With
   `--exit-when-idle`, an HTTP start accepted between the main loop's exit and the
   end of the HTTP thread leaves main in `gw_channel_manager_wait`, where nobody
   reads signals (`gateway_oneshot`).
3. The epoll relay computes the events of `fd2` and never registers them: it
   blocks for ever after its first read (`relay_epoll`).

## 4. Bounds, and why they are enough

* `UINT_MAX` is 7 in `machine` and 2 in the supervisor runs, above `max_retries`:
  saturation is reached. The theorems hold for every width.
  `restart_count`, which nothing reads back, is kept modulo `RestartModulus`.
* Two pids: a worker's, and one for the next attempt, each of which can be handed
  to a stranger. The pids are interchangeable (symmetry set) in the safety runs;
  the liveness run uses one pid and no symmetry.
* One chunk per pipe: a pipe is empty or full, and both streams may be either.
* Two entries and four configuration files: unchanged, one channel disabled while
  the other takes over its path and the shared settings change, one without a channel,
  and an invalid file. `MaxGeneration` stops reloads once an entry was configured twice.
  `gateway_live` moves the table from one channel to another. The run `gateway` is
  one-shot; with `OneShot = FALSE` the same invariants hold (895,510 states).
* Relay: two bytes per terminal, a buffer of two, room for one: partial writes and
  full sinks happen in both directions at once.
* AnyTimer: two slots, two clients, two blocks, so slots and blocks are reused;
  timers of 0 to 2 seconds. Three blocks give the same result.
* PrimerPool: numbers 7 to 13 include the square 9; three workers are enough for a
  signal to wake the wrong one.
* Metrics: two pids, so that a worker gets its predecessor's or another one, and three
  generations, so that an entry is reconfigured, freed and configured again.
* HTTP: a request of two pieces (`gateway_live`), of one in `gateway`, whose
  properties do not depend on the pieces.
* WorkerOutput: three lines out of nine kinds per stream, with the capacities chosen
  so that lines fit, do not fit, and fit until the URL is replaced; reads of one to
  three bytes. `GW_URL_CAP` is 7, which the redacted URL of six letters just fits, or 6.
* TokenBucket: two tokens a second, five at most, two users that ask for two.
  Turns: four threads, as in the programs. Semaphore: two units, five threads.
  SignalTimer: two slots, three blocks, up to three seconds.

`CHECK_DEADLOCK FALSE` is set where the program may end (a thread that returned,
a process that exited). The lifecycle table has no such state and is checked for
deadlock.

## 5. Fairness, and why the code justifies it

* Every thread is scheduled (weak fairness of its steps) and clocks advance.
  Nothing is assumed of the worker, of descendants, of operators or HTTP clients.
* `BackoffInterrupted` is strongly fair: `wait_for_backoff` looks for a stop every
  100 ms of a wait of at least a second, so it cannot miss the request in every
  backoff because the time was up first.
* A mutex that is free again and again is taken in the end: strong fairness of
  `Reload` and `gw_http_route` (lifecycle lock) and of `WaitClears` (`mut_job`).
  POSIX does not promise it; the lock is held briefly between sleeps.
* A supervisor thread in `Gateway` is only assumed to end *once asked to stop*;
  that is `StopAnswered` of the supervisor.
* `Wakes` in the relays is strongly fair: not every wait is interrupted by a
  signal.
* The metrics thread: the `/proc` files of a worker that stays alive are not
  unreadable in every round (strong fairness of a successful `ReadMetrics`).
* Seconds pass for the handlers of the timers and buckets. `FetchReturns` says that
  some user's fetch returns: nothing makes the mutex fair between two users.
* `StopAnswered` needs workers without descendants that hold the pipes
  (`CanFork = FALSE`): the loop waits for the end of both streams.

## 6. Theorems

The theorems hold for every value of the constants that satisfies the assumptions
named at the end of this section: any policy, width of a counter, set of pids, set of
faults, table size, set of configurations, number of threads, blocks, units or bytes.
Every invariant and every action property of a passing run is stated by one of them.
To repeat the proofs of a module: `tlapm GatewayProofs.tla` (the longest, a few
minutes).

Most of the properties are not inductive: whether a step is right depends on what its
thread has established before. Each proof module therefore states an inductive
invariant as a conjunction of named parts, has a lemma that a step keeps it (one case
per action), and draws the properties from it.

### Lifecycle (`ChannelStateProofs`, `ChannelMachineProofs`)

`MachineTypeCorrect`, `RetryBudgetCorrect`, `ExhaustedCorrect`, `ScheduleCorrect`. The
lemmas on what an accepted event does to state, count and delay are used by
`SupervisorProofs` too. `RetryBudget` is inductive together with the types: only
FAILURE reaches BACKOFF or FAILED, and it compares the new count with the budget.

`ScheduleCorrect` is about the loop of `calculate_backoff`. A loop needs an induction;
here it is an argument by the smallest counterexample: `BackoffComputed` shows that
the closed form satisfies the equation of the loop, and that two solutions of it that
differ would differ at a smallest number of failures (`WFMin`), which the equation
refutes. That 2^(n+1) is twice 2^n is taken from the library's theorem on the number of
subsets (`FS_SUBSET`, in `PowerDoubles`), since the provers know nothing of `^`.

### Supervisor and process handle (`SupervisorProofs`)

`SupervisorTypeCorrect`, `SupervisorInvariant`, and from it `SignalsCorrect`,
`OutcomeCorrect`, `ReturnCorrect`, `PublishedCorrect`, `MemoryCorrect`. Whether a
signal may be sent depends on what the handle can be while `gw_process_stop` is in
flight, and the return code on which lifecycle states are possible at each place.
`IInv` says so: `HandleInv` (a handle exists exactly inside an attempt, and a running
one is in the process table), `CallInv` (the stop call is in flight exactly where the
thread waits for it, and until it reaps it works on an unreaped child), `PhaseInv`
(lifecycle state per place, published with every change), `PublishInv` (where nothing
is published).

Three theorems assume that kill and waitpid do not fail
(`Faults \cap {"kill", "wait"} = {}`); without it they are false, because the code
gives up on a worker it cannot signal:

* `NoStrayCorrect`, with `StrayInv`;
* `PublishesCorrect`: the supervisor implements `PublishedWorker`, step by step
  (`ShownStutter`, `ShownReap`, `ShownExit`, `ShownStep`). The metrics model is built
  on this abstract specification, so what `MetricsProofs` shows holds of the threads
  the supervisor model describes;
* `ContractKept`: every step of the supervisor is a step of `ChannelContract` or a
  stutter. The manager model takes its threads from that contract. The proof needs
  `ContractInv` (an attempt is STARTING until its worker has shown progress, and the
  worker is there until its exit was seen) besides `IInv` and `StrayInv`. The fairness of the contract is
  checked by TLC (`ImplementsContract`).

### Manager, main loop, HTTP (`GatewayProofs`)

`GatewayInvariant`, `GatewayTypes`, `OneThreadPerChannel`, `ThreadsCounted`,
`SnapshotsCurrent`, `ReloadsComplete`, `ExitIsOrderly`, `PathsExclusive`. A call under
the lifecycle lock is interrupted between its statements by the supervisor threads,
by signals and by the other caller's attempts to get the lock, so the invariant says
for each place of a call what it has established so far:

* `Control`: the place belongs to the call, the call to the holder of the lock, and
  the HTTP thread exists only between its start and its join;
* `Threading`: a thread exists exactly while `thread_started` is set, runs the channel
  of its entry, and nobody configures or starts an entry that has one;
* `Snapshooting`: what is published is of the entry's channel and generation;
* `Lifetime`: which threads are gone while start, its failure and wait walk the table,
  and what main may rely on after each (an entry the failed start passes over has no
  thread because of `Threading`);
* `Configuration`: which entries are already those of the new configuration and which
  still of the old one while a reload walks the table, then while it adds channels; what
  was loaded has no more channels than the table has entries, by `parse_document`.
  `ConfigurationInForce` is what is left of it when the lock is free;
* `ActiveThreadsExact`, with the thread that is about to be created.

`gw_channel_manager_create` fills the entries in the order of the file; it is written
with the number of enabled channels up to one (`Place`) so that the first
configuration can be reasoned about by cardinalities.

### Metrics (`MetricsProofs`)

`MetricsInvariant`, `GenerationShown`, `WorkerShown`. A reading of a pid leaves traces
in three places: the CPU baseline, the sample on its way, the sample stored. The
invariant follows them: what is there of the pid the thread has or shows is of the
worker it has (`Mine`), a pid that was free for a whole round has left no trace
(`NoTrace`), and one that waits for the end of a round is not read again (`Fading`).
As in `MetricsOfWorker`, this is as long as no pid came round within one round.

### apue

* `AnyTimerProofs`: `TimerInvariant`, `TimersMemorySafe`, `CallsExact`, `CallsOnTime`,
  `WaitersAwaited`.
  The callback and the free in `at_waittimer` are outside every lock. The invariant
  says who may reach a block then: the handler in a callback, whose timer is executing
  and stays in its slot (`Calling`, `Table`), the one thread that waits for a timer
  (`Waits`, `Apart`), and after `module_unload` nobody (`Exit`). `Timing` relates the
  seconds counted down to the sleeps since a timer was added: they differ by at most
  one, which way depends on whether the pass is still to reach its slot (`Ahead`).
* `RelayProofs`: `RelayInvariant`, `RelayCopies`, for all four loops at once. What a
  sink shows, the bytes from `pos` on and what the source holds follow one another.
  `RelayTypes` (`len` is -1 after a read that failed or had nothing to read), and `RelayListens` for the select and poll loops: whenever one waits,
  a machine that can go on has its event among those asked for. The epoll loop does
  not do so, which is finding 3.
* `ComponentProofs`:
  `PoolInvariant`, `TasksOnce` (each number is to come, in the slot, in the hands of
  one worker or done with; the two divisor loops, one up to the root and one up to
  half, both decide primality: `MarkToRoot`, `MarkToHalf`, `MarkIsPrime`);
  `SemInvariant`, `ThreadsThrottled` (the value of the semaphore, the threads at work
  and the unit in main's hand add up to N);
  `RingInvariant`, `LettersWritten` (there is one turn, and until every thread exists
  it is where creation will find it);
  `SignalTimerInvariant`, `TimersSound` (what the table, the caller between its test
  and its store, and the heap know of a timer agree, with an alarm between any two
  steps).
  These three state the safety part of a property that a run checks as a whole
  (`WithinLimit` and `Outlived` of `Throttled`, `LettersInTurn` of `RoundRobin`,
  `CalledOnce` and `TableSound` of `FiresOnce`); the rest of it is liveness.
  `BucketInvariant`, `RateCorrect`. That a race of `token -= n` with the handler only
  loses tokens depends on what the thread has loaded: the value it stores is one the
  bucket still covers (`Amounts`), nobody else is in such a place (`Sole`), and a
  bucket above `burst` is one that is about to be cut (`Full`). How many tokens are in
  the hands of all users changes by what one user takes or gives back (`HandsCounted`,
  `HandChanges`), by the library's theorems on cardinality.

Lost wakeups are where the safety of these programs meets their liveness. That a
program gets on is liveness and left to TLC, but that nobody sleeps while what it
sleeps for is there is an invariant, proved for any number of threads:
`PoolNeverStuck` (main sleeps on a task that a worker is up to take, and no worker
sleeps once the end is issued), `UnitsAwaited` (`mysem_sub`), `RingsNeverHalt` (the
turn is with a thread that exists and is awake), `TokensAwaken` (`mytbf_fetchtoken`),
`WaitersAwaited` (`at_waittimer`).

### Output of a worker (`ComponentProofs`)

`OutputInvariant`: after any reads, parser and line buffer are what `ParserAt` and
`StderrAt` say of the bytes read so far, functions of the text alone; so it does not
matter where the reads ended. `LinesCorrect` follows: the latest record is that of the
last complete one, lines that are too long are one error or one remark, and every other
line is logged once, in its place, as `LogOf` says, which puts the redacted URL in
place of the URL from left to right, or omits the line when there is no room. It holds
of anything a worker can write and of any capacity the URL fits. What is logged depends on
`url_cap`, which stays what it is (`StderrAtKept`).

The code's loops are recursive functions here. That such a function exists and has the
value the loop computes is an induction, which is done as in `ScheduleCorrect`: a set of
counterexamples among the naturals would have a smallest (`LeastNatural`, `Induction`,
`StrongInduction`). One byte is `ConsumeByteKeeps` or `StderrByteKeeps`, a piece
`ConsumeKeeps` or `StderrKeeps`.

`ReadsCorrect` is `ReadsAsWritten` as the run checks it, with the clause on the
password. That clause is not true of every worker: one that writes the password beside
the URL has it logged, since only the URL is replaced, and so has one whose output makes
the URL overlap with itself. The theorem has the hypothesis `SecretApart`: some letter
of the password occurs in what is written to standard error only inside occurrences of
the URL, which do not overlap, and it is not in the redacted URL. TLC evaluates it for
the outputs of the run (`MCSecretApart`).

### Assumptions

Those on the constants, named in the module that declares them: `WidthAssumption`,
`PoliciesAssumption`, `PolicyAssumption`, `ProcessAssumption`, `ManagerAssumption`,
`GatewayAssumption`, `MetricsAssumption`, `RelayAssumption`, `TimerAssumption`,
`PoolAssumption`, `SemaphoreAssumption`, `TurnsAssumption`, `SignalTimerAssumption`,
`BucketAssumption`, `OutputAssumption`. TLC evaluates each of them. Hypotheses of single
theorems are `Faults \cap {"kill", "wait"} = {}` and `SecretApart`, above.

### Only model-checked

* Liveness alone, which is out of the prover's reach: `StopAnswered`, `WatchdogBites`,
  `Recovers`, `MetricsArrive`, `StopHonoured`, `ConnectionsEnd`, `Delivered`, `Ends`,
  `WaitsReturn`, `Unloads`, `FetchReturns`, `Terminates`, the fairness of
  `ImplementsContract` and the liveness in `RoundRobin`, `Throttled` and `FiresOnce`.

## 7. Not modelled

Text: YAML, JSON, HTTP parsing, the browser page, the wording of log lines, FFmpeg
arguments (`pipeline_builder.c`), MediaMTX files. Read-only work without state:
recording status, the fields of `/proc` files, `gateway_metrics`. Scripts and units.
The server skeleton `relayer.c` has functions without bodies. The other exercises of
apue are single-process uses of system calls.

In the models themselves:

* one waiter per timer in `AnyTimer` (two would free it twice), and no callback that
  waits for its own timer (it would block the handler);
* in `SignalTimer` callbacks do not use the library. A timer that fires between the
  tests of `at_canceltimer` and its store has been called although 0 is returned, and
  an alarm between `signal` and `alarm(0)` of `module_unload` ends the process with
  the old disposition: both are in the model, as what the code does;
* `TokenBucket` has one bucket; the table of buckets is only whether it is in it. A
  failing `read` in `main.c` leaves `len` at -1, and `size - len` gives one token more
  back than was taken: `RateKept` names it as an exception;
* an entry of the table that is freed and configured again counts its generations from
  1 again, so that of two first configurations of one entry the generation tells
  nothing (`Metrics`);
* a second worker after a failing kill, a path that two workers share while a reload is
  at work, and a reload that leaves an entry without a thread are what the code does;
  the hazards say so. `PublishesWorker` is stated for kill and waitpid that work.

## 8. Plan

Done, in this order: lifecycle table; process handle and supervisor with their
proofs and the contract; manager and main loop; relays, timers, pools; metrics thread
on what the supervisor publishes; HTTP connections; output lines; token buckets,
semaphore, rings, signal timers; proofs of the lifecycle (schedule included), of the
supervisor and its two refinements, of manager and main loop, of the metrics, of
relays, timers, pool, semaphore, rings, signal timers, token buckets and the output of a
worker; the absence of lost wakeups.

What could follow: the fields of `/proc` files and the rules of `gw_config_validate` as
operators with a reference definition, and the recording status.
