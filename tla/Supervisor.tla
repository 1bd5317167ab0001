----------------------------- MODULE Supervisor -----------------------------
(***************************************************************************)
(* The thread that runs gw_supervisor_run for one channel                  *)
(* (src/channel/supervisor.c): it starts a worker, watches its output and  *)
(* its timeouts, stops it on request, and retries through the lifecycle    *)
(* table.  pc is the place in gw_supervisor_run or, from "clock" to        *)
(* "finish", in the run_worker_attempt it calls.                           *)
(*                                                                         *)
(* Time is a set of timers: a timer that is armed elapses at some later    *)
(* moment and stays elapsed until the code takes a new time stamp.         *)
(***************************************************************************)
EXTENDS ChannelState, ProcessManager

CONSTANTS policy,   \* config->defaults
          Modes     \* the gw_supervisor_options to try

ASSUME PolicyAssumption ==
    /\ policy \in gw_retry_policy
    /\ Modes \subseteq [stop_on_clean_exit : BOOLEAN, exit_on_retry_exhaustion : BOOLEAN]

VARIABLES options,      \* the two one-shot switches of gw_supervisor_options
          stop_signal,  \* has another thread asked this one to stop?
          pc,
          site,         \* which call of gw_process_stop is in flight
          runtime,      \* the gw_channel_runtime
          snapshot,     \* the published gw_channel_snapshot
          attempt,      \* locals of run_worker_attempt and its result
          revents,      \* the streams this round's poll() reported
          timer,        \* the time stamps of the attempt and of the backoff
          result        \* what gw_supervisor_run returned
channelVars == <<options, stop_signal, pc, site, runtime, snapshot, attempt,
                 revents, timer, result>>
vars == <<channelVars, processVars>>

Timers == {"startup", "progress", "stable", "backoff"}
Outcomes == {"PENDING", "CLEAN_EXIT", "WORKER_FAILURE", "STARTUP_TIMEOUT",
             "PROGRESS_TIMEOUT", "STOP_REQUESTED", "INTERNAL_ERROR"}
Terminal == {"CLEAN_EXIT", "STOP_REQUESTED"}

Attempts == [outcome           : Outcomes,
             latest_progress   : BOOLEAN,   \* has a record been parsed?
             received_progress : BOOLEAN,
             stable_reported   : BOOLEAN,
             exited            : BOOLEAN]

NewAttempt == [outcome |-> "INTERNAL_ERROR", latest_progress |-> FALSE,
               received_progress |-> FALSE, stable_reported |-> FALSE,
               exited |-> FALSE]

Snapshots == [runtime      : gw_channel_runtime(policy),
              process_pid  : Pids \cup {NoPid},
              has_progress : BOOLEAN]

ChannelTypeOK ==
    /\ options \in Modes
    /\ stop_signal \in BOOLEAN
    /\ pc \in {"start", "attempt", "clock", "loop", "poll", "stdout", "stderr", "wait",
               "stable", "timeout", "stopping", "cleanup", "finish", "report",
               "conclude", "backoff", "returned"}
    /\ site \in {"none", "clock", "request", "timeout", "cleanup"}
    /\ runtime \in gw_channel_runtime(policy)
    /\ snapshot \in Snapshots
    /\ attempt \in Attempts
    /\ revents \in SUBSET Streams
    /\ timer \in [Timers -> {"off", "running", "elapsed"}]
    /\ result \in {"none", "0", "1"}

TypeOK == ProcessTypeOK /\ ChannelTypeOK

Init ==
    /\ ProcessInit
    /\ options \in Modes
    /\ stop_signal = FALSE
    /\ pc = "start"
    /\ site = "none"
    /\ \E enabled \in BOOLEAN :
          /\ runtime = gw_channel_runtime_init(enabled)
          /\ snapshot = [runtime |-> gw_channel_runtime_init(enabled),
                         process_pid |-> NoPid, has_progress |-> FALSE]
    /\ attempt = NewAttempt
    /\ revents = {}
    /\ timer = [t \in Timers |-> "off"]
    /\ result = "none"

-----------------------------------------------------------------------------
\* Helpers.

Fault(kind) == kind \in Faults
GoTo(label) == pc' = label
Break == GoTo("cleanup")   \* leaves the loop of run_worker_attempt
Arm(ts) == timer' = [t \in Timers |-> IF t \in ts THEN "running" ELSE timer[t]]
timeout_elapsed(t) == timer[t] = "elapsed"

\* The lifecycle table, with config->defaults.
Transition(event) == gw_channel_transition(runtime, event, policy)

\* gw_channel_snapshot_update_runtime and publish_snapshot.
PublishRuntime == snapshot' = [snapshot EXCEPT !.runtime = runtime']

\* gw_supervisor_run returns.
Return(value) == GoTo("returned") /\ result' = value

\* The STOP transition, its publication and the return that follows it.
StopAndReturn ==
    IF Accepts(runtime, "STOP")
    THEN runtime' = Transition("STOP") /\ PublishRuntime /\ Return("0")
    ELSE UNCHANGED <<runtime, snapshot>> /\ Return("1")

-----------------------------------------------------------------------------
\* gw_supervisor_run up to the first attempt: a disabled channel is refused.
Start ==
    /\ pc = "start"
    /\ IF Accepts(runtime, "START")
       THEN /\ runtime' = Transition("START")
            /\ PublishRuntime
            /\ GoTo("attempt")
            /\ UNCHANGED result
       ELSE UNCHANGED <<runtime, snapshot>> /\ Return("1")
    /\ UNCHANGED <<options, stop_signal, site, attempt, revents, timer, processVars>>

\* run_worker_attempt begins: gw_pipeline_build or gw_process_start fails ...
AttemptFails ==
    /\ pc = "attempt"
    /\ \/ Fault("pipeline") /\ attempt' = NewAttempt
       \/ /\ Fault("spawn") \/ FreePids = {}
          /\ attempt' = [NewAttempt EXCEPT !.outcome = "WORKER_FAILURE"]
    /\ GoTo("report")
    /\ UNCHANGED <<options, stop_signal, site, runtime, snapshot, revents, timer, result,
                   processVars>>

\* ... or the worker is spawned.
AttemptSpawns ==
    /\ pc = "attempt"
    /\ \E p \in Pids : gw_process_start(p)
    /\ attempt' = NewAttempt
    /\ GoTo("clock")
    /\ UNCHANGED <<options, stop_signal, site, runtime, snapshot, revents, timer, result>>

\* The first time stamp.  Without it the worker is stopped again; with it the
\* process is published (a new pid drops the progress of the one before).
ClockFails ==
    /\ pc = "clock" /\ Fault("clock")
    /\ StopCall
    /\ site' = "clock" /\ GoTo("stopping")
    /\ UNCHANGED <<options, stop_signal, runtime, snapshot, attempt, revents, timer, result>>

WorkerStarted ==
    /\ pc = "clock"
    /\ snapshot' = [snapshot EXCEPT
                       !.process_pid = process.pid,
                       !.has_progress = @ /\ snapshot.process_pid = process.pid]
    /\ attempt' = [attempt EXCEPT !.outcome = "PENDING"]
    /\ Arm({"startup"})
    /\ GoTo("loop")
    /\ UNCHANGED <<options, stop_signal, site, runtime, revents, result, processVars>>

-----------------------------------------------------------------------------
\* One round of the loop of run_worker_attempt.

LoopEnds == attempt.exited /\ process.open = {}

\* A wrong MustStop: a stop request is heard only until the first record.
MustStopStarting == stop_signal /\ ~ attempt.received_progress /\ ~ attempt.exited

MustStop == stop_signal /\ attempt.outcome = "PENDING" /\ ~ attempt.exited

LoopHead ==
    /\ pc = "loop"
    /\ \/ LoopEnds /\ GoTo("cleanup") /\ UNCHANGED <<site, processVars>>
       \/ ~ LoopEnds /\ MustStop /\ StopCall /\ site' = "request" /\ GoTo("stopping")
       \/ ~ LoopEnds /\ ~ MustStop /\ GoTo("poll") /\ UNCHANGED <<site, processVars>>
    /\ UNCHANGED <<options, stop_signal, runtime, snapshot, attempt, revents, timer, result>>

Poll ==
    /\ pc = "poll"
    /\ \/ Fault("poll") /\ Break /\ UNCHANGED revents
       \/ revents' = {s \in Streams : Readable(s)} /\ GoTo("stdout")
    /\ UNCHANGED <<options, stop_signal, site, runtime, snapshot, attempt, timer, result,
                   processVars>>

\* gw_process_read fails on a stream poll() reported.
ReadFails ==
    /\ pc \in revents \cap Streams /\ Fault("read")
    /\ revents' = {} /\ Break
    /\ UNCHANGED <<options, stop_signal, site, runtime, snapshot, attempt, timer, result,
                   processVars>>

\* Standard output: nothing reported, the end of the stream, or a chunk that does
\* not complete a progress record.
StdoutQuiet ==
    /\ pc = "stdout"
    /\ \/ "stdout" \notin revents /\ UNCHANGED processVars
       \/ "stdout" \in revents /\ (ReadEnd("stdout") \/ ReadChunk("stdout"))
    /\ GoTo("stderr")
    /\ UNCHANGED <<options, stop_signal, site, runtime, snapshot, attempt, revents, timer,
                   result>>

\* A chunk gw_progress_parser_consume refuses, perhaps after it completed a record.
StdoutMalformed ==
    /\ pc = "stdout" /\ "stdout" \in revents /\ Fault("parse")
    /\ ReadChunk("stdout")
    /\ attempt' \in {attempt, [attempt EXCEPT !.latest_progress = TRUE]}
    /\ revents' = {} /\ Break
    /\ UNCHANGED <<options, stop_signal, site, runtime, snapshot, timer, result>>

\* A chunk that completes a record.
RecordWithoutClock ==
    /\ pc = "stdout" /\ "stdout" \in revents /\ Fault("clock")
    /\ ReadChunk("stdout")
    /\ attempt' = [attempt EXCEPT !.latest_progress = TRUE, !.outcome = "INTERNAL_ERROR"]
    /\ revents' = {} /\ Break
    /\ UNCHANGED <<options, stop_signal, site, runtime, snapshot, timer, result>>

FirstRecord ==
    /\ pc = "stdout" /\ "stdout" \in revents /\ ~ attempt.received_progress
    /\ ReadChunk("stdout")
    /\ IF Accepts(runtime, "PROGRESS")
       THEN /\ runtime' = Transition("PROGRESS")
            /\ snapshot' = [snapshot EXCEPT !.runtime = runtime', !.has_progress = TRUE]
            /\ attempt' = [attempt EXCEPT !.latest_progress = TRUE,
                                          !.received_progress = TRUE]
            /\ timer' = [timer EXCEPT !["startup"] = "off", !["progress"] = "running",
                                      !["stable"] = "running"]
            /\ GoTo("stderr")
            /\ UNCHANGED revents
       ELSE /\ attempt' = [attempt EXCEPT !.latest_progress = TRUE,
                                          !.received_progress = TRUE,
                                          !.outcome = "INTERNAL_ERROR"]
            /\ revents' = {} /\ Break
            /\ UNCHANGED <<runtime, snapshot, timer>>
    /\ UNCHANGED <<options, stop_signal, site, result>>

LaterRecord ==
    /\ pc = "stdout" /\ "stdout" \in revents /\ attempt.received_progress
    /\ ReadChunk("stdout")
    /\ snapshot' = [snapshot EXCEPT !.runtime = runtime, !.has_progress = TRUE]
    /\ Arm({"progress"})
    /\ GoTo("stderr")
    /\ UNCHANGED <<options, stop_signal, site, runtime, attempt, revents, result>>

\* Standard error is logged.
Stderr ==
    /\ pc = "stderr"
    /\ \/ "stderr" \notin revents /\ UNCHANGED processVars
       \/ "stderr" \in revents /\ (ReadEnd("stderr") \/ ReadChunk("stderr"))
    /\ revents' = {} /\ GoTo("wait")
    /\ UNCHANGED <<options, stop_signal, site, runtime, snapshot, attempt, timer, result>>

\* gw_process_poll_exit.
WaitExited ==
    /\ pc = "wait" /\ ~ attempt.exited
    /\ gw_process_poll_exit
    /\ attempt' = [attempt EXCEPT !.exited = TRUE]
    /\ GoTo("stable")
    /\ UNCHANGED <<options, stop_signal, site, runtime, snapshot, revents, timer, result>>

WaitAlive ==
    /\ pc = "wait"
    /\ attempt.exited \/ StillAlive
    /\ GoTo("stable")
    /\ UNCHANGED <<options, stop_signal, site, runtime, snapshot, attempt, revents, timer,
                   result, processVars>>

WaitFails ==
    /\ pc = "wait" /\ ~ attempt.exited /\ Fault("wait")
    /\ Break
    /\ UNCHANGED <<options, stop_signal, site, runtime, snapshot, attempt, revents, timer,
                   result, processVars>>

\* STABLE, once per attempt.  (timeout_elapsed is false when the clock fails.)
StableDue ==
    /\ ~ attempt.exited /\ attempt.received_progress /\ ~ attempt.stable_reported
    /\ timeout_elapsed("stable")

NotStable ==
    /\ pc = "stable"
    /\ ~ StableDue \/ Fault("clock")
    /\ GoTo("timeout")
    /\ UNCHANGED <<options, stop_signal, site, runtime, snapshot, attempt, revents, timer,
                   result, processVars>>

Stable ==
    /\ pc = "stable" /\ StableDue
    /\ IF Accepts(runtime, "STABLE")
       THEN /\ runtime' = Transition("STABLE")
            /\ PublishRuntime
            /\ attempt' = [attempt EXCEPT !.stable_reported = TRUE]
            /\ GoTo("timeout")
       ELSE /\ attempt' = [attempt EXCEPT !.outcome = "INTERNAL_ERROR"]
            /\ Break
            /\ UNCHANGED <<runtime, snapshot>>
    /\ UNCHANGED <<options, stop_signal, site, revents, timer, result, processVars>>

\* Startup waits for the first record, a running worker for the next one.
StartupTimedOut ==   \* a wrong TimedOut: progress, once seen, is taken for granted
    /\ ~ attempt.exited /\ attempt.outcome = "PENDING" /\ ~ attempt.received_progress
    /\ timeout_elapsed("startup")

TimedOut ==
    /\ ~ attempt.exited /\ attempt.outcome = "PENDING"
    /\ timeout_elapsed(IF attempt.received_progress THEN "progress" ELSE "startup")

Timeout ==
    /\ pc = "timeout"
    /\ \/ TimedOut /\ StopCall /\ site' = "timeout" /\ GoTo("stopping")
       \/ (~ TimedOut \/ Fault("clock")) /\ GoTo("loop") /\ UNCHANGED <<site, processVars>>
    /\ UNCHANGED <<options, stop_signal, runtime, snapshot, attempt, revents, timer, result>>

-----------------------------------------------------------------------------
\* gw_process_stop runs, and returns to the place that called it.

Stopping ==
    /\ pc = "stopping"
    /\ StopStep
    /\ UNCHANGED channelVars

\* The worker was stopped: the attempt has its outcome and only drains the pipes.
Stopped(outcome) ==
    attempt' = [attempt EXCEPT !.outcome = outcome, !.exited = TRUE]

StopReturns ==
    /\ pc = "stopping" /\ StopReturn
    /\ site' = "none"
    /\ \/ site = "clock" /\ GoTo("finish") /\ UNCHANGED attempt
       \/ site = "request" /\ call = "ok" /\ Stopped("STOP_REQUESTED") /\ GoTo("poll")
       \/ site = "request" /\ call = "error" /\ Break /\ UNCHANGED attempt
       \/ /\ site = "timeout" /\ call = "ok"
          /\ Stopped(IF attempt.received_progress THEN "PROGRESS_TIMEOUT"
                                                  ELSE "STARTUP_TIMEOUT")
          /\ GoTo("loop")
       \/ /\ site = "timeout" /\ call = "error"
          /\ attempt' = [attempt EXCEPT !.outcome = "INTERNAL_ERROR"]
          /\ Break
       \/ site = "cleanup" /\ GoTo("finish") /\ UNCHANGED attempt
    /\ UNCHANGED <<options, stop_signal, runtime, snapshot, revents, timer, result>>

-----------------------------------------------------------------------------
\* Below the loop every path converges on the cleanup.

\* A wrong NeedsStop: only a worker that got going is stopped.
NeedsStopRunning == process.running /\ attempt.received_progress

NeedsStop == process.running

Cleanup ==
    /\ pc = "cleanup"
    /\ \/ NeedsStop /\ StopCall /\ site' = "cleanup" /\ GoTo("stopping")
       \/ ~ NeedsStop /\ GoTo("finish") /\ UNCHANGED <<site, processVars>>
    /\ UNCHANGED <<options, stop_signal, runtime, snapshot, attempt, revents, timer, result>>

\* What an attempt without an outcome of its own comes to once it is reaped.
ExitOutcome ==
    IF process.wait_status = "exit0" /\ options.stop_on_clean_exit
    THEN "CLEAN_EXIT" ELSE "WORKER_FAILURE"

\* The attempt returns; its time stamps are no longer looked at.
Finish ==
    /\ pc = "finish"
    /\ attempt' = [attempt EXCEPT !.outcome =
                      IF gw_process_close_refused THEN "INTERNAL_ERROR"
                      ELSE IF process.reaped /\ @ = "PENDING" THEN ExitOutcome ELSE @]
    /\ gw_process_close
    /\ timer' = [t \in Timers |-> "off"]
    /\ GoTo("report")
    /\ UNCHANGED <<options, stop_signal, site, runtime, snapshot, revents, result>>

\* A wrong Report: the pid of the process that is gone stays published.
ReportKeepsPid ==
    /\ pc = "report"
    /\ snapshot' = [snapshot EXCEPT !.has_progress = @ \/ attempt.latest_progress]
    /\ GoTo("conclude")
    /\ UNCHANGED <<options, stop_signal, site, runtime, attempt, revents, timer, result,
                   processVars>>

\* gw_supervisor_run publishes that the process is gone ...
Report ==
    /\ pc = "report"
    /\ snapshot' = [snapshot EXCEPT !.process_pid = NoPid,
                                    !.has_progress = @ \/ attempt.latest_progress]
    /\ GoTo("conclude")
    /\ UNCHANGED <<options, stop_signal, site, runtime, attempt, revents, timer, result,
                   processVars>>

\* ... and then stops,
ConcludeStop ==
    /\ pc = "conclude" /\ attempt.outcome \in Terminal
    /\ StopAndReturn
    /\ attempt' = NewAttempt
    /\ UNCHANGED <<options, stop_signal, site, revents, timer, processVars>>

GivesUp == runtime'.state = "FAILED" /\ options.exit_on_retry_exhaustion

\* or counts a failure and, unless a one-shot run has no retries left, takes the
\* time stamp of wait_for_backoff (or fails to, which ends the wait like a stop).
ConcludeFailure ==
    /\ pc = "conclude" /\ attempt.outcome \notin Terminal
    /\ attempt' = NewAttempt
    /\ IF ~ Accepts(runtime, "FAILURE")
       THEN Return("1") /\ UNCHANGED <<runtime, snapshot, timer>>
       ELSE /\ runtime' = Transition("FAILURE")
            /\ snapshot' = [snapshot EXCEPT !.runtime = runtime', !.has_progress = FALSE]
            /\ IF GivesUp
               THEN Return("1") /\ UNCHANGED timer
               ELSE Arm({"backoff"}) /\ GoTo("backoff") /\ UNCHANGED result
    /\ UNCHANGED <<options, stop_signal, site, revents, processVars>>

\* wait_for_backoff looks at the clock before it looks at the stop request.
BackoffElapsed ==
    /\ pc = "backoff" /\ timeout_elapsed("backoff")
    /\ IF Accepts(runtime, "BACKOFF_ELAPSED")
       THEN /\ runtime' = Transition("BACKOFF_ELAPSED")
            /\ PublishRuntime
            /\ GoTo("attempt")
            /\ UNCHANGED result
       ELSE UNCHANGED <<runtime, snapshot>> /\ Return("1")
    /\ timer' = [timer EXCEPT !["backoff"] = "off"]
    /\ UNCHANGED <<options, stop_signal, site, attempt, revents, processVars>>

BackoffInterrupted ==
    /\ pc = "backoff"
    /\ Fault("clock") \/ (stop_signal /\ ~ timeout_elapsed("backoff"))
    /\ StopAndReturn
    /\ timer' = [timer EXCEPT !["backoff"] = "off"]
    /\ UNCHANGED <<options, stop_signal, site, attempt, revents, processVars>>

-----------------------------------------------------------------------------
\* Another thread sets the stop signal; it stays set until the thread is joined.
RequestStop ==
    /\ ~ stop_signal /\ stop_signal' = TRUE
    /\ UNCHANGED <<options, pc, site, runtime, snapshot, attempt, revents, timer, result,
                   processVars>>

TimerElapses(t) ==
    /\ timer[t] = "running" /\ timer' = [timer EXCEPT ![t] = "elapsed"]
    /\ UNCHANGED <<options, stop_signal, pc, site, runtime, snapshot, attempt, revents,
                   result, processVars>>

Thread ==
    \/ Start \/ AttemptFails \/ AttemptSpawns \/ ClockFails \/ WorkerStarted
    \/ LoopHead \/ Poll \/ ReadFails \/ StdoutQuiet \/ StdoutMalformed
    \/ RecordWithoutClock \/ FirstRecord \/ LaterRecord \/ Stderr
    \/ WaitExited \/ WaitAlive \/ WaitFails \/ NotStable \/ Stable \/ Timeout
    \/ Stopping \/ StopReturns \/ Cleanup \/ Finish \/ Report
    \/ ConcludeStop \/ ConcludeFailure \/ BackoffElapsed \/ BackoffInterrupted

Clock ==
    \/ \E t \in Timers : TimerElapses(t)
    \/ GraceElapses /\ UNCHANGED channelVars

Next ==
    \/ Thread
    \/ Clock
    \/ RequestStop
    \/ Environment /\ UNCHANGED channelVars

\* The thread is scheduled and clocks advance; nothing is promised of the worker,
\* its descendants or the operator.  wait_for_backoff looks for a stop request
\* every 100 ms of a wait of at least a second: it cannot miss it time after time
\* because the wait was over first.
Fairness ==
    /\ WF_vars(Thread)
    /\ SF_vars(BackoffInterrupted)
    /\ \A t \in Timers : WF_vars(TimerElapses(t))
    /\ WF_vars(GraceElapses /\ UNCHANGED channelVars)

Spec == Init /\ [][Next]_vars
FairSpec == Spec /\ Fairness

-----------------------------------------------------------------------------
\* Every child this thread has forked is the one its handle still owns: no
\* worker outlives its attempt and no zombie is left in the process table, on
\* whichever of the paths out of run_worker_attempt ("every exit path below the
\* loop converges on process and argv cleanup").  It needs kill and waitpid to
\* work; MCSupervisorFaults lets them fail.
NoStrayWorker ==
    \A p \in Pids : worker[p] \in {"alive"} \cup Zombie => p = process.pid /\ process.running

\* kill() in gw_process_stop is only ever aimed at the group of a child that has
\* not been reaped: once waitpid has collected it the kernel may give the pid to
\* somebody else.
SignalsOwnWorker ==
    call \in {"term", "kill"} => worker[process.pid] \in {"alive"} \cup Zombie

\* "One attempt ends with exactly one supervisor-relevant outcome", whichever
\* system call failed on the way.
OneOutcome == pc \in {"report", "conclude"} => attempt.outcome # "PENDING"

\* "Return 0 for clean stop, 1 for terminal channel failure": the code returned
\* agrees with the state published last, and the lifecycle table never refuses
\* an event gw_supervisor_run applies (a refusal also returns 1).
ReturnCode ==
    pc = "returned" =>
       \/ result = "0" /\ snapshot.runtime.state = "STOPPED"
       \/ result = "1" /\ snapshot.runtime.state = "FAILED" /\ options.exit_on_retry_exhaustion
       \/ result = "1" /\ snapshot.runtime.state = "DISABLED"

\* A published state without a worker carries neither the pid nor the progress
\* of the worker that was: HTTP clients and the metrics thread read both.
PublishedAtRest ==
    snapshot.runtime.state \in {"STOPPED", "DISABLED", "BACKOFF", "FAILED"} =>
       /\ snapshot.process_pid = NoPid
       /\ process.pid = NoPid
       /\ snapshot.has_progress => snapshot.runtime.state = "STOPPED"

\* "Failures since the last stable period or manual restart": the count falls
\* only when this attempt's worker has run for stable_run_sec or the channel
\* stops; a worker that merely reports progress keeps it.
FailureMemory ==
    [][runtime'.consecutive_failures < runtime.consecutive_failures
         => \/ attempt'.stable_reported /\ ~ attempt.stable_reported
            \/ runtime'.state = "STOPPED"]_vars

\* gw_process_stop stops "the worker process group": when it has succeeded no
\* member of the group is left.
GroupStopped ==
    pc # "stopping" /\ attempt.outcome \in {"STOP_REQUESTED", "STARTUP_TIMEOUT",
                                           "PROGRESS_TIMEOUT"}
       => process.pid \notin descendants

\* A stop request is answered: gw_supervisor_run returns, whatever the worker
\* does with its signals and whatever the thread is waiting for.
StopAnswered == stop_signal ~> pc = "returned"

\* The startup and progress timeouts: a worker that is left running for ever
\* delivers progress records for ever.
WatchdogBites ==
    <>[](process.running /\ call = "idle") => []<><<FirstRecord \/ LaterRecord>>_vars

\* A daemon does not abandon a channel: BACKOFF and FAILED are left again.
Recovers ==
    options.exit_on_retry_exhaustion = FALSE =>
       (runtime.state \in {"BACKOFF", "FAILED"} ~> runtime.state \in {"STARTING", "STOPPED"})

\* The supervisor implements the channel contract.
Promised == INSTANCE ChannelContract WITH
    Retries    <- policy.max_retries,
    Saturation <- UINT_MAX,
    phase      <- runtime.state,
    failures   <- runtime.consecutive_failures,
    busy       <- \E p \in Pids : worker[p] \in {"alive"} \cup Zombie,
    asked      <- stop_signal,
    done       <- pc = "returned"
ImplementsContract == Promised!Contract

\* The process a reader of the snapshot is shown is the worker this thread spawned
\* last: published after the spawn, never while it owns another, and withdrawn after
\* the reap and before the next spawn.  (A pid that a process of somebody else has
\* taken is free as far as workers go.)
Shown == INSTANCE PublishedWorker WITH
    table     <- [p \in Pids |-> IF worker[p] = "alive" THEN "alive"
                                 ELSE IF worker[p] \in Zombie THEN "zombie" ELSE "free"],
    own       <- process.pid,
    published <- snapshot.process_pid
PublishesWorker == Shown!WorkerSpec
=============================================================================
