-------------------------- MODULE SupervisorProofs --------------------------
(***************************************************************************)
(* The safety of one supervised channel, for every policy, every set of    *)
(* pids and every combination of faults.                                   *)
(***************************************************************************)
EXTENDS Supervisor, ChannelStateProofs

-----------------------------------------------------------------------------
(* Type correctness.                                                       *)

\* What the handle is, and that a collected exit leaves it and the table typed.
Handles == [pid         : Pids \cup {NoPid},
            open        : SUBSET Streams,
            running     : BOOLEAN,
            reaped      : BOOLEAN,
            wait_status : {"none"} \cup Zombie]

\* Reap keeps the handle and the process table well typed.
LEMMA ReapType ==
    ASSUME ProcessTypeOK, Reap
    PROVE  process' \in Handles /\ worker' \in [Pids -> TableEntries]
  <1>1. process \in Handles /\ worker \in [Pids -> TableEntries]
    BY DEF ProcessTypeOK, Handles
  <1>2. process' \in Handles
    BY <1>1 DEF Reap, Handles
  <1>3. worker' \in [Pids -> TableEntries]
    BY <1>1 DEF Reap, TableEntries
  <1> QED BY <1>2, <1>3

\* The calls of process_manager.c, the kernel and the worker keep the process
\* variables well typed.
LEMMA ProcessType ==
    ASSUME ProcessTypeOK,
           \/ \E p \in Pids : gw_process_start(p)
           \/ \E s \in Streams : ReadChunk(s) \/ ReadEnd(s)
           \/ gw_process_poll_exit
           \/ gw_process_close
           \/ StopCall \/ StopStep \/ StopReturn
           \/ GraceElapses \/ Environment
           \/ UNCHANGED processVars
    PROVE  ProcessTypeOK'
  <1> USE ProcessAssumption DEF ProcessTypeOK, Zombie, TableEntries, Streams
  <1>1. ASSUME NEW p \in Pids, gw_process_start(p) PROVE ProcessTypeOK'
    BY <1>1 DEF gw_process_start
  <1>2. ASSUME NEW s \in Streams, ReadChunk(s) PROVE ProcessTypeOK'
    BY <1>2 DEF ReadChunk
  <1>3. ASSUME NEW s \in Streams, ReadEnd(s) PROVE ProcessTypeOK'
    BY <1>3 DEF ReadEnd
  <1>4. CASE gw_process_poll_exit
    BY <1>4, ReapType DEF gw_process_poll_exit, Handles
  <1>5. CASE gw_process_close
    BY <1>5 DEF gw_process_close, gw_process_init
  <1>6. CASE StopCall
    BY <1>6 DEF StopCall
  <1>7. CASE StopStep
    <2>1. CASE StopTerm
      BY <2>1 DEF StopTerm
    <2>2. CASE StopPollExited
      BY <2>2, ReapType DEF StopPollExited, Handles
    <2>3. CASE StopPollFails
      BY <2>3 DEF StopPollFails
    <2>4. CASE StopDeadline
      BY <2>4 DEF StopDeadline
    <2>5. CASE StopKill
      BY <2>5 DEF StopKill
    <2>6. CASE wait_after_kill
      <3>1. CASE Reap
        BY <2>6, <3>1, ReapType DEF wait_after_kill, Handles
      <3>2. CASE ~ Reap
        BY <2>6, <3>2 DEF wait_after_kill
      <3> QED BY <3>1, <3>2
    <2> QED BY <1>7, <2>1, <2>2, <2>3, <2>4, <2>5, <2>6 DEF StopStep
  <1>8. CASE StopReturn
    BY <1>8 DEF StopReturn
  <1>9. CASE GraceElapses
    BY <1>9 DEF GraceElapses
  <1>10. CASE Environment
    <2>1. ASSUME NEW s \in Streams, WorkerWrites(s) PROVE ProcessTypeOK'
      BY <2>1 DEF WorkerWrites
    <2>2. ASSUME NEW s \in Streams, WorkerCloses(s) PROVE ProcessTypeOK'
      BY <2>2 DEF WorkerCloses
    <2>3. ASSUME NEW p \in Pids, NEW status \in Zombie, WorkerExits(p, status)
          PROVE  ProcessTypeOK'
      BY <2>3 DEF WorkerExits
    <2>4. CASE WorkerForks
      BY <2>4 DEF WorkerForks, StillAlive
    <2>5. ASSUME NEW p \in Pids, DescendantExits(p) PROVE ProcessTypeOK'
      BY <2>5 DEF DescendantExits
    <2>6. ASSUME NEW p \in Pids, PidChangesHands(p) PROVE ProcessTypeOK'
      BY <2>6 DEF PidChangesHands
    <2> QED BY <1>10, <2>1, <2>2, <2>3, <2>4, <2>5, <2>6 DEF Environment
  <1>11. CASE UNCHANGED processVars
    BY <1>11 DEF processVars
  <1> QED BY <1>1, <1>2, <1>3, <1>4, <1>5, <1>6, <1>7, <1>8, <1>9, <1>10, <1>11

\* The events gw_supervisor_run applies.
UsedEvents == {"START", "PROGRESS", "FAILURE", "BACKOFF_ELAPSED", "STABLE", "STOP"}

\* They keep the runtime well typed.
LEMMA RuntimeType ==
    ASSUME runtime \in gw_channel_runtime(policy), NEW event \in UsedEvents,
           Accepts(runtime, event)
    PROVE  Transition(event) \in gw_channel_runtime(policy)
  BY PolicyAssumption, TransitionType DEF Transition, UsedEvents, gw_channel_event

\* Each step of the thread keeps its own variables well typed.
LEMMA ThreadType ==
    ASSUME TypeOK, Thread
    PROVE  ChannelTypeOK'
  <1> USE DEF TypeOK, ChannelTypeOK, Attempts, Outcomes, Snapshots, Timers, Streams, NewAttempt,
          GoTo, Break, Arm, Return, PublishRuntime
  <1> HIDE DEF ProcessTypeOK
  <1>0. process.pid \in Pids \cup {NoPid}
    BY DEF ProcessTypeOK
  <1>1. CASE Start
    BY <1>1, RuntimeType DEF Start, UsedEvents
  <1>2. CASE AttemptFails
    <2>1. NewAttempt \in Attempts /\ [NewAttempt EXCEPT !.outcome = "WORKER_FAILURE"] \in Attempts
      OBVIOUS
    <2>2. attempt' \in {NewAttempt, [NewAttempt EXCEPT !.outcome = "WORKER_FAILURE"]}
      BY <1>2, Zenon DEF AttemptFails
    <2> QED BY <1>2, <2>1, <2>2 DEF AttemptFails
  <1>3. CASE AttemptSpawns
    BY <1>3 DEF AttemptSpawns
  <1>4. CASE ClockFails
    BY <1>4 DEF ClockFails
  <1>5. CASE WorkerStarted
    BY <1>0, <1>5 DEF WorkerStarted
  <1>6. CASE LoopHead
    BY <1>6 DEF LoopHead
  <1>7. CASE Poll
    <2>1. revents' \in SUBSET Streams
      BY <1>7 DEF Poll
    <2> QED BY <1>7, <2>1 DEF Poll
  <1>8. CASE ReadFails
    BY <1>8 DEF ReadFails
  <1>9. CASE StdoutQuiet
    BY <1>9 DEF StdoutQuiet
  <1>10. CASE StdoutMalformed
    BY <1>10 DEF StdoutMalformed
  <1>11. CASE RecordWithoutClock
    BY <1>11 DEF RecordWithoutClock
  <1>12. CASE FirstRecord
    <2>1. attempt' \in Attempts
      BY <1>12 DEF FirstRecord
    <2>2. runtime' \in gw_channel_runtime(policy)
      BY <1>12, RuntimeType DEF FirstRecord, UsedEvents
    <2>3. snapshot' \in Snapshots
      BY <1>12, <2>2 DEF FirstRecord
    <2>4. timer' \in [Timers -> {"off", "running", "elapsed"}]
      BY <1>12 DEF FirstRecord
    <2> QED BY <1>12, <2>1, <2>2, <2>3, <2>4 DEF FirstRecord
  <1>13. CASE LaterRecord
    BY <1>13 DEF LaterRecord
  <1>14. CASE Stderr
    BY <1>14 DEF Stderr
  <1>15. CASE WaitExited \/ WaitAlive \/ WaitFails \/ NotStable
    BY <1>15 DEF WaitExited, WaitAlive, WaitFails, NotStable
  <1>16. CASE Stable
    <2>1. attempt' \in Attempts
      BY <1>16 DEF Stable
    <2>2. runtime' \in gw_channel_runtime(policy)
      BY <1>16, RuntimeType DEF Stable, UsedEvents
    <2>3. snapshot' \in Snapshots
      BY <1>16, <2>2 DEF Stable
    <2> QED BY <1>16, <2>1, <2>2, <2>3 DEF Stable
  <1>17. CASE Timeout
    BY <1>17 DEF Timeout
  <1>18. CASE Stopping
    BY <1>18 DEF Stopping, channelVars
  <1>19. CASE StopReturns
    BY <1>19 DEF StopReturns, Stopped
  <1>20. CASE Cleanup
    BY <1>20 DEF Cleanup
  <1>21. CASE Finish
    BY <1>21 DEF Finish, ExitOutcome
  <1>22. CASE Report
    <2>1. snapshot' \in Snapshots
      BY <1>22 DEF Report
    <2> QED BY <1>22, <2>1 DEF Report
  <1>23. CASE ConcludeStop
    BY <1>23, RuntimeType DEF ConcludeStop, StopAndReturn, UsedEvents
  <1>24. CASE ConcludeFailure
    <2>1. runtime' \in gw_channel_runtime(policy)
      BY <1>24, RuntimeType DEF ConcludeFailure, UsedEvents
    <2>2. snapshot' \in Snapshots
      BY <1>24, <2>1 DEF ConcludeFailure
    <2>3. timer' \in [Timers -> {"off", "running", "elapsed"}]
      BY <1>24 DEF ConcludeFailure
    <2>4. pc' \in {"backoff", "returned"} /\ result' \in {"none", "0", "1"}
      BY <1>24 DEF ConcludeFailure
    <2>5. attempt' \in Attempts
      BY <1>24 DEF ConcludeFailure
    <2> QED BY <1>24, <2>1, <2>2, <2>3, <2>4, <2>5 DEF ConcludeFailure
  <1>25. CASE BackoffElapsed
    BY <1>25, RuntimeType DEF BackoffElapsed, UsedEvents
  <1>26. CASE BackoffInterrupted
    BY <1>26, RuntimeType DEF BackoffInterrupted, StopAndReturn, UsedEvents
  <1> QED
    BY <1>1, <1>2, <1>3, <1>4, <1>5, <1>6, <1>7, <1>8, <1>9, <1>10, <1>11, <1>12, <1>13,
       <1>14, <1>15, <1>16, <1>17, <1>18, <1>19, <1>20, <1>21, <1>22, <1>23, <1>24, <1>25,
       <1>26
    DEF Thread

\* Each step of the thread is one of the calls ProcessType knows, or none.
LEMMA ThreadCalls ==
    ASSUME Thread
    PROVE  \/ \E p \in Pids : gw_process_start(p)
           \/ \E s \in Streams : ReadChunk(s) \/ ReadEnd(s)
           \/ gw_process_poll_exit
           \/ gw_process_close
           \/ StopCall \/ StopStep \/ StopReturn
           \/ UNCHANGED processVars
  BY DEF Thread, Start, AttemptFails, AttemptSpawns, ClockFails, WorkerStarted, LoopHead, Poll,
         ReadFails, StdoutQuiet, StdoutMalformed, RecordWithoutClock, FirstRecord, LaterRecord,
         Stderr, WaitExited, WaitAlive, WaitFails, NotStable, Stable, Timeout, Stopping,
         StopReturns,         Cleanup, Finish, Report, ConcludeStop, ConcludeFailure, BackoffElapsed,
         BackoffInterrupted, Streams

\* Every step of the supervisor thread, of the clocks, of the worker and of the
\* thread that asks it to stop keeps the types.
THEOREM SupervisorTypeCorrect == Spec => []TypeOK
  <1>1. Init => TypeOK
    <2> SUFFICES ASSUME Init PROVE TypeOK
      OBVIOUS
    <2>1. ProcessTypeOK
      BY ProcessAssumption
      DEF Init, ProcessInit, ProcessTypeOK, gw_process_init, TableEntries, Zombie, Streams
    <2>2. ChannelTypeOK
      <3>1. PICK enabled \in BOOLEAN :
               /\ runtime = gw_channel_runtime_init(enabled)
               /\ snapshot = [runtime |-> gw_channel_runtime_init(enabled),
                              process_pid |-> NoPid, has_progress |-> FALSE]
        BY DEF Init
      <3>2. runtime \in gw_channel_runtime(policy) /\ snapshot \in Snapshots
        BY <3>1, PolicyAssumption, InitType DEF Snapshots
      <3> QED BY <3>2
      DEF Init, ChannelTypeOK, Attempts, Outcomes, NewAttempt, Snapshots, Timers, Streams
    <2> QED BY <2>1, <2>2 DEF TypeOK
  <1>2. TypeOK /\ [Next]_vars => TypeOK'
    <2> SUFFICES ASSUME TypeOK, [Next]_vars PROVE TypeOK'
      OBVIOUS
    <2>1. CASE Thread
      BY <2>1, ThreadType, ThreadCalls, ProcessType DEF TypeOK
    <2>2. CASE Clock
      <3>1. ASSUME NEW t \in Timers, TimerElapses(t) PROVE TypeOK'
        <4>1. ChannelTypeOK'
          BY <3>1 DEF TimerElapses, TypeOK, ChannelTypeOK, Timers
        <4> QED BY <3>1, <4>1, ProcessType DEF TimerElapses, TypeOK
      <3>2. CASE GraceElapses /\ UNCHANGED channelVars
        <4>1. ChannelTypeOK'
          BY <3>2 DEF TypeOK, ChannelTypeOK, channelVars
        <4> QED BY <3>2, <4>1, ProcessType DEF TypeOK
      <3> QED BY <2>2, <3>1, <3>2 DEF Clock
    <2>3. CASE RequestStop
      <3>1. ChannelTypeOK'
        BY <2>3 DEF RequestStop, TypeOK, ChannelTypeOK
      <3> QED BY <2>3, <3>1, ProcessType DEF RequestStop, TypeOK
    <2>4. CASE Environment /\ UNCHANGED channelVars
      <3>1. ChannelTypeOK'
        BY <2>4 DEF TypeOK, ChannelTypeOK, channelVars
      <3> QED BY <2>4, <3>1, ProcessType DEF TypeOK
    <2>5. CASE UNCHANGED vars
      <3>1. ChannelTypeOK'
        BY <2>5 DEF TypeOK, ChannelTypeOK, channelVars, vars
      <3> QED BY <2>5, <3>1, ProcessType DEF TypeOK, vars
    <2> QED BY <2>1, <2>2, <2>3, <2>4, <2>5 DEF Next
  <1> QED BY <1>1, <1>2, PTL DEF Spec

-----------------------------------------------------------------------------
(* The inductive invariant.  OneOutcome, ReturnCode, SignalsOwnWorker and  *)
(* PublishedAtRest are not inductive: they depend on what the handle, the  *)
(* call of gw_process_stop in flight and the lifecycle state can be at     *)
(* each place of the program.                                              *)

\* The places inside run_worker_attempt where it holds a started process.
InAttempt == {"clock", "loop", "poll", "stdout", "stderr", "wait", "stable", "timeout",
              "stopping", "cleanup", "finish"}

\* A handle is inactive, or it has a child that is running or reaped; a running
\* one is still in the process table.
HandleInv ==
    /\ process.pid = NoPid => ~ process.running
    /\ process.pid # NoPid => (process.running <=> ~ process.reaped)
    /\ process.running => worker[process.pid] \in {"alive"} \cup Zombie
    /\ process.pid # NoPid <=> pc \in InAttempt

\* gw_process_stop is in flight exactly where the thread waits for it, and it
\* works on a child that has not been reaped.
CallInv ==
    /\ pc = "stopping" <=> call # "idle"
    /\ call \in {"term", "grace", "kill", "reap"} => process.running
    /\ call = "ok" => process.reaped

\* The lifecycle state at each place of gw_supervisor_run; it is published
\* together with every change.
PhaseInv ==
    /\ snapshot.runtime = runtime
    /\ pc = "start" => runtime.state \in {"STOPPED", "DISABLED"}
                       /\ runtime.consecutive_failures = 0
    /\ pc \in InAttempt \cup {"attempt", "report", "conclude"} =>
          runtime.state \in {"STARTING", "RUNNING"}
    /\ pc \in InAttempt /\ attempt.received_progress => runtime.state = "RUNNING"
    /\ pc = "backoff" => runtime.state \in {"BACKOFF", "FAILED"}
    /\ ReturnCode

\* Where no process is published, and where no progress is.
PublishInv ==
    /\ pc \in {"start", "attempt", "clock", "conclude", "backoff", "returned"} =>
          snapshot.process_pid = NoPid
    /\ pc \in {"start", "backoff"} => ~ snapshot.has_progress
    /\ pc = "returned" /\ runtime.state # "STOPPED" => ~ snapshot.has_progress

IInv == HandleInv /\ CallInv /\ PhaseInv /\ PublishInv /\ OneOutcome

\* With kill and waitpid working, gw_process_stop never fails, so the cleanup
\* leaves nothing behind.
StrayInv ==
    /\ NoStrayWorker
    /\ call # "error"
    /\ pc = "finish" => ~ process.running

\* The handle and the call in flight, step by step.
LEMMA HandleStep ==
    ASSUME TypeOK, IInv, Thread
    PROVE  HandleInv' /\ CallInv'
  <1> USE ProcessAssumption DEF TypeOK, ProcessTypeOK, IInv, HandleInv, CallInv, InAttempt,
          GoTo, Break, Zombie, TableEntries, processVars
  <1>1. CASE Start
    BY <1>1 DEF Start, Return
  <1>2. CASE AttemptFails
    BY <1>2 DEF AttemptFails
  <1>3. CASE AttemptSpawns
    BY <1>3 DEF AttemptSpawns, gw_process_start, Streams
  <1>4. CASE ClockFails
    BY <1>4 DEF ClockFails, StopCall
  <1>5. CASE WorkerStarted
    BY <1>5 DEF WorkerStarted
  <1>6. CASE LoopHead
    BY <1>6 DEF LoopHead, StopCall
  <1>7. CASE Poll
    BY <1>7 DEF Poll
  <1>8. CASE ReadFails
    BY <1>8 DEF ReadFails, Streams
  <1>9. CASE StdoutQuiet
    BY <1>9 DEF StdoutQuiet, ReadEnd, ReadChunk
  <1>10. CASE StdoutMalformed
    BY <1>10 DEF StdoutMalformed, ReadChunk
  <1>11. CASE RecordWithoutClock
    BY <1>11 DEF RecordWithoutClock, ReadChunk
  <1>12. CASE FirstRecord
    BY <1>12 DEF FirstRecord, ReadChunk
  <1>13. CASE LaterRecord
    BY <1>13 DEF LaterRecord, ReadChunk
  <1>14. CASE Stderr
    BY <1>14 DEF Stderr, ReadEnd, ReadChunk
  <1>15. CASE WaitExited
    BY <1>15 DEF WaitExited, gw_process_poll_exit, Reap
  <1>16. CASE WaitAlive \/ NotStable
    BY <1>16 DEF WaitAlive, NotStable
  <1>17. CASE WaitFails
    BY <1>17 DEF WaitFails
  <1>18. CASE Stable
    BY <1>18 DEF Stable
  <1>19. CASE Timeout
    BY <1>19 DEF Timeout, StopCall
  <1>20. CASE Stopping
    <2> USE <1>20 DEF Stopping, channelVars
    <2>1. CASE StopTerm
      BY <2>1 DEF StopTerm
    <2>2. CASE StopPollExited
      BY <2>2 DEF StopPollExited, Reap
    <2>3. CASE StopPollFails
      BY <2>3 DEF StopPollFails
    <2>4. CASE StopDeadline
      BY <2>4 DEF StopDeadline
    <2>5. CASE StopKill
      BY <2>5 DEF StopKill
    <2>6. CASE wait_after_kill
      BY <2>6 DEF wait_after_kill, Reap
    <2> QED BY <2>1, <2>2, <2>3, <2>4, <2>5, <2>6 DEF StopStep
  <1>21. CASE StopReturns
    BY <1>21 DEF StopReturns, StopReturn, Stopped
  <1>22. CASE Cleanup
    BY <1>22 DEF Cleanup, StopCall
  <1>23. CASE Finish
    BY <1>23 DEF Finish, gw_process_close, gw_process_init, Streams
  <1>24. CASE Report
    BY <1>24 DEF Report
  <1>25. CASE ConcludeStop
    BY <1>25 DEF ConcludeStop, StopAndReturn, Return
  <1>26. CASE ConcludeFailure
    BY <1>26 DEF ConcludeFailure, Return
  <1>27. CASE BackoffElapsed
    BY <1>27 DEF BackoffElapsed, Return
  <1>28. CASE BackoffInterrupted
    BY <1>28 DEF BackoffInterrupted, StopAndReturn, Return
  <1> QED
    BY <1>1, <1>2, <1>3, <1>4, <1>5, <1>6, <1>7, <1>8, <1>9, <1>10, <1>11, <1>12, <1>13, <1>14, <1>15, <1>16, <1>17, <1>18, <1>19, <1>20, <1>21, <1>22, <1>23, <1>24, <1>25, <1>26, <1>27, <1>28
    DEF Thread

\* The lifecycle state, what is published and the outcome, step by step.
LEMMA PhaseStep ==
    ASSUME TypeOK, IInv, Thread
    PROVE  PhaseInv' /\ PublishInv' /\ OneOutcome'
  <1> USE DEF TypeOK, ChannelTypeOK, Attempts, Snapshots, IInv, PhaseInv, PublishInv, OneOutcome,
          ReturnCode, InAttempt, GoTo, Break, NewAttempt
  <1>0. policy \in gw_retry_policy /\ runtime \in gw_channel_runtime(policy)
    BY PolicyAssumption
  <1>1. CASE Start
    BY <1>1, <1>0, EventFacts DEF Start, Return, PublishRuntime, Transition
  <1>2. CASE AttemptFails
    BY <1>2 DEF AttemptFails
  <1>3. CASE AttemptSpawns
    BY <1>3 DEF AttemptSpawns
  <1>4. CASE ClockFails
    BY <1>4 DEF ClockFails
  <1>5. CASE WorkerStarted
    BY <1>5 DEF WorkerStarted
  <1>6. CASE LoopHead
    BY <1>6 DEF LoopHead
  <1>7. CASE Poll
    BY <1>7 DEF Poll
  <1>8. CASE ReadFails
    BY <1>8 DEF ReadFails, Streams
  <1>9. CASE StdoutQuiet
    BY <1>9 DEF StdoutQuiet
  <1>10. CASE StdoutMalformed
    BY <1>10 DEF StdoutMalformed
  <1>11. CASE RecordWithoutClock
    BY <1>11 DEF RecordWithoutClock
  <1>12. CASE FirstRecord
    <2>1. pc = "stdout" /\ runtime.state \in {"STARTING", "RUNNING"}
      BY <1>12 DEF FirstRecord
    <2>2. Accepts(runtime, "PROGRESS") /\ Transition("PROGRESS").state = "RUNNING"
      BY <1>0, <2>1, EventFacts DEF Transition
    <2>3. /\ runtime' = Transition("PROGRESS") /\ pc' = "stderr"
          /\ snapshot'.runtime = runtime'
      BY <1>12, <2>2 DEF FirstRecord
    <2> QED BY <2>2, <2>3
  <1>13. CASE LaterRecord
    BY <1>13 DEF LaterRecord
  <1>14. CASE Stderr
    BY <1>14 DEF Stderr
  <1>15. CASE WaitExited
    BY <1>15 DEF WaitExited
  <1>16. CASE WaitAlive \/ NotStable
    BY <1>16 DEF WaitAlive, NotStable
  <1>17. CASE WaitFails
    BY <1>17 DEF WaitFails
  <1>18. CASE Stable
    BY <1>18, <1>0, EventFacts DEF Stable, StableDue, PublishRuntime, Transition
  <1>19. CASE Timeout
    BY <1>19 DEF Timeout
  <1>20. CASE Stopping
    BY <1>20 DEF Stopping, channelVars
  <1>21. CASE StopReturns
    BY <1>21 DEF StopReturns, Stopped
  <1>22. CASE Cleanup
    BY <1>22 DEF Cleanup
  <1>23. CASE Finish
    BY <1>23 DEF Finish, ExitOutcome, gw_process_close_refused, HandleInv
  <1>24. CASE Report
    BY <1>24 DEF Report
  <1>25. CASE ConcludeStop
    BY <1>25, <1>0, EventFacts DEF ConcludeStop, StopAndReturn, Return, PublishRuntime, Transition, Terminal
  <1>26. CASE ConcludeFailure
    BY <1>26, <1>0, EventFacts DEF ConcludeFailure, Return, GivesUp, Transition
  <1>27. CASE BackoffElapsed
    BY <1>27, <1>0, EventFacts DEF BackoffElapsed, Return, PublishRuntime, Transition
  <1>28. CASE BackoffInterrupted
    BY <1>28, <1>0, EventFacts DEF BackoffInterrupted, StopAndReturn, Return, PublishRuntime, Transition
  <1> QED
    BY <1>1, <1>2, <1>3, <1>4, <1>5, <1>6, <1>7, <1>8, <1>9, <1>10, <1>11, <1>12, <1>13, <1>14, <1>15, <1>16, <1>17, <1>18, <1>19, <1>20, <1>21, <1>22, <1>23, <1>24, <1>25, <1>26, <1>27, <1>28
    DEF Thread

\* The worker, its descendants, the clocks and the operator leave the place of
\* the program alone, and a running worker stays in the process table until it
\* is reaped.
LEMMA OtherStep ==
    ASSUME TypeOK, IInv,
           \/ Clock \/ RequestStop
           \/ Environment /\ UNCHANGED channelVars
           \/ UNCHANGED vars
    PROVE  IInv'
  <1> USE DEF IInv, HandleInv, CallInv, PhaseInv, PublishInv, OneOutcome, ReturnCode, channelVars
  <1>1. CASE Clock
    BY <1>1 DEF Clock, TimerElapses, GraceElapses, processVars
  <1>2. CASE RequestStop
    BY <1>2 DEF RequestStop, processVars
  <1>3. CASE Environment /\ UNCHANGED channelVars
    <2> USE <1>3
    <2>1. process' = process /\ call' = call
      BY DEF Environment, WorkerWrites, WorkerCloses, WorkerExits, WorkerForks, DescendantExits,
             PidChangesHands
    <2>2. process.running => worker'[process.pid] \in {"alive"} \cup Zombie
      BY ProcessAssumption
      DEF Environment, WorkerWrites, WorkerCloses, WorkerExits, WorkerForks, DescendantExits,
          PidChangesHands, FreePids, Zombie, TypeOK, ProcessTypeOK, TableEntries
    <2> QED BY <2>1, <2>2
  <1>4. CASE UNCHANGED vars
    BY <1>4 DEF vars, processVars
  <1> QED BY <1>1, <1>2, <1>3, <1>4

\* The invariant holds in every reachable state.
THEOREM SupervisorInvariant == Spec => []IInv
  <1>1. Init => IInv
    <2> SUFFICES ASSUME Init PROVE IInv
      OBVIOUS
    <2>1. runtime.state \in {"STOPPED", "DISABLED"} /\ snapshot.runtime = runtime
          /\ runtime.consecutive_failures = 0
          /\ snapshot.process_pid = NoPid /\ ~ snapshot.has_progress
      BY DEF Init, gw_channel_runtime_init
    <2> QED BY <2>1
      DEF Init, ProcessInit, gw_process_init, IInv, HandleInv, CallInv, PhaseInv, PublishInv,
          OneOutcome, ReturnCode, InAttempt
  <1>2. TypeOK /\ IInv /\ [Next]_vars => IInv'
    BY HandleStep, PhaseStep, OtherStep DEF Next, IInv
  <1> QED BY <1>1, <1>2, SupervisorTypeCorrect, PTL DEF Spec

-----------------------------------------------------------------------------
(* What follows from it.                                                   *)

\* gw_process_stop never signals a pid it has already given back to the kernel,
\* whatever fails.
THEOREM SignalsCorrect == Spec => []SignalsOwnWorker
  <1>1. IInv => SignalsOwnWorker
    BY DEF IInv, HandleInv, CallInv, SignalsOwnWorker
  <1> QED BY <1>1, SupervisorInvariant, PTL

\* Every attempt ends with an outcome, whatever fails.
THEOREM OutcomeCorrect == Spec => []OneOutcome
  <1>1. IInv => OneOutcome
    BY DEF IInv
  <1> QED BY <1>1, SupervisorInvariant, PTL

\* The code gw_supervisor_run returns agrees with the state it published last;
\* the lifecycle table refuses none of its events.
THEOREM ReturnCorrect == Spec => []ReturnCode
  <1>1. IInv => ReturnCode
    BY DEF IInv, PhaseInv
  <1> QED BY <1>1, SupervisorInvariant, PTL

\* A published state at rest carries no pid and no stale progress.
THEOREM PublishedCorrect == Spec => []PublishedAtRest
  <1>1. TypeOK /\ IInv => PublishedAtRest
    <2> SUFFICES ASSUME TypeOK, IInv,
                        runtime.state \in {"STOPPED", "DISABLED", "BACKOFF", "FAILED"}
                 PROVE  /\ snapshot.process_pid = NoPid
                        /\ process.pid = NoPid
                        /\ snapshot.has_progress => runtime.state = "STOPPED"
      BY DEF PublishedAtRest, IInv, PhaseInv
    <2>1. pc \in {"start", "backoff", "returned"}
      BY DEF IInv, PhaseInv, InAttempt, TypeOK, ChannelTypeOK
    <2> QED BY <2>1 DEF IInv, HandleInv, PublishInv, InAttempt
  <1> QED BY <1>1, SupervisorInvariant, SupervisorTypeCorrect, PTL

\* The failure count is lowered only by a stable worker or by a stop.
THEOREM MemoryCorrect == Spec => FailureMemory
  <1> DEFINE Kept == \/ attempt'.stable_reported /\ ~ attempt.stable_reported
                     \/ runtime'.state = "STOPPED"
             Falls == runtime'.consecutive_failures < runtime.consecutive_failures
  <1>1. ASSUME TypeOK, IInv, Thread, Falls PROVE Kept
    <2> USE <1>1
    <2>1. policy \in gw_retry_policy /\ runtime \in gw_channel_runtime(policy)
      BY PolicyAssumption DEF TypeOK, ChannelTypeOK
    <2>2. runtime.consecutive_failures \in Int
      BY <2>1 DEF gw_channel_runtime
    <2>3. runtime' # runtime
      BY <2>2
    <2>4. CASE Start
      <3>1. runtime.consecutive_failures = 0 /\ runtime' \in gw_channel_runtime(policy)
        BY <2>3, <2>4, RuntimeType, ThreadType DEF Start, IInv, PhaseInv, ChannelTypeOK
      <3>2. runtime'.consecutive_failures \in Nat
        BY <3>1, WidthAssumption DEF gw_channel_runtime
      <3> QED BY <3>1, <3>2
    <2>5. CASE FirstRecord
      BY <2>1, <2>2, <2>3, <2>5, CountFacts DEF FirstRecord, Transition
    <2>6. CASE Stable
      <3>1. StableDue /\ attempt' = [attempt EXCEPT !.stable_reported = TRUE]
        BY <2>3, <2>6 DEF Stable
      <3>2. attempt'.stable_reported /\ ~ attempt.stable_reported
        BY <3>1 DEF StableDue, TypeOK, ChannelTypeOK, Attempts
      <3> QED BY <3>2
    <2>7. CASE ConcludeStop \/ BackoffInterrupted
      BY <2>1, <2>3, <2>7, EventFacts
      DEF ConcludeStop, BackoffInterrupted, StopAndReturn, Transition, IInv, PhaseInv, InAttempt
    <2>8. CASE ConcludeFailure
      <3>1. runtime' = Transition("FAILURE") /\ Accepts(runtime, "FAILURE")
        BY <2>3, <2>8 DEF ConcludeFailure
      <3>2. runtime'.consecutive_failures \in Int
        <4>1. runtime' \in gw_channel_runtime(policy)
          BY <2>1, <3>1, RuntimeType DEF UsedEvents
        <4> QED BY <4>1 DEF gw_channel_runtime
      <3> QED BY <2>1, <2>2, <3>1, <3>2, CountFacts DEF Transition
    <2>9. CASE BackoffElapsed
      BY <2>1, <2>2, <2>3, <2>9, CountFacts DEF BackoffElapsed, Transition
    <2> QED
      BY <2>3, <2>4, <2>5, <2>6, <2>7, <2>8, <2>9
      DEF Thread, AttemptFails, AttemptSpawns, ClockFails, WorkerStarted, LoopHead, Poll,
          ReadFails, StdoutQuiet, StdoutMalformed, RecordWithoutClock, LaterRecord, Stderr,
          WaitExited, WaitAlive, WaitFails, NotStable, Timeout, Stopping, StopReturns, Cleanup, Finish,
          Report, channelVars
  <1>2. ASSUME TypeOK, Falls, Next PROVE Thread
    <2>1. runtime' # runtime
      BY <1>2, PolicyAssumption DEF TypeOK, ChannelTypeOK, gw_channel_runtime
    <2> QED BY <1>2, <2>1 DEF Next, Clock, TimerElapses, RequestStop, channelVars
  <1>3. TypeOK /\ IInv /\ [Next]_vars => [Falls => Kept]_vars
    BY <1>1, <1>2
  <1> QED BY <1>3, SupervisorInvariant, SupervisorTypeCorrect, PTL DEF Spec, FailureMemory

-----------------------------------------------------------------------------
\* Each step keeps the process table clean when kill and waitpid work.
LEMMA StrayStep ==
    ASSUME Faults \cap {"kill", "wait"} = {}, TypeOK, IInv, StrayInv, [Next]_vars
    PROVE  StrayInv'
  <1> USE ProcessAssumption DEF StrayInv, NoStrayWorker, Zombie
  <1>0. "kill" \notin Faults /\ "wait" \notin Faults
    OBVIOUS
  <1>1. CASE Start \/ AttemptFails \/ WorkerStarted \/ Poll \/ ReadFails \/ WaitAlive \/ WaitFails \/
             NotStable \/ Stable \/ Report \/ ConcludeStop \/ ConcludeFailure \/ BackoffElapsed \/
             BackoffInterrupted
    BY <1>1
    DEF Start, AttemptFails, WorkerStarted, Poll, ReadFails, WaitAlive, WaitFails, NotStable,
        Stable, Report, ConcludeStop, ConcludeFailure, BackoffElapsed, BackoffInterrupted,
        StopAndReturn, Return, GoTo, Break, processVars
  <1>2. CASE StdoutQuiet \/ StdoutMalformed \/ RecordWithoutClock \/ FirstRecord \/ LaterRecord \/
             Stderr
    <2>1. process'.pid = process.pid /\ process'.running = process.running
          /\ worker' = worker /\ call' = call
      BY <1>2
      DEF StdoutQuiet, StdoutMalformed, RecordWithoutClock, FirstRecord, LaterRecord, Stderr,
          ReadChunk, ReadEnd, processVars, TypeOK, ProcessTypeOK
    <2>2. pc' # "finish"
      BY <1>2
      DEF StdoutQuiet, StdoutMalformed, RecordWithoutClock, FirstRecord, LaterRecord, Stderr, GoTo, Break
    <2> QED BY <2>1, <2>2
  <1>3. CASE ClockFails \/ LoopHead \/ Timeout \/ Cleanup
    <2>1. process' = process /\ worker' = worker
      BY <1>3 DEF ClockFails, LoopHead, Timeout, Cleanup, StopCall, processVars
    <2>2. process.pid # NoPid
      BY <1>3 DEF ClockFails, LoopHead, Timeout, Cleanup, IInv, HandleInv, InAttempt
    <2>3. call' # "error"
      BY <1>3, <2>2 DEF ClockFails, LoopHead, Timeout, Cleanup, StopCall, processVars
    <2>4. pc' = "finish" => ~ process.running
      BY <1>3 DEF ClockFails, LoopHead, Timeout, Cleanup, NeedsStop, GoTo
    <2> QED BY <2>1, <2>3, <2>4
  <1>4. CASE AttemptSpawns
    <2>1. pc = "attempt" /\ pc' = "clock" /\ call' = call
      BY <1>4 DEF AttemptSpawns, gw_process_start, GoTo
    <2>2. \A p \in Pids : worker[p] \notin {"alive"} \cup Zombie
      BY <2>1 DEF IInv, HandleInv, InAttempt
    <2>3. PICK p \in Pids : gw_process_start(p)
      BY <1>4 DEF AttemptSpawns
    <2>4. process'.pid = p /\ process'.running /\ worker' = [worker EXCEPT ![p] = "alive"]
      BY <2>3 DEF gw_process_start
    <2> QED BY <2>1, <2>2, <2>4 DEF TypeOK, ProcessTypeOK
  <1>5. CASE WaitExited
    <2>1. pc' = "stable" /\ call' = call /\ Reap
      BY <1>5 DEF WaitExited, gw_process_poll_exit, GoTo
    <2> QED BY <2>1 DEF Reap, TypeOK, ProcessTypeOK
  <1>6. CASE Stopping
    <2>1. pc' = "stopping" /\ pc = "stopping" /\ process.pid \in Pids
      BY <1>6 DEF Stopping, channelVars, IInv, HandleInv, InAttempt, TypeOK, ProcessTypeOK
    <2>2. CASE StopTerm \/ StopPollFails \/ StopDeadline
      BY <2>1, <2>2, <1>0 DEF StopTerm, StopPollFails, StopDeadline
    <2>3. CASE StopPollExited \/ wait_after_kill
      <3>1. Reap /\ call' = "ok"
        BY <2>3, <1>0 DEF StopPollExited, wait_after_kill
      <3> QED BY <2>1, <3>1 DEF Reap, TypeOK, ProcessTypeOK
    <2>4. CASE StopKill
      BY <2>1, <2>4, <1>0 DEF StopKill, TypeOK, ProcessTypeOK
    <2> QED BY <1>6, <2>2, <2>3, <2>4 DEF Stopping, StopStep
  <1>7. CASE StopReturns
    <2>1. process' = process /\ worker' = worker /\ call' = "idle"
      BY <1>7 DEF StopReturns, StopReturn
    <2>2. ~ process.running
      BY <1>7 DEF StopReturns, StopReturn, IInv, HandleInv, CallInv, InAttempt
    <2> QED BY <2>1, <2>2
  <1>8. CASE Finish
    <2>1. \A p \in Pids : worker[p] \notin {"alive"} \cup Zombie
      BY <1>8 DEF Finish
    <2>2. worker' = worker /\ call' = call /\ pc' = "report"
      BY <1>8 DEF Finish, gw_process_close, GoTo
    <2> QED BY <2>1, <2>2
  <1>9. CASE Clock \/ RequestStop \/ UNCHANGED vars
    BY <1>9 DEF Clock, TimerElapses, GraceElapses, RequestStop, vars, processVars, channelVars
  <1>10. CASE Environment /\ UNCHANGED channelVars
    <2>1. pc' = pc /\ process' = process /\ call' = call
      BY <1>10
      DEF Environment, WorkerWrites, WorkerCloses, WorkerExits, WorkerForks, DescendantExits,
          PidChangesHands, channelVars
    <2>2. \A p \in Pids : worker'[p] \in {"alive"} \cup Zombie => worker[p] \in {"alive"} \cup Zombie
      BY <1>10
      DEF Environment, WorkerWrites, WorkerCloses, WorkerExits, WorkerForks, DescendantExits,
          PidChangesHands, TypeOK, ProcessTypeOK, TableEntries
    <2> QED BY <2>1, <2>2
  <1> QED
    BY <1>1, <1>2, <1>3, <1>4, <1>5, <1>6, <1>7, <1>8, <1>9, <1>10 DEF Next, Thread

\* If kill and waitpid work, every child the supervisor has started is the one
\* its handle owns, on every path through run_worker_attempt.
THEOREM NoStrayCorrect ==
    ASSUME Faults \cap {"kill", "wait"} = {}
    PROVE  Spec => []NoStrayWorker
  <1>1. Init => StrayInv
    BY DEF Init, ProcessInit, StrayInv, NoStrayWorker, Zombie
  <1>2. TypeOK /\ IInv /\ StrayInv /\ [Next]_vars => StrayInv'
    BY StrayStep
  <1>3. StrayInv => NoStrayWorker
    BY DEF StrayInv
  <1> QED BY <1>1, <1>2, <1>3, SupervisorInvariant, SupervisorTypeCorrect, PTL DEF Spec

-----------------------------------------------------------------------------
(* The supervisor implements PublishedWorker.                              *)

\* The process table as the readers of the snapshot know it.
Table == [p \in Pids |-> IF worker[p] = "alive" THEN "alive"
                         ELSE IF worker[p] \in Zombie THEN "zombie" ELSE "free"]

\* A step that moves neither the table nor the two pids.
LEMMA ShownStutter ==
    ASSUME \A p \in Pids : Table'[p] = Table[p], process'.pid = process.pid,
           snapshot'.process_pid = snapshot.process_pid
    PROVE  UNCHANGED Shown!workerVars
  <1>1. Table' = Table
    BY DEF Table
  <1> QED
    BY <1>1 DEF Table, Shown!workerVars

\* waitpid collects the worker of the handle.
LEMMA ShownReap ==
    ASSUME TypeOK, Reap, process.pid \in Pids, UNCHANGED snapshot
    PROVE  Shown!Reap
  <1>1. PICK q \in Pids : q = process.pid
    OBVIOUS
  <1>2. /\ process'.pid = q /\ worker' = [worker EXCEPT ![q] = "free"] /\ worker[q] \in Zombie
        /\ worker \in [Pids -> TableEntries] /\ q # NoPid
    BY <1>1, ProcessAssumption DEF Reap, TypeOK, ProcessTypeOK
  <1>3. Table' = [Table EXCEPT ![q] = "free"] /\ Table[q] = "zombie"
    BY <1>2 DEF Table, Zombie, TableEntries
  <1> QED
    BY <1>1, <1>2, <1>3 DEF Shown!Reap, Table

\* The worker of any pid ends.
LEMMA ShownExit ==
    ASSUME TypeOK, NEW q \in Pids, worker[q] = "alive", NEW status \in Zombie,
           worker' = [worker EXCEPT ![q] = status],
           process'.pid = process.pid, UNCHANGED snapshot
    PROVE  Shown!WorkerExits(q)
  <1>1. Table' = [Table EXCEPT ![q] = "zombie"] /\ Table[q] = "alive"
    BY DEF Table, Zombie, TypeOK, ProcessTypeOK, TableEntries
  <1> QED
    BY <1>1 DEF Shown!WorkerExits, Table

LEMMA ShownStep ==
    ASSUME Faults \cap {"kill", "wait"} = {}, TypeOK, IInv, StrayInv, [Next]_vars
    PROVE  Shown!WorkerNext \/ UNCHANGED Shown!workerVars
  <1>1. "kill" \notin Faults /\ "wait" \notin Faults
    OBVIOUS
  <1>2. ASSUME UNCHANGED worker, process'.pid = process.pid,
               snapshot'.process_pid = snapshot.process_pid
        PROVE  UNCHANGED Shown!workerVars
    BY <1>2, ShownStutter DEF Table
  <1>3. ASSUME Reap, process.pid \in Pids, UNCHANGED snapshot
        PROVE  Shown!WorkerNext
    BY <1>3, ShownReap DEF Shown!WorkerNext
  <1>4. CASE \/ Start \/ AttemptFails \/ ClockFails \/ LoopHead \/ Poll \/ ReadFails
             \/ WaitAlive \/ WaitFails \/ NotStable \/ Stable \/ Timeout \/ StopReturns
             \/ Cleanup \/ ConcludeStop \/ ConcludeFailure \/ BackoffElapsed \/ BackoffInterrupted
             \/ Clock \/ RequestStop \/ UNCHANGED vars
    <2>1. UNCHANGED <<worker, process>>
      BY <1>4 DEF Start, AttemptFails, ClockFails, LoopHead, Poll, ReadFails, WaitAlive,
         WaitFails, NotStable, Stable, Timeout, StopReturns, Cleanup, ConcludeStop,
         ConcludeFailure, BackoffElapsed, BackoffInterrupted, Clock, TimerElapses, GraceElapses,
         RequestStop, vars, StopCall, StopReturn, processVars
    <2>2. snapshot'.process_pid = snapshot.process_pid
      BY <1>4 DEF Start, AttemptFails, ClockFails, LoopHead, Poll, ReadFails, WaitAlive,
         WaitFails, NotStable, Stable, Timeout, StopReturns, Cleanup, ConcludeStop,
         ConcludeFailure, BackoffElapsed, BackoffInterrupted, Clock, TimerElapses, GraceElapses,
         RequestStop, vars, channelVars, StopAndReturn, PublishRuntime, Return, TypeOK,
         ChannelTypeOK, Snapshots
    <2> QED
      BY <1>2, <2>1, <2>2
  <1>5. CASE StdoutQuiet \/ StdoutMalformed \/ RecordWithoutClock \/ FirstRecord \/ LaterRecord \/
             Stderr
    <2>1. UNCHANGED worker /\ process'.pid = process.pid
      BY <1>5 DEF StdoutQuiet, StdoutMalformed, RecordWithoutClock, FirstRecord, LaterRecord,
         Stderr, ReadChunk, ReadEnd, processVars, TypeOK, ProcessTypeOK
    <2>2. snapshot'.process_pid = snapshot.process_pid
      BY <1>5 DEF StdoutQuiet, StdoutMalformed, RecordWithoutClock, FirstRecord, LaterRecord,
         Stderr, TypeOK, ChannelTypeOK, Snapshots
    <2> QED
      BY <1>2, <2>1, <2>2
  <1>6. CASE AttemptSpawns
    <2>1. PICK q \in Pids : gw_process_start(q)
      BY <1>6 DEF AttemptSpawns
    <2>2. /\ process.pid = NoPid /\ snapshot.process_pid = NoPid /\ UNCHANGED snapshot
      BY <1>6 DEF AttemptSpawns, IInv, HandleInv, PublishInv, InAttempt
    <2>3. process'.pid = q /\ worker[q] = "free" /\ worker' = [worker EXCEPT ![q] = "alive"]
      BY <2>1 DEF gw_process_start, FreePids
    <2>4. Table' = [Table EXCEPT ![q] = "alive"] /\ Table[q] = "free"
      BY <2>3 DEF Table, TypeOK, ProcessTypeOK, Zombie
    <2>5. Shown!Spawn(q)
      BY <2>2, <2>3, <2>4 DEF Shown!Spawn, Table
    <2> QED
      BY <2>5 DEF Shown!WorkerNext
  <1>7. CASE WorkerStarted
    <2>1. /\ process.pid # NoPid /\ snapshot.process_pid = NoPid /\ UNCHANGED <<worker, process>>
          /\ snapshot'.process_pid = process.pid
      BY <1>7 DEF WorkerStarted, IInv, HandleInv, PublishInv, InAttempt, processVars, TypeOK,
         ChannelTypeOK, Snapshots
    <2>2. Shown!Publish
      BY <2>1 DEF Shown!Publish
    <2> QED
      BY <2>2 DEF Shown!WorkerNext
  <1>8. CASE WaitExited
    <2>1. process.pid \in Pids /\ Reap /\ UNCHANGED snapshot
      BY <1>8 DEF WaitExited, gw_process_poll_exit, IInv, HandleInv, InAttempt, TypeOK,
         ProcessTypeOK
    <2> QED
      BY <1>3, <2>1
  <1>9. CASE Stopping
    <2>1. process.pid \in Pids /\ UNCHANGED snapshot
      BY <1>9 DEF Stopping, channelVars, IInv, HandleInv, InAttempt, TypeOK, ProcessTypeOK
    <2>2. CASE StopTerm \/ StopPollFails \/ StopDeadline
      BY <1>2, <2>1, <2>2 DEF StopTerm, StopPollFails, StopDeadline
    <2>3. CASE StopPollExited \/ wait_after_kill
      BY <1>1, <1>3, <2>1, <2>3 DEF StopPollExited, wait_after_kill
    <2>4. CASE StopKill
      <3>1. PICK q \in Pids : q = process.pid
        BY <2>1
      <3>2. /\ worker' = [worker EXCEPT ![q] = IF @ = "alive" THEN "exit1" ELSE @]
            /\ UNCHANGED process
        BY <1>1, <2>4, <3>1 DEF StopKill
      <3>3. CASE worker[q] = "alive"
        <4>1. worker' = [worker EXCEPT ![q] = "exit1"] /\ "exit1" \in Zombie
          BY <3>2, <3>3 DEF Zombie
        <4>2. Shown!WorkerExits(q)
          BY <2>1, <3>2, <3>3, <4>1, ShownExit
        <4> QED
          BY <4>2 DEF Shown!WorkerNext
      <3>4. CASE worker[q] # "alive"
        <4>1. worker' = worker
          BY <3>2, <3>4 DEF TypeOK, ProcessTypeOK
        <4> QED
          BY <1>2, <2>1, <3>2, <4>1
      <3> QED
        BY <3>3, <3>4
    <2> QED
      BY <1>9, <2>2, <2>3, <2>4 DEF Stopping, StopStep
  <1>10. CASE Finish
    <2>1. PICK q \in Pids : q = process.pid
      BY <1>10 DEF Finish, IInv, HandleInv, InAttempt, TypeOK, ProcessTypeOK
    <2>2. /\ q # NoPid /\ process'.pid = NoPid /\ UNCHANGED <<worker, snapshot>>
          /\ worker[q] \notin {"alive"} \cup Zombie
      BY <1>10, <2>1, ProcessAssumption DEF Finish, gw_process_close, gw_process_init, StrayInv,
         NoStrayWorker
    <2>3. Table[q] = "free" /\ Table' = Table
      BY <2>2 DEF Table
    <2>4. Shown!CloseHandle
      BY <2>1, <2>2, <2>3 DEF Shown!CloseHandle, Table
    <2> QED
      BY <2>4 DEF Shown!WorkerNext
  <1>11. CASE Report
    <2>1. /\ process.pid = NoPid /\ snapshot'.process_pid = NoPid /\ UNCHANGED <<worker, process>>
      BY <1>11 DEF Report, IInv, HandleInv, InAttempt, processVars, TypeOK, ChannelTypeOK, Snapshots
    <2>2. CASE snapshot.process_pid = NoPid
      BY <1>2, <2>1, <2>2
    <2>3. CASE snapshot.process_pid # NoPid
      <3>1. Shown!Withdraw
        BY <2>1, <2>3 DEF Shown!Withdraw
      <3> QED
        BY <3>1 DEF Shown!WorkerNext
    <2> QED
      BY <2>2, <2>3
  <1>12. CASE Environment /\ UNCHANGED channelVars
    <2>1. UNCHANGED <<process, snapshot>>
      BY <1>12 DEF Environment, WorkerWrites, WorkerCloses, WorkerExits, WorkerForks,
         DescendantExits, PidChangesHands, channelVars
    <2>2. ASSUME NEW q \in Pids, NEW status \in Zombie, WorkerExits(q, status)
          PROVE  Shown!WorkerNext
      <3>1. Shown!WorkerExits(q)
        BY <2>1, <2>2, ShownExit DEF WorkerExits
      <3> QED
        BY <3>1 DEF Shown!WorkerNext
    <2>3. ASSUME NEW q \in Pids, PidChangesHands(q) PROVE UNCHANGED Shown!workerVars
      <3>1. \A p \in Pids : Table'[p] = Table[p]
        BY <2>3 DEF PidChangesHands, FreePids, Table, TypeOK, ProcessTypeOK, Zombie
      <3> QED
        BY <2>1, <3>1, ShownStutter
    <2>4. ASSUME UNCHANGED worker PROVE UNCHANGED Shown!workerVars
      BY <1>2, <2>1, <2>4
    <2> QED
      BY <1>12, <2>2, <2>3, <2>4 DEF Environment, WorkerWrites, WorkerCloses, WorkerForks,
         DescendantExits
  <1> QED
    BY <1>4, <1>5, <1>6, <1>7, <1>8, <1>9, <1>10, <1>11, <1>12 DEF Next, Thread

\* If kill and waitpid work, what the snapshot shows of the worker is what
\* PublishedWorker promises the HTTP clients and the metrics thread: the pid of the
\* one worker, from its spawn until it was reaped, withdrawn ahead of the next.
THEOREM PublishesCorrect ==
    ASSUME Faults \cap {"kill", "wait"} = {}
    PROVE  Spec => PublishesWorker
  <1>1. Init => Shown!WorkerInit
    <2> SUFFICES ASSUME Init PROVE Shown!WorkerInit
      OBVIOUS
    <2>1. process.pid = NoPid /\ snapshot.process_pid = NoPid /\ \A p \in Pids : worker[p] = "free"
      BY DEF Init, ProcessInit, gw_process_init
    <2>2. Table = [p \in Pids |-> "free"]
      BY <2>1 DEF Table, Zombie
    <2> QED
      BY <2>1, <2>2 DEF Shown!WorkerInit, Table
  <1>2. Init => StrayInv
    BY DEF Init, ProcessInit, StrayInv, NoStrayWorker, Zombie
  <1>3. TypeOK /\ IInv /\ StrayInv /\ [Next]_vars => StrayInv'
    BY StrayStep
  <1>4. TypeOK /\ IInv /\ StrayInv /\ [Next]_vars => [Shown!WorkerNext]_(Shown!workerVars)
    BY ShownStep
  <1> QED
    BY <1>1, <1>2, <1>3, <1>4, SupervisorInvariant, SupervisorTypeCorrect, PTL
    DEF Spec, PublishesWorker, Shown!WorkerSpec

-----------------------------------------------------------------------------
(* The supervisor keeps the safety of ChannelContract.                     *)

\* RUNNING means that this attempt has reported progress, and an attempt that has
\* not seen its worker's exit still has it.
ContractInv ==
    /\ pc = "attempt" => runtime.state = "STARTING"
    /\ pc \in InAttempt /\ ~ attempt.received_progress => runtime.state = "STARTING"
    /\ pc \in {"clock", "loop", "poll", "stdout", "stderr", "wait", "stable", "timeout"} =>
          attempt.exited \/ process.running

LEMMA ContractInvStep ==
    ASSUME TypeOK, IInv, ContractInv, [Next]_vars
    PROVE  ContractInv'
  <1> USE DEF ContractInv, InAttempt, GoTo, Break, NewAttempt
  <1>1. /\ policy \in gw_retry_policy /\ runtime \in gw_channel_runtime(policy)
        /\ attempt \in Attempts
    BY PolicyAssumption DEF TypeOK, ChannelTypeOK
  <1>2. CASE Start
    BY <1>1, <1>2, EventFacts DEF Start, Return, Transition, IInv, PhaseInv
  <1>3. CASE \/ AttemptFails \/ ClockFails \/ LoopHead \/ Poll \/ ReadFails \/ WaitAlive
             \/ WaitFails \/ NotStable \/ Timeout \/ Cleanup \/ Report
    BY <1>3 DEF AttemptFails, ClockFails, LoopHead, Poll, ReadFails, WaitAlive, WaitFails,
       NotStable, Timeout, Cleanup, Report, StopCall, Streams, processVars
  <1>4. CASE AttemptSpawns
    BY <1>4 DEF AttemptSpawns, gw_process_start
  <1>5. CASE WorkerStarted
    BY <1>1, <1>5 DEF WorkerStarted, Attempts, processVars
  <1>6. CASE StdoutQuiet \/ LaterRecord \/ Stderr
    <2>1. process'.running = process.running
      BY <1>6 DEF StdoutQuiet, LaterRecord, Stderr, ReadChunk, ReadEnd, processVars, TypeOK,
         ProcessTypeOK
    <2> QED
      BY <1>6, <2>1 DEF StdoutQuiet, LaterRecord, Stderr
  <1>7. CASE StdoutMalformed \/ RecordWithoutClock
    BY <1>1, <1>7 DEF StdoutMalformed, RecordWithoutClock, Attempts
  <1>8. CASE FirstRecord
    <2>1. attempt'.received_progress /\ attempt'.exited = attempt.exited /\ pc = "stdout"
      BY <1>1, <1>8 DEF FirstRecord, Attempts
    <2>2. UNCHANGED process /\ pc' \in {"stderr", "cleanup"}
      BY <1>8 DEF FirstRecord, ReadChunk
    <2> QED
      BY <2>1, <2>2
  <1>9. CASE WaitExited
    BY <1>1, <1>9 DEF WaitExited, Attempts
  <1>10. CASE Stable
    <2>1. pc = "stable" /\ attempt.received_progress
      BY <1>10 DEF Stable, StableDue
    <2>2. attempt'.received_progress = attempt.received_progress /\ attempt'.exited = attempt.exited
      BY <1>1, <1>10 DEF Stable, Attempts
    <2>3. UNCHANGED process /\ pc' \in {"timeout", "cleanup"}
      BY <1>10 DEF Stable, processVars
    <2> QED
      BY <2>1, <2>2, <2>3
  <1>11. CASE Stopping
    BY <1>11 DEF Stopping, channelVars
  <1>12. CASE StopReturns
    BY <1>1, <1>12 DEF StopReturns, Stopped, Attempts
  <1>13. CASE Finish \/ ConcludeStop \/ ConcludeFailure \/ BackoffInterrupted
    BY <1>13 DEF Finish, ConcludeStop, ConcludeFailure, BackoffInterrupted, StopAndReturn, Return
  <1>14. CASE BackoffElapsed
    BY <1>1, <1>14, EventFacts DEF BackoffElapsed, Return, Transition, IInv, PhaseInv
  <1>15. CASE Clock \/ RequestStop \/ (Environment /\ UNCHANGED channelVars) \/ UNCHANGED vars
    BY <1>15 DEF Clock, TimerElapses, GraceElapses, RequestStop, Environment, WorkerWrites,
       WorkerCloses, WorkerExits, WorkerForks, DescendantExits, PidChangesHands, vars,
       channelVars, processVars
  <1> QED
    BY <1>2, <1>3, <1>4, <1>5, <1>6, <1>7, <1>8, <1>9, <1>10, <1>11, <1>12, <1>13, <1>14, <1>15
    DEF Next, Thread

\* busy of the contract: is there a worker in the process table?
Busy == \E p \in Pids : worker[p] \in {"alive"} \cup Zombie

\* The number of failures after each event.
LEMMA FailuresAfter ==
    ASSUME NEW r \in gw_channel_runtime(policy)
    PROVE  /\ \A event \in {"START", "STABLE", "STOP"} : Accepts(r, event) =>
                 gw_channel_transition(r, event, policy).consecutive_failures = 0
           /\ \A event \in {"PROGRESS", "BACKOFF_ELAPSED"} : Accepts(r, event) =>
                 gw_channel_transition(r, event, policy).consecutive_failures
                    = r.consecutive_failures
           /\ Accepts(r, "FAILURE") =>
                 gw_channel_transition(r, "FAILURE", policy) = handle_failure(r, policy)
  <1>1. \A s : Reset(r, s).consecutive_failures = 0
    BY DEF Reset, gw_channel_runtime
  <1>2. ASSUME NEW event \in {"START", "STABLE", "STOP"}, Accepts(r, event)
        PROVE  gw_channel_transition(r, event, policy).consecutive_failures = 0
    BY <1>1, <1>2 DEF gw_channel_transition
  <1>3. ASSUME NEW event \in {"PROGRESS", "BACKOFF_ELAPSED"}, Accepts(r, event)
        PROVE  gw_channel_transition(r, event, policy).consecutive_failures
                  = r.consecutive_failures
    BY <1>3, PolicyAssumption, CountFacts
  <1>4. ASSUME Accepts(r, "FAILURE")
        PROVE  gw_channel_transition(r, "FAILURE", policy) = handle_failure(r, policy)
    BY <1>4 DEF gw_channel_transition
  <1> QED
    BY <1>2, <1>3, <1>4

\* A step that moves nothing the contract speaks of.
LEMMA PromisedStutter ==
    ASSUME Busy' <=> Busy, UNCHANGED <<runtime, stop_signal>>,
           pc' = "returned" <=> pc = "returned"
    PROVE  UNCHANGED Promised!contractVars
  BY DEF Promised!contractVars, Busy

\* waitpid collects the only worker.
LEMMA PromisedReap ==
    ASSUME TypeOK, StrayInv, Reap, process.pid \in Pids, UNCHANGED <<runtime, stop_signal>>,
           pc' = "returned" <=> pc = "returned"
    PROVE  Promised!WorkerGone
  <1>1. Busy /\ ~ Busy'
    BY DEF Busy, Reap, StrayInv, NoStrayWorker, TypeOK, ProcessTypeOK, Zombie
  <1> QED
    BY <1>1 DEF Promised!WorkerGone, Busy

\* StopAndReturn, at either of its two places.
LEMMA PromisedStop ==
    ASSUME TypeOK, IInv, StrayInv, StopAndReturn, pc \in {"conclude", "backoff"},
           UNCHANGED <<stop_signal, processVars>>
    PROVE  Promised!StopChannel
  <1>1. runtime \in gw_channel_runtime(policy) /\ policy \in gw_retry_policy
    BY PolicyAssumption DEF TypeOK, ChannelTypeOK
  <1>2. runtime.state \in {"STARTING", "RUNNING", "BACKOFF", "FAILED"}
    BY DEF IInv, PhaseInv
  <1>3. Accepts(runtime, "STOP") /\ Transition("STOP").state = "STOPPED"
    BY <1>1, <1>2, EventFacts DEF Transition
  <1>4. runtime' = Transition("STOP") /\ pc' = "returned"
    BY <1>3 DEF StopAndReturn, Return, GoTo
  <1>5. runtime'.consecutive_failures = 0 /\ runtime'.state = "STOPPED"
    BY <1>1, <1>3, <1>4, FailuresAfter DEF Transition
  <1>6. ~ Busy /\ UNCHANGED worker
    BY DEF Busy, IInv, HandleInv, InAttempt, StrayInv, NoStrayWorker, processVars
  <1> QED
    BY <1>2, <1>4, <1>5, <1>6
    DEF Promised!StopChannel, Promised!Attempting, Promised!Waiting, Busy

LEMMA PromisedStep ==
    ASSUME Faults \cap {"kill", "wait"} = {}, TypeOK, IInv, StrayInv, ContractInv, [Next]_vars
    PROVE  Promised!ContractNext \/ UNCHANGED Promised!contractVars
  <1>1. "kill" \notin Faults /\ "wait" \notin Faults
    OBVIOUS
  <1>2. /\ policy \in gw_retry_policy /\ runtime \in gw_channel_runtime(policy)
        /\ runtime.consecutive_failures \in 0 .. UINT_MAX
    BY PolicyAssumption DEF TypeOK, ChannelTypeOK, gw_channel_runtime
  <1>3. ASSUME UNCHANGED <<worker, runtime, stop_signal>>, pc' = "returned" <=> pc = "returned"
        PROVE  UNCHANGED Promised!contractVars
    BY <1>3, PromisedStutter DEF Busy
  <1>4. ASSUME process.pid = NoPid PROVE ~ Busy
    BY <1>4, ProcessAssumption DEF Busy, StrayInv, NoStrayWorker
  <1>5. CASE Start
    <2>1. /\ pc = "start" /\ UNCHANGED <<stop_signal, worker>>
          /\ runtime.state \in {"STOPPED", "DISABLED"} /\ runtime.consecutive_failures = 0
      BY <1>5 DEF Start, processVars, IInv, PhaseInv
    <2>2. CASE runtime.state = "STOPPED"
      <3>1. Accepts(runtime, "START") /\ Transition("START").state = "STARTING"
        BY <1>2, <2>2, EventFacts DEF Transition
      <3>2. runtime' = Transition("START") /\ pc' = "attempt"
        BY <1>5, <3>1 DEF Start, GoTo
      <3>3. runtime'.state = "STARTING" /\ runtime'.consecutive_failures = 0
        BY <1>2, <3>1, <3>2, FailuresAfter DEF Transition
      <3>4. Promised!Begin
        BY <2>1, <2>2, <3>2, <3>3 DEF Promised!Begin
      <3> QED
        BY <3>4 DEF Promised!ContractNext
    <2>3. CASE runtime.state = "DISABLED"
      <3>1. ~ Accepts(runtime, "START")
        BY <1>2, <2>3, EventFacts
      <3>2. runtime' = runtime /\ pc' = "returned"
        BY <1>5, <3>1 DEF Start, Return, GoTo
      <3>3. Promised!Begin
        BY <2>1, <2>3, <3>2 DEF Promised!Begin
      <3> QED
        BY <3>3 DEF Promised!ContractNext
    <2> QED
      BY <2>1, <2>2, <2>3
  <1>6. CASE \/ AttemptFails \/ ClockFails \/ WorkerStarted \/ LoopHead \/ Poll \/ ReadFails
             \/ StdoutQuiet \/ StdoutMalformed \/ RecordWithoutClock \/ LaterRecord \/ Stderr
             \/ WaitAlive \/ WaitFails \/ NotStable \/ Timeout \/ StopReturns \/ Cleanup
             \/ Finish \/ Report \/ Clock \/ UNCHANGED vars
    <2>1. UNCHANGED <<worker, runtime, stop_signal>>
      BY <1>6 DEF AttemptFails, ClockFails, WorkerStarted, LoopHead, Poll, ReadFails, StdoutQuiet,
         StdoutMalformed, RecordWithoutClock, LaterRecord, Stderr, WaitAlive, WaitFails,
         NotStable, Timeout, StopReturns, Cleanup, Finish, Report, Clock, TimerElapses,
         GraceElapses, vars, channelVars, processVars, StopCall, StopReturn, ReadChunk, ReadEnd,
         gw_process_close
    <2>2. pc' = "returned" <=> pc = "returned"
      BY <1>6 DEF AttemptFails, ClockFails, WorkerStarted, LoopHead, Poll, ReadFails, StdoutQuiet,
         StdoutMalformed, RecordWithoutClock, LaterRecord, Stderr, WaitAlive, WaitFails,
         NotStable, Timeout, StopReturns, Cleanup, Finish, Report, Clock, TimerElapses, vars,
         channelVars, GoTo, Break, Streams
    <2> QED
      BY <1>3, <2>1, <2>2
  <1>7. CASE AttemptSpawns
    <2>1. /\ process.pid = NoPid /\ runtime.state = "STARTING" /\ pc = "attempt" /\ pc' = "clock"
          /\ UNCHANGED <<runtime, stop_signal>>
      BY <1>7 DEF AttemptSpawns, GoTo, IInv, HandleInv, InAttempt, ContractInv
    <2>2. ~ Busy
      BY <1>4, <2>1
    <2>3. Busy'
      BY <1>7 DEF AttemptSpawns, gw_process_start, Busy, TypeOK, ProcessTypeOK
    <2>4. Promised!SpawnWorker
      BY <2>1, <2>2, <2>3 DEF Promised!SpawnWorker, Busy
    <2> QED
      BY <2>4 DEF Promised!ContractNext
  <1>8. CASE FirstRecord
    <2>1. /\ pc = "stdout" /\ UNCHANGED <<stop_signal, worker>> /\ ~ attempt.received_progress
      BY <1>8 DEF FirstRecord, ReadChunk
    <2>2. runtime.state = "STARTING"
      BY <2>1 DEF ContractInv, InAttempt
    <2>3. Accepts(runtime, "PROGRESS") /\ Transition("PROGRESS").state = "RUNNING"
      BY <1>2, <2>2, EventFacts DEF Transition
    <2>4. runtime' = Transition("PROGRESS") /\ pc' = "stderr"
      BY <1>8, <2>3 DEF FirstRecord, GoTo
    <2>5. runtime'.state = "RUNNING" /\ runtime'.consecutive_failures = runtime.consecutive_failures
      BY <1>2, <2>3, <2>4, FailuresAfter DEF Transition
    <2>6. Promised!ReportRunning
      BY <2>1, <2>2, <2>4, <2>5 DEF Promised!ReportRunning
    <2> QED
      BY <2>6 DEF Promised!ContractNext
  <1>9. CASE WaitExited
    <2>1. /\ process.pid \in Pids /\ Reap /\ UNCHANGED <<runtime, stop_signal>>
          /\ pc' = "returned" <=> pc = "returned"
      BY <1>9 DEF WaitExited, gw_process_poll_exit, GoTo, IInv, HandleInv, InAttempt, TypeOK,
         ProcessTypeOK
    <2>2. Promised!WorkerGone
      BY <2>1, PromisedReap
    <2> QED
      BY <2>2 DEF Promised!ContractNext
  <1>10. CASE Stable
    <2>1. /\ pc = "stable" /\ UNCHANGED <<stop_signal, worker>> /\ ~ attempt.exited
          /\ attempt.received_progress
      BY <1>10 DEF Stable, StableDue, processVars
    <2>2. runtime.state = "RUNNING"
      BY <2>1 DEF IInv, PhaseInv, InAttempt
    <2>3. process.running
      BY <2>1 DEF ContractInv
    <2>4. process.pid \in Pids
      BY <2>1 DEF IInv, HandleInv, InAttempt, TypeOK, ProcessTypeOK
    <2>5. Busy
      BY <2>3, <2>4 DEF IInv, HandleInv, Busy
    <2>6. Accepts(runtime, "STABLE") /\ Transition("STABLE").state = "RUNNING"
      BY <1>2, <2>2, EventFacts DEF Transition
    <2>7. runtime' = Transition("STABLE") /\ pc' = "timeout"
      BY <1>10, <2>6 DEF Stable, GoTo
    <2>8. runtime'.state = "RUNNING" /\ runtime'.consecutive_failures = 0
      BY <1>2, <2>6, <2>7, FailuresAfter DEF Transition
    <2>9. Promised!ReportStable
      BY <2>1, <2>2, <2>5, <2>7, <2>8 DEF Promised!ReportStable, Busy
    <2> QED
      BY <2>9 DEF Promised!ContractNext
  <1>11. CASE Stopping
    <2>1. /\ process.pid \in Pids /\ UNCHANGED <<runtime, stop_signal>>
          /\ pc' = "returned" <=> pc = "returned"
      BY <1>11 DEF Stopping, channelVars, IInv, HandleInv, InAttempt, TypeOK, ProcessTypeOK
    <2>2. CASE StopTerm \/ StopPollFails \/ StopDeadline
      BY <1>3, <2>1, <2>2 DEF StopTerm, StopPollFails, StopDeadline
    <2>3. CASE StopPollExited \/ wait_after_kill
      <3>1. Reap
        BY <1>1, <2>3 DEF StopPollExited, wait_after_kill
      <3>2. Promised!WorkerGone
        BY <2>1, <3>1, PromisedReap
      <3> QED
        BY <3>2 DEF Promised!ContractNext
    <2>4. CASE StopKill
      <3>1. Busy' <=> Busy
        BY <1>1, <2>1, <2>4 DEF StopKill, Busy, TypeOK, ProcessTypeOK, Zombie
      <3> QED
        BY <2>1, <3>1, PromisedStutter
    <2> QED
      BY <1>11, <2>2, <2>3, <2>4 DEF Stopping, StopStep
  <1>12. CASE ConcludeStop \/ BackoffInterrupted
    <2>1. /\ StopAndReturn /\ pc \in {"conclude", "backoff"}
          /\ UNCHANGED <<stop_signal, processVars>>
      BY <1>12 DEF ConcludeStop, BackoffInterrupted
    <2>2. Promised!StopChannel
      BY <2>1, PromisedStop
    <2> QED
      BY <2>2 DEF Promised!ContractNext
  <1>13. CASE ConcludeFailure
    <2>1. /\ pc = "conclude" /\ UNCHANGED <<stop_signal, worker>>
          /\ runtime.state \in {"STARTING", "RUNNING"} /\ process.pid = NoPid
      BY <1>13 DEF ConcludeFailure, processVars, IInv, PhaseInv, HandleInv, InAttempt
    <2>2. ~ Busy
      BY <1>4, <2>1
    <2>3. Accepts(runtime, "FAILURE")
      BY <1>2, <2>1, EventFacts
    <2>4. runtime' = Transition("FAILURE")
      BY <1>13, <2>3 DEF ConcludeFailure
    <2>5. runtime' = handle_failure(runtime, policy)
      BY <1>2, <2>3, <2>4, FailuresAfter DEF Transition
    <2>6. PICK n : n = NextFailureCount(runtime.consecutive_failures)
      OBVIOUS
    <2>7. /\ runtime'.consecutive_failures = n
          /\ \/ runtime'.state = "FAILED" /\ n > policy.max_retries
             \/ runtime'.state = "BACKOFF" /\ n \in 1 .. policy.max_retries
      BY <1>2, <2>5, <2>6, FailureFacts
    <2>8. n = IF runtime.consecutive_failures < UINT_MAX
              THEN runtime.consecutive_failures + 1 ELSE runtime.consecutive_failures
      BY <2>6 DEF NextFailureCount
    <2>9. policy.max_retries \in Nat
      BY <1>2, WidthAssumption DEF gw_retry_policy
    <2>10. CASE runtime'.state = "FAILED" /\ n > policy.max_retries
      BY <2>1, <2>2, <2>7, <2>8, <2>10
      DEF Promised!ContractNext, Promised!CountFailure, Promised!Attempting, Busy
    <2>11. CASE runtime'.state = "BACKOFF" /\ n \in 1 .. policy.max_retries
      <3>1. pc' = "backoff"
        BY <1>13, <2>3, <2>11 DEF ConcludeFailure, GivesUp, GoTo
      <3>2. n <= policy.max_retries
        BY <2>9, <2>11
      <3> QED
        BY <2>1, <2>2, <2>7, <2>8, <2>11, <3>1, <3>2
        DEF Promised!ContractNext, Promised!CountFailure, Promised!Attempting, Busy
    <2> QED
      BY <2>7, <2>10, <2>11
  <1>14. CASE BackoffElapsed
    <2>1. /\ pc = "backoff" /\ UNCHANGED <<stop_signal, worker>>
          /\ runtime.state \in {"BACKOFF", "FAILED"}
      BY <1>14 DEF BackoffElapsed, processVars, IInv, PhaseInv
    <2>2. Accepts(runtime, "BACKOFF_ELAPSED") /\ Transition("BACKOFF_ELAPSED").state = "STARTING"
      BY <1>2, <2>1, EventFacts DEF Transition
    <2>3. runtime' = Transition("BACKOFF_ELAPSED") /\ pc' = "attempt"
      BY <1>14, <2>2 DEF BackoffElapsed, GoTo
    <2>4. runtime'.state = "STARTING" /\ runtime'.consecutive_failures = runtime.consecutive_failures
      BY <1>2, <2>2, <2>3, FailuresAfter DEF Transition
    <2>5. Promised!RetryChannel
      BY <2>1, <2>3, <2>4 DEF Promised!RetryChannel, Promised!Waiting
    <2> QED
      BY <2>5 DEF Promised!ContractNext
  <1>15. CASE RequestStop
    <2>1. Promised!AskToStop
      BY <1>15 DEF RequestStop, processVars, Promised!AskToStop
    <2> QED
      BY <2>1 DEF Promised!ContractNext
  <1>16. CASE Environment /\ UNCHANGED channelVars
    <2>1. Busy' <=> Busy
      BY <1>16 DEF Environment, WorkerWrites, WorkerCloses, WorkerExits, WorkerForks,
         DescendantExits, PidChangesHands, FreePids, Busy, TypeOK, ProcessTypeOK, Zombie
    <2> QED
      BY <1>16, <2>1, PromisedStutter DEF channelVars
  <1> QED
    BY <1>5, <1>6, <1>7, <1>8, <1>9, <1>10, <1>11, <1>12, <1>13, <1>14, <1>15, <1>16
    DEF Next, Thread

\* If kill and waitpid work, the supervisor does nothing the contract of a channel
\* does not allow: one worker at a time, failures and stops concluded only when the
\* worker is gone, and the retries spent one by one.  (That a waiting channel is taken
\* up again is the fairness of the contract, which TLC checks.)
THEOREM ContractKept ==
    ASSUME Faults \cap {"kill", "wait"} = {}
    PROVE  Spec => Promised!ContractSafety
  <1>1. Init => Promised!ContractInit
    <2> SUFFICES ASSUME Init PROVE Promised!ContractInit
      OBVIOUS
    <2>1. /\ runtime.state \in {"STOPPED", "DISABLED"} /\ runtime.consecutive_failures = 0
          /\ stop_signal = FALSE /\ pc = "start"
      BY DEF Init, gw_channel_runtime_init
    <2>2. ~ Busy
      BY DEF Init, ProcessInit, Busy, Zombie
    <2> QED
      BY <2>1, <2>2 DEF Promised!ContractInit, Busy
  <1>2. Init => StrayInv /\ ContractInv
    BY DEF Init, ProcessInit, StrayInv, NoStrayWorker, Zombie, ContractInv, InAttempt
  <1>3. TypeOK /\ IInv /\ StrayInv /\ ContractInv /\ [Next]_vars => (StrayInv /\ ContractInv)'
    BY StrayStep, ContractInvStep
  <1>4. TypeOK /\ IInv /\ StrayInv /\ ContractInv /\ [Next]_vars
           => [Promised!ContractNext]_(Promised!contractVars)
    BY PromisedStep
  <1> QED
    BY <1>1, <1>2, <1>3, <1>4, SupervisorInvariant, SupervisorTypeCorrect, PTL
    DEF Spec, Promised!ContractSafety
=============================================================================
