--------------------------- MODULE ProcessManager ---------------------------
(***************************************************************************)
(* One gw_process handle of src/process/process_manager.c and the part of  *)
(* the kernel it deals with: the process table, the worker's process group *)
(* and the write ends of the two pipes.                                    *)
(*                                                                         *)
(* Every operator that changes state is an action over these variables     *)
(* only; Supervisor.tla conjoins it with the step of run_worker_attempt    *)
(* that makes the call.  gw_process_stop takes time, so it is a small      *)
(* machine of its own: the variable call is where it stands, and its       *)
(* caller waits for "ok" or "error".                                       *)
(***************************************************************************)
EXTENDS Integers

CONSTANTS Pids,        \* process ids the kernel hands out, again and again
          NoPid,       \* the pid of an inactive handle, -1 in the code
          PipeCap,     \* chunks of output a pipe holds
          Faults,      \* the system calls and inputs that may go wrong
          CanFork      \* may a worker have descendants in its group?

FaultKinds == {"pipeline", "spawn", "clock", "poll", "read", "parse", "kill", "wait"}

ASSUME ProcessAssumption ==
    /\ NoPid \notin Pids
    /\ PipeCap \in Nat \ {0}
    /\ Faults \subseteq FaultKinds
    /\ CanFork \in BOOLEAN

Streams == {"stdout", "stderr"}

VARIABLES process,      \* the handle: struct gw_process
          call,         \* progress of gw_process_stop
          worker,       \* the kernel's process table
          descendants,  \* groups with a live member besides the worker
          writers,      \* who holds the write end of each pipe
          data,         \* chunks buffered in each pipe
          grace         \* the deadline of gw_process_stop
processVars == <<process, call, worker, descendants, writers, data, grace>>

\* "other": the pid names a process that is none of ours.
Zombie == {"exit0", "exit1"}
TableEntries == {"free", "alive", "other"} \cup Zombie

ProcessTypeOK ==
    /\ process \in [pid         : Pids \cup {NoPid},
                    open        : SUBSET Streams,
                    running     : BOOLEAN,
                    reaped      : BOOLEAN,
                    wait_status : {"none"} \cup Zombie]
    /\ call \in {"idle", "term", "grace", "kill", "reap", "ok", "error"}
    /\ worker \in [Pids -> TableEntries]
    /\ descendants \in SUBSET Pids
    /\ writers \in [Streams -> SUBSET {"worker", "descendant"}]
    /\ data \in [Streams -> 0 .. PipeCap]
    /\ grace \in {"off", "running", "elapsed"}

gw_process_init ==
    [pid |-> NoPid, open |-> {}, running |-> FALSE, reaped |-> FALSE,
     wait_status |-> "none"]

ProcessInit ==
    /\ process = gw_process_init
    /\ call = "idle"
    /\ worker = [p \in Pids |-> "free"]
    /\ descendants = {}
    /\ writers = [s \in Streams |-> {}]
    /\ data = [s \in Streams |-> 0]
    /\ grace = "off"

-----------------------------------------------------------------------------
\* The calls.

\* A pid is handed out only when neither a process nor a group still has it.
FreePids == {p \in Pids : worker[p] = "free" /\ p \notin descendants}

gw_process_start(p) ==
    /\ p \in FreePids
    /\ process' = [pid |-> p, open |-> Streams, running |-> TRUE, reaped |-> FALSE,
                   wait_status |-> "none"]
    /\ worker' = [worker EXCEPT ![p] = "alive"]
    /\ writers' = [s \in Streams |-> {"worker"}]
    /\ data' = [s \in Streams |-> 0]
    /\ UNCHANGED <<call, descendants, grace>>

\* poll() reports a stream that has bytes to read or whose writers are gone.
Readable(s) == s \in process.open /\ (data[s] > 0 \/ writers[s] = {})

\* gw_process_read returns bytes ...
ReadChunk(s) ==
    /\ s \in process.open /\ data[s] > 0
    /\ data' = [data EXCEPT ![s] = @ - 1]
    /\ UNCHANGED <<process, call, worker, descendants, writers, grace>>

\* ... or finds the end of the stream and closes the descriptor.
ReadEnd(s) ==
    /\ s \in process.open /\ data[s] = 0 /\ writers[s] = {}
    /\ process' = [process EXCEPT !.open = @ \ {s}]
    /\ UNCHANGED <<call, worker, descendants, writers, data, grace>>

\* A wrong Reap: the exit is collected but not recorded in the handle.
ReapUnrecorded ==
    /\ worker[process.pid] \in Zombie
    /\ process' = process
    /\ worker' = [worker EXCEPT ![process.pid] = "free"]

\* waitpid has the exit status of the child: the handle is updated and the
\* zombie leaves the process table.
Reap ==
    /\ worker[process.pid] \in Zombie
    /\ process' = [process EXCEPT !.running = FALSE, !.reaped = TRUE,
                                  !.wait_status = worker[process.pid]]
    /\ worker' = [worker EXCEPT ![process.pid] = "free"]

\* gw_process_poll_exit without a system-call error: Reap, or the worker lives.
gw_process_poll_exit ==
    /\ ~ process.reaped
    /\ Reap
    /\ UNCHANGED <<call, descendants, writers, data, grace>>

StillAlive == ~ process.reaped /\ worker[process.pid] = "alive"

\* gw_process_close, the last call on the handle: it is refused while the worker
\* runs, and either way the handle goes out of scope with its caller.
gw_process_close_refused == process.running

gw_process_close ==
    /\ process' = gw_process_init
    /\ writers' = [s \in Streams |-> {}]
    /\ data' = [s \in Streams |-> 0]
    /\ UNCHANGED <<call, worker, descendants, grace>>

-----------------------------------------------------------------------------
\* gw_process_stop, from the call to its return.

StopCall ==
    /\ call = "idle"
    /\ call' = IF process.reaped THEN "ok"
               ELSE IF process.pid = NoPid THEN "error" ELSE "term"
    /\ UNCHANGED <<process, worker, descendants, writers, data, grace>>

\* kill(-pid, SIGTERM).  What the group makes of it is up to its members
\* (WorkerExit, DescendantExit): it may exit at once, later or never.
StopTerm ==
    /\ call = "term"
    /\ \/ "kill" \in Faults /\ call' = "error" /\ UNCHANGED grace
       \/ call' = "grace" /\ grace' = "running"
    /\ UNCHANGED <<process, worker, descendants, writers, data>>

\* One round of the loop that polls for the exit until the deadline.
StopPollExited ==
    /\ call = "grace"
    /\ Reap
    /\ call' = "ok" /\ grace' = "off"
    /\ UNCHANGED <<descendants, writers, data>>

StopPollFails ==
    /\ call = "grace" /\ "wait" \in Faults
    /\ call' = "error" /\ grace' = "off"
    /\ UNCHANGED <<process, worker, descendants, writers, data>>

\* The last poll after the deadline finds the worker alive.
StopDeadline ==
    /\ call = "grace" /\ grace = "elapsed" /\ StillAlive
    /\ call' = "kill" /\ grace' = "off"
    /\ UNCHANGED <<process, worker, descendants, writers, data>>

\* kill(-pid, SIGKILL): no member of the group survives it.
StopKill ==
    /\ call = "kill"
    /\ \/ /\ "kill" \in Faults
          /\ call' = "error"
          /\ UNCHANGED <<worker, descendants, writers>>
       \/ /\ call' = "reap"
          /\ worker' = [worker EXCEPT ![process.pid] = IF @ = "alive" THEN "exit1" ELSE @]
          /\ descendants' = descendants \ {process.pid}
          /\ writers' = [s \in Streams |-> {}]
    /\ UNCHANGED <<process, data, grace>>

wait_after_kill ==
    /\ call = "reap"
    /\ \/ "wait" \in Faults /\ call' = "error" /\ UNCHANGED <<process, worker>>
       \/ Reap /\ call' = "ok"
    /\ UNCHANGED <<descendants, writers, data, grace>>

StopReturn ==
    /\ call \in {"ok", "error"}
    /\ call' = "idle"
    /\ UNCHANGED <<process, worker, descendants, writers, data, grace>>

StopStep ==
    \/ StopTerm
    \/ StopPollExited
    \/ StopPollFails
    \/ StopDeadline
    \/ StopKill
    \/ wait_after_kill

-----------------------------------------------------------------------------
\* What the worker, its descendants and the rest of the machine may do.

GraceElapses ==
    /\ grace = "running" /\ grace' = "elapsed"
    /\ UNCHANGED <<process, call, worker, descendants, writers, data>>

WorkerWrites(s) ==
    /\ s \in process.open /\ writers[s] # {} /\ data[s] < PipeCap
    /\ data' = [data EXCEPT ![s] = @ + 1]
    /\ UNCHANGED <<process, call, worker, descendants, writers, grace>>

\* A worker closes one of its streams and lives on.
WorkerCloses(s) ==
    /\ writers' = [writers EXCEPT ![s] = @ \ {"worker"}]
    /\ UNCHANGED <<process, call, worker, descendants, data, grace>>

WorkerExits(p, status) ==
    /\ worker[p] = "alive"
    /\ worker' = [worker EXCEPT ![p] = status]
    /\ writers' = IF p = process.pid
                  THEN [s \in Streams |-> writers[s] \ {"worker"}] ELSE writers
    /\ UNCHANGED <<process, call, descendants, data, grace>>

WorkerForks ==
    /\ CanFork /\ process.pid # NoPid /\ StillAlive
    /\ descendants' = descendants \cup {process.pid}
    /\ writers' = [s \in Streams |->
                      IF "worker" \in writers[s] THEN {"worker", "descendant"} ELSE writers[s]]
    /\ UNCHANGED <<process, call, worker, data, grace>>

DescendantExits(p) ==
    /\ p \in descendants
    /\ descendants' = descendants \ {p}
    /\ writers' = IF p = process.pid
                  THEN [s \in Streams |-> writers[s] \ {"descendant"}] ELSE writers
    /\ UNCHANGED <<process, call, worker, data, grace>>

\* The kernel reuses a pid for a process that is not a worker.  (Pids the handle
\* does not hold may be taken too; to gw_process_start that is a failed spawn.)
PidChangesHands(p) ==
    /\ \/ p \in FreePids /\ p = process.pid /\ worker' = [worker EXCEPT ![p] = "other"]
       \/ worker[p] = "other" /\ worker' = [worker EXCEPT ![p] = "free"]
    /\ UNCHANGED <<process, call, descendants, writers, data, grace>>

Environment ==
    \/ \E s \in Streams : WorkerWrites(s) \/ WorkerCloses(s)
    \/ \E p \in Pids, status \in Zombie : WorkerExits(p, status)
    \/ WorkerForks
    \/ \E p \in Pids : DescendantExits(p) \/ PidChangesHands(p)
=============================================================================
