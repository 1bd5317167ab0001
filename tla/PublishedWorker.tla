-------------------------- MODULE PublishedWorker ---------------------------
(***************************************************************************)
(* What the thread of one channel promises the readers of its snapshot     *)
(* about the worker process: it has at most one, publishes the pid after   *)
(* the spawn, and withdraws it, once the worker is reaped, before the next *)
(* spawn.  Supervisor.tla implements this; Metrics.tla builds on it.       *)
(***************************************************************************)
CONSTANTS Pids, NoPid

VARIABLES table,       \* the kernel's process table: which pids are workers
          own,         \* the pid in the thread's gw_process handle
          published    \* process_pid of the snapshot
workerVars == <<table, own, published>>

WorkerTypeOK ==
    /\ table \in [Pids -> {"free", "alive", "zombie"}]
    /\ own \in Pids \cup {NoPid}
    /\ published \in Pids \cup {NoPid}

WorkerInit ==
    /\ table = [p \in Pids |-> "free"]
    /\ own = NoPid
    /\ published = NoPid

\* gw_process_start.
Spawn(p) ==
    /\ own = NoPid /\ published = NoPid /\ table[p] = "free"
    /\ own' = p
    /\ table' = [table EXCEPT ![p] = "alive"]
    /\ UNCHANGED published

\* gw_channel_snapshot_set_process and its publication.
Publish ==
    /\ own # NoPid /\ published = NoPid
    /\ published' = own
    /\ UNCHANGED <<table, own>>

\* The worker exits by itself or is killed ...
WorkerExits(p) ==
    /\ table[p] = "alive"
    /\ table' = [table EXCEPT ![p] = "zombie"]
    /\ UNCHANGED <<own, published>>

\* ... and is waited for: the pid is free for other processes.
Reap ==
    /\ own # NoPid /\ table[own] = "zombie"
    /\ table' = [table EXCEPT ![own] = "free"]
    /\ UNCHANGED <<own, published>>

\* gw_process_close.
CloseHandle ==
    /\ own # NoPid /\ table[own] = "free"
    /\ own' = NoPid
    /\ UNCHANGED <<table, published>>

\* gw_channel_snapshot_clear_process and its publication.
Withdraw ==
    /\ own = NoPid /\ published # NoPid
    /\ published' = NoPid
    /\ UNCHANGED <<table, own>>

WorkerNext ==
    \/ \E p \in Pids : Spawn(p) \/ WorkerExits(p)
    \/ Publish \/ Reap \/ CloseHandle \/ Withdraw

WorkerSpec == WorkerInit /\ [][WorkerNext]_workerVars
=============================================================================
