------------------------------ MODULE Metrics -------------------------------
(***************************************************************************)
(* The metrics thread of src/channel/channel_manager.c and one entry of    *)
(* the table it samples.  A round copies what the entry says under the     *)
(* snapshot lock, reads /proc and updates the CPU baseline without it, and *)
(* takes the lock again to store the sample.  Meanwhile the worker may     *)
(* exit, the supervisor start another, and a reload change or free the     *)
(* entry.  The other entries only make a round longer.                     *)
(*                                                                         *)
(* of, in a sample and in the baseline, is history: was it read from the   *)
(* worker started last, or from one before it?                             *)
(***************************************************************************)
EXTENDS PublishedWorker, Integers

CONSTANT MaxGeneration   \* bound: no reconfiguration beyond this generation

ASSUME MetricsAssumption == NoPid \notin Pids /\ MaxGeneration \in Nat \ {0}

VARIABLES entry,            \* occupied and generation of the gw_channel_entry
          worker_metrics,   \* the sample the entry holds
          tracker,          \* the CPU baseline (metrics_tracker)
          metrics_generation,
          sampler,          \* sample_process_metrics
          rest,             \* history: has a whole round passed since a pid was free?
          reused            \* history: was a pid handed out again before that?
metricsVars == <<worker_metrics, tracker, metrics_generation, sampler, rest, reused>>
vars == <<workerVars, entry, metricsVars>>

Origins == {"none", "current", "past"}
Generations == 0 .. MaxGeneration
Trackers == [pid : Pids \cup {NoPid}, of : Origins]
\* cpu: whether there is a CPU share, and whether its two readings are of one process.
Samples == [pid : Pids \cup {NoPid}, of : Origins, cpu : {"none", "own", "mixed"},
            generation : Generations]
Targets == [occupied : BOOLEAN, generation : Generations, pid : Pids \cup {NoPid}]

TypeOK ==
    /\ WorkerTypeOK
    /\ entry \in [occupied : BOOLEAN, generation : Generations]
    /\ worker_metrics \in Samples
    /\ tracker \in Trackers
    /\ metrics_generation \in Generations
    /\ sampler \in [at : {"asleep", "read", "store"}, target : Targets, sampled : Samples]
    /\ rest \in [Pids -> {"no", "freed", "round"}]
    /\ reused \in BOOLEAN

\* A zeroed sample: available is false, and so of is "none".
NoSample(pid, generation) ==
    [pid |-> pid, of |-> "none", cpu |-> "none", generation |-> generation]

gw_process_metrics_tracker_init == [pid |-> NoPid, of |-> "none"]

NoTarget == [occupied |-> FALSE, generation |-> 0, pid |-> NoPid]

Init ==
    /\ WorkerInit
    /\ entry = [occupied |-> TRUE, generation |-> 1]
    /\ worker_metrics = NoSample(NoPid, 0)
    /\ tracker = gw_process_metrics_tracker_init
    /\ metrics_generation = 0
    /\ sampler = [at |-> "asleep", target |-> NoTarget, sampled |-> NoSample(NoPid, 0)]
    /\ rest = [p \in Pids |-> "no"]
    /\ reused = FALSE

-----------------------------------------------------------------------------
\* The supervisor thread and the worker.

Aged(record) == [record EXCEPT !.of = IF @ = "current" THEN "past" ELSE @]

WorkerStarts(p) ==
    /\ entry.occupied /\ Spawn(p)
    /\ worker_metrics' = Aged(worker_metrics)
    /\ tracker' = Aged(tracker)
    /\ sampler' = [sampler EXCEPT !.sampled = Aged(@)]
    /\ reused' = (reused \/ rest[p] # "no")
    /\ rest' = [rest EXCEPT ![p] = "no"]
    /\ UNCHANGED <<entry, metrics_generation>>

WorkerReaped ==
    /\ Reap
    /\ rest' = [rest EXCEPT ![own] = "freed"]
    /\ UNCHANGED <<entry, worker_metrics, tracker, metrics_generation, sampler, reused>>

Supervision ==
    \/ \E p \in Pids : WorkerStarts(p)
    \/ WorkerReaped
    \/ /\ Publish \/ CloseHandle \/ Withdraw \/ \E p \in Pids : WorkerExits(p)
       /\ UNCHANGED <<entry, metricsVars>>

\* A reload, between stop_entry and start_entry: the entry is free or the channel
\* has no process.

NoThread == own = NoPid /\ published = NoPid

RemoveEntry ==
    /\ NoThread /\ entry.occupied
    /\ entry' = [entry EXCEPT !.occupied = FALSE]
    /\ UNCHANGED <<workerVars, metricsVars>>

\* An entry that was free starts again at generation 1.
configure_entry ==
    /\ NoThread
    /\ LET generation == IF entry.occupied THEN entry.generation + 1 ELSE 1
       IN  generation <= MaxGeneration
           /\ entry' = [occupied |-> TRUE, generation |-> generation]
    /\ worker_metrics' = NoSample(NoPid, 0)
    /\ UNCHANGED <<workerVars, tracker, metrics_generation, sampler, rest, reused>>

-----------------------------------------------------------------------------
\* The metrics thread.

CopyTargets ==
    /\ sampler.at = "asleep"
    /\ sampler' = [sampler EXCEPT
          !.at = "read",
          !.target = [occupied |-> entry.occupied, generation |-> entry.generation,
                      pid |-> published]]
    /\ rest' = [p \in Pids |-> IF rest[p] = "freed" /\ published # p THEN "round" ELSE rest[p]]
    /\ UNCHANGED <<workerVars, entry, worker_metrics, tracker, metrics_generation, reused>>

\* The worker the target names: read it, if it is alive (a zombie has no VmRSS), or
\* fail, which it may for want of a descriptor too.
gw_process_metrics_read(pid) ==
    IF pid # NoPid /\ table[pid] = "alive" THEN {TRUE, FALSE} ELSE {FALSE}

Baseline(generation) ==
    IF metrics_generation # generation THEN gw_process_metrics_tracker_init ELSE tracker

\* A wrong same_baseline: the pid of the baseline is not looked at.
same_baseline_any_pid(baseline, pid, ticks_grew) ==
    baseline.of # "none" /\ ticks_grew

\* The ticks of one process only grow; those of two compare either way.
same_baseline(baseline, pid, ticks_grew) ==
    baseline.of # "none" /\ baseline.pid = pid /\ ticks_grew

\* Without a reading the baseline is dropped; with one the CPU share is taken
\* against the baseline, and the baseline moves on.
gw_process_metrics_tracker_update(baseline, pid, raw, grew, generation) ==
    IF ~ raw
    THEN [tracker |-> gw_process_metrics_tracker_init, snapshot |-> NoSample(pid, generation)]
    ELSE [tracker |-> [pid |-> pid, of |-> "current"],
          snapshot |-> [pid |-> pid, of |-> "current", generation |-> generation,
                        cpu |-> IF ~ same_baseline(baseline, pid, grew) THEN "none"
                                ELSE IF baseline.of = "current" THEN "own" ELSE "mixed"]]

ReadMetrics ==
    /\ sampler.at = "read"
    /\ metrics_generation' = sampler.target.generation
    /\ LET pid == IF sampler.target.occupied THEN sampler.target.pid ELSE NoPid
           baseline == Baseline(sampler.target.generation)
       IN  \E raw \in gw_process_metrics_read(pid),
              grew \in IF baseline.of = "current" THEN {TRUE} ELSE BOOLEAN :
             LET updated == gw_process_metrics_tracker_update(baseline, pid, raw, grew,
                                                              sampler.target.generation)
             IN  /\ tracker' = updated.tracker
                 /\ sampler' = [sampler EXCEPT !.at = "store", !.sampled = updated.snapshot]
    /\ UNCHANGED <<workerVars, entry, worker_metrics, rest, reused>>

\* A wrong Unchanged: the entry is still in use and names the same pid.
UnchangedPid == entry.occupied = sampler.target.occupied /\ published = sampler.target.pid

Unchanged ==
    /\ entry = [occupied |-> sampler.target.occupied, generation |-> sampler.target.generation]
    /\ published = sampler.target.pid

\* A wrong StoreSample: the branches are swapped.
StoreSampleSwapped ==
    /\ sampler.at = "store"
    /\ worker_metrics' = IF Unchanged THEN NoSample(NoPid, 0) ELSE sampler.sampled
    /\ sampler' = [at |-> "asleep", target |-> NoTarget, sampled |-> NoSample(NoPid, 0)]
    /\ rest' = [p \in Pids |-> IF rest[p] = "round" THEN "no" ELSE rest[p]]
    /\ UNCHANGED <<workerVars, entry, tracker, metrics_generation, reused>>

\* The round ends with the sleep of a second.
StoreSample ==
    /\ sampler.at = "store"
    /\ worker_metrics' = IF Unchanged THEN sampler.sampled ELSE NoSample(NoPid, 0)
    /\ sampler' = [at |-> "asleep", target |-> NoTarget, sampled |-> NoSample(NoPid, 0)]
    /\ rest' = [p \in Pids |-> IF rest[p] = "round" THEN "no" ELSE rest[p]]
    /\ UNCHANGED <<workerVars, entry, tracker, metrics_generation, reused>>

Sampler == CopyTargets \/ ReadMetrics \/ StoreSample

Next == Supervision \/ RemoveEntry \/ configure_entry \/ Sampler

Spec == Init /\ [][Next]_vars

\* The metrics thread is scheduled, and the /proc files of a worker that stays
\* alive are not unreadable round after round.
FairSpec ==
    /\ Spec
    /\ WF_vars(Sampler)
    /\ SF_vars(ReadMetrics /\ sampler'.sampled.of = "current")

-----------------------------------------------------------------------------
\* What a reader of the snapshot is given.
Attached == published # NoPid /\ worker_metrics.pid = published
attach_worker_metrics ==
    IF Attached THEN worker_metrics ELSE NoSample(published, 0)

\* The metrics a client reads were sampled at the configuration generation shown
\* with them, even when the kernel gives the next worker the pid of the last one
\* while a sample is in flight.  (An entry that is freed and taken again by a reload
\* counts from 1 again: of two configurations that were both the first of their
\* entry the generation tells nothing.)
SampleOfGeneration ==
    attach_worker_metrics.of # "none" => worker_metrics.generation = entry.generation

\* The metrics a client reads are of the worker the snapshot names, and both
\* readings of its CPU share are too, provided the kernel has not handed out a pid
\* again within a round of its last holder's end (pids come round after tens of
\* thousands of forks, a round takes a second).
MetricsOfWorker ==
    ~ reused => attach_worker_metrics.of # "past" /\ attach_worker_metrics.cpu # "mixed"

\* A worker that stays up has its metrics shown again and again: the test that
\* guards the store does not discard every sample.
MetricsArrive ==
    \A p \in Pids :
       <>[](published = p /\ table[p] = "alive")
          => []<>(published = p /\ attach_worker_metrics.of = "current")
=============================================================================
