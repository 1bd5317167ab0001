--------------------------- MODULE MetricsProofs ----------------------------
(***************************************************************************)
(* What clients read about a worker is of that worker and of the           *)
(* configuration shown with it, for any number of pids and generations.    *)
(*                                                                         *)
(* A reading of pid p leaves traces: in the CPU baseline, in the sample on *)
(* its way, in the sample stored.  The inductive invariant follows them: a *)
(* pid that may be handed out again has none left.                         *)
(***************************************************************************)
EXTENDS Metrics, TLAPS

\* Only the worker in the thread's handle is not yet reaped.
OneWorker == \A p \in Pids : table[p] # "free" => own = p

\* A sample is of the configuration it was taken under, and is stored only then.
Generation ==
    /\ sampler.at = "store" => sampler.sampled.generation = sampler.target.generation
    /\ worker_metrics.of # "none" => worker_metrics.generation = entry.generation

\* A sample without a reading has no CPU share.
Shares ==
    /\ worker_metrics.of = "none" => worker_metrics.cpu = "none"
    /\ sampler.sampled.of = "none" => sampler.sampled.cpu = "none"

\* There is a sample on its way between the read and the store alone, and a pid
\* waits for the end of a round during a round alone.
Rounds ==
    /\ sampler.at # "store" => sampler.sampled.of = "none"
    /\ sampler.at = "asleep" => \A p \in Pids : rest[p] # "round"

Traces(record, p) == record.of # "none" /\ record.pid = p

\* What was read of the pid the thread has or shows is of the worker it has.
Mine(p) ==
    /\ tracker.pid = p => tracker.of # "past"
    /\ worker_metrics.pid = p => worker_metrics.of # "past" /\ worker_metrics.cpu # "mixed"
    /\ sampler.sampled.pid = p => sampler.sampled.of # "past" /\ sampler.sampled.cpu # "mixed"

\* A pid that has been free for a round has left no trace.
NoTrace(p) ==
    ~ Traces(tracker, p) /\ ~ Traces(worker_metrics, p) /\ ~ Traces(sampler.sampled, p)

\* The round that began after the pid was free does not read it.
Fading(p) ==
    /\ sampler.target.pid # p
    /\ sampler.at = "store" => ~ Traces(tracker, p) /\ ~ Traces(sampler.sampled, p)

Origin ==
    ~ reused =>
       \A p \in Pids : /\ own = p \/ published = p => Mine(p)
                       /\ table[p] = "free" /\ rest[p] = "no" => NoTrace(p)
                       /\ rest[p] = "round" => Fading(p)

IInv == TypeOK /\ OneWorker /\ Generation /\ Shares /\ Rounds /\ Origin

-----------------------------------------------------------------------------
\* A spawn ages what was read before it and changes nothing else of it.
LEMMA AgedKeeps ==
    ASSUME NEW r, r \in Samples \/ r \in Trackers
    PROVE  /\ Aged(r).pid = r.pid
           /\ Aged(r).of = "none" <=> r.of = "none"
           /\ Aged(r).of \in Origins
           /\ r \in Trackers => Aged(r) \in Trackers
           /\ r \in Samples => /\ Aged(r) \in Samples
                               /\ Aged(r).cpu = r.cpu
                               /\ Aged(r).generation = r.generation
  BY DEF Aged, Samples, Trackers, Origins

LEMMA NoSampleTyped ==
    ASSUME NEW pid \in Pids \cup {NoPid}, NEW generation \in Generations
    PROVE  /\ NoSample(pid, generation) \in Samples
           /\ NoSample(pid, generation).pid = pid
           /\ NoSample(pid, generation).of = "none"
           /\ NoSample(pid, generation).cpu = "none"
           /\ NoSample(pid, generation).generation = generation
  BY DEF NoSample, Samples, Origins

LEMMA ZeroGeneration == 0 \in Generations /\ 1 \in Generations
  BY MetricsAssumption DEF Generations

LEMMA InitKeeps == Init => IInv
  <1> SUFFICES ASSUME Init PROVE IInv
    OBVIOUS
  <1>1. NoSample(NoPid, 0) \in Samples /\ NoSample(NoPid, 0).of = "none"
        /\ NoSample(NoPid, 0).cpu = "none"
    BY NoSampleTyped, ZeroGeneration
  <1>2. TypeOK
    BY <1>1, ZeroGeneration
    DEF Init, WorkerInit, TypeOK, WorkerTypeOK, Trackers, Targets, Origins,
        gw_process_metrics_tracker_init, NoTarget
  <1>3. OneWorker
    BY DEF Init, WorkerInit, OneWorker
  <1>4. Generation /\ Shares /\ Rounds
    BY <1>1 DEF Init, Generation, Shares, Rounds
  <1>5. Origin
    BY <1>1, MetricsAssumption
    DEF Init, WorkerInit, Origin, Mine, NoTrace, Fading, Traces,
        gw_process_metrics_tracker_init
  <1> QED
    BY <1>2, <1>3, <1>4, <1>5 DEF IInv

-----------------------------------------------------------------------------
\* The supervisor thread and the worker.

LEMMA WorkerStartsKeeps ==
    ASSUME IInv, NEW p \in Pids, WorkerStarts(p)
    PROVE  IInv'
  <1> USE DEF IInv
  <1>1. /\ own = NoPid /\ published = NoPid /\ table[p] = "free"
        /\ own' = p /\ published' = NoPid
        /\ table' = [table EXCEPT ![p] = "alive"]
    BY DEF WorkerStarts, Spawn
  <1>2. worker_metrics \in Samples /\ tracker \in Trackers /\ sampler.sampled \in Samples
    BY DEF TypeOK
  <1>3. /\ worker_metrics' = Aged(worker_metrics)
        /\ tracker' = Aged(tracker)
        /\ sampler'.sampled = Aged(sampler.sampled)
        /\ sampler'.at = sampler.at /\ sampler'.target = sampler.target
        /\ sampler' \in [at : {"asleep", "read", "store"}, target : Targets, sampled : Samples]
    <2>1. Aged(sampler.sampled) \in Samples
      BY <1>2, AgedKeeps
    <2> QED
      BY <2>1 DEF WorkerStarts, TypeOK
  <1>4. /\ worker_metrics'.pid = worker_metrics.pid
        /\ worker_metrics'.of = "none" <=> worker_metrics.of = "none"
        /\ worker_metrics'.cpu = worker_metrics.cpu
        /\ worker_metrics'.generation = worker_metrics.generation
        /\ worker_metrics' \in Samples
    BY <1>2, <1>3, AgedKeeps
  <1>5. /\ sampler'.sampled.pid = sampler.sampled.pid
        /\ sampler'.sampled.of = "none" <=> sampler.sampled.of = "none"
        /\ sampler'.sampled.cpu = sampler.sampled.cpu
        /\ sampler'.sampled.generation = sampler.sampled.generation
    BY <1>2, <1>3, AgedKeeps
  <1>6. /\ tracker'.pid = tracker.pid
        /\ tracker'.of = "none" <=> tracker.of = "none"
        /\ tracker' \in Trackers
    BY <1>2, <1>3, AgedKeeps
  <1>7. /\ rest' = [rest EXCEPT ![p] = "no"]
        /\ reused' = (reused \/ rest[p] # "no")
        /\ UNCHANGED <<entry, metrics_generation>>
    BY DEF WorkerStarts
  <1>8. TypeOK'
    BY <1>1, <1>3, <1>4, <1>6, <1>7 DEF TypeOK, WorkerTypeOK
  <1>9. OneWorker'
    BY <1>1, MetricsAssumption DEF OneWorker, TypeOK, WorkerTypeOK
  <1>10. Generation' /\ Shares'
    BY <1>3, <1>4, <1>5, <1>7 DEF Generation, Shares
  <1>11. Rounds'
    BY <1>3, <1>5, <1>7 DEF Rounds, TypeOK
  <1>12. Origin'
    <2> SUFFICES ASSUME ~ reused', NEW q \in Pids
                 PROVE  /\ own' = q \/ published' = q => Mine(q)'
                        /\ table'[q] = "free" /\ rest'[q] = "no" => NoTrace(q)'
                        /\ rest'[q] = "round" => Fading(q)'
      BY DEF Origin
    <2>1. ~ reused /\ rest[p] = "no"
      BY <1>7 DEF TypeOK
    <2>2. NoTrace(p)
      BY <2>1, <1>1 DEF Origin
    <2>3. ASSUME own' = q \/ published' = q PROVE Mine(q)'
      <3>1. q = p
        BY <1>1, <2>3, MetricsAssumption
      <3> QED
        BY <3>1, <2>2, <1>4, <1>5, <1>6 DEF NoTrace, Traces, Mine, Shares
    <2>4. ASSUME table'[q] = "free", rest'[q] = "no" PROVE NoTrace(q)'
      <3>1. table[q] = "free" /\ rest[q] = "no"
        BY <1>1, <1>7, <2>4 DEF TypeOK, WorkerTypeOK
      <3> QED
        BY <3>1, <2>1, <1>4, <1>5, <1>6 DEF Origin, NoTrace, Traces
    <2>5. ASSUME rest'[q] = "round" PROVE Fading(q)'
      <3>1. rest[q] = "round"
        BY <1>7, <2>5 DEF TypeOK
      <3> QED
        BY <3>1, <2>1, <1>3, <1>5, <1>6 DEF Origin, Fading, Traces
    <2> QED
      BY <2>3, <2>4, <2>5
  <1> QED
    BY <1>8, <1>9, <1>10, <1>11, <1>12

LEMMA WorkerReapedKeeps ==
    ASSUME IInv, WorkerReaped
    PROVE  IInv'
  <1> USE DEF IInv
  <1>1. /\ own \in Pids /\ table[own] = "zombie"
        /\ table' = [table EXCEPT ![own] = "free"]
        /\ rest' = [rest EXCEPT ![own] = "freed"]
        /\ UNCHANGED <<own, published, entry, worker_metrics, tracker, metrics_generation,
                       sampler, reused>>
    BY DEF WorkerReaped, Reap, TypeOK, WorkerTypeOK
  <1>2. TypeOK'
    BY <1>1 DEF TypeOK, WorkerTypeOK
  <1>3. OneWorker'
    BY <1>1 DEF OneWorker, TypeOK, WorkerTypeOK
  <1>4. Generation' /\ Shares'
    BY <1>1 DEF Generation, Shares
  <1>5. Rounds'
    BY <1>1 DEF Rounds, TypeOK
  <1>6. ASSUME NEW q \in Pids
        PROVE  (Mine(q)' <=> Mine(q)) /\ (NoTrace(q)' <=> NoTrace(q)) /\ (Fading(q)' <=> Fading(q))
    BY <1>1 DEF Mine, NoTrace, Fading, Traces
  <1>7. Origin'
    BY <1>1, <1>6 DEF Origin, TypeOK, WorkerTypeOK
  <1> QED
    BY <1>2, <1>3, <1>4, <1>5, <1>7

LEMMA WorkerStepKeeps ==
    ASSUME IInv,
           Publish \/ CloseHandle \/ Withdraw \/ \E p \in Pids : WorkerExits(p),
           UNCHANGED <<entry, metricsVars>>
    PROVE  IInv'
  <1> USE DEF IInv
  <1>1. UNCHANGED <<entry, worker_metrics, tracker, metrics_generation, sampler, rest, reused>>
    BY DEF metricsVars
  <1>2. /\ WorkerTypeOK' /\ OneWorker'
        /\ \A q \in Pids : /\ own' = q \/ published' = q => own = q \/ published = q
                           /\ table'[q] = "free" => table[q] = "free"
    <2>1. CASE Publish
      BY <2>1, MetricsAssumption DEF Publish, TypeOK, WorkerTypeOK, OneWorker
    <2>2. CASE CloseHandle
      BY <2>2, MetricsAssumption DEF CloseHandle, TypeOK, WorkerTypeOK, OneWorker
    <2>3. CASE Withdraw
      BY <2>3, MetricsAssumption DEF Withdraw, TypeOK, WorkerTypeOK, OneWorker
    <2>4. CASE \E p \in Pids : WorkerExits(p)
      BY <2>4 DEF WorkerExits, TypeOK, WorkerTypeOK, OneWorker
    <2> QED
      BY <2>1, <2>2, <2>3, <2>4
  <1>3. TypeOK'
    BY <1>1, <1>2 DEF TypeOK
  <1>4. Generation' /\ Shares' /\ Rounds'
    BY <1>1 DEF Generation, Shares, Rounds
  <1>5. ASSUME NEW q \in Pids
        PROVE  (Mine(q)' <=> Mine(q)) /\ (NoTrace(q)' <=> NoTrace(q)) /\ (Fading(q)' <=> Fading(q))
    BY <1>1 DEF Mine, NoTrace, Fading, Traces
  <1>6. Origin'
    BY <1>1, <1>2, <1>5 DEF Origin
  <1> QED
    BY <1>2, <1>3, <1>4, <1>6

-----------------------------------------------------------------------------
\* A reload.

LEMMA ReloadKeeps ==
    ASSUME IInv, RemoveEntry \/ configure_entry
    PROVE  IInv'
  <1> USE DEF IInv
  <1>1. UNCHANGED <<table, own, published, tracker, metrics_generation, sampler, rest, reused>>
    BY DEF RemoveEntry, configure_entry, workerVars, metricsVars
  <1>2. /\ entry' \in [occupied : BOOLEAN, generation : Generations]
        /\ worker_metrics' \in Samples
        /\ \/ worker_metrics' = worker_metrics /\ entry'.generation = entry.generation
           \/ worker_metrics'.of = "none" /\ worker_metrics'.cpu = "none"
    <2>1. CASE RemoveEntry
      BY <2>1 DEF RemoveEntry, metricsVars, TypeOK
    <2>2. CASE configure_entry
      <3>1. NoSample(NoPid, 0) \in Samples /\ NoSample(NoPid, 0).of = "none"
            /\ NoSample(NoPid, 0).cpu = "none"
        BY NoSampleTyped, ZeroGeneration
      <3>2. entry' \in [occupied : BOOLEAN, generation : Generations]
        <4>1. entry.generation \in Nat /\ MaxGeneration \in Nat
          BY MetricsAssumption DEF TypeOK, Generations
        <4>2. CASE entry.occupied
          BY <2>2, <4>1, <4>2 DEF configure_entry, Generations
        <4>3. CASE ~ entry.occupied
          BY <2>2, <4>3, ZeroGeneration DEF configure_entry
        <4> QED
          BY <4>2, <4>3
      <3> QED
        BY <2>2, <3>1, <3>2 DEF configure_entry
    <2> QED
      BY <2>1, <2>2
  <1>3. TypeOK' /\ OneWorker'
    BY <1>1, <1>2 DEF TypeOK, WorkerTypeOK, OneWorker
  <1>4. Generation' /\ Shares' /\ Rounds'
    BY <1>1, <1>2 DEF Generation, Shares, Rounds
  <1>5. ASSUME NEW q \in Pids
        PROVE  (Mine(q) => Mine(q)') /\ (NoTrace(q) => NoTrace(q)') /\ (Fading(q) => Fading(q)')
    BY <1>1, <1>2 DEF Mine, NoTrace, Fading, Traces
  <1>6. Origin'
    BY <1>1, <1>5 DEF Origin
  <1> QED
    BY <1>3, <1>4, <1>6

-----------------------------------------------------------------------------
\* The metrics thread.

LEMMA CopyTargetsKeeps ==
    ASSUME IInv, CopyTargets
    PROVE  IInv'
  <1> USE DEF IInv
  <1>1. /\ sampler.at = "asleep" /\ sampler'.at = "read"
        /\ sampler'.target.pid = published
        /\ sampler'.sampled = sampler.sampled
        /\ sampler' \in [at : {"asleep", "read", "store"}, target : Targets, sampled : Samples]
    BY DEF CopyTargets, TypeOK, WorkerTypeOK, Targets
  <1>2. /\ rest' \in [Pids -> {"no", "freed", "round"}]
        /\ \A q \in Pids : /\ rest'[q] = "no" => rest[q] = "no"
                           /\ rest'[q] = "round" => rest[q] = "round" \/ published # q
    BY DEF CopyTargets, TypeOK
  <1>3. UNCHANGED <<table, own, published, entry, worker_metrics, tracker,
                    metrics_generation, reused>>
    BY DEF CopyTargets, workerVars
  <1>4. TypeOK' /\ OneWorker'
    BY <1>1, <1>2, <1>3 DEF TypeOK, WorkerTypeOK, OneWorker
  <1>5. Generation' /\ Shares' /\ Rounds'
    BY <1>1, <1>3 DEF Generation, Shares, Rounds
  <1>6. ASSUME NEW q \in Pids
        PROVE  (Mine(q) => Mine(q)') /\ (NoTrace(q) => NoTrace(q)')
    BY <1>1, <1>3 DEF Mine, NoTrace, Traces
  <1>7. ASSUME NEW q \in Pids, rest'[q] = "round" PROVE Fading(q)'
    BY <1>1, <1>2, <1>7 DEF Rounds, Fading
  <1>8. Origin'
    BY <1>2, <1>3, <1>6, <1>7 DEF Origin
  <1> QED
    BY <1>4, <1>5, <1>8

LEMMA ReadMetricsKeeps ==
    ASSUME IInv, ReadMetrics
    PROVE  IInv'
  <1> USE DEF IInv
  <1> DEFINE target == sampler.target
             generation == target.generation
             pid == IF target.occupied THEN target.pid ELSE NoPid
             baseline == Baseline(generation)
  <1>1. PICK raw \in gw_process_metrics_read(pid),
             grew \in IF baseline.of = "current" THEN {TRUE} ELSE BOOLEAN :
          LET updated == gw_process_metrics_tracker_update(baseline, pid, raw, grew, generation)
          IN  /\ tracker' = updated.tracker
              /\ sampler' = [sampler EXCEPT !.at = "store", !.sampled = updated.snapshot]
    BY DEF ReadMetrics
  <1> DEFINE updated == gw_process_metrics_tracker_update(baseline, pid, raw, grew, generation)
  <1>2. target \in Targets /\ generation \in Generations
        /\ target.pid \in Pids \cup {NoPid} /\ pid \in Pids \cup {NoPid}
    BY DEF TypeOK, Targets
  <1>3. raw \in BOOLEAN /\ grew \in BOOLEAN /\ (raw => pid # NoPid /\ table[pid] = "alive")
    BY <1>1 DEF gw_process_metrics_read
  <1>4. raw => pid \in Pids /\ own = pid
    BY <1>2, <1>3 DEF OneWorker
  <1>5. baseline = tracker \/ baseline.of = "none"
    BY DEF Baseline, gw_process_metrics_tracker_init
  <1>6. /\ tracker' = updated.tracker
        /\ sampler'.at = "store" /\ sampler'.target = target
        /\ sampler'.sampled = updated.snapshot
        /\ updated.snapshot \in Samples =>
             sampler' \in [at : {"asleep", "read", "store"}, target : Targets, sampled : Samples]
    BY <1>1 DEF TypeOK
  <1>7. /\ UNCHANGED <<table, own, published, entry, worker_metrics, rest, reused>>
        /\ sampler.at = "read" /\ metrics_generation' = generation
    BY DEF ReadMetrics, workerVars
  <1>8. updated = gw_process_metrics_tracker_update(baseline, pid, raw, grew, generation)
    OBVIOUS
  <1> HIDE DEF updated, baseline, pid, generation, target
  \* Without a reading the tracker starts afresh; with one the baseline and the sample are
  \* of the process read, and the share is mixed if the baseline was of one before it.
  <1>9. /\ updated.tracker \in Trackers /\ updated.snapshot \in Samples
        /\ updated.snapshot.pid = pid /\ updated.snapshot.generation = generation
        /\ updated.snapshot.of \in {"none", "current"}
        /\ updated.tracker.of \in {"none", "current"}
        /\ updated.tracker.of # "none" => raw /\ updated.tracker.pid = pid
        /\ updated.snapshot.of # "none" => raw
        /\ updated.snapshot.of = "none" => updated.snapshot.cpu = "none"
        /\ updated.snapshot.cpu = "mixed" => raw /\ baseline.pid = pid
                                             /\ baseline.of \notin {"none", "current"}
    <2>1. CASE ~ raw
      BY <1>2, <1>8, <2>1, NoSampleTyped
      DEF gw_process_metrics_tracker_update, gw_process_metrics_tracker_init, Trackers, Origins
    <2>2. CASE raw
      BY <1>2, <1>3, <1>8, <2>2
      DEF gw_process_metrics_tracker_update, same_baseline, Trackers, Samples, Origins
    <2> QED
      BY <1>3, <2>1, <2>2
  <1>10. TypeOK' /\ OneWorker'
    BY <1>2, <1>6, <1>7, <1>9 DEF TypeOK, WorkerTypeOK, OneWorker
  <1>11. Generation' /\ Shares' /\ Rounds'
    BY <1>6, <1>7, <1>9 DEF Generation, Shares, Rounds, generation
  <1>12. Origin'
    <2> SUFFICES ASSUME ~ reused, NEW q \in Pids
                 PROVE  /\ own = q \/ published = q => Mine(q)'
                        /\ table[q] = "free" /\ rest[q] = "no" => NoTrace(q)'
                        /\ rest[q] = "round" => Fading(q)'
      BY <1>7 DEF Origin
    <2>1. updated.snapshot.cpu # "mixed"
      <3>1. raw => (tracker.pid = pid => tracker.of # "past")
        BY <1>4 DEF Origin, Mine
      <3>2. tracker.of \in {"none", "current", "past"}
        BY DEF TypeOK, Trackers, Origins
      <3> QED
        BY <1>5, <1>9, <3>1, <3>2
    <2>2. ASSUME own = q \/ published = q PROVE Mine(q)'
      <3>1. Mine(q)
        BY <2>2 DEF Origin
      <3> QED
        BY <3>1, <2>1, <1>6, <1>7, <1>9 DEF Mine
    <2>3. ASSUME table[q] = "free", rest[q] = "no" PROVE NoTrace(q)'
      <3>1. NoTrace(q)
        BY <2>3 DEF Origin
      <3>2. raw => pid # q
        BY <1>3, <2>3
      <3> QED
        BY <3>1, <3>2, <1>6, <1>7, <1>9 DEF NoTrace, Traces
    <2>4. ASSUME rest[q] = "round" PROVE Fading(q)'
      <3>1. target.pid # q
        BY <2>4 DEF Origin, Fading, target
      <3>2. pid # q
        BY <3>1, MetricsAssumption DEF pid
      <3> QED
        BY <3>1, <3>2, <1>6, <1>9 DEF Fading, Traces
    <2> QED
      BY <2>2, <2>3, <2>4
  <1> QED
    BY <1>10, <1>11, <1>12

LEMMA StoreSampleKeeps ==
    ASSUME IInv, StoreSample
    PROVE  IInv'
  <1> USE DEF IInv
  <1>1. NoSample(NoPid, 0) \in Samples /\ NoSample(NoPid, 0).of = "none"
        /\ NoSample(NoPid, 0).cpu = "none"
    BY NoSampleTyped, ZeroGeneration
  <1>2. /\ sampler.at = "store" /\ sampler'.at = "asleep"
        /\ sampler'.sampled.of = "none" /\ sampler'.sampled.cpu = "none"
        /\ sampler' \in [at : {"asleep", "read", "store"}, target : Targets, sampled : Samples]
    BY <1>1, ZeroGeneration DEF StoreSample, NoTarget, Targets
  <1>3. \/ worker_metrics' = NoSample(NoPid, 0)
        \/ /\ worker_metrics' = sampler.sampled
           /\ entry.generation = sampler.target.generation
    BY DEF StoreSample, Unchanged
  <1>4. /\ rest' \in [Pids -> {"no", "freed", "round"}]
        /\ \A q \in Pids : /\ rest'[q] = "no" => rest[q] \in {"no", "round"}
                           /\ rest'[q] # "round"
    BY DEF StoreSample, TypeOK
  <1>5. UNCHANGED <<table, own, published, entry, tracker, metrics_generation, reused>>
    BY DEF StoreSample, workerVars
  <1>6. TypeOK' /\ OneWorker'
    BY <1>1, <1>2, <1>3, <1>4, <1>5 DEF TypeOK, WorkerTypeOK, OneWorker
  <1>7. Generation' /\ Shares' /\ Rounds'
    BY <1>1, <1>2, <1>3, <1>4, <1>5 DEF Generation, Shares, Rounds
  <1>8. ASSUME NEW q \in Pids, Mine(q) PROVE Mine(q)'
    BY <1>1, <1>2, <1>3, <1>5, <1>8 DEF Mine
  <1>9. ASSUME NEW q \in Pids, NoTrace(q) \/ Fading(q) PROVE NoTrace(q)'
    BY <1>1, <1>2, <1>3, <1>5, <1>9 DEF NoTrace, Fading, Traces
  <1>10. Origin'
    BY <1>4, <1>5, <1>8, <1>9 DEF Origin
  <1> QED
    BY <1>6, <1>7, <1>10

-----------------------------------------------------------------------------
\* The inductive invariant holds of every reachable state.
THEOREM MetricsInvariant == Spec => []IInv
  <1>1. ASSUME IInv, [Next]_vars PROVE IInv'
    <2>1. CASE \E p \in Pids : WorkerStarts(p)
      BY <1>1, <2>1, WorkerStartsKeeps
    <2>2. CASE WorkerReaped
      BY <1>1, <2>2, WorkerReapedKeeps
    <2>3. CASE /\ Publish \/ CloseHandle \/ Withdraw \/ \E p \in Pids : WorkerExits(p)
               /\ UNCHANGED <<entry, metricsVars>>
      BY <1>1, <2>3, WorkerStepKeeps
    <2>4. CASE RemoveEntry \/ configure_entry
      BY <1>1, <2>4, ReloadKeeps
    <2>5. CASE CopyTargets
      BY <1>1, <2>5, CopyTargetsKeeps
    <2>6. CASE ReadMetrics
      BY <1>1, <2>6, ReadMetricsKeeps
    <2>7. CASE StoreSample
      BY <1>1, <2>7, StoreSampleKeeps
    <2>8. CASE UNCHANGED vars
      BY <1>1, <2>8
      DEF vars, workerVars, metricsVars, IInv, TypeOK, WorkerTypeOK, OneWorker, Generation,
          Shares, Rounds, Origin, Mine, NoTrace, Fading, Traces
    <2> QED
      BY <1>1, <2>1, <2>2, <2>3, <2>4, <2>5, <2>6, <2>7, <2>8
      DEF Next, Supervision, Sampler
  <1> QED
    BY <1>1, InitKeeps, PTL DEF Spec

\* A sample that attach_worker_metrics shows was taken under the configuration
\* generation of the entry, whatever the worker, a reload and the metrics thread did
\* between its two critical sections.
THEOREM GenerationShown == Spec => []SampleOfGeneration
  <1>1. IInv => SampleOfGeneration
    BY DEF IInv, Generation, SampleOfGeneration, attach_worker_metrics, NoSample
  <1> QED
    BY <1>1, MetricsInvariant, PTL

\* What attach_worker_metrics shows, the CPU share included, is of the worker the
\* snapshot names, unless a pid came round within a round of the metrics thread.
THEOREM WorkerShown == Spec => []MetricsOfWorker
  <1>1. ASSUME IInv PROVE MetricsOfWorker
    <2>1. CASE Attached
      BY <1>1, <2>1
      DEF IInv, TypeOK, WorkerTypeOK, Origin, Mine, MetricsOfWorker, attach_worker_metrics,
          Attached
    <2>2. CASE ~ Attached
      BY <2>2 DEF MetricsOfWorker, attach_worker_metrics, NoSample
    <2> QED
      BY <2>1, <2>2
  <1> QED
    BY <1>1, MetricsInvariant, PTL
=============================================================================
