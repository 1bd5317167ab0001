-------------------------- MODULE ChannelContract ---------------------------
(***************************************************************************)
(* What a supervised channel promises to the rest of the gateway, without  *)
(* the worker's pipes, timers and signals: one worker at a time, failures  *)
(* and stops concluded only when the worker is gone, a budget of retries   *)
(* spent one failure at a time, and a waiting channel that is always taken *)
(* up again or stopped.  Supervisor.tla implements it.                     *)
(***************************************************************************)
EXTENDS Integers

CONSTANTS Retries,     \* failures in a row a channel may answer with BACKOFF
          Saturation   \* largest value of the failure count

VARIABLES phase,      \* the channel's state
          failures,   \* failures since the channel was last stable
          busy,       \* does a worker process exist?
          asked,      \* has the thread been asked to stop?
          done        \* has the thread returned?
contractVars == <<phase, failures, busy, asked, done>>

ContractInit ==
    /\ phase \in {"STOPPED", "DISABLED"}
    /\ failures = 0 /\ busy = FALSE /\ asked = FALSE /\ done = FALSE

Attempting == phase \in {"STARTING", "RUNNING"} /\ ~ done
Waiting    == phase \in {"BACKOFF", "FAILED"} /\ ~ done

Begin ==
    /\ ~ done
    /\ \/ phase = "STOPPED" /\ phase' = "STARTING" /\ UNCHANGED done
       \/ phase = "DISABLED" /\ done' = TRUE /\ UNCHANGED phase
    /\ UNCHANGED <<failures, busy, asked>>

SpawnWorker ==
    /\ phase = "STARTING" /\ ~ done /\ ~ busy
    /\ busy' = TRUE
    /\ UNCHANGED <<phase, failures, asked, done>>

WorkerGone ==
    /\ busy /\ busy' = FALSE
    /\ UNCHANGED <<phase, failures, asked, done>>

\* The first record may be read from the pipe after the worker is gone.
ReportRunning ==
    /\ phase = "STARTING" /\ ~ done
    /\ phase' = "RUNNING"
    /\ UNCHANGED <<failures, busy, asked, done>>

ReportStable ==
    /\ phase = "RUNNING" /\ ~ done /\ busy
    /\ failures' = 0
    /\ UNCHANGED <<phase, busy, asked, done>>

CountFailure ==
    /\ Attempting /\ ~ busy
    /\ failures' = IF failures < Saturation THEN failures + 1 ELSE failures
    /\ \/ failures' <= Retries /\ phase' = "BACKOFF" /\ UNCHANGED done
       \/ failures' > Retries /\ phase' = "FAILED" /\ done' \in BOOLEAN
    /\ UNCHANGED <<busy, asked>>

RetryChannel ==
    /\ Waiting
    /\ phase' = "STARTING"
    /\ UNCHANGED <<failures, busy, asked, done>>

StopChannel ==
    /\ Attempting \/ Waiting
    /\ ~ busy
    /\ phase' = "STOPPED" /\ failures' = 0 /\ done' = TRUE
    /\ UNCHANGED <<busy, asked>>

AskToStop ==
    /\ ~ asked /\ asked' = TRUE
    /\ UNCHANGED <<phase, failures, busy, done>>

ContractNext ==
    \/ Begin \/ SpawnWorker \/ WorkerGone \/ ReportRunning \/ ReportStable
    \/ CountFailure \/ RetryChannel \/ StopChannel \/ AskToStop

\* A waiting channel is taken up again or stopped.
ContractFairness == WF_contractVars(RetryChannel \/ StopChannel)

ContractSafety == ContractInit /\ [][ContractNext]_contractVars
Contract == ContractSafety /\ ContractFairness
=============================================================================
