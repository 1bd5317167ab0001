----------------------------- MODULE SignalTimer -----------------------------
(***************************************************************************)
(* The timer library of apue/para/signal/anytimer: one thread that adds,   *)
(* cancels and waits for timers, and a SIGALRM handler, which counts them  *)
(* down once a second and calls those that are due.  Nothing is masked:    *)
(* the handler runs, as a whole, between any two steps of the thread.      *)
(* The callbacks do not use the library (malloc is not for handlers).      *)
(***************************************************************************)
EXTENDS Integers

CONSTANTS JOB_MAX, Blocks,   \* blocks malloc can hand out
          NULL,
          MaxSec             \* bound: the longest timer

ASSUME SignalTimerAssumption == JOB_MAX \in Nat \ {0} /\ MaxSec \in Nat /\ NULL \notin Blocks

Slots == 1 .. JOB_MAX

VARIABLES job,      \* the table
          heap,     \* the blocks, with the calls of func counted
          caller,   \* where the thread is, and the timer it is about
          sigalrm   \* "handled", or "default" once module_unload has restored it
timerVars == <<job, heap, caller, sigalrm>>

Freed == [flag |-> "freed", sec |-> 0, calls |-> 0]
Idle == [at |-> "idle", id |-> 1, me |-> NULL]

\* module_load has been called.
TimerInit ==
    /\ job = [s \in Slots |-> NULL]
    /\ heap = [b \in Blocks |-> Freed]
    /\ caller = Idle
    /\ sigalrm = "handled"

CallerGoes(at) == caller' = [caller EXCEPT !.at = at]

-----------------------------------------------------------------------------
InTable(b) == \E s \in Slots : job[s] = b

\* A wrong CountedDown: the timer stays running when its callback is called.
CountedDownRunning(timer) ==
    [timer EXCEPT !.sec = IF @ > 0 THEN @ - 1 ELSE @,
                  !.calls = IF timer.sec - 1 <= 0 /\ @ < 2 THEN @ + 1 ELSE @]

\* sec-- and, when it is due, flag = over and the call.
CountedDown(timer) ==
    IF timer.sec - 1 <= 0
    THEN [timer EXCEPT !.sec = @ - 1, !.flag = "over", !.calls = @ + 1]
    ELSE [timer EXCEPT !.sec = @ - 1]

\* A second has passed.  The handler sets the next alarm, visits the whole table,
\* and ends a pause().
alrm_handler ==
    /\ sigalrm = "handled"
    /\ heap' = [b \in Blocks |-> IF InTable(b) /\ heap[b].flag = "running"
                                 THEN CountedDown(heap[b]) ELSE heap[b]]
    /\ CallerGoes(IF caller.at = "paused" THEN "test" ELSE caller.at)
    /\ UNCHANGED <<job, sigalrm>>

\* The alarm between signal(SIGALRM, ...) and alarm(0): the default action.
AlarmKills ==
    /\ sigalrm = "default" /\ caller.at = "unload"
    /\ CallerGoes("killed")
    /\ UNCHANGED <<job, heap, sigalrm>>

-----------------------------------------------------------------------------
FreeSlots == {s \in Slots : job[s] = NULL}
get_free_pos == CHOOSE s \in FreeSlots : \A t \in FreeSlots : s <= t

\* at_addtimer; the other ways out (EINVAL, ENOSPC, ENOMEM) change nothing.
AddFills(sec) ==
    /\ caller.at = "idle" /\ FreeSlots # {}
    /\ \E me \in {b \in Blocks : heap[b].flag = "freed"} :
          /\ heap' = [heap EXCEPT ![me] = [flag |-> "running", sec |-> sec, calls |-> 0]]
          /\ caller' = [at |-> "store", id |-> get_free_pos, me |-> me]
    /\ UNCHANGED <<job, sigalrm>>

AddStores ==
    /\ caller.at = "store"
    /\ job' = [job EXCEPT ![caller.id] = caller.me]
    /\ caller' = Idle
    /\ UNCHANGED <<heap, sigalrm>>

\* at_canceltimer: any other flag is refused.  The flag is set without a second
\* look: a timer that fires in between has been called and ends as canceled.
CancelTests(id) ==
    /\ caller.at = "idle" /\ job[id] # NULL /\ heap[job[id]].flag = "running"
    /\ caller' = [at |-> "cancel", id |-> id, me |-> job[id]]
    /\ UNCHANGED <<job, heap, sigalrm>>

CancelSets ==
    /\ caller.at = "cancel"
    /\ heap' = [heap EXCEPT ![caller.me].flag = "canceled"]
    /\ caller' = Idle
    /\ UNCHANGED <<job, sigalrm>>

WaitBegins(id) ==
    /\ caller.at = "idle" /\ job[id] # NULL
    /\ caller' = [at |-> "test", id |-> id, me |-> job[id]]
    /\ UNCHANGED <<job, heap, sigalrm>>

\* while (me->flag == running) pause(): an alarm may come just ahead of pause().
WaitTests ==
    /\ caller.at = "test"
    /\ CallerGoes(IF heap[caller.me].flag = "running" THEN "pausing" ELSE "clear")
    /\ UNCHANGED <<job, heap, sigalrm>>

WaitPauses ==
    /\ caller.at = "pausing"
    /\ CallerGoes("paused")
    /\ UNCHANGED <<job, heap, sigalrm>>

WaitClears ==
    /\ caller.at = "clear"
    /\ job' = [job EXCEPT ![caller.id] = NULL]
    /\ CallerGoes("free")
    /\ UNCHANGED <<heap, sigalrm>>

WaitFrees ==
    /\ caller.at = "free"
    /\ heap' = [heap EXCEPT ![caller.me] = Freed]
    /\ caller' = Idle
    /\ UNCHANGED <<job, sigalrm>>

\* exit: the old disposition, no more alarms, and the blocks of the table.
UnloadRestores ==
    /\ caller.at = "idle"
    /\ sigalrm' = "default"
    /\ CallerGoes("unload")
    /\ UNCHANGED <<job, heap>>

UnloadFrees ==
    /\ caller.at = "unload"
    /\ heap' = [b \in Blocks |-> IF InTable(b) THEN Freed ELSE heap[b]]
    /\ CallerGoes("exited")
    /\ UNCHANGED <<job, sigalrm>>

WaitSteps == WaitTests \/ WaitPauses \/ WaitClears \/ WaitFrees

TimerNext ==
    \/ alrm_handler \/ AlarmKills
    \/ (\E sec \in 0 .. MaxSec : AddFills(sec)) \/ AddStores
    \/ (\E id \in Slots : CancelTests(id) \/ WaitBegins(id)) \/ CancelSets
    \/ WaitSteps \/ UnloadRestores \/ UnloadFrees

\* Seconds pass and the thread is scheduled.
TimerFairness == WF_timerVars(alrm_handler) /\ WF_timerVars(WaitSteps)

-----------------------------------------------------------------------------
\* A timer is called once at most, and it is over once it was called.
CalledOnce ==
    \A b \in Blocks : heap[b].calls <= 1 /\ (heap[b].flag = "over" => heap[b].calls = 1)

\* Until the library is unloaded no slot holds a freed block, and no two the same.
TableSound ==
    caller.at # "exited" =>
       \A s \in Slots : job[s] # NULL =>
          heap[job[s]].flag # "freed" /\ \A t \in Slots : job[s] = job[t] => s = t

\* alrm_handler calls a timer once at most, never when it is not in the table any more
\* or freed, and whoever waits for it gets it back: an alarm that comes between the
\* test of at_waitttimer and pause() is made up for by the next one.
FiresOnce ==
    /\ [](CalledOnce /\ TableSound)
    /\ caller.at = "test" ~> caller.at = "idle"
=============================================================================
