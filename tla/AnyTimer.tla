------------------------------ MODULE AnyTimer -------------------------------
(***************************************************************************)
(* The threaded timer library of apue/para/thread/posix/anytimer_mt: a     *)
(* table of timers, one thread that counts them down once a second and     *)
(* calls the ones that are due, and callers that add, cancel and wait.     *)
(*                                                                         *)
(* Two kinds of mutex guard it: mut_job the table, me->mut a timer.        *)
(* Whoever holds me->mut waits for nothing, so what is done under it is    *)
(* one step.  mut_job is held by the handler through a whole pass, except  *)
(* while a callback runs; the other holders of it are steps too.           *)
(***************************************************************************)
EXTENDS Integers, FiniteSets

CONSTANTS JOB_MAX,   \* slots of the table
          Clients,   \* threads that use the library
          Blocks,    \* blocks malloc can hand out for a struct timer_st
          NULL,
          MaxSec     \* bound: the longest timer

ASSUME TimerAssumption ==
    /\ JOB_MAX \in Nat \ {0} /\ MaxSec \in Nat
    /\ NULL \notin Blocks /\ IsFiniteSet(Blocks) /\ "handler" \notin Clients

Slots == 1 .. JOB_MAX

VARIABLES job,       \* the table
          heap,      \* the blocks
          mut_job,   \* "handler" or "free"
          handler,   \* thr_handler
          call,      \* at_waittimer of each client
          exiting    \* exit has been called: module_unload is at work
vars == <<job, heap, mut_job, handler, call, exiting>>

\* asked, age and calls are history: the seconds asked for and the sleeps of the
\* handler since (forgotten when the timer has ended), and the calls of func.
Timers == [flag : {"freed", "running", "executing", "over", "canceled"},
           sec : -1 .. MaxSec, asked : 0 .. MaxSec, age : 0 .. MaxSec + 1, calls : 0 .. 2]

TypeOK ==
    /\ job \in [Slots -> Blocks \cup {NULL}]
    /\ heap \in [Blocks -> Timers]
    /\ mut_job \in {"free", "handler"}
    /\ handler \in [at : {"asleep", "woken", "scan", "callback", "canceled"},
                    i : 1 .. JOB_MAX + 1, me : Blocks \cup {NULL}]
    /\ call \in [Clients -> [at : {"idle", "waiting", "woken", "clear", "free"},
                             id : Slots, me : Blocks \cup {NULL}]]
    /\ exiting \in {"no", "cancel", "done"}

Freed == [flag |-> "freed", sec |-> 0, asked |-> 0, age |-> 0, calls |-> 0]
Ended(timer, flag) == [timer EXCEPT !.flag = flag, !.asked = 0, !.age = 0]
Idle == [at |-> "idle", id |-> 1, me |-> NULL]

\* The first at_addtimer has created the handler thread.
Init ==
    /\ job = [s \in Slots |-> NULL]
    /\ heap = [b \in Blocks |-> Freed]
    /\ mut_job = "free"
    /\ handler = [at |-> "woken", i |-> 1, me |-> NULL]
    /\ call = [c \in Clients |-> Idle]
    /\ exiting = "no"

-----------------------------------------------------------------------------
\* thr_handler.

SleepEnds ==
    /\ handler.at = "asleep" /\ exiting = "no"
    /\ handler' = [handler EXCEPT !.at = "woken"]
    /\ heap' = [b \in Blocks |-> IF heap[b].flag = "running"
                                 THEN [heap[b] EXCEPT !.age = @ + 1] ELSE heap[b]]
    /\ UNCHANGED <<job, mut_job, call, exiting>>

PassBegins ==
    /\ handler.at = "woken" /\ mut_job = "free"
    /\ mut_job' = "handler"
    /\ handler' = [handler EXCEPT !.at = "scan", !.i = 1]
    /\ UNCHANGED <<job, heap, call, exiting>>

\* A wrong Due: the second that brings a timer to zero does not count.
DueLate(timer) == timer.sec - 1 < 0

Due(timer) == timer.sec - 1 <= 0

\* One turn of the loop: a slot that is empty or not running is passed over, a
\* timer is counted down, or it is due and its callback is called without locks.
Visit ==
    /\ handler.at = "scan" /\ handler.i <= JOB_MAX
    /\ LET me == job[handler.i]
       IN  IF me = NULL \/ (me # NULL /\ heap[me].flag # "running")
           THEN /\ handler' = [handler EXCEPT !.i = @ + 1]
                /\ UNCHANGED <<heap, mut_job>>
           ELSE IF ~ Due(heap[me])
           THEN /\ heap' = [heap EXCEPT ![me].sec = @ - 1]
                /\ handler' = [handler EXCEPT !.i = @ + 1]
                /\ UNCHANGED mut_job
           ELSE /\ heap' = [heap EXCEPT ![me].sec = @ - 1, ![me].flag = "executing",
                                        ![me].calls = @ + 1]
                /\ handler' = [handler EXCEPT !.at = "callback", !.me = me]
                /\ mut_job' = "free"
    /\ UNCHANGED <<job, call, exiting>>

\* pthread_cond_broadcast on a timer.
Broadcast(me) ==
    [c \in Clients |-> IF call[c].at = "waiting" /\ call[c].me = me
                       THEN [call[c] EXCEPT !.at = "woken"] ELSE call[c]]

\* A wrong CallbackReturns: the waiters are not told.
CallbackReturnsSilently ==
    /\ handler.at = "callback" /\ mut_job = "free"
    /\ mut_job' = "handler"
    /\ heap' = [heap EXCEPT ![job[handler.i]] = Ended(@, "over")]
    /\ handler' = [handler EXCEPT !.at = "scan", !.i = @ + 1, !.me = NULL]
    /\ UNCHANGED <<job, call, exiting>>

\* func returns, both locks are taken again; the flag is set through job[i].
CallbackReturns ==
    /\ handler.at = "callback" /\ mut_job = "free"
    /\ mut_job' = "handler"
    /\ heap' = [heap EXCEPT ![job[handler.i]] = Ended(@, "over")]
    /\ call' = Broadcast(handler.me)
    /\ handler' = [handler EXCEPT !.at = "scan", !.i = @ + 1, !.me = NULL]
    /\ UNCHANGED <<job, exiting>>

PassEnds ==
    /\ handler.at = "scan" /\ handler.i > JOB_MAX
    /\ mut_job' = "free"
    /\ handler' = [handler EXCEPT !.at = "asleep"]
    /\ UNCHANGED <<job, heap, call, exiting>>

\* A wrong Canceled: a pass can be canceled, with mut_job in its hands.
CanceledInPass ==
    /\ handler.at \in {"asleep", "scan"} /\ exiting = "cancel"
    /\ handler' = [handler EXCEPT !.at = "canceled"]
    /\ UNCHANGED <<job, heap, mut_job, call, exiting>>

\* A cancellation is acted on in sleep alone: a pass, and the callback in it, runs
\* with cancellation disabled.
Canceled ==
    /\ handler.at = "asleep" /\ exiting = "cancel"
    /\ handler' = [handler EXCEPT !.at = "canceled"]
    /\ UNCHANGED <<job, heap, mut_job, call, exiting>>

thr_handler ==
    SleepEnds \/ PassBegins \/ Visit \/ CallbackReturns \/ PassEnds \/ Canceled

-----------------------------------------------------------------------------
\* The calls.  A callback, in the handler thread, may add and cancel timers.

Caller ==
    /\ \/ exiting = "no" /\ \E c \in Clients : call[c].at = "idle"
       \/ handler.at = "callback"
    /\ mut_job = "free"

FreeSlots == {s \in Slots : job[s] = NULL}
get_free_pos_unlocked == CHOOSE s \in FreeSlots : \A t \in FreeSlots : s <= t

at_addtimer(sec) ==
    /\ Caller /\ FreeSlots # {}
    /\ \E me \in {b \in Blocks : heap[b].flag = "freed"} :
          /\ heap' = [heap EXCEPT ![me] = [Freed EXCEPT !.flag = "running", !.sec = sec,
                                                        !.asked = sec]]
          /\ job' = [job EXCEPT ![get_free_pos_unlocked] = me]
    /\ UNCHANGED <<mut_job, handler, call, exiting>>

\* A wrong at_canceltimer: a timer whose callback runs is canceled too.
at_canceltimer_late(id) ==
    /\ Caller /\ job[id] # NULL /\ heap[job[id]].flag \in {"running", "executing"}
    /\ heap' = [heap EXCEPT ![job[id]] = Ended(@, "canceled")]
    /\ call' = Broadcast(job[id])
    /\ UNCHANGED <<job, mut_job, handler, exiting>>

\* Any other timer is refused (EINVAL, ECANCELED, EBUSY) and nothing changes.
at_canceltimer(id) ==
    /\ Caller /\ job[id] # NULL /\ heap[job[id]].flag = "running"
    /\ heap' = [heap EXCEPT ![job[id]] = Ended(@, "canceled")]
    /\ call' = Broadcast(job[id])
    /\ UNCHANGED <<job, mut_job, handler, exiting>>

\* at_waittimer.  Its test of the flag, in a wait that begins or that was woken:
StillBusy(me) == heap[me].flag \in {"running", "executing"}

\* One thread waits for a timer, the way one thread joins another.
NotWaitedFor(id) == \A c \in Clients : call[c].at = "idle" \/ call[c].id # id

WaitBegins(c, id) ==
    /\ call[c].at = "idle" /\ exiting = "no"
    /\ mut_job = "free" /\ job[id] # NULL /\ NotWaitedFor(id)
    /\ call' = [call EXCEPT ![c] = [at |-> IF StillBusy(job[id]) THEN "waiting" ELSE "clear",
                                    id |-> id, me |-> job[id]]]
    /\ UNCHANGED <<job, heap, mut_job, handler, exiting>>

SpuriousWakeup(c) ==
    /\ call[c].at = "waiting"
    /\ call' = [call EXCEPT ![c].at = "woken"]
    /\ UNCHANGED <<job, heap, mut_job, handler, exiting>>

\* A wrong WaitChecks: the wait is an if, not a while.
WaitChecksNothing(c) ==
    /\ call[c].at = "woken"
    /\ call' = [call EXCEPT ![c].at = "clear"]
    /\ UNCHANGED <<job, heap, mut_job, handler, exiting>>

WaitChecks(c) ==
    /\ call[c].at = "woken"
    /\ call' = [call EXCEPT ![c].at = IF StillBusy(call[c].me) THEN "waiting" ELSE "clear"]
    /\ UNCHANGED <<job, heap, mut_job, handler, exiting>>

WaitClears(c) ==
    /\ call[c].at = "clear" /\ mut_job = "free"
    /\ job' = [job EXCEPT ![call[c].id] = NULL]
    /\ call' = [call EXCEPT ![c].at = "free"]
    /\ UNCHANGED <<heap, mut_job, handler, exiting>>

WaitFrees(c) ==
    /\ call[c].at = "free"
    /\ heap' = [heap EXCEPT ![call[c].me] = Freed]
    /\ call' = [call EXCEPT ![c] = Idle]
    /\ UNCHANGED <<job, mut_job, handler, exiting>>

\* exit, by a program whose threads have returned from the library, runs
\* module_unload: cancel the handler, join it, free what is left.
UnloadBegins ==
    /\ exiting = "no" /\ \A c \in Clients : call[c].at = "idle"
    /\ exiting' = "cancel"
    /\ UNCHANGED <<job, heap, mut_job, handler, call>>

UnloadEnds ==
    /\ exiting = "cancel" /\ handler.at = "canceled" /\ mut_job = "free"
    /\ heap' = [b \in Blocks |-> IF \E s \in Slots : job[s] = b THEN Freed ELSE heap[b]]
    /\ job' = [s \in Slots |-> NULL]
    /\ exiting' = "done"
    /\ UNCHANGED <<mut_job, handler, call>>

Next ==
    \/ thr_handler
    \/ \E sec \in 0 .. MaxSec : at_addtimer(sec)
    \/ \E id \in Slots : at_canceltimer(id)
    \/ \E c \in Clients :
          \/ \E id \in Slots : WaitBegins(c, id)
          \/ SpuriousWakeup(c) \/ WaitChecks(c) \/ WaitClears(c) \/ WaitFrees(c)
    \/ UnloadBegins \/ UnloadEnds

Spec == Init /\ [][Next]_vars

\* Threads are scheduled, callbacks return, and a free mutex is taken in the end.
FairSpec ==
    /\ Spec
    /\ WF_vars(thr_handler)
    /\ \A c \in Clients : WF_vars(WaitChecks(c)) /\ SF_vars(WaitClears(c)) /\ WF_vars(WaitFrees(c))
    /\ WF_vars(UnloadEnds)

-----------------------------------------------------------------------------
Allocated == {b \in Blocks : heap[b].flag # "freed"}

\* Nobody touches freed memory: not the handler, which comes back from a callback
\* to a timer that it held no lock on, not a thread that was woken in
\* at_waittimer, not the next pass over the table.  No block is in two slots and
\* none is lost: it is in the table or on its way out in one at_waittimer, and
\* once module_unload is done none is left.
MemorySafe ==
    /\ handler.at = "callback" => job[handler.i] = handler.me /\ handler.me \in Allocated
    /\ \A c \in Clients : call[c].at # "idle" => call[c].me \in Allocated
    /\ \A s \in Slots : job[s] # NULL => job[s] \in Allocated
    /\ \A s, t \in Slots : s # t /\ job[s] # NULL => job[s] # job[t]
    /\ \A b \in Allocated : \/ \E s \in Slots : job[s] = b
                            \/ \E c \in Clients : call[c].at = "free" /\ call[c].me = b
    /\ exiting = "done" => Allocated = {}

\* func is called once if the timer ends as over, and not at all if at_canceltimer
\* has returned 0, even when the cancellation races the pass that fires it.
CalledOrCanceled ==
    \A b \in Allocated :
       /\ heap[b].flag \in {"executing", "over"} => heap[b].calls = 1
       /\ heap[b].flag \in {"running", "canceled"} => heap[b].calls = 0

\* "sec seconds later func(arg) is called": it takes sec sleeps of the handler, or
\* one less when the timer was added just ahead of a pass (one for sec = 0 added
\* behind it), whatever other callbacks and calls came between.
OnTime ==
    \A b \in Allocated :
       LET latest == IF heap[b].asked = 0 THEN 1 ELSE heap[b].asked
       IN  /\ heap[b].age <= latest
           /\ heap[b].calls = 1 => heap[b].age >= heap[b].asked - 1

\* at_waittimer returns: the timer fires or is canceled, and the wakeup is not lost.
WaitsReturn ==
    \A c \in Clients : call[c].at # "idle" ~> call[c].at = "idle"

\* exit ends, even when it is called during a pass or a callback.
Unloads == exiting = "cancel" ~> exiting = "done"
=============================================================================
