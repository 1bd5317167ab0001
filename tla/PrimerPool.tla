----------------------------- MODULE PrimerPool ------------------------------
(***************************************************************************)
(* The thread pools of apue/para/thread/posix: main hands the numbers LEFT *)
(* to RIGHT, one at a time through num, to worker threads that print the   *)
(* primes.  In primer1_pool_cond.c the threads sleep on two condition      *)
(* variables, in primer1_pool_busy.c they release the mutex and try again. *)
(* What is done under mut_num, up to a pthread_cond_wait, is one step.     *)
(***************************************************************************)
EXTENDS Integers, FiniteSets

CONSTANTS LEFT, RIGHT,   \* the numbers
          Workers,       \* the threads (THRNUM of them)
          CanFail        \* may malloc and pthread_create fail?

\* The numbers of both programs are large; j < i/2 calls 4 a prime.
ASSUME PoolAssumption ==
    /\ LEFT \in Nat /\ RIGHT \in Nat /\ 4 < LEFT /\ LEFT <= RIGHT
    /\ IsFiniteSet(Workers) /\ Workers # {} /\ CanFail \in BOOLEAN

Numbers == LEFT .. RIGHT

VARIABLES program,   \* "cond" or "busy"
          num,       \* 0: empty; a number: a task to take; -1: the end
          main,      \* the main thread, and i of its loop
          worker,    \* each worker, and the number it computes
          printed    \* the lines written
poolVars == <<program, num, main, worker, printed>>

PoolTypeOK ==
    /\ program \in {"cond", "busy"}
    /\ num \in Numbers \cup {0, -1}
    /\ main \in [at : {"create", "lock", "asleep", "join", "returned", "failed"},
                 i : LEFT .. RIGHT + 1]
    /\ worker \in [Workers -> [at : {"unborn", "lock", "asleep", "compute", "ended"},
                               i : Numbers \cup {0}]]
    /\ printed \in [Numbers -> Nat]

PoolInit ==
    /\ program \in {"cond", "busy"}
    /\ num = 0
    /\ main = [at |-> "create", i |-> LEFT]
    /\ worker = [w \in Workers |-> [at |-> "unborn", i |-> 0]]
    /\ printed = [n \in Numbers |-> 0]

-----------------------------------------------------------------------------
\* pthread_cond_signal(&cond_job): at most one sleeper wakes, any of them.
Asleep == {w \in Workers : worker[w].at = "asleep"}
Woken(ws) == [w \in Workers |-> IF w \in ws THEN [worker[w] EXCEPT !.at = "lock"] ELSE worker[w]]
SignalJob == worker' \in (IF Asleep = {} THEN {worker} ELSE {Woken({w}) : w \in Asleep})
BroadcastJob == worker' = Woken(Asleep)

\* main.

CreateWorker(w) ==
    /\ main.at = "create" /\ worker[w].at = "unborn"
    /\ worker' = [worker EXCEPT ![w].at = "lock"]
    /\ UNCHANGED <<program, num, main, printed>>

\* exit(1) ends the workers that are already there.
CreateFails ==
    /\ CanFail /\ main.at = "create" /\ \E w \in Workers : worker[w].at = "unborn"
    /\ main' = [main EXCEPT !.at = "failed"]
    /\ worker' = [w \in Workers |-> [at |-> "ended", i |-> 0]]
    /\ UNCHANGED <<program, num, printed>>

AllCreated ==
    /\ main.at = "create" /\ \A w \in Workers : worker[w].at # "unborn"
    /\ main' = [main EXCEPT !.at = "lock"]
    /\ UNCHANGED <<program, num, worker, printed>>

\* The last task is not taken yet.  The busy program yields and locks again.
MainWaits ==
    /\ main.at = "lock" /\ num # 0
    /\ main' = [main EXCEPT !.at = IF program = "cond" THEN "asleep" ELSE "lock"]
    /\ UNCHANGED <<program, num, worker, printed>>

\* A wrong IssueTask: the slot is not looked at.
IssueTaskBlindly ==
    /\ main.at = "lock" /\ main.i <= RIGHT
    /\ num' = main.i
    /\ main' = [main EXCEPT !.i = @ + 1]
    /\ SignalJob
    /\ UNCHANGED <<program, printed>>

IssueTask ==
    /\ main.at = "lock" /\ num = 0 /\ main.i <= RIGHT
    /\ num' = main.i
    /\ main' = [main EXCEPT !.i = @ + 1]
    /\ SignalJob
    /\ UNCHANGED <<program, printed>>

\* A wrong IssueEnd: one worker is told.
IssueEndOnce ==
    /\ main.at = "lock" /\ num = 0 /\ main.i > RIGHT
    /\ num' = -1
    /\ main' = [main EXCEPT !.at = "join"]
    /\ SignalJob
    /\ UNCHANGED <<program, printed>>

IssueEnd ==
    /\ main.at = "lock" /\ num = 0 /\ main.i > RIGHT
    /\ num' = -1
    /\ main' = [main EXCEPT !.at = "join"]
    /\ BroadcastJob
    /\ UNCHANGED <<program, printed>>

JoinAll ==
    /\ main.at = "join" /\ \A w \in Workers : worker[w].at = "ended"
    /\ main' = [main EXCEPT !.at = "returned"]
    /\ UNCHANGED <<program, num, worker, printed>>

MainSpuriousWakeup ==
    /\ main.at = "asleep"
    /\ main' = [main EXCEPT !.at = "lock"]
    /\ UNCHANGED <<program, num, worker, printed>>

-----------------------------------------------------------------------------
\* thr_primer.

WorkerWaits(w) ==
    /\ worker[w].at = "lock" /\ num = 0
    /\ worker' = [worker EXCEPT ![w].at = IF program = "cond" THEN "asleep" ELSE "lock"]
    /\ UNCHANGED <<program, num, main, printed>>

\* The task is taken and main, if it sleeps on cond_empty, woken.
TakeTask(w) ==
    /\ worker[w].at = "lock" /\ num \in Numbers
    /\ worker' = [worker EXCEPT ![w] = [at |-> "compute", i |-> num]]
    /\ num' = 0
    /\ main' = [main EXCEPT !.at = IF @ = "asleep" THEN "lock" ELSE @]
    /\ UNCHANGED <<program, printed>>

TakeEnd(w) ==
    /\ worker[w].at = "lock" /\ num = -1
    /\ worker' = [worker EXCEPT ![w].at = "ended"]
    /\ UNCHANGED <<program, num, main, printed>>

\* for (j = 2; j <= i / j; j++), and for (j = 2; j < i / 2; j++).
mark(i) ==
    IF program = "cond" THEN \A j \in 2 .. i : j <= i \div j => i % j # 0
    ELSE \A j \in 2 .. i \div 2 - 1 : i % j # 0

Compute(w) ==
    /\ worker[w].at = "compute"
    /\ printed' = IF mark(worker[w].i) THEN [printed EXCEPT ![worker[w].i] = @ + 1]
                  ELSE printed
    /\ worker' = [worker EXCEPT ![w] = [at |-> "lock", i |-> 0]]
    /\ UNCHANGED <<program, num, main>>

WorkerSpuriousWakeup(w) ==
    /\ worker[w].at = "asleep"
    /\ worker' = [worker EXCEPT ![w].at = "lock"]
    /\ UNCHANGED <<program, num, main, printed>>

Main ==
    \/ \E w \in Workers : CreateWorker(w)
    \/ AllCreated \/ IssueTask \/ IssueEnd \/ JoinAll \/ MainWaits

thr_primer(w) == TakeTask(w) \/ TakeEnd(w) \/ Compute(w) \/ WorkerWaits(w)

PoolNext ==
    \/ Main \/ CreateFails \/ MainSpuriousWakeup
    \/ \E w \in Workers : thr_primer(w) \/ WorkerSpuriousWakeup(w)

\* Threads are scheduled; nothing is assumed of spurious wakeups.
PoolFairness == WF_poolVars(Main) /\ \A w \in Workers : WF_poolVars(thr_primer(w))

-----------------------------------------------------------------------------
InHand(n) == {w \in Workers : worker[w].at = "compute" /\ worker[w].i = n}

\* Every number handed out is waiting in num or in the hands of one worker, until
\* it is done with: no overwritten task, none taken twice.  Done with means that
\* it was printed once if it is a prime, and otherwise never.
Prime(n) == \A d \in 2 .. n - 1 : n % d # 0
EachTaskOnce ==
    main.at # "failed" =>
       \A n \in Numbers :
          LET places == Cardinality(InHand(n)) + (IF num = n THEN 1 ELSE 0)
          IN  IF n >= main.i THEN places = 0 /\ printed[n] = 0
              ELSE IF places = 0 THEN printed[n] = IF Prime(n) THEN 1 ELSE 0
              ELSE places = 1 /\ printed[n] = 0

\* The program ends by itself, with every worker gone and every number handed out:
\* no wakeup is lost between the two condition variables.
Terminates == <>(main.at \in {"returned", "failed"})
=============================================================================
