-------------------------------- MODULE Turns --------------------------------
(***************************************************************************)
(* The two rings of apue/para/thread/posix: THRNUM threads write the       *)
(* letters a, b, c, d in turn until an alarm ends the process.  In abcd.c  *)
(* the turn is an unlocked mutex handed from thread to thread, in abcd_e.c *)
(* it is a variable with one condition variable for all.  A thread may run *)
(* before the next one is created.                                         *)
(***************************************************************************)
EXTENDS Integers

CONSTANTS THRNUM,
          CreateCanFail   \* may pthread_create fail?

ASSUME TurnsAssumption == THRNUM \in Nat \ {0} /\ CreateCanFail \in BOOLEAN

Threads == 0 .. THRNUM - 1

VARIABLES ring,      \* "mutex" (abcd.c) or "cond" (abcd_e.c)
          mut,       \* the locked mutexes of the array mut (mutex ring)
          turn,      \* cond ring
          thread,    \* thr_func of each thread
          creating,  \* i of main; THRNUM + 1: it joins, -1: the process is gone
          letter     \* history: the last letter written, -1 at first
ringVars == <<ring, mut, turn, thread, creating, letter>>

Gone == creating = -1

RingInit ==
    /\ ring \in {"mutex", "cond"}
    /\ mut = {} /\ turn = 0
    /\ thread = [n \in Threads |-> "unborn"]
    /\ creating = 0
    /\ letter = -1

next(n) == IF n + 1 = THRNUM THEN 0 ELSE n + 1

-----------------------------------------------------------------------------
\* main.

\* One turn of the loop: in the mutex ring mut[i] is locked ahead of thread i.
CreateNext ==
    /\ creating \in Threads
    /\ thread' = [thread EXCEPT ![creating] = "lock"]
    /\ mut' = IF ring = "mutex" THEN mut \cup {creating} ELSE mut
    /\ creating' = creating + 1
    /\ UNCHANGED <<ring, turn, letter>>

\* After the loop mut[0] is unlocked (mutex ring) and the alarm is set.
StartRing ==
    /\ creating = THRNUM
    /\ mut' = mut \ {0}
    /\ creating' = THRNUM + 1
    /\ UNCHANGED <<ring, turn, thread, letter>>

\* exit(1), or the alarm that nothing catches.
ProcessEnds ==
    /\ \/ CreateCanFail /\ creating \in Threads
       \/ creating = THRNUM + 1
    /\ creating' = -1
    /\ UNCHANGED <<ring, mut, turn, thread, letter>>

-----------------------------------------------------------------------------
\* thr_func of the mutex ring.

LockOwn(n) ==
    /\ ring = "mutex" /\ ~ Gone /\ thread[n] = "lock" /\ n \notin mut
    /\ mut' = mut \cup {n}
    /\ thread' = [thread EXCEPT ![n] = "write"]
    /\ UNCHANGED <<ring, turn, creating, letter>>

WriteLetter(n) ==
    /\ ring = "mutex" /\ ~ Gone /\ thread[n] = "write"
    /\ letter' = n
    /\ thread' = [thread EXCEPT ![n] = "unlock"]
    /\ UNCHANGED <<ring, mut, turn, creating>>

UnlockNext(n) ==
    /\ ring = "mutex" /\ ~ Gone /\ thread[n] = "unlock"
    /\ mut' = mut \ {next(n)}
    /\ thread' = [thread EXCEPT ![n] = "lock"]
    /\ UNCHANGED <<ring, turn, creating, letter>>

\* thr_func of the cond ring: what is done under mut is one step.

WaitForTurn(n) ==
    /\ ring = "cond" /\ ~ Gone /\ thread[n] = "lock" /\ turn # n
    /\ thread' = [thread EXCEPT ![n] = "asleep"]
    /\ UNCHANGED <<ring, mut, turn, creating, letter>>

\* A wrong TakeTurn: pthread_cond_signal wakes one thread, perhaps not the next.
TakeTurnSignal(n) ==
    /\ ring = "cond" /\ ~ Gone /\ thread[n] = "lock" /\ turn = n
    /\ letter' = n
    /\ turn' = next(turn)
    /\ LET asleep == {t \in Threads : thread[t] = "asleep"}
       IN  thread' \in IF asleep = {} THEN {thread}
                       ELSE {[thread EXCEPT ![t] = "lock"] : t \in asleep}
    /\ UNCHANGED <<ring, mut, creating>>

TakeTurn(n) ==
    /\ ring = "cond" /\ ~ Gone /\ thread[n] = "lock" /\ turn = n
    /\ letter' = n
    /\ turn' = next(turn)
    /\ thread' = [t \in Threads |-> IF thread[t] = "asleep" THEN "lock" ELSE thread[t]]
    /\ UNCHANGED <<ring, mut, creating>>

TurnSpuriousWakeup(n) ==
    /\ ~ Gone /\ thread[n] = "asleep"
    /\ thread' = [thread EXCEPT ![n] = "lock"]
    /\ UNCHANGED <<ring, mut, turn, creating, letter>>

thr_func(n) ==
    LockOwn(n) \/ WriteLetter(n) \/ UnlockNext(n) \/ WaitForTurn(n) \/ TakeTurn(n)

RingNext ==
    \/ CreateNext \/ StartRing \/ ProcessEnds
    \/ \E n \in Threads : thr_func(n) \/ TurnSpuriousWakeup(n)

\* Threads are scheduled; nothing is assumed of the alarm or of spurious wakeups.
RingFairness ==
    /\ WF_ringVars(CreateNext) /\ WF_ringVars(StartRing)
    /\ \A n \in Threads : WF_ringVars(thr_func(n))

-----------------------------------------------------------------------------
\* Every write, seen as a step: the first letter is a, and after n comes next(n).
InTurn == letter' = (letter + 1) % THRNUM

Writes == letter' # letter \/ \E n \in Threads : thread[n] = "write" /\ thread'[n] = "unlock"

\* The letters that thr_func writes come in turn, from the first one on, however the
\* creation of the threads interleaves with their running.
LettersInTurn == [][Writes => InTurn]_ringVars

\* That, and while the process lives every thread writes again and again: thr_func
\* passes no turn to a thread that is not there yet, or to one that sleeps on.
RoundRobin ==
    /\ LettersInTurn
    /\ \A n \in Threads : []<>(letter = n \/ Gone)
=============================================================================
