------------------------------ MODULE Semaphore ------------------------------
(***************************************************************************)
(* The counting semaphore of apue/para/thread/posix/mysem and the program  *)
(* that uses it: main creates a thread for each number and takes a unit of *)
(* the semaphore ahead of each, so that no more than N threads are alive.  *)
(* What is done under me->mut is one step.                                 *)
(***************************************************************************)
EXTENDS Integers, FiniteSets

CONSTANTS N,
          Jobs,          \* how many numbers from LEFT to RIGHT: THRNUM
          CallsCanFail   \* may malloc and pthread_create fail?

ASSUME SemaphoreAssumption ==
    N \in Nat \ {0} /\ Jobs \in Nat \ {0} /\ CallsCanFail \in BOOLEAN

VARIABLES sem,       \* me->value, and whether the block is there
          issuer,    \* main, and its i
          thr        \* the threads
semVars == <<sem, issuer, thr>>

SemInit ==
    /\ sem = [value |-> 0, live |-> FALSE]
    /\ issuer = [at |-> "init", i |-> 1]
    /\ thr = [j \in 1 .. Jobs |-> "unborn"]

IssuerGoes(at) == issuer' = [issuer EXCEPT !.at = at]

-----------------------------------------------------------------------------
mysem_init(initval) ==
    /\ issuer.at = "init"
    /\ sem' = [value |-> initval, live |-> TRUE]
    /\ IssuerGoes("sub")
    /\ UNCHANGED thr

\* main does not look for NULL: mysem_sub, called with it, ends the program.
InitFails ==
    /\ CallsCanFail /\ issuer.at = "init"
    /\ IssuerGoes("killed")
    /\ UNCHANGED <<sem, thr>>

\* A wrong mysem_sub: a unit is taken when there is none left.
mysem_sub_one_more(value) ==
    /\ issuer.at = "sub" /\ sem.value + 1 >= value
    /\ sem' = [sem EXCEPT !.value = @ - value]
    /\ IssuerGoes("create")
    /\ UNCHANGED thr

mysem_sub(value) ==
    /\ issuer.at = "sub" /\ sem.value >= value
    /\ sem' = [sem EXCEPT !.value = @ - value]
    /\ IssuerGoes("create")
    /\ UNCHANGED thr

SubWaits(value) ==
    /\ issuer.at = "sub" /\ sem.value < value
    /\ IssuerGoes("asleep")
    /\ UNCHANGED <<sem, thr>>

SubSpuriousWakeup ==
    /\ issuer.at = "asleep"
    /\ IssuerGoes("sub")
    /\ UNCHANGED <<sem, thr>>

ThreadCreated ==
    /\ issuer.at = "create"
    /\ thr' = [thr EXCEPT ![issuer.i] = "compute"]
    /\ issuer' = [at |-> IF issuer.i < Jobs THEN "sub" ELSE "join", i |-> issuer.i + 1]
    /\ UNCHANGED sem

\* exit(1) ends the threads too.
ThreadFails ==
    /\ CallsCanFail /\ issuer.at = "create"
    /\ IssuerGoes("killed")
    /\ UNCHANGED <<sem, thr>>

\* After the loop of pthread_join.
mysem_destroy ==
    /\ issuer.at = "join" /\ \A j \in 1 .. Jobs : thr[j] = "ended"
    /\ sem' = [sem EXCEPT !.live = FALSE]
    /\ IssuerGoes("returned")
    /\ UNCHANGED thr

-----------------------------------------------------------------------------
\* thr_primer: the number is tested and perhaps printed, sleep(5), and then the
\* unit goes back and whoever waits for it is woken.
Running == {j \in 1 .. Jobs : thr[j] \in {"compute", "add"}}

Computes(j) ==
    /\ thr[j] = "compute" /\ issuer.at # "killed"
    /\ thr' = [thr EXCEPT ![j] = "add"]
    /\ UNCHANGED <<sem, issuer>>

mysem_add(j, value) ==
    /\ thr[j] = "add" /\ issuer.at # "killed"
    /\ sem' = [sem EXCEPT !.value = @ + value]
    /\ IssuerGoes(IF issuer.at = "asleep" THEN "sub" ELSE issuer.at)
    /\ thr' = [thr EXCEPT ![j] = "ended"]

Issuer == mysem_init(N) \/ mysem_sub(1) \/ SubWaits(1) \/ ThreadCreated \/ mysem_destroy

SemNext ==
    \/ Issuer \/ InitFails \/ SubSpuriousWakeup \/ ThreadFails
    \/ \E j \in 1 .. Jobs : Computes(j) \/ mysem_add(j, 1)

\* Threads are scheduled and sleep(5) ends.
SemFairness ==
    /\ WF_semVars(Issuer)
    /\ \A j \in 1 .. Jobs : WF_semVars(Computes(j) \/ mysem_add(j, 1))

-----------------------------------------------------------------------------
\* No more than N threads are at work, and the semaphore outlives the last one that
\* uses it.
WithinLimit == Cardinality(Running) <= N
Outlived == Running # {} => sem.live

\* That, and the program ends by itself: main never sleeps in mysem_sub on a unit that
\* was already given back.
Throttled ==
    /\ [](WithinLimit /\ Outlived)
    /\ <>(issuer.at \in {"returned", "killed"})
=============================================================================
