-------------------------- MODULE ComponentProofs ---------------------------
(***************************************************************************)
(* The safety of the small components that share nothing with each other,  *)
(* for any number of threads, tasks, units and timers and for any text:    *)
(* the thread pools, the semaphore, the rings, the signal timer library,   *)
(* the token buckets and what is made of the output of a worker.  Each     *)
(* section has the specification of one component, its inductive invariant *)
(* and what follows from it.                                               *)
(***************************************************************************)
EXTENDS PrimerPool, Semaphore, Turns, SignalTimer, TokenBucket, WorkerOutput,
        FiniteSetTheorems, WellFoundedInduction, TLAPS

-----------------------------------------------------------------------------
\* Division: a quotient and a rest.

LEMMA Division ==
    ASSUME NEW n \in Nat, NEW d \in Nat, d > 0
    PROVE  \E q \in Nat, r \in Nat : q = n \div d /\ r = n % d /\ r < d /\ n = d * q + r
  <1>1. n \div d \in Nat
    OBVIOUS
  <1>2. n % d \in 0 .. d - 1
    OBVIOUS
  <1>3. PICK q \in Nat : q = n \div d
    BY <1>1
  <1>4. PICK r \in Nat : r = n % d /\ r < d
    BY <1>2
  <1>5. n = d * q + r
    BY <1>3, <1>4
  <1> QED
    BY <1>3, <1>4, <1>5

\* If n is d times q there is no rest.
LEMMA Quotient ==
    ASSUME NEW d \in Nat, NEW q \in Nat, d > 0, NEW n \in Nat, n = d * q
    PROVE  n \div d = q /\ n % d = 0
  <1>1. PICK k \in Nat, r \in Nat : k = n \div d /\ r = n % d /\ r < d /\ n = d * k + r
    BY Division
  <1>2. d * (q - k) = r
    BY <1>1
  <1>3. ~ (q - k >= 1)
    BY <1>1, <1>2
  <1>4. ~ (q - k <= -1)
    BY <1>1, <1>2
  <1>5. q = k
    BY <1>1, <1>3, <1>4
  <1>6. r = 0
    BY <1>2, <1>5
  <1> QED
    BY <1>1, <1>5, <1>6

\* A divisor of n has a counterpart.
LEMMA Counterpart ==
    ASSUME NEW n \in Nat, NEW d \in 2 .. n - 1, n % d = 0
    PROVE  \E e \in 2 .. n - 1 : n = d * e /\ n % e = 0 /\ n \div e = d /\ n \div d = e
  <1>1. d \in Nat /\ d > 0 /\ d >= 2 /\ d < n
    OBVIOUS
  <1>2. PICK e \in Nat, r \in Nat : e = n \div d /\ r = n % d /\ r < d /\ n = d * e + r
    BY <1>1, Division
  <1>3. n = d * e
    BY <1>1, <1>2
  <1>4. e # 0 /\ e # 1
    BY <1>1, <1>2, <1>3
  <1>5. e >= 2 /\ e > 0
    BY <1>2, <1>4
  <1>6. d * e >= 2 * e
    <2>1. d - 2 \in Nat
      BY <1>1
    <2>2. (d - 2) * e \in Nat
      BY <1>2, <2>1
    <2>3. d * e = (d - 2) * e + 2 * e
      BY <1>1, <1>2
    <2>4. d * e \in Int /\ 2 * e \in Int
      BY <1>1, <1>2
    <2> QED
      BY <2>2, <2>3, <2>4
  <1>7. e \in 2 .. n - 1
    BY <1>2, <1>3, <1>5, <1>6
  <1>8. n = e * d
    BY <1>1, <1>2, <1>3
  <1>9. n \div e = d /\ n % e = 0
    BY <1>1, <1>2, <1>5, <1>8, Quotient
  <1> QED
    BY <1>2, <1>3, <1>7, <1>9

\* The loop that stops at the root of n, in primer1_pool_cond.c, tells the primes.
LEMMA MarkToRoot ==
    ASSUME NEW n \in Nat, n > 4
    PROVE  (\A j \in 2 .. n : j <= n \div j => n % j # 0) <=> Prime(n)
  <1> DEFINE Mark == \A j \in 2 .. n : j <= n \div j => n % j # 0
  <1>1. ASSUME Mark, NEW d \in 2 .. n - 1, n % d = 0 PROVE FALSE
    <2>1. PICK e \in 2 .. n - 1 : n = d * e /\ n % e = 0 /\ n \div e = d /\ n \div d = e
      BY <1>1, Counterpart
    <2>2. d \in 2 .. n /\ e \in 2 .. n
      OBVIOUS
    <2>3. ~ (d <= e) /\ ~ (e <= d)
      BY <1>1, <2>1, <2>2
    <2> QED
      BY <2>3
  <1>2. ASSUME Prime(n), NEW j \in 2 .. n, j <= n \div j, n % j = 0 PROVE FALSE
    <2>1. j = n
      BY <1>2 DEF Prime
    <2>2. n = n * 1 /\ n > 0
      OBVIOUS
    <2>3. n \div n = 1
      BY <2>2, Quotient
    <2> QED
      BY <1>2, <2>1, <2>3
  <1> QED
    BY <1>1, <1>2 DEF Prime

\* The loop that stops ahead of n / 2, in primer1_pool_busy.c, does from 5 on.
LEMMA MarkToHalf ==
    ASSUME NEW n \in Nat, n > 4
    PROVE  (\A j \in 2 .. n \div 2 - 1 : n % j # 0) <=> Prime(n)
  <1> DEFINE Mark == \A j \in 2 .. n \div 2 - 1 : n % j # 0
  <1>1. PICK h \in Nat, r \in Nat : h = n \div 2 /\ r = n % 2 /\ r < 2 /\ n = 2 * h + r
    BY Division
  <1>2. ASSUME Mark, NEW d \in 2 .. n - 1, n % d = 0 PROVE FALSE
    <2>1. PICK e \in 2 .. n - 1 : n = d * e /\ n % e = 0 /\ n \div e = d /\ n \div d = e
      BY <1>2, Counterpart
    <2>2. ~ (d \in 2 .. h - 1)
      BY <1>1, <1>2
    <2>3. d >= h
      BY <1>1, <2>2
    <2>4. e = 2
      <3>1. e <= 2
        <4>1. ASSUME e >= 3 PROVE FALSE
          <5>1. d * e >= d * 3
            <6>1. e - 3 \in Nat /\ d \in Nat
              BY <4>1
            <6>2. d * (e - 3) \in Nat
              BY <6>1
            <6>3. d * e = d * (e - 3) + d * 3
              OBVIOUS
            <6>4. d * e \in Int /\ d * 3 \in Int
              OBVIOUS
            <6> QED
              BY <6>2, <6>3, <6>4
          <5>2. n >= 3 * h
            BY <1>1, <2>1, <2>3, <5>1
          <5> QED
            BY <1>1, <2>1, <2>3, <5>1, <5>2
        <4> QED
          BY <4>1
      <3> QED
        BY <3>1
    <2>5. n % 2 = 0 /\ 2 \in 2 .. h - 1
      BY <1>1, <2>1, <2>4
    <2> QED
      BY <1>1, <1>2, <2>5
  <1>3. ASSUME Prime(n), NEW j \in 2 .. h - 1, n % j = 0 PROVE FALSE
    <2>1. j \in 2 .. n - 1
      BY <1>1, <1>3
    <2> QED
      BY <1>3, <2>1 DEF Prime
  <1> QED
    BY <1>1, <1>2, <1>3 DEF Prime

LEMMA MarkIsPrime ==
    ASSUME NEW n \in Numbers, program \in {"cond", "busy"}
    PROVE  mark(n) <=> Prime(n)
  <1>1. n \in Nat /\ n > 4
    BY PoolAssumption DEF Numbers
  <1>2. CASE program = "cond"
    BY <1>1, <1>2, MarkToRoot DEF mark
  <1>3. CASE program # "cond"
    BY <1>1, <1>3, MarkToHalf DEF mark
  <1> QED
    BY <1>2, <1>3

-----------------------------------------------------------------------------
\* The thread pools.

PoolSpec == PoolInit /\ [][PoolNext]_poolVars

Computing(w) == worker[w].at = "compute"
Handed(n) == num = n \/ \E w \in Workers : Computing(w) /\ worker[w].i = n

\* A number in hand is in no other hand and not in num, and a number that was
\* handed out and is nowhere any more is done with.
Once ==
    /\ \A w, v \in Workers : w # v /\ Computing(w) /\ Computing(v) => worker[w].i # worker[v].i
    /\ \A w \in Workers : Computing(w) => worker[w].i \in Numbers /\ worker[w].i # num
    /\ \A n \in Numbers :
          IF n >= main.i THEN ~ Handed(n) /\ printed[n] = 0
          ELSE printed[n] = IF Handed(n) \/ ~ Prime(n) THEN 0 ELSE 1

PoolInv == PoolTypeOK /\ (main.at # "failed" => Once)

\* Workers may sleep, wake, be born and end; what they compute stays.
SameTasks ==
    /\ worker' \in [Workers -> [at : {"unborn", "lock", "asleep", "compute", "ended"},
                                i : Numbers \cup {0}]]
    /\ \A w \in Workers : (Computing(w)' <=> Computing(w)) /\ worker'[w].i = worker[w].i

LEMMA WakingKeepsTasks ==
    ASSUME PoolTypeOK, SignalJob \/ BroadcastJob
    PROVE  SameTasks
  <1>1. ASSUME NEW ws \in SUBSET Asleep, worker' = Woken(ws) PROVE SameTasks
    BY <1>1 DEF PoolTypeOK, Asleep, Woken, SameTasks, Computing
  <1>2. CASE BroadcastJob
    BY <1>1, <1>2 DEF BroadcastJob
  <1>3. CASE SignalJob
    <2>1. CASE Asleep = {}
      BY <1>3, <2>1 DEF SignalJob, SameTasks, Computing, PoolTypeOK
    <2>2. CASE Asleep # {}
      <3>1. PICK w \in Asleep : worker' = Woken({w})
        BY <1>3, <2>2 DEF SignalJob
      <3>2. {w} \in SUBSET Asleep
        BY <3>1
      <3> QED
        BY <1>1, <3>1, <3>2
    <2> QED
      BY <2>1, <2>2
  <1> QED
    BY <1>2, <1>3

\* A step that neither hands out, takes nor finishes a task.
LEMMA QuietKeeps ==
    ASSUME PoolInv, SameTasks, UNCHANGED <<program, printed>>, main'.i = main.i,
           main'.at # "failed" => main.at # "failed",
           main' \in [at : {"create", "lock", "asleep", "join", "returned", "failed"},
                      i : LEFT .. RIGHT + 1],
           num' = num \/ (num = 0 /\ num' = -1)
    PROVE  PoolInv'
  <1>1. PoolTypeOK'
    BY DEF PoolInv, PoolTypeOK, SameTasks
  <1>2. 0 \notin Numbers /\ -1 \notin Numbers
    BY PoolAssumption DEF Numbers
  <1>3. \A n \in Numbers : Handed(n)' <=> Handed(n)
    BY <1>2 DEF Handed, SameTasks, Computing
  <1>4. ASSUME Once PROVE Once'
    <2>1. \A w, v \in Workers : w # v /\ Computing(w)' /\ Computing(v)' =>
             worker'[w].i # worker'[v].i
      BY <1>4 DEF Once, SameTasks
    <2>2. \A w \in Workers : Computing(w)' => worker'[w].i \in Numbers /\ worker'[w].i # num'
      BY <1>2, <1>4 DEF Once, SameTasks
    <2>3. \A n \in Numbers :
             IF n >= main'.i THEN ~ Handed(n)' /\ printed'[n] = 0
             ELSE printed'[n] = IF Handed(n)' \/ ~ Prime(n) THEN 0 ELSE 1
      BY <1>3, <1>4 DEF Once
    <2> QED
      BY <2>1, <2>2, <2>3 DEF Once, Prime
  <1> QED
    BY <1>1, <1>4 DEF PoolInv

LEMMA IssueTaskKeeps ==
    ASSUME PoolInv, IssueTask
    PROVE  PoolInv'
  <1>1. /\ main.at = "lock" /\ num = 0 /\ main.i <= RIGHT /\ num' = main.i
        /\ main' = [main EXCEPT !.i = @ + 1] /\ UNCHANGED <<program, printed>>
    BY DEF IssueTask
  <1>2. SameTasks
    BY WakingKeepsTasks DEF PoolInv, IssueTask
  <1>3. Once
    BY <1>1 DEF PoolInv
  <1>4. /\ main.i \in Numbers /\ main.i \in Nat /\ main'.i = main.i + 1 /\ main'.at = "lock"
        /\ main' \in [at : {"create", "lock", "asleep", "join", "returned", "failed"},
                      i : LEFT .. RIGHT + 1]
        /\ 0 \notin Numbers
    <2>1. main.i \in LEFT .. RIGHT + 1 /\ LEFT \in Nat /\ RIGHT \in Nat /\ LEFT > 0
      BY PoolAssumption DEF PoolInv, PoolTypeOK
    <2>2. main.i \in Numbers /\ main.i + 1 \in LEFT .. RIGHT + 1 /\ 0 \notin Numbers
      BY <1>1, <2>1 DEF Numbers
    <2> QED
      BY <1>1, <2>1, <2>2 DEF PoolInv, PoolTypeOK
  <1>5. PoolTypeOK'
    BY <1>1, <1>2, <1>4 DEF PoolInv, PoolTypeOK, SameTasks
  <1>6. \A n \in Numbers : Handed(n)' <=> (n = main.i \/ Handed(n))
    BY <1>1, <1>2, <1>4 DEF Handed, SameTasks, Computing
  <1>7. ~ Handed(main.i) /\ printed[main.i] = 0
    BY <1>3, <1>4 DEF Once
  <1>8. Once'
    <2>1. \A w, v \in Workers : w # v /\ Computing(w)' /\ Computing(v)' =>
             worker'[w].i # worker'[v].i
      BY <1>2, <1>3 DEF Once, SameTasks
    <2>2. \A w \in Workers : Computing(w)' => worker'[w].i \in Numbers /\ worker'[w].i # num'
      BY <1>1, <1>2, <1>3, <1>7 DEF Once, SameTasks, Handed
    <2>3. ASSUME NEW n \in Numbers
          PROVE  IF n >= main'.i THEN ~ Handed(n)' /\ printed'[n] = 0
                 ELSE printed'[n] = IF Handed(n)' \/ ~ Prime(n) THEN 0 ELSE 1
      <3>1. n \in Nat
        BY PoolAssumption DEF Numbers
      <3>2. CASE n = main.i
        BY <1>1, <1>4, <1>6, <1>7, <3>2
      <3>3. CASE n # main.i
        <4>1. (n >= main'.i) <=> (n >= main.i)
          BY <1>4, <3>1, <3>3
        <4> QED
          BY <1>1, <1>3, <1>6, <3>3, <4>1 DEF Once
      <3> QED
        BY <3>2, <3>3
    <2> QED
      BY <2>1, <2>2, <2>3 DEF Once, Prime
  <1> QED
    BY <1>5, <1>8 DEF PoolInv

LEMMA TakeTaskKeeps ==
    ASSUME PoolInv, NEW w \in Workers, TakeTask(w)
    PROVE  PoolInv'
  <1>1. PICK n \in Numbers : n = num
    BY DEF TakeTask
  <1>2. /\ worker' = [worker EXCEPT ![w] = [at |-> "compute", i |-> n]]
        /\ num' = 0 /\ worker[w].at = "lock" /\ UNCHANGED <<program, printed>>
        /\ main' = [main EXCEPT !.at = IF @ = "asleep" THEN "lock" ELSE @]
    BY <1>1 DEF TakeTask
  <1>3. /\ main'.i = main.i /\ (main'.at = "failed" <=> main.at = "failed")
        /\ main' \in [at : {"create", "lock", "asleep", "join", "returned", "failed"},
                      i : LEFT .. RIGHT + 1]
    BY <1>2 DEF PoolInv, PoolTypeOK
  <1>4. /\ worker'[w].at = "compute" /\ worker'[w].i = n
        /\ \A v \in Workers : v # w => worker'[v] = worker[v]
        /\ worker' \in [Workers -> [at : {"unborn", "lock", "asleep", "compute", "ended"},
                                    i : Numbers \cup {0}]]
    BY <1>2 DEF PoolInv, PoolTypeOK
  <1>5. PoolTypeOK'
    BY <1>2, <1>3, <1>4 DEF PoolInv, PoolTypeOK
  <1>6. 0 \notin Numbers
    BY PoolAssumption DEF Numbers
  <1>7. \A m \in Numbers : Handed(m)' <=> Handed(m)
    BY <1>1, <1>2, <1>4, <1>6 DEF Handed, Computing
  <1>8. ASSUME Once PROVE Once'
    <2>1. \A u, v \in Workers : u # v /\ Computing(u)' /\ Computing(v)' =>
             worker'[u].i # worker'[v].i
      BY <1>1, <1>4, <1>8 DEF Once, Computing
    <2>2. \A v \in Workers : Computing(v)' => worker'[v].i \in Numbers /\ worker'[v].i # num'
      BY <1>2, <1>4, <1>6, <1>8 DEF Once, Computing
    <2>3. \A m \in Numbers :
             IF m >= main'.i THEN ~ Handed(m)' /\ printed'[m] = 0
             ELSE printed'[m] = IF Handed(m)' \/ ~ Prime(m) THEN 0 ELSE 1
      BY <1>2, <1>3, <1>7, <1>8 DEF Once
    <2> QED
      BY <2>1, <2>2, <2>3 DEF Once, Prime
  <1> QED
    BY <1>3, <1>5, <1>8 DEF PoolInv

LEMMA ComputeKeeps ==
    ASSUME PoolInv, NEW w \in Workers, Compute(w), main.at # "failed"
    PROVE  PoolInv'
  <1>1. Once
    BY DEF PoolInv
  <1>2. PICK n \in Numbers : n = worker[w].i
    BY <1>1 DEF Once, Compute, Computing
  <1>3. /\ worker[w].at = "compute" /\ UNCHANGED <<program, num, main>>
        /\ printed' = IF mark(n) THEN [printed EXCEPT ![n] = @ + 1] ELSE printed
        /\ worker' = [worker EXCEPT ![w] = [at |-> "lock", i |-> 0]]
    BY <1>2 DEF Compute
  <1>4. mark(n) <=> Prime(n)
    BY MarkIsPrime DEF PoolInv, PoolTypeOK
  <1>5. /\ printed' \in [Numbers -> Nat]
        /\ printed'[n] = IF Prime(n) THEN printed[n] + 1 ELSE printed[n]
        /\ \A m \in Numbers : m # n => printed'[m] = printed[m]
    <2>1. CASE Prime(n)
      BY <1>3, <1>4, <2>1 DEF PoolInv, PoolTypeOK
    <2>2. CASE ~ Prime(n)
      BY <1>3, <1>4, <2>2 DEF PoolInv, PoolTypeOK
    <2> QED
      BY <2>1, <2>2
  <1>6. /\ worker'[w].at = "lock"
        /\ \A v \in Workers : v # w => worker'[v] = worker[v]
        /\ worker' \in [Workers -> [at : {"unborn", "lock", "asleep", "compute", "ended"},
                                    i : Numbers \cup {0}]]
    BY <1>3 DEF PoolInv, PoolTypeOK
  <1>7. PoolTypeOK'
    BY <1>3, <1>5, <1>6 DEF PoolInv, PoolTypeOK
  <1>8. \A m \in Numbers : Handed(m)' <=> (Handed(m) /\ m # n)
    <2>1. num # n /\ \A v \in Workers : v # w /\ Computing(v) => worker[v].i # n
      BY <1>1, <1>2, <1>3 DEF Once, Computing
    <2> QED
      BY <1>2, <1>3, <1>6, <2>1 DEF Handed, Computing
  <1>9. Handed(n)
    BY <1>2, <1>3 DEF Handed, Computing
  <1>10. n < main.i /\ printed[n] = 0
    <2>1. n \in Int /\ main.i \in Int
      BY PoolAssumption DEF Numbers, PoolInv, PoolTypeOK
    <2> QED
      BY <1>1, <1>9, <2>1 DEF Once
  <1>11. Once'
    <2>1. \A u, v \in Workers : u # v /\ Computing(u)' /\ Computing(v)' =>
             worker'[u].i # worker'[v].i
      BY <1>1, <1>6 DEF Once, Computing
    <2>2. \A v \in Workers : Computing(v)' => worker'[v].i \in Numbers /\ worker'[v].i # num'
      BY <1>1, <1>3, <1>6 DEF Once, Computing
    <2>3. ASSUME NEW m \in Numbers
          PROVE  IF m >= main'.i THEN ~ Handed(m)' /\ printed'[m] = 0
                 ELSE printed'[m] = IF Handed(m)' \/ ~ Prime(m) THEN 0 ELSE 1
      <3>1. CASE m = n
        <4>1. ~ (n >= main'.i)
          <5>1. n \in Int /\ main.i \in Int
            BY PoolAssumption DEF Numbers, PoolInv, PoolTypeOK
          <5> QED
            BY <1>3, <1>10, <5>1
        <4>2. ~ Handed(n)'
          BY <1>8
        <4>3. printed'[n] = IF Prime(n) THEN 1 ELSE 0
          BY <1>5, <1>10
        <4> QED
          BY <3>1, <4>1, <4>2, <4>3
      <3>2. CASE m # n
        BY <1>1, <1>3, <1>5, <1>8, <3>2 DEF Once
      <3> QED
        BY <3>1, <3>2
    <2> QED
      BY <2>1, <2>2, <2>3 DEF Once, Prime
  <1> QED
    BY <1>7, <1>11 DEF PoolInv

\* exit(1) leaves no worker.
PoolExit == main.at = "failed" => \A w \in Workers : worker[w].at = "ended"

\* One worker goes on, with the number it has.
LEMMA MovingKeepsTasks ==
    ASSUME PoolTypeOK, NEW w \in Workers, ~ Computing(w),
           NEW at \in {"unborn", "lock", "asleep", "ended"},
           worker' = [worker EXCEPT ![w].at = at]
    PROVE  SameTasks
  <1>1. /\ worker' \in [Workers -> [at : {"unborn", "lock", "asleep", "compute", "ended"},
                                    i : Numbers \cup {0}]]
        /\ worker'[w].at = at /\ worker'[w].i = worker[w].i
        /\ \A v \in Workers : v # w => worker'[v] = worker[v]
    BY DEF PoolTypeOK
  <1> QED
    BY <1>1 DEF SameTasks, Computing

LEMMA PoolStep ==
    ASSUME PoolInv, PoolExit, PoolNext
    PROVE  PoolInv' /\ PoolExit'
  <1>1. main.at # "failed"
    <2>1. SUFFICES ASSUME main.at = "failed" PROVE FALSE
      OBVIOUS
    <2>2. \A w \in Workers : worker[w].at = "ended"
      BY <2>1 DEF PoolExit
    <2> QED
      BY <2>1, <2>2 DEF PoolNext, Main, thr_primer, CreateWorker, AllCreated, IssueTask,
         IssueEnd, JoinAll, MainWaits, CreateFails, MainSpuriousWakeup, TakeTask, TakeEnd,
         Compute, WorkerWaits, WorkerSpuriousWakeup
  <1>2. /\ PoolTypeOK
        /\ main \in [at : {"create", "lock", "asleep", "join", "returned", "failed"},
                     i : LEFT .. RIGHT + 1]
    BY DEF PoolInv, PoolTypeOK
  <1>3. ASSUME UNCHANGED worker PROVE SameTasks
    BY <1>2, <1>3 DEF SameTasks, Computing, PoolTypeOK
  <1>4. ASSUME NEW at \in {"create", "lock", "asleep", "join", "returned"},
               main' = [main EXCEPT !.at = at], SameTasks, UNCHANGED <<program, printed>>,
               num' = num \/ (num = 0 /\ num' = -1)
        PROVE  PoolInv' /\ PoolExit'
    <2>1. /\ main'.i = main.i /\ main'.at # "failed"
          /\ main' \in [at : {"create", "lock", "asleep", "join", "returned", "failed"},
                        i : LEFT .. RIGHT + 1]
      BY <1>2, <1>4
    <2> QED
      BY <1>1, <1>4, <2>1, QuietKeeps DEF PoolExit
  <1>5. ASSUME SameTasks, UNCHANGED <<program, num, main, printed>>
        PROVE  PoolInv' /\ PoolExit'
    BY <1>1, <1>2, <1>5, QuietKeeps DEF PoolExit
  <1>6. ASSUME NEW w \in Workers, CreateWorker(w) PROVE PoolInv' /\ PoolExit'
    <2>1. SameTasks
      BY <1>2, <1>6, MovingKeepsTasks DEF CreateWorker, Computing
    <2> QED
      BY <1>5, <1>6, <2>1 DEF CreateWorker
  <1>7. CASE CreateFails
    <2>1. /\ main' \in [at : {"create", "lock", "asleep", "join", "returned", "failed"},
                        i : LEFT .. RIGHT + 1]
          /\ main'.at = "failed"
      BY <1>2, <1>7 DEF CreateFails
    <2>2. /\ worker' \in [Workers -> [at : {"unborn", "lock", "asleep", "compute", "ended"},
                                      i : Numbers \cup {0}]]
          /\ \A w \in Workers : worker'[w].at = "ended"
      BY <1>7 DEF CreateFails
    <2> QED
      BY <1>2, <1>7, <2>1, <2>2 DEF PoolInv, PoolTypeOK, PoolExit, CreateFails
  <1>8. CASE AllCreated
    BY <1>3, <1>4, <1>8 DEF AllCreated
  <1>9. CASE MainWaits
    <2>1. CASE program = "cond"
      BY <1>3, <1>4, <1>9, <2>1 DEF MainWaits
    <2>2. CASE program # "cond"
      BY <1>3, <1>4, <1>9, <2>2 DEF MainWaits
    <2> QED
      BY <2>1, <2>2
  <1>10. CASE IssueTask
    <2>1. main'.at # "failed"
      BY <1>2, <1>10 DEF IssueTask
    <2> QED
      BY <1>10, <2>1, IssueTaskKeeps DEF PoolExit
  <1>11. CASE IssueEnd
    <2>1. SameTasks
      BY <1>2, <1>11, WakingKeepsTasks DEF IssueEnd
    <2> QED
      BY <1>4, <1>11, <2>1 DEF IssueEnd
  <1>12. CASE JoinAll
    BY <1>3, <1>4, <1>12 DEF JoinAll
  <1>13. CASE MainSpuriousWakeup
    BY <1>3, <1>4, <1>13 DEF MainSpuriousWakeup
  <1>14. ASSUME NEW w \in Workers, WorkerWaits(w) PROVE PoolInv' /\ PoolExit'
    <2>1. CASE program = "cond"
      <3>1. worker' = [worker EXCEPT ![w].at = "asleep"]
        BY <1>14, <2>1 DEF WorkerWaits
      <3>2. SameTasks
        BY <1>2, <1>14, <3>1, MovingKeepsTasks DEF WorkerWaits, Computing
      <3> QED
        BY <1>5, <1>14, <3>2 DEF WorkerWaits
    <2>2. CASE program # "cond"
      <3>1. worker' = [worker EXCEPT ![w].at = "lock"]
        BY <1>14, <2>2 DEF WorkerWaits
      <3>2. SameTasks
        BY <1>2, <1>14, <3>1, MovingKeepsTasks DEF WorkerWaits, Computing
      <3> QED
        BY <1>5, <1>14, <3>2 DEF WorkerWaits
    <2> QED
      BY <2>1, <2>2
  <1>15. ASSUME NEW w \in Workers, TakeTask(w) PROVE PoolInv' /\ PoolExit'
    <2>1. main'.at # "failed"
      BY <1>1, <1>2, <1>15 DEF TakeTask
    <2> QED
      BY <1>15, <2>1, TakeTaskKeeps DEF PoolExit
  <1>16. ASSUME NEW w \in Workers, TakeEnd(w) PROVE PoolInv' /\ PoolExit'
    <2>1. SameTasks
      BY <1>2, <1>16, MovingKeepsTasks DEF TakeEnd, Computing
    <2> QED
      BY <1>5, <1>16, <2>1 DEF TakeEnd
  <1>17. ASSUME NEW w \in Workers, Compute(w) PROVE PoolInv' /\ PoolExit'
    BY <1>1, <1>17, ComputeKeeps DEF PoolExit, Compute
  <1>18. ASSUME NEW w \in Workers, WorkerSpuriousWakeup(w) PROVE PoolInv' /\ PoolExit'
    <2>1. SameTasks
      BY <1>2, <1>18, MovingKeepsTasks DEF WorkerSpuriousWakeup, Computing
    <2> QED
      BY <1>5, <1>18, <2>1 DEF WorkerSpuriousWakeup
  <1> QED
    BY <1>6, <1>7, <1>8, <1>9, <1>10, <1>11, <1>12, <1>13, <1>14, <1>15, <1>16, <1>17, <1>18
       DEF PoolNext, Main, thr_primer

\* The thread pools, both programs, with any number of workers and any numbers above
\* 4: every number handed out by main is in num, in the hands of one worker, or done
\* with, and printed exactly if the worker's loop found no divisor.
THEOREM PoolInvariant == PoolSpec => [](PoolInv /\ PoolExit)
  <1>1. PoolInit => PoolInv /\ PoolExit
    <2>1. SUFFICES ASSUME PoolInit PROVE PoolInv /\ PoolExit
      OBVIOUS
    <2>2. LEFT \in LEFT .. RIGHT + 1 /\ \A n \in Numbers : n \in Int /\ n >= LEFT /\ n # 0
      BY PoolAssumption DEF Numbers
    <2>3. /\ main.at = "create" /\ main.i = LEFT /\ num = 0
          /\ \A n \in Numbers : printed[n] = 0
          /\ \A w \in Workers : ~ Computing(w)
      BY <2>1 DEF PoolInit, Computing
    <2>4. PoolTypeOK
      BY <2>1, <2>2 DEF PoolInit, PoolTypeOK
    <2>5. Once
      BY <2>2, <2>3 DEF Once, Handed
    <2> QED
      BY <2>3, <2>4, <2>5 DEF PoolInv, PoolExit
  <1>2. PoolInv /\ PoolExit /\ [PoolNext]_poolVars => (PoolInv /\ PoolExit)'
    <2>1. SUFFICES ASSUME PoolInv, PoolExit, [PoolNext]_poolVars PROVE PoolInv' /\ PoolExit'
      OBVIOUS
    <2>2. CASE PoolNext
      BY <2>1, <2>2, PoolStep
    <2>3. CASE UNCHANGED poolVars
      BY <2>1, <2>3 DEF poolVars, PoolInv, PoolExit, PoolTypeOK, Once, Handed, Computing, Prime
    <2> QED
      BY <2>1, <2>2, <2>3
  <1> QED
    BY <1>1, <1>2, PTL DEF PoolSpec

\* No task is overwritten before a worker has taken it, none is taken twice, and each
\* is printed once if it is a prime and never otherwise (both loops decide primality).
THEOREM TasksOnce == PoolSpec => []EachTaskOnce
  <1>1. PoolInv => EachTaskOnce
    <2>1. SUFFICES ASSUME PoolInv, main.at # "failed", NEW n \in Numbers
                   PROVE  LET places == Cardinality(InHand(n)) + (IF num = n THEN 1 ELSE 0)
                          IN  IF n >= main.i THEN places = 0 /\ printed[n] = 0
                              ELSE IF places = 0 THEN printed[n] = IF Prime(n) THEN 1 ELSE 0
                              ELSE places = 1 /\ printed[n] = 0
      BY DEF EachTaskOnce
    <2>2. Once
      BY <2>1 DEF PoolInv
    <2>3. (IF n >= main.i THEN ~ Handed(n) /\ printed[n] = 0
           ELSE printed[n] = IF Handed(n) \/ ~ Prime(n) THEN 0 ELSE 1)
      BY <2>1, <2>2 DEF Once
    <2>4. CASE InHand(n) = {}
      <3>1. Cardinality(InHand(n)) = 0
        BY <2>4, FS_EmptySet
      <3>2. Handed(n) <=> num = n
        BY <2>4 DEF Handed, InHand, Computing
      <3> QED
        BY <2>3, <3>1, <3>2
    <2>5. CASE InHand(n) # {}
      <3>1. PICK w \in Workers : Computing(w) /\ worker[w].i = n
        BY <2>5 DEF InHand, Computing
      <3>2. InHand(n) = {w}
        BY <2>2, <3>1 DEF InHand, Once, Computing
      <3>3. Cardinality(InHand(n)) = 1
        BY <3>2, FS_Singleton
      <3>4. Handed(n) /\ num # n
        BY <2>2, <3>1 DEF Handed, Once
      <3> QED
        BY <2>3, <3>3, <3>4
    <2> QED
      BY <2>4, <2>5
  <1> QED
    BY <1>1, PoolInvariant, PTL

\* No signal of the pool is lost: main sleeps only while a task waits in the slot, a
\* worker is then up to take it, and once the end is in the slot no worker sleeps on.
PoolAwake ==
    main.at # "failed" =>
       /\ main.at = "asleep" => num \in Numbers
       /\ num \in Numbers => \E w \in Workers : worker[w].at \in {"lock", "compute"}
       /\ num = -1 => \A w \in Workers : worker[w].at # "asleep"

\* The workers are all created when the first task is handed out, and none of them
\* ends before the end is.
Employed ==
    main.at # "failed" =>
       /\ main.at # "create" => \A w \in Workers : worker[w].at # "unborn"
       /\ num # -1 => \A w \in Workers : worker[w].at # "ended"
       /\ main.at \in {"create", "lock", "asleep"} <=> num # -1

\* Nobody goes to sleep, ends or is born while the slot stays as it is.
LEMMA SlotKeptKeeps ==
    ASSUME PoolTypeOK, PoolTypeOK', PoolAwake, Employed, main.at # "failed",
           num' = num, main'.at # "failed",
           \/ main'.at = main.at
           \/ /\ main.at = "create" /\ main'.at = "lock"
              /\ \A w \in Workers : worker'[w].at # "unborn"
           \/ main.at = "join" /\ main'.at = "returned"
           \/ main.at = "asleep" /\ main'.at = "lock"
           \/ main.at = "lock" /\ main'.at = "asleep" /\ num \in Numbers,
           \A w \in Workers : \/ worker'[w].at = worker[w].at
                              \/ worker'[w].at = "lock"
                              \/ worker'[w].at = "asleep" /\ num = 0
                              \/ worker'[w].at = "ended" /\ num = -1
    PROVE  PoolAwake' /\ Employed'
  <1>1. 0 \notin Numbers /\ -1 \notin Numbers
    BY PoolAssumption DEF Numbers
  <1>2. PoolAwake'
    BY <1>1 DEF PoolAwake
  <1>3. Employed'
    BY <1>1 DEF Employed
  <1> QED
    BY <1>2, <1>3

\* Whom pthread_cond_signal and pthread_cond_broadcast wake.
LEMMA WakingOrders ==
    ASSUME PoolTypeOK, SignalJob \/ BroadcastJob
    PROVE  /\ \A w \in Workers : \/ worker'[w].at = worker[w].at
                                 \/ worker[w].at = "asleep" /\ worker'[w].at = "lock"
           /\ BroadcastJob => \A w \in Workers : worker'[w].at # "asleep"
           /\ Asleep # {} => \E w \in Workers : worker'[w].at = "lock"
  <1>1. ASSUME NEW ws \in SUBSET Asleep, worker' = Woken(ws)
        PROVE  /\ \A w \in Workers : IF w \in ws THEN worker'[w].at = "lock"
                                     ELSE worker'[w].at = worker[w].at
               /\ \A w \in ws : w \in Workers /\ worker[w].at = "asleep"
    BY <1>1 DEF PoolTypeOK, Asleep, Woken
  <1>2. CASE BroadcastJob
    <2>1. worker' = Woken(Asleep) /\ Asleep \in SUBSET Asleep
      BY <1>2 DEF BroadcastJob
    <2>2. \A w \in Workers : worker[w].at = "asleep" => w \in Asleep
      BY DEF Asleep
    <2> QED
      BY <1>1, <2>1, <2>2
  <1>3. CASE SignalJob /\ Asleep = {}
    <2>1. worker' = worker /\ \A w \in Workers : worker[w].at # "asleep"
      BY <1>3 DEF SignalJob, Asleep
    <2> QED
      BY <1>3, <2>1
  <1>4. CASE SignalJob /\ Asleep # {} /\ ~ BroadcastJob
    <2>1. PICK w \in Asleep : worker' = Woken({w})
      BY <1>4 DEF SignalJob
    <2>2. {w} \in SUBSET Asleep
      BY <2>1
    <2> QED
      BY <1>1, <1>4, <2>1, <2>2
  <1> QED
    BY <1>2, <1>3, <1>4

LEMMA PoolAwakeStep ==
    ASSUME PoolTypeOK, PoolTypeOK', PoolAwake, Employed, main.at # "failed", PoolNext
    PROVE  PoolAwake' /\ Employed'
  <1>1. /\ 0 \notin Numbers /\ -1 \notin Numbers /\ num \in Numbers \cup {0, -1}
        /\ main \in [at : {"create", "lock", "asleep", "join", "returned", "failed"},
                     i : LEFT .. RIGHT + 1]
    BY PoolAssumption DEF Numbers, PoolTypeOK
  <1>2. ASSUME NEW w \in Workers,
               NEW at \in {"unborn", "lock", "asleep", "compute", "ended"},
               worker' = [worker EXCEPT ![w].at = at]
        PROVE  \A v \in Workers : worker'[v].at = IF v = w THEN at ELSE worker[v].at
    BY <1>2 DEF PoolTypeOK
  <1>3. ASSUME NEW w \in Workers, CreateWorker(w) PROVE PoolAwake' /\ Employed'
    <2>1. \A v \in Workers : worker'[v].at = IF v = w THEN "lock" ELSE worker[v].at
      BY <1>2, <1>3 DEF CreateWorker
    <2> QED
      BY <1>3, <2>1, SlotKeptKeeps DEF CreateWorker
  <1>4. CASE CreateFails
    BY <1>1, <1>4 DEF CreateFails, PoolAwake, Employed
  <1>5. CASE AllCreated
    BY <1>1, <1>5, SlotKeptKeeps DEF AllCreated
  <1>6. CASE MainWaits
    <2>1. num \in Numbers
      BY <1>1, <1>6 DEF MainWaits, Employed
    <2> QED
      BY <1>1, <1>6, <2>1, SlotKeptKeeps DEF MainWaits
  <1>7. CASE IssueTask
    <2>1. /\ num = 0 /\ main.at = "lock" /\ main'.at = "lock" /\ num' = main.i
          /\ num' # -1 /\ SignalJob
      BY <1>1, <1>7, PoolAssumption DEF IssueTask
    <2>2. \A w \in Workers : worker[w].at \in {"lock", "compute", "asleep"}
      BY <1>1, <2>1 DEF Employed, PoolTypeOK
    <2>3. /\ \A w \in Workers : worker'[w].at \in {"lock", "compute", "asleep"}
          /\ \E w \in Workers : worker'[w].at \in {"lock", "compute"}
      <3>1. CASE Asleep = {}
        <4>1. \A w \in Workers : worker[w].at # "asleep"
          BY <3>1 DEF Asleep
        <4> QED
          BY <2>1, <2>2, <4>1, WakingOrders, PoolAssumption
      <3>2. CASE Asleep # {}
        BY <2>1, <2>2, <3>2, WakingOrders
      <3> QED
        BY <3>1, <3>2
    <2> QED
      BY <2>1, <2>3 DEF PoolAwake, Employed
  <1>8. CASE IssueEnd
    <2>1. num = 0 /\ main.at = "lock" /\ main'.at = "join" /\ num' = -1 /\ BroadcastJob
      BY <1>1, <1>8 DEF IssueEnd
    <2>2. \A w \in Workers : /\ worker'[w].at # "asleep"
                             /\ worker'[w].at = worker[w].at \/ worker'[w].at = "lock"
      BY <2>1, WakingOrders
    <2> QED
      BY <1>1, <2>1, <2>2 DEF PoolAwake, Employed
  <1>9. CASE JoinAll
    BY <1>1, <1>9, SlotKeptKeeps DEF JoinAll
  <1>10. CASE MainSpuriousWakeup
    BY <1>1, <1>10, SlotKeptKeeps DEF MainSpuriousWakeup
  <1>11. ASSUME NEW w \in Workers, WorkerWaits(w) PROVE PoolAwake' /\ Employed'
    <2>1. \A v \in Workers :
             worker'[v].at = IF v = w THEN IF program = "cond" THEN "asleep" ELSE "lock"
                             ELSE worker[v].at
      BY <1>11 DEF WorkerWaits, PoolTypeOK
    <2> QED
      BY <1>11, <2>1, SlotKeptKeeps DEF WorkerWaits
  <1>12. ASSUME NEW w \in Workers, TakeTask(w) PROVE PoolAwake' /\ Employed'
    <2>1. /\ num' = 0 /\ num \in Numbers
          /\ main'.at = IF main.at = "asleep" THEN "lock" ELSE main.at
          /\ \A v \in Workers : worker'[v].at = IF v = w THEN "compute" ELSE worker[v].at
      BY <1>1, <1>12 DEF TakeTask, PoolTypeOK
    <2> QED
      BY <1>1, <2>1 DEF PoolAwake, Employed
  <1>13. ASSUME NEW w \in Workers, TakeEnd(w) PROVE PoolAwake' /\ Employed'
    <2>1. \A v \in Workers : worker'[v].at = IF v = w THEN "ended" ELSE worker[v].at
      BY <1>2, <1>13 DEF TakeEnd
    <2> QED
      BY <1>13, <2>1, SlotKeptKeeps DEF TakeEnd
  <1>14. ASSUME NEW w \in Workers, Compute(w) PROVE PoolAwake' /\ Employed'
    <2>1. \A v \in Workers : worker'[v].at = IF v = w THEN "lock" ELSE worker[v].at
      BY <1>14 DEF Compute, PoolTypeOK
    <2> QED
      BY <1>14, <2>1, SlotKeptKeeps DEF Compute
  <1>15. ASSUME NEW w \in Workers, WorkerSpuriousWakeup(w) PROVE PoolAwake' /\ Employed'
    <2>1. \A v \in Workers : worker'[v].at = IF v = w THEN "lock" ELSE worker[v].at
      BY <1>2, <1>15 DEF WorkerSpuriousWakeup
    <2> QED
      BY <1>15, <2>1, SlotKeptKeeps DEF WorkerSpuriousWakeup
  <1> QED
    BY <1>3, <1>4, <1>5, <1>6, <1>7, <1>8, <1>9, <1>10, <1>11, <1>12, <1>13, <1>14, <1>15
       DEF PoolNext, Main, thr_primer

\* Both pools, with any number of workers: wherever main stands, whoever it waits for
\* is up, so that no wakeup is lost between cond_empty and cond_job.
THEOREM PoolNeverStuck == PoolSpec => []PoolAwake
  <1>1. PoolInit => PoolAwake /\ Employed
    BY PoolAssumption DEF PoolInit, PoolAwake, Employed, Numbers
  <1>2. /\ (PoolInv /\ PoolExit) /\ (PoolInv /\ PoolExit)'
        /\ PoolAwake /\ Employed /\ [PoolNext]_poolVars
        => (PoolAwake /\ Employed)'
    <2>1. SUFFICES ASSUME PoolInv, PoolExit, PoolInv', PoolExit', PoolAwake, Employed,
                          [PoolNext]_poolVars
                   PROVE  PoolAwake' /\ Employed'
      OBVIOUS
    <2>2. CASE PoolNext /\ main.at # "failed"
      BY <2>1, <2>2, PoolAwakeStep DEF PoolInv
    <2>3. CASE PoolNext /\ main.at = "failed"
      <3>1. \A w \in Workers : worker[w].at = "ended"
        BY <2>1, <2>3 DEF PoolExit
      <3> QED
        BY <2>3, <3>1 DEF PoolNext, Main, thr_primer, CreateWorker, AllCreated, IssueTask,
           IssueEnd, JoinAll, MainWaits, CreateFails, MainSpuriousWakeup, TakeTask, TakeEnd,
           Compute, WorkerWaits, WorkerSpuriousWakeup
    <2>4. CASE UNCHANGED poolVars
      BY <2>1, <2>4 DEF poolVars, PoolAwake, Employed
    <2> QED
      BY <2>1, <2>2, <2>3, <2>4
  <1> QED
    BY <1>1, <1>2, PoolInvariant, PTL DEF PoolSpec

-----------------------------------------------------------------------------
\* The semaphore.

SemSpec == SemInit /\ [][SemNext]_semVars

IssuerAt == {"init", "sub", "asleep", "create", "join", "returned", "killed"}
SemTypeOK ==
    /\ sem \in [value : Int, live : BOOLEAN]
    /\ issuer \in [at : IssuerAt, i : 1 .. Jobs + 1]
    /\ thr \in [1 .. Jobs -> {"unborn", "compute", "add", "ended"}]

\* While the semaphore is in use each of its units is free, held by a thread at work,
\* or in the hands of main, which is about to create one; it is not used before
\* mysem_init or after mysem_destroy, and after exit(1) it stays as it was.
Units ==
    /\ issuer.at \in {"init", "returned"} => Running = {}
    /\ issuer.at \in {"sub", "asleep", "create", "join"} =>
          /\ sem.live /\ sem.value >= 0
          /\ sem.value + Cardinality(Running) + (IF issuer.at = "create" THEN 1 ELSE 0) = N
    /\ issuer.at = "killed" => WithinLimit /\ Outlived

\* The threads from i on are not created yet.
Creation ==
    /\ issuer.at \in {"init", "sub", "asleep", "create"} => issuer.i <= Jobs
    /\ \A j \in 1 .. Jobs : j >= issuer.i => thr[j] = "unborn"

SemInv == SemTypeOK /\ Units /\ Creation


LEMMA RunningFinite == IsFiniteSet(Running) /\ Cardinality(Running) \in Nat
  <1>1. IsFiniteSet(1 .. Jobs)
    BY FS_Interval, SemaphoreAssumption
  <1>2. Running \subseteq 1 .. Jobs
    BY DEF Running
  <1>3. IsFiniteSet(Running)
    BY <1>1, <1>2, FS_Subset
  <1> QED
    BY <1>3, FS_CardinalityType

\* main goes on and no thread does: the units are where they were.
LEMMA IssuerMovesKeeps ==
    ASSUME SemInv, NEW at \in IssuerAt \ {"init", "create", "returned"}, IssuerGoes(at),
           \/ issuer.at \in {"sub", "asleep"} /\ at \in {"sub", "asleep"}
           \/ issuer.at \in {"init", "create"} /\ at = "killed",
           UNCHANGED <<sem, thr>>
    PROVE  SemInv'
  <1>1. /\ issuer'.at = at /\ issuer'.i = issuer.i /\ issuer' \in [at : IssuerAt, i : 1 .. Jobs + 1]
        /\ Running' = Running
    BY DEF SemInv, SemTypeOK, IssuerGoes, Running
  <1>2. Cardinality(Running) \in Nat /\ sem.value \in Int /\ N \in Nat
    BY RunningFinite, SemaphoreAssumption DEF SemInv, SemTypeOK
  <1>3. SemTypeOK' /\ Creation'
    BY <1>1 DEF SemInv, SemTypeOK, Creation
  <1>4. CASE at \in {"sub", "asleep"}
    BY <1>1, <1>3, <1>4 DEF SemInv, Units
  <1>5. CASE at = "killed"
    <2>1. CASE issuer.at = "init"
      <3>1. Running = {} /\ Cardinality(Running) = 0
        BY <2>1, FS_EmptySet DEF SemInv, Units
      <3> QED
        BY <1>1, <1>2, <1>3, <1>5, <3>1 DEF SemInv, Units, WithinLimit, Outlived
    <2>2. CASE issuer.at = "create"
      <3>1. sem.live /\ Cardinality(Running) <= N
        BY <1>2, <2>2 DEF SemInv, Units
      <3> QED
        BY <1>1, <1>3, <1>5, <3>1 DEF SemInv, Units, WithinLimit, Outlived
    <2> QED
      BY <1>5, <2>1, <2>2
  <1> QED
    BY <1>4, <1>5

LEMMA SemStep ==
    ASSUME SemInv, SemNext
    PROVE  SemInv'
  <1> USE DEF SemInv
  <1>1. Cardinality(Running) \in Nat /\ IsFiniteSet(Running) /\ sem.value \in Int /\ N \in Nat
    BY RunningFinite, SemaphoreAssumption DEF SemTypeOK
  <1>2. CASE mysem_init(N)
    <2>1. /\ sem'.live /\ sem'.value = N /\ sem' \in [value : Int, live : BOOLEAN]
          /\ issuer.at = "init" /\ issuer'.at = "sub" /\ issuer'.i = issuer.i
          /\ issuer' \in [at : IssuerAt, i : 1 .. Jobs + 1]
          /\ thr' = thr /\ Running' = Running
      BY <1>1, <1>2 DEF mysem_init, IssuerGoes, SemTypeOK, IssuerAt, Running
    <2>2. Running = {} /\ Cardinality(Running) = 0
      BY <2>1, FS_EmptySet DEF Units
    <2>3. issuer.i <= Jobs
      BY <2>1 DEF Creation
    <2>4. Units'
      BY <1>1, <2>1, <2>2 DEF Units
    <2> QED
      BY <2>1, <2>3, <2>4 DEF SemTypeOK, Creation
  <1>3. CASE InitFails
    BY <1>3, IssuerMovesKeeps DEF InitFails, IssuerAt
  <1>4. CASE mysem_sub(1)
    <2>1. /\ sem'.live = sem.live /\ sem'.value = sem.value - 1
          /\ sem' \in [value : Int, live : BOOLEAN] /\ sem.value >= 1
          /\ issuer.at = "sub" /\ issuer'.at = "create" /\ issuer'.i = issuer.i
          /\ issuer' \in [at : IssuerAt, i : 1 .. Jobs + 1]
          /\ thr' = thr /\ Running' = Running
      BY <1>1, <1>4 DEF mysem_sub, IssuerGoes, SemTypeOK, IssuerAt, Running
    <2>2. Units'
      BY <1>1, <2>1 DEF Units
    <2> QED
      BY <2>1, <2>2 DEF SemTypeOK, Creation
  <1>5. CASE SubWaits(1)
    <2>1. issuer.at = "sub" /\ IssuerGoes("asleep") /\ UNCHANGED <<sem, thr>>
      BY <1>5 DEF SubWaits
    <2>2. "asleep" \in IssuerAt \ {"init", "create", "returned"}
      BY DEF IssuerAt
    <2> QED
      BY <2>1, <2>2, IssuerMovesKeeps
  <1>6. CASE SubSpuriousWakeup
    <2>1. issuer.at = "asleep" /\ IssuerGoes("sub") /\ UNCHANGED <<sem, thr>>
      BY <1>6 DEF SubSpuriousWakeup
    <2>2. "sub" \in IssuerAt \ {"init", "create", "returned"}
      BY DEF IssuerAt
    <2> QED
      BY <2>1, <2>2, IssuerMovesKeeps
  <1>7. CASE ThreadCreated
    <2>1. PICK i \in 1 .. Jobs : i = issuer.i
      BY <1>7, SemaphoreAssumption DEF ThreadCreated, SemTypeOK, Creation
    <2>2. /\ sem' = sem /\ issuer.at = "create" /\ issuer'.i = i + 1
          /\ issuer'.at = (IF i < Jobs THEN "sub" ELSE "join")
          /\ thr' = [thr EXCEPT ![i] = "compute"]
      BY <1>7, <2>1 DEF ThreadCreated
    <2>3. i + 1 \in 1 .. Jobs + 1 /\ i \in Nat /\ Jobs \in Nat
      BY SemaphoreAssumption
    <2>4. issuer' \in [at : IssuerAt, i : 1 .. Jobs + 1]
      <3>1. issuer' = [at |-> IF i < Jobs THEN "sub" ELSE "join", i |-> i + 1]
        BY <1>7, <2>1 DEF ThreadCreated
      <3>2. (IF i < Jobs THEN "sub" ELSE "join") \in IssuerAt
        BY DEF IssuerAt
      <3> QED
        BY <2>3, <3>1, <3>2
    <2>5. /\ thr' \in [1 .. Jobs -> {"unborn", "compute", "add", "ended"}]
          /\ thr'[i] = "compute" /\ \A j \in 1 .. Jobs : j # i => thr'[j] = thr[j]
      BY <2>2 DEF SemTypeOK
    <2>6. thr[i] = "unborn"
      BY <2>1 DEF Creation
    <2>7. Running' = Running \cup {i} /\ i \notin Running
      BY <2>5, <2>6 DEF Running
    <2>8. Cardinality(Running') = Cardinality(Running) + 1
      BY <1>1, <2>7, FS_AddElement
    <2>9. sem.live /\ sem.value >= 0 /\ sem.value + Cardinality(Running) + 1 = N
      BY <2>2 DEF Units
    <2>10. issuer'.at \in {"sub", "join"}
      BY <2>2
    <2>11. sem.value + Cardinality(Running') = N
      BY <1>1, <2>8, <2>9
    <2>12. Units'
      BY <1>1, <2>2, <2>9, <2>10, <2>11 DEF Units
    <2>13. Creation'
      <3>1. issuer'.at = "sub" => i + 1 <= Jobs
        BY <2>2, <2>3
      <3>2. \A j \in 1 .. Jobs : j >= i + 1 => thr'[j] = "unborn"
        BY <2>1, <2>3, <2>5 DEF Creation
      <3> QED
        BY <2>2, <2>10, <3>1, <3>2 DEF Creation
    <2> QED
      BY <2>2, <2>4, <2>5, <2>12, <2>13 DEF SemTypeOK
  <1>8. CASE ThreadFails
    BY <1>8, IssuerMovesKeeps DEF ThreadFails, IssuerAt
  <1>9. CASE mysem_destroy
    <2>1. /\ issuer' \in [at : IssuerAt, i : 1 .. Jobs + 1] /\ issuer'.at = "returned"
          /\ issuer'.i = issuer.i /\ thr' = thr /\ sem' \in [value : Int, live : BOOLEAN]
      BY <1>9 DEF mysem_destroy, IssuerGoes, SemTypeOK, IssuerAt
    <2>2. Running' = {}
      BY <1>9 DEF mysem_destroy, Running
    <2> QED
      BY <2>1, <2>2 DEF SemTypeOK, Units, Creation
  <1>10. ASSUME NEW j \in 1 .. Jobs, Computes(j) PROVE SemInv'
    <2>1. /\ thr' \in [1 .. Jobs -> {"unborn", "compute", "add", "ended"}] /\ thr[j] = "compute"
          /\ thr'[j] = "add" /\ \A k \in 1 .. Jobs : k # j => thr'[k] = thr[k]
          /\ UNCHANGED <<sem, issuer>>
      BY <1>10 DEF Computes, SemTypeOK
    <2>2. Running' = Running
      BY <2>1 DEF Running
    <2>3. Units'
      BY <2>1, <2>2 DEF Units, WithinLimit, Outlived
    <2>4. Creation'
      BY <2>1 DEF Creation
    <2> QED
      BY <2>1, <2>3, <2>4 DEF SemTypeOK
  <1>11. ASSUME NEW j \in 1 .. Jobs, mysem_add(j, 1) PROVE SemInv'
    <2>1. /\ thr' \in [1 .. Jobs -> {"unborn", "compute", "add", "ended"}] /\ thr[j] = "add"
          /\ thr'[j] = "ended" /\ \A k \in 1 .. Jobs : k # j => thr'[k] = thr[k]
      BY <1>11 DEF mysem_add, SemTypeOK
    <2>2. Running' = Running \ {j} /\ j \in Running
      BY <2>1 DEF Running
    <2>3. Cardinality(Running') = Cardinality(Running) - 1
      BY <1>1, <2>2, FS_RemoveElement
    <2>4. issuer.at \in {"sub", "asleep", "create", "join"}
      BY <1>11, <2>2 DEF mysem_add, Units, SemTypeOK, IssuerAt
    <2>5. /\ sem'.live = sem.live /\ sem'.value = sem.value + 1
          /\ sem' \in [value : Int, live : BOOLEAN]
      BY <1>1, <1>11 DEF mysem_add, SemTypeOK
    <2>6. /\ issuer'.at = (IF issuer.at = "asleep" THEN "sub" ELSE issuer.at)
          /\ issuer'.i = issuer.i /\ issuer' \in [at : IssuerAt, i : 1 .. Jobs + 1]
      BY <1>11, <2>4 DEF mysem_add, IssuerGoes, SemTypeOK, IssuerAt
    <2>7. sem.live /\ sem.value >= 0
          /\ sem.value + Cardinality(Running) + (IF issuer.at = "create" THEN 1 ELSE 0) = N
      BY <2>4 DEF Units
    <2>8. /\ issuer'.at \in {"sub", "asleep", "create", "join"}
          /\ issuer'.at = "create" <=> issuer.at = "create"
      BY <2>4, <2>6
    <2>9. sem'.value + Cardinality(Running') + (IF issuer'.at = "create" THEN 1 ELSE 0) = N
      BY <1>1, <2>3, <2>5, <2>7, <2>8
    <2>10. sem'.value >= 0
      BY <1>1, <2>5, <2>7
    <2>11. Units'
      BY <2>5, <2>7, <2>8, <2>9, <2>10 DEF Units
    <2>12. Creation'
      BY <2>1, <2>4, <2>6 DEF Creation
    <2> QED
      BY <2>1, <2>5, <2>6, <2>11, <2>12 DEF SemTypeOK
  <1> QED
    BY <1>2, <1>3, <1>4, <1>5, <1>6, <1>7, <1>8, <1>9, <1>10, <1>11 DEF SemNext, Issuer

\* The semaphore, with any number of units and threads: every unit is accounted for
\* at every step of main and of the threads, spurious wakeups and failures included.
THEOREM SemInvariant == SemSpec => []SemInv
  <1>1. SemInit => SemInv
    <2> SUFFICES ASSUME SemInit PROVE SemInv
      OBVIOUS
    <2>1. 1 \in 1 .. Jobs + 1 /\ 1 <= Jobs
      BY SemaphoreAssumption
    <2>2. SemTypeOK
      BY <2>1 DEF SemInit, SemTypeOK, IssuerAt
    <2>3. issuer.at = "init" /\ issuer.i = 1 /\ \A j \in 1 .. Jobs : thr[j] = "unborn"
      BY DEF SemInit
    <2>4. Running = {}
      BY <2>3 DEF Running
    <2> QED
      BY <2>1, <2>2, <2>3, <2>4 DEF SemInv, Units, Creation
  <1>2. SemInv /\ [SemNext]_semVars => SemInv'
    <2> SUFFICES ASSUME SemInv, [SemNext]_semVars PROVE SemInv'
      OBVIOUS
    <2>1. CASE SemNext
      BY <2>1, SemStep
    <2>2. CASE UNCHANGED semVars
      BY <2>2 DEF semVars, SemInv, SemTypeOK, Units, Creation, Running, WithinLimit, Outlived
    <2> QED
      BY <2>1, <2>2
  <1> QED
    BY <1>1, <1>2, PTL DEF SemSpec

\* mysem keeps what main bought with it: never more than N threads are at work, and
\* none of them touches the semaphore before mysem_init or after mysem_destroy.
THEOREM ThreadsThrottled == SemSpec => [](WithinLimit /\ Outlived)
  <1>1. SemInv => WithinLimit /\ Outlived
    <2> SUFFICES ASSUME SemInv PROVE WithinLimit /\ Outlived
      OBVIOUS
    <2>1. Cardinality(Running) \in Nat /\ sem.value \in Int /\ N \in Nat
      BY RunningFinite, SemaphoreAssumption DEF SemInv, SemTypeOK
    <2>2. CASE issuer.at \in {"init", "returned"}
      <3>1. Running = {} /\ Cardinality(Running) = 0
        BY <2>2, FS_EmptySet DEF SemInv, Units
      <3> QED
        BY <2>1, <3>1 DEF WithinLimit, Outlived
    <2>3. CASE issuer.at \in {"sub", "asleep", "create", "join"}
      BY <2>1, <2>3 DEF SemInv, Units, WithinLimit, Outlived
    <2>4. CASE issuer.at = "killed"
      BY <2>4 DEF SemInv, Units
    <2> QED
      BY <2>2, <2>3, <2>4 DEF SemInv, SemTypeOK, IssuerAt
  <1> QED
    BY <1>1, SemInvariant, PTL

\* main sleeps in mysem_sub only while there is no unit.
SleepsWithout == issuer.at = "asleep" => sem.value < 1

\* Then a thread that holds a unit is still to give it back.
UnitAwaited == issuer.at = "asleep" => sem.value = 0 /\ Running # {}

\* mysem loses no wakeup: whenever main sleeps in mysem_sub no unit is left, and a
\* thread is still to reach the mysem_add that wakes main.
THEOREM UnitsAwaited == SemSpec => []UnitAwaited
  <1>1. SemInit => SleepsWithout
    BY DEF SemInit, SleepsWithout
  <1>2. SemInv /\ SleepsWithout /\ [SemNext]_semVars => SleepsWithout'
    <2> SUFFICES ASSUME SemInv, SleepsWithout, [SemNext]_semVars, issuer'.at = "asleep"
                 PROVE  sem'.value < 1
      BY DEF SleepsWithout
    <2>1. issuer \in [at : IssuerAt, i : 1 .. Jobs + 1] /\ sem \in [value : Int, live : BOOLEAN]
      BY DEF SemInv, SemTypeOK
    <2>2. CASE UNCHANGED semVars
      BY <2>2 DEF semVars, SleepsWithout
    <2>3. CASE SubWaits(1)
      BY <2>3 DEF SubWaits
    <2>4. ASSUME NEW j \in 1 .. Jobs, Computes(j) PROVE sem'.value < 1
      BY <2>4 DEF Computes, SleepsWithout
    <2>5. ASSUME NEW j \in 1 .. Jobs, mysem_add(j, 1) PROVE FALSE
      BY <2>1, <2>5 DEF mysem_add, IssuerGoes
    <2>6. ASSUME \/ mysem_init(N) \/ InitFails \/ mysem_sub(1) \/ SubSpuriousWakeup
                 \/ ThreadCreated \/ ThreadFails \/ mysem_destroy
          PROVE  FALSE
      BY <2>1, <2>6 DEF mysem_init, InitFails, mysem_sub, SubSpuriousWakeup, ThreadCreated,
         ThreadFails, mysem_destroy, IssuerGoes
    <2> QED
      BY <2>2, <2>3, <2>4, <2>5, <2>6 DEF SemNext, Issuer
  <1>3. SemInv /\ SleepsWithout => UnitAwaited
    <2> SUFFICES ASSUME SemInv, SleepsWithout, issuer.at = "asleep"
                 PROVE  sem.value = 0 /\ Running # {}
      BY DEF UnitAwaited
    <2>1. sem.value \in Int /\ N \in Nat /\ N > 0 /\ Cardinality(Running) \in Nat
      BY RunningFinite, SemaphoreAssumption DEF SemInv, SemTypeOK
    <2>2. sem.value = 0 /\ Cardinality(Running) = N
      BY <2>1 DEF SemInv, Units, SleepsWithout
    <2> QED
      BY <2>1, <2>2, FS_EmptySet
  <1> QED
    BY <1>1, <1>2, <1>3, SemInvariant, PTL DEF SemSpec

-----------------------------------------------------------------------------
\* The rings.

RingSpec == RingInit /\ [][RingNext]_ringVars

RingTypeOK ==
    /\ ring \in {"mutex", "cond"}
    /\ mut \in SUBSET Threads /\ turn \in Threads
    /\ thread \in [Threads -> {"unborn", "lock", "write", "unlock", "asleep"}]
    /\ creating \in -1 .. THRNUM + 1
    /\ letter \in -1 .. THRNUM - 1

\* The condition ring: turn is the letter to come.
TurnToCome ==
    ring = "cond" => turn = next(letter) /\ \A n \in Threads : thread[n] \notin {"write", "unlock"}

\* The mutex ring: n alone may go on, for mut[n] is unlocked, or n has locked it and
\* has not unlocked the next one yet.
HasTurn(n) ==
    /\ \A m \in Threads : m # n => m \in mut /\ thread[m] = "lock"
    /\ \/ thread[n] = "lock" /\ n \notin mut /\ n = next(letter)
       \/ thread[n] = "write" /\ n \in mut /\ n = next(letter)
       \/ thread[n] = "unlock" /\ n \in mut /\ n = letter

\* Every mutex is locked ahead of its thread, until main lets go of the first.
OneTurn ==
    ring = "mutex" /\ ~ Gone =>
       IF creating <= THRNUM
       THEN letter = -1 /\ \A n \in Threads : IF n < creating THEN n \in mut /\ thread[n] = "lock"
                                              ELSE thread[n] = "unborn"
       ELSE \E n \in Threads : HasTurn(n)

RingInv == RingTypeOK /\ TurnToCome /\ OneTurn


\* (letter + 1) % THRNUM is the next letter.
LEMMA NextLetter ==
    ASSUME NEW n \in -1 .. THRNUM - 1
    PROVE  next(n) \in Threads /\ next(n) = (n + 1) % THRNUM
  <1>1. THRNUM \in Nat /\ THRNUM > 0
    BY TurnsAssumption
  <1>2. CASE n + 1 = THRNUM
    <2>1. 0 \in Threads /\ n + 1 = THRNUM * 1
      BY <1>1, <1>2 DEF Threads
    <2>2. (n + 1) % THRNUM = 0
      BY <1>1, <1>2, <2>1, Quotient
    <2> QED
      BY <1>2, <2>1, <2>2 DEF next
  <1>3. CASE n + 1 # THRNUM
    <2>1. PICK k \in Nat : k = n + 1
      BY <1>1
    <2>2. k < THRNUM /\ k \in Threads
      BY <1>1, <1>3, <2>1 DEF Threads
    <2>3. PICK q \in Nat, r \in Nat :
             q = k \div THRNUM /\ r = k % THRNUM /\ r < THRNUM /\ k = THRNUM * q + r
      BY <1>1, Division
    <2>4. q = 0
      <3>1. ~ (q >= 1)
        BY <1>1, <2>2, <2>3
      <3> QED
        BY <3>1
    <2>5. k % THRNUM = k
      BY <1>1, <2>3, <2>4
    <2> QED
      BY <1>3, <2>1, <2>2, <2>5 DEF next
  <1> QED
    BY <1>2, <1>3

\* What one step does to the ring: it keeps the invariant, and if it writes, it
\* writes the letter that is next.
LEMMA RingStep ==
    ASSUME RingInv, RingNext
    PROVE  RingInv' /\ (Writes => InTurn)
  <1> USE DEF RingInv
  <1>1. /\ THRNUM \in Nat /\ THRNUM > 0 /\ creating \in Int
        /\ \A n \in Threads : n \in Int /\ n >= 0 /\ n < THRNUM
        /\ creating >= -1 /\ creating <= THRNUM + 1
    BY TurnsAssumption DEF Threads, RingTypeOK
  <1>2. next(letter) \in Threads /\ next(letter) = (letter + 1) % THRNUM
    BY NextLetter DEF RingTypeOK
  <1>3. ASSUME UNCHANGED letter, \A n \in Threads : thread[n] = "write" => thread'[n] # "unlock"
        PROVE  Writes => InTurn
    BY <1>3 DEF Writes
  <1>4. CASE CreateNext
    <2>1. PICK c \in Threads : c = creating
      BY <1>4 DEF CreateNext
    <2>2. /\ UNCHANGED <<ring, turn, letter>> /\ creating' = c + 1 /\ ~ Gone /\ c <= THRNUM
          /\ thread' = [thread EXCEPT ![c] = "lock"]
          /\ mut' = IF ring = "mutex" THEN mut \cup {c} ELSE mut
      BY <1>1, <1>4, <2>1 DEF CreateNext, Gone
    <2>3. /\ thread' \in [Threads -> {"unborn", "lock", "write", "unlock", "asleep"}]
          /\ thread'[c] = "lock" /\ \A n \in Threads : n # c => thread'[n] = thread[n]
          /\ mut' \in SUBSET Threads
      BY <2>2 DEF RingTypeOK
    <2>4. c + 1 \in -1 .. THRNUM + 1 /\ c + 1 <= THRNUM /\ c + 1 # -1
      BY <1>1
    <2>5. RingTypeOK'
      BY <2>2, <2>3, <2>4 DEF RingTypeOK
    <2>6. TurnToCome'
      BY <2>2, <2>3 DEF TurnToCome, next
    <2>7. OneTurn'
      <3>1. SUFFICES ASSUME ring = "mutex"
                     PROVE  /\ letter = -1
                            /\ \A n \in Threads : IF n < c + 1 THEN n \in mut' /\ thread'[n] = "lock"
                                                  ELSE thread'[n] = "unborn"
        BY <2>2, <2>4 DEF OneTurn, Gone
      <3>2. /\ letter = -1
            /\ \A n \in Threads : IF n < c THEN n \in mut /\ thread[n] = "lock"
                                  ELSE thread[n] = "unborn"
        BY <2>1, <2>2, <3>1 DEF OneTurn
      <3>3. \A n \in Threads : n < c + 1 <=> (n < c \/ n = c)
        BY <1>1
      <3> QED
        BY <2>2, <2>3, <3>1, <3>2, <3>3
    <2>8. Writes => InTurn
      BY <1>3, <2>2, <2>3
    <2> QED
      BY <2>5, <2>6, <2>7, <2>8
  <1>5. CASE StartRing
    <2>1. UNCHANGED <<ring, turn, thread, letter>> /\ creating' = THRNUM + 1 /\ mut' = mut \ {0}
          /\ creating = THRNUM
      BY <1>5 DEF StartRing
    <2>2. RingTypeOK' /\ TurnToCome'
      <3>1. THRNUM + 1 \in -1 .. THRNUM + 1
        BY <1>1
      <3> QED
        BY <2>1, <3>1 DEF RingTypeOK, TurnToCome, next
    <2>3. OneTurn'
      <3>1. SUFFICES ASSUME ring = "mutex" PROVE \E n \in Threads : HasTurn(n)'
        BY <1>1, <2>1 DEF OneTurn
      <3>2. letter = -1 /\ \A n \in Threads : n \in mut /\ thread[n] = "lock"
        BY <1>1, <2>1, <3>1 DEF OneTurn, Gone
      <3>3. 0 \in Threads /\ next(letter) = 0
        BY <1>1, <3>2 DEF Threads, next
      <3>4. HasTurn(0)'
        BY <2>1, <3>2, <3>3 DEF HasTurn, next
      <3> QED
        BY <3>3, <3>4
    <2>4. Writes => InTurn
      BY <1>3, <2>1
    <2> QED
      BY <2>2, <2>3, <2>4
  <1>6. CASE ProcessEnds
    <2>1. UNCHANGED <<ring, mut, turn, thread, letter>> /\ creating' = -1
      BY <1>6 DEF ProcessEnds
    <2>2. -1 \in -1 .. THRNUM + 1
      BY <1>1
    <2> QED
      BY <1>3, <2>1, <2>2 DEF RingTypeOK, TurnToCome, next, OneTurn, Gone
  <1>7. ASSUME NEW n \in Threads, LockOwn(n) PROVE RingInv' /\ (Writes => InTurn)
    <2>1. /\ UNCHANGED <<ring, turn, creating, letter>> /\ mut' = mut \cup {n} /\ ring = "mutex"
          /\ ~ Gone /\ thread[n] = "lock" /\ n \notin mut
          /\ thread' = [thread EXCEPT ![n] = "write"]
      BY <1>7 DEF LockOwn
    <2>2. /\ thread' \in [Threads -> {"unborn", "lock", "write", "unlock", "asleep"}]
          /\ thread'[n] = "write" /\ \A m \in Threads : m # n => thread'[m] = thread[m]
      BY <2>1 DEF RingTypeOK
    <2>3. ~ (creating <= THRNUM)
      BY <2>1 DEF OneTurn
    <2>4. PICK k \in Threads : HasTurn(k)
      BY <2>1, <2>3 DEF OneTurn
    <2>5. k = n
      BY <2>1, <2>4 DEF HasTurn
    <2>6. HasTurn(n)'
      BY <2>1, <2>2, <2>4, <2>5 DEF HasTurn, next
    <2>7. Writes => InTurn
      BY <1>3, <2>1, <2>2
    <2>8. RingTypeOK'
      BY <2>1, <2>2 DEF RingTypeOK
    <2>9. TurnToCome' /\ OneTurn'
      BY <2>1, <2>3, <2>6 DEF TurnToCome, OneTurn, Gone
    <2> QED
      BY <2>7, <2>8, <2>9
  <1>8. ASSUME NEW n \in Threads, WriteLetter(n) PROVE RingInv' /\ (Writes => InTurn)
    <2>1. /\ UNCHANGED <<ring, mut, turn, creating>> /\ letter' = n /\ ring = "mutex"
          /\ ~ Gone /\ thread[n] = "write"
          /\ thread' = [thread EXCEPT ![n] = "unlock"]
      BY <1>8 DEF WriteLetter
    <2>2. /\ thread' \in [Threads -> {"unborn", "lock", "write", "unlock", "asleep"}]
          /\ thread'[n] = "unlock" /\ \A m \in Threads : m # n => thread'[m] = thread[m]
      BY <2>1 DEF RingTypeOK
    <2>3. ~ (creating <= THRNUM)
      BY <2>1 DEF OneTurn
    <2>4. PICK k \in Threads : HasTurn(k)
      BY <2>1, <2>3 DEF OneTurn
    <2>5. k = n /\ n = next(letter)
      BY <2>1, <2>4 DEF HasTurn
    <2>6. HasTurn(n)'
      BY <2>1, <2>2, <2>4, <2>5 DEF HasTurn
    <2>7. InTurn
      BY <1>2, <2>1, <2>5 DEF InTurn
    <2>8. RingTypeOK'
      <3>1. n \in -1 .. THRNUM - 1
        BY <1>1
      <3> QED
        BY <2>1, <2>2, <3>1 DEF RingTypeOK
    <2>9. TurnToCome' /\ OneTurn'
      BY <2>1, <2>3, <2>6 DEF TurnToCome, OneTurn, Gone
    <2> QED
      BY <2>7, <2>8, <2>9
  <1>9. ASSUME NEW n \in Threads, UnlockNext(n) PROVE RingInv' /\ (Writes => InTurn)
    <2>1. /\ UNCHANGED <<ring, turn, creating, letter>> /\ mut' = mut \ {next(n)} /\ ring = "mutex"
          /\ ~ Gone /\ thread[n] = "unlock"
          /\ thread' = [thread EXCEPT ![n] = "lock"]
      BY <1>9 DEF UnlockNext
    <2>2. /\ thread' \in [Threads -> {"unborn", "lock", "write", "unlock", "asleep"}]
          /\ thread'[n] = "lock" /\ \A m \in Threads : m # n => thread'[m] = thread[m]
      BY <2>1 DEF RingTypeOK
    <2>3. ~ (creating <= THRNUM)
      BY <2>1 DEF OneTurn
    <2>4. PICK k \in Threads : HasTurn(k)
      BY <2>1, <2>3 DEF OneTurn
    <2>5. k = n /\ n = letter /\ n \in mut
      BY <2>1, <2>4 DEF HasTurn
    <2>6. PICK l \in Threads : l = next(letter)
      BY <1>2
    <2>7. \A m \in Threads : thread'[m] = "lock" /\ m \in mut
      BY <2>2, <2>4, <2>5 DEF HasTurn
    <2>8. /\ \A m \in Threads : m # l => m \in mut' /\ thread'[m] = "lock"
          /\ thread'[l] = "lock" /\ l \notin mut' /\ l = next(letter')
      BY <2>1, <2>5, <2>6, <2>7
    <2>9. HasTurn(l)'
      BY <2>8 DEF HasTurn, next
    <2>10. Writes => InTurn
      BY <1>3, <2>1, <2>2
    <2>11. RingTypeOK'
      BY <2>1, <2>2 DEF RingTypeOK
    <2>12. TurnToCome' /\ OneTurn'
      BY <2>1, <2>3, <2>9 DEF TurnToCome, OneTurn, Gone
    <2> QED
      BY <2>10, <2>11, <2>12
  <1>10. ASSUME NEW n \in Threads, WaitForTurn(n) PROVE RingInv' /\ (Writes => InTurn)
    <2>1. /\ UNCHANGED <<ring, mut, turn, creating, letter>> /\ ring = "cond"
          /\ thread' \in [Threads -> {"unborn", "lock", "write", "unlock", "asleep"}]
          /\ thread'[n] = "asleep" /\ \A m \in Threads : m # n => thread'[m] = thread[m]
      BY <1>10 DEF WaitForTurn, RingTypeOK
    <2>2. Writes => InTurn
      BY <1>3, <2>1
    <2> QED
      BY <2>1, <2>2 DEF RingTypeOK, TurnToCome, next, OneTurn
  <1>11. ASSUME NEW n \in Threads, TakeTurn(n) PROVE RingInv' /\ (Writes => InTurn)
    <2>1. /\ UNCHANGED <<ring, mut, creating>> /\ ring = "cond" /\ letter' = n /\ turn = n
          /\ turn' = next(n)
          /\ thread' \in [Threads -> {"unborn", "lock", "write", "unlock", "asleep"}]
          /\ \A m \in Threads : thread'[m] = thread[m] \/ thread'[m] = "lock"
      BY <1>11 DEF TakeTurn, RingTypeOK
    <2>2. InTurn
      BY <1>2, <2>1 DEF InTurn, TurnToCome
    <2>3. n \in -1 .. THRNUM - 1
      BY <1>1
    <2>4. next(n) \in Threads
      BY <2>3, NextLetter
    <2>5. RingTypeOK'
      BY <2>1, <2>3, <2>4 DEF RingTypeOK
    <2>6. TurnToCome' /\ OneTurn'
      BY <2>1 DEF TurnToCome, OneTurn, next
    <2> QED
      BY <2>2, <2>5, <2>6
  <1>12. ASSUME NEW n \in Threads, TurnSpuriousWakeup(n) PROVE RingInv' /\ (Writes => InTurn)
    <2>1. /\ UNCHANGED <<ring, mut, turn, creating, letter>> /\ ~ Gone
          /\ thread' \in [Threads -> {"unborn", "lock", "write", "unlock", "asleep"}]
          /\ thread[n] = "asleep" /\ thread'[n] = "lock"
          /\ \A m \in Threads : m # n => thread'[m] = thread[m]
      BY <1>12 DEF TurnSpuriousWakeup, RingTypeOK
    <2>2. Writes => InTurn
      BY <1>3, <2>1
    <2>3. ring = "cond"
      <3>1. SUFFICES ASSUME ring = "mutex" PROVE FALSE
        BY DEF RingTypeOK
      <3>2. CASE creating <= THRNUM
        BY <2>1, <3>1, <3>2 DEF OneTurn
      <3>3. CASE ~ (creating <= THRNUM)
        <4>1. PICK k \in Threads : HasTurn(k)
          BY <2>1, <3>1, <3>3 DEF OneTurn
        <4> QED
          BY <2>1, <4>1 DEF HasTurn
      <3> QED
        BY <3>2, <3>3
    <2> QED
      BY <2>1, <2>2, <2>3 DEF RingTypeOK, TurnToCome, next, OneTurn
  <1> QED
    BY <1>4, <1>5, <1>6, <1>7, <1>8, <1>9, <1>10, <1>11, <1>12 DEF RingNext, thr_func

\* Both rings, with any number of threads and however their creation interleaves with
\* their running: there is one turn, and it is the next letter's.
THEOREM RingInvariant == RingSpec => []RingInv
  <1>1. RingInit => RingInv
    <2> SUFFICES ASSUME RingInit PROVE RingInv
      OBVIOUS
    <2>1. /\ THRNUM \in Nat /\ 0 \in Threads /\ -1 \in -1 .. THRNUM - 1 /\ 0 \in -1 .. THRNUM + 1
          /\ 0 <= THRNUM /\ \A n \in Threads : ~ (n < 0)
      BY TurnsAssumption DEF Threads
    <2>2. next(-1) = 0
      BY TurnsAssumption DEF next
    <2>3. RingTypeOK
      BY <2>1 DEF RingInit, RingTypeOK
    <2>4. TurnToCome
      BY <2>2 DEF RingInit, TurnToCome
    <2>5. OneTurn
      BY <2>1 DEF RingInit, OneTurn
    <2> QED
      BY <2>3, <2>4, <2>5 DEF RingInv
  <1>2. RingInv /\ [RingNext]_ringVars => RingInv'
    <2> SUFFICES ASSUME RingInv, [RingNext]_ringVars PROVE RingInv'
      OBVIOUS
    <2>1. CASE RingNext
      BY <2>1, RingStep
    <2>2. CASE UNCHANGED ringVars
      BY <2>2 DEF ringVars, RingInv, RingTypeOK, TurnToCome, OneTurn, HasTurn, Gone, next
    <2> QED
      BY <2>1, <2>2
  <1> QED
    BY <1>1, <1>2, PTL DEF RingSpec

\* abcd.c and abcd_e.c write the letters in turn, from the first one on: every write
\* is of the letter after the last one.
THEOREM LettersWritten == RingSpec => LettersInTurn
  <1>1. RingInv /\ [RingNext]_ringVars => [Writes => InTurn]_ringVars
    BY RingStep
  <1> QED
    BY <1>1, RingInvariant, PTL DEF RingSpec, LettersInTurn

\* The condition ring: whoever has the turn is not asleep, and is there once main has
\* created all.
TurnUp ==
    ring = "cond" /\ ~ Gone => /\ thread[turn] # "asleep"
                               /\ \A n \in Threads : n < creating => thread[n] # "unborn"

\* The thread that has the turn can take its next step.
TurnReady ==
    creating = THRNUM + 1 =>
       IF ring = "cond" THEN thread[turn] = "lock" ELSE \E n \in Threads : HasTurn(n)

\* Neither ring ever comes to a halt while the process lives: thr_func leaves the turn
\* with a thread that is there and awake, for any number of threads.
THEOREM RingsNeverHalt == RingSpec => []TurnReady
  <1>1. RingInit => TurnUp
    BY TurnsAssumption DEF RingInit, TurnUp, Threads
  <1>2. RingInv /\ TurnUp /\ [RingNext]_ringVars => TurnUp'
    <2> SUFFICES ASSUME RingInv, TurnUp, [RingNext]_ringVars, ring' = "cond", ~ Gone'
                 PROVE  /\ thread'[turn'] # "asleep"
                        /\ \A n \in Threads : n < creating' => thread'[n] # "unborn"
      BY DEF TurnUp
    <2>1. /\ THRNUM \in Nat /\ creating \in Int /\ turn \in Threads
          /\ \A n \in Threads : n \in Int /\ n >= 0 /\ n < THRNUM
          /\ thread \in [Threads -> {"unborn", "lock", "write", "unlock", "asleep"}]
      BY TurnsAssumption DEF RingInv, RingTypeOK, Threads
    <2>2. ring = "cond" /\ ~ Gone
      <3>1. CASE UNCHANGED ringVars
        BY <3>1 DEF ringVars, Gone
      <3>2. CASE RingNext
        BY <2>1, <3>2 DEF RingNext, thr_func, CreateNext, StartRing, ProcessEnds, LockOwn,
           WriteLetter, UnlockNext, WaitForTurn, TakeTurn, TurnSpuriousWakeup, Gone
      <3> QED
        BY <3>1, <3>2
    <2>3. /\ thread[turn] # "asleep"
          /\ \A n \in Threads : n < creating => thread[n] # "unborn"
      BY <2>2 DEF TurnUp
    <2>4. CASE UNCHANGED ringVars
      BY <2>3, <2>4 DEF ringVars
    <2>5. CASE CreateNext
      BY <2>1, <2>3, <2>5 DEF CreateNext
    <2>6. CASE StartRing
      BY <2>1, <2>3, <2>6 DEF StartRing
    <2>7. CASE ProcessEnds
      BY <2>7 DEF ProcessEnds, Gone
    <2>8. ASSUME NEW n \in Threads, LockOwn(n) \/ WriteLetter(n) \/ UnlockNext(n) PROVE FALSE
      BY <2>2, <2>8 DEF LockOwn, WriteLetter, UnlockNext
    <2>9. ASSUME NEW n \in Threads, WaitForTurn(n)
          PROVE  /\ thread'[turn'] # "asleep"
                 /\ \A m \in Threads : m < creating' => thread'[m] # "unborn"
      BY <2>1, <2>3, <2>9 DEF WaitForTurn
    <2>10. ASSUME NEW n \in Threads, TakeTurn(n)
           PROVE  /\ thread'[turn'] # "asleep"
                  /\ \A m \in Threads : m < creating' => thread'[m] # "unborn"
      <3>1. /\ \A m \in Threads : thread'[m] = IF thread[m] = "asleep" THEN "lock" ELSE thread[m]
            /\ turn' = next(n) /\ creating' = creating
        BY <2>10 DEF TakeTurn
      <3>2. n \in -1 .. THRNUM - 1
        BY <2>1
      <3>3. next(n) \in Threads
        BY <3>2, NextLetter
      <3> QED
        BY <2>3, <3>1, <3>3
    <2>11. ASSUME NEW n \in Threads, TurnSpuriousWakeup(n)
           PROVE  /\ thread'[turn'] # "asleep"
                  /\ \A m \in Threads : m < creating' => thread'[m] # "unborn"
      BY <2>1, <2>3, <2>11 DEF TurnSpuriousWakeup
    <2> QED
      BY <2>4, <2>5, <2>6, <2>7, <2>8, <2>9, <2>10, <2>11 DEF RingNext, thr_func
  <1>3. RingInv /\ TurnUp => TurnReady
    <2> SUFFICES ASSUME RingInv, TurnUp, creating = THRNUM + 1
                 PROVE  IF ring = "cond" THEN thread[turn] = "lock" ELSE \E n \in Threads : HasTurn(n)
      BY DEF TurnReady
    <2>1. ~ Gone /\ ~ (creating <= THRNUM) /\ \A n \in Threads : n < creating
      BY TurnsAssumption DEF Gone, Threads
    <2>2. CASE ring = "cond"
      <3>1. turn \in Threads /\ thread[turn] \in {"unborn", "lock", "write", "unlock", "asleep"}
        BY DEF RingInv, RingTypeOK
      <3>2. thread[turn] \notin {"unborn", "asleep", "write", "unlock"}
        BY <2>1, <2>2, <3>1 DEF TurnUp, RingInv, TurnToCome
      <3> QED
        BY <2>2, <3>1, <3>2
    <2>3. CASE ring # "cond"
      BY <2>1, <2>3 DEF RingInv, RingTypeOK, OneTurn
    <2> QED
      BY <2>2, <2>3
  <1> QED
    BY <1>1, <1>2, <1>3, RingInvariant, PTL DEF RingSpec

-----------------------------------------------------------------------------
\* The signal timer library.

TimerSpec == TimerInit /\ [][TimerNext]_timerVars

Timers == [flag : {"freed", "running", "over", "canceled"}, sec : Int, calls : Nat]
CallerStates ==
    [at : {"idle", "store", "cancel", "test", "pausing", "paused", "clear", "free",
           "unload", "exited", "killed"},
     id : Slots, me : Blocks \cup {NULL}]

TimerTypeOK ==
    /\ job \in [Slots -> Blocks \cup {NULL}]
    /\ heap \in [Blocks -> Timers]
    /\ caller \in CallerStates
    /\ sigalrm \in {"handled", "default"}

\* A running timer was not called yet.
Calls ==
    \A b \in Blocks : /\ heap[b].calls \in {0, 1}
                      /\ heap[b].flag = "running" => heap[b].calls = 0
                      /\ heap[b].flag = "over" => heap[b].calls = 1

\* What the thread knows of its timer, whatever the handler does in between.
Knows ==
    /\ caller.at \in {"cancel", "test", "pausing", "paused", "clear"} =>
          caller.me \in Blocks /\ job[caller.id] = caller.me
    /\ caller.at \in {"store", "free"} => caller.me \in Blocks /\ ~ InTable(caller.me)
    /\ caller.at = "store" => heap[caller.me].flag # "freed"

Handled == sigalrm = "handled" <=> caller.at \notin {"unload", "exited", "killed"}

TimerInv == TimerTypeOK /\ Calls /\ Knows /\ Handled /\ TableSound


\* get_free_pos finds an empty slot when there is one.
LEMMA FreePosition ==
    ASSUME FreeSlots # {}
    PROVE  get_free_pos \in FreeSlots
  <1> DEFINE less == OpToRel(<, Nat)
  <1>1. \A x, y \in Nat : x < y => <<x, y>> \in less
    BY DEF OpToRel
  <1>2. IsWellFoundedOn(less, Nat)
    BY NatLessThanWellFounded
  <1>3. FreeSlots \subseteq Nat
    BY SignalTimerAssumption DEF FreeSlots, Slots
  <1> HIDE DEF less
  <1>4. PICK s \in FreeSlots : \A t \in FreeSlots : ~ (<<t, s>> \in less)
    BY <1>2, <1>3, WFMin
  <1>5. \A t \in FreeSlots : s <= t
    <2> SUFFICES ASSUME NEW t \in FreeSlots PROVE s <= t
      OBVIOUS
    <2>1. s \in Nat /\ t \in Nat
      BY <1>3
    <2>2. ~ (t < s)
      BY <1>1, <1>4, <2>1
    <2> QED
      BY <2>1, <2>2
  <1> QED
    BY <1>5 DEF get_free_pos

\* The thread goes on without touching the table or a block.
LEMMA CallerMovesKeeps ==
    ASSUME TimerInv, caller' \in CallerStates, UNCHANGED <<job, heap>>,
           sigalrm' \in {"handled", "default"}, Knows', Handled', caller.at # "exited"
    PROVE  TimerInv'
  BY DEF TimerInv, TimerTypeOK, Calls, TableSound

LEMMA TimerStep ==
    ASSUME TimerInv, TimerNext
    PROVE  TimerInv'
  <1> USE DEF TimerInv
  <1>1. NULL \notin Blocks /\ 1 \in Slots /\ MaxSec \in Nat
    BY SignalTimerAssumption DEF Slots
  <1>2. caller \in CallerStates /\ Idle \in CallerStates
    BY <1>1 DEF TimerTypeOK, CallerStates, Idle
  <1>3. CASE alrm_handler
    <2>1. /\ sigalrm = "handled" /\ UNCHANGED <<job, sigalrm>>
          /\ heap' = [b \in Blocks |-> IF InTable(b) /\ heap[b].flag = "running"
                                       THEN CountedDown(heap[b]) ELSE heap[b]]
          /\ CallerGoes(IF caller.at = "paused" THEN "test" ELSE caller.at)
      BY <1>3 DEF alrm_handler
    <2>2. ASSUME NEW b \in Blocks, heap[b].flag = "running"
          PROVE  /\ CountedDown(heap[b]) \in Timers
                 /\ CountedDown(heap[b]).calls \in {0, 1}
                 /\ CountedDown(heap[b]).flag \in {"running", "over"}
                 /\ CountedDown(heap[b]).flag = "running" => CountedDown(heap[b]).calls = 0
                 /\ CountedDown(heap[b]).flag = "over" => CountedDown(heap[b]).calls = 1
      <3>1. heap[b] \in Timers /\ heap[b].sec \in Int /\ heap[b].calls = 0
        BY <2>2 DEF TimerTypeOK, Timers, Calls
      <3>2. heap[b].sec - 1 \in Int /\ heap[b].calls + 1 = 1 /\ 1 \in Nat
        BY <3>1
      <3>3. CASE heap[b].sec - 1 <= 0
        <4>1. CountedDown(heap[b]) = [heap[b] EXCEPT !.sec = @ - 1, !.flag = "over", !.calls = @ + 1]
          BY <3>3 DEF CountedDown
        <4>2. CountedDown(heap[b]) = [flag |-> "over", sec |-> heap[b].sec - 1, calls |-> 1]
          BY <3>1, <3>2, <4>1 DEF Timers
        <4> QED
          BY <3>2, <4>2 DEF Timers
      <3>4. CASE ~ (heap[b].sec - 1 <= 0)
        <4>1. CountedDown(heap[b]) = [heap[b] EXCEPT !.sec = @ - 1]
          BY <3>4 DEF CountedDown
        <4>2. CountedDown(heap[b]) = [flag |-> "running", sec |-> heap[b].sec - 1, calls |-> 0]
          BY <2>2, <3>1, <4>1 DEF Timers
        <4> QED
          BY <3>2, <4>2 DEF Timers
      <3> QED
        BY <3>3, <3>4
    <2>3. heap' \in [Blocks -> Timers]
      BY <2>1, <2>2 DEF TimerTypeOK, Timers
    <2>4. \A b \in Blocks : heap'[b].flag = "freed" <=> heap[b].flag = "freed"
      <3> SUFFICES ASSUME NEW b \in Blocks PROVE heap'[b].flag = "freed" <=> heap[b].flag = "freed"
        OBVIOUS
      <3>1. CASE InTable(b) /\ heap[b].flag = "running"
        <4>1. heap'[b] = CountedDown(heap[b])
          BY <2>1, <3>1
        <4> QED
          BY <2>2, <3>1, <4>1
      <3>2. CASE ~ (InTable(b) /\ heap[b].flag = "running")
        BY <2>1, <3>2
      <3> QED
        BY <3>1, <3>2
    <2>5. Calls'
      <3>1. SUFFICES ASSUME NEW b \in Blocks
                     PROVE  /\ heap'[b].calls \in {0, 1}
                            /\ heap'[b].flag = "running" => heap'[b].calls = 0
                            /\ heap'[b].flag = "over" => heap'[b].calls = 1
        BY DEF Calls
      <3>2. CASE InTable(b) /\ heap[b].flag = "running"
        <4>1. heap'[b] = CountedDown(heap[b])
          BY <2>1, <3>2
        <4> QED
          BY <2>2, <3>2, <4>1
      <3>3. CASE ~ (InTable(b) /\ heap[b].flag = "running")
        <4>1. heap'[b] = heap[b]
          BY <2>1, <3>3
        <4> QED
          BY <4>1 DEF Calls
      <3> QED
        BY <3>2, <3>3
    <2>6. /\ caller' \in CallerStates /\ caller'.id = caller.id /\ caller'.me = caller.me
          /\ caller'.at = IF caller.at = "paused" THEN "test" ELSE caller.at
      BY <1>2, <2>1 DEF CallerGoes, CallerStates
    <2>7. TimerTypeOK'
      BY <2>1, <2>3, <2>6 DEF TimerTypeOK, Timers, CallerStates
    <2>8. Knows' /\ Handled'
      BY <2>1, <2>4, <2>6 DEF Knows, Handled, InTable
    <2>9. TableSound'
      <3>1. caller'.at # "exited" => caller.at # "exited"
        BY <2>6
      <3>2. \A s \in Slots : job[s] # NULL => job[s] \in Blocks
        BY DEF TimerTypeOK
      <3> QED
        BY <2>1, <2>4, <3>1, <3>2 DEF TableSound
    <2> QED
      BY <2>5, <2>7, <2>8, <2>9
  <1>4. CASE AlarmKills
    <2>1. /\ caller' \in CallerStates /\ caller'.at = "killed" /\ caller.at = "unload"
          /\ UNCHANGED <<job, heap, sigalrm>> /\ sigalrm = "default"
      BY <1>2, <1>4 DEF AlarmKills, CallerGoes, CallerStates
    <2>2. Knows' /\ Handled'
      BY <2>1 DEF Knows, Handled
    <2> QED
      BY <2>1, <2>2, CallerMovesKeeps
  <1>5. ASSUME NEW sec \in 0 .. MaxSec, AddFills(sec) PROVE TimerInv'
    <2>1. PICK me \in Blocks :
             /\ heap[me].flag = "freed"
             /\ heap' = [heap EXCEPT ![me] = [flag |-> "running", sec |-> sec, calls |-> 0]]
             /\ caller' = [at |-> "store", id |-> get_free_pos, me |-> me]
      BY <1>5 DEF AddFills
    <2>2. UNCHANGED <<job, sigalrm>> /\ caller.at = "idle" /\ get_free_pos \in Slots
      BY <1>5, FreePosition DEF AddFills, FreeSlots
    <2>3. sec \in Int /\ 0 \in Nat
      BY <1>1
    <2>4. /\ heap' \in [Blocks -> Timers]
          /\ heap'[me].flag = "running" /\ heap'[me].calls = 0
          /\ \A b \in Blocks : b # me => heap'[b] = heap[b]
      BY <2>1, <2>3 DEF TimerTypeOK, Timers
    <2>5. ~ InTable(me)
      BY <1>1, <2>1, <2>2 DEF InTable, TableSound
    <2>6. caller' \in CallerStates /\ caller'.at = "store" /\ caller'.me = me
      BY <2>1, <2>2 DEF CallerStates
    <2>7. TimerTypeOK' /\ Calls'
      BY <2>2, <2>4, <2>6 DEF TimerTypeOK, Timers, CallerStates, Calls
    <2>8. Knows'
      BY <2>2, <2>4, <2>5, <2>6 DEF Knows, InTable
    <2>9. Handled'
      BY <2>2, <2>6 DEF Handled
    <2>10. TableSound'
      <3>1. \A s \in Slots : job[s] # NULL => job[s] \in Blocks /\ job[s] # me
        BY <2>5 DEF TimerTypeOK, InTable
      <3> QED
        BY <2>2, <2>4, <3>1 DEF TableSound
    <2> QED
      BY <2>7, <2>8, <2>9, <2>10
  <1>6. CASE AddStores
    <2>1. PICK me \in Blocks, id \in Slots : me = caller.me /\ id = caller.id
      BY <1>6 DEF AddStores, Knows, TimerTypeOK, CallerStates
    <2>2. /\ UNCHANGED <<heap, sigalrm>> /\ caller' = Idle /\ caller.at = "store"
          /\ heap[me].flag # "freed" /\ \A s \in Slots : job[s] # me
      BY <1>6, <2>1 DEF AddStores, Knows, InTable
    <2>3. /\ job' \in [Slots -> Blocks \cup {NULL}] /\ job'[id] = me
          /\ \A s \in Slots : s # id => job'[s] = job[s]
      BY <1>6, <2>1 DEF AddStores, TimerTypeOK
    <2>4. TimerTypeOK' /\ Calls' /\ Knows' /\ Handled'
      BY <1>2, <2>2, <2>3 DEF TimerTypeOK, Calls, Knows, Handled, Idle, CallerStates
    <2>5. TableSound'
      BY <2>2, <2>3 DEF TableSound
    <2> QED
      BY <2>4, <2>5
  <1>7. ASSUME NEW id \in Slots, CancelTests(id) \/ WaitBegins(id) PROVE TimerInv'
    <2>1. PICK at \in {"cancel", "test"} :
             /\ caller' = [at |-> at, id |-> id, me |-> job[id]] /\ caller.at = "idle"
             /\ job[id] # NULL /\ UNCHANGED <<job, heap, sigalrm>>
      BY <1>7 DEF CancelTests, WaitBegins
    <2>2. job[id] \in Blocks
      BY <2>1 DEF TimerTypeOK
    <2>3. /\ caller' \in CallerStates /\ caller'.at = at /\ caller'.id = id
          /\ caller'.me = job[id]
      BY <2>1, <2>2 DEF CallerStates
    <2>4. Knows' /\ Handled'
      BY <2>1, <2>2, <2>3 DEF Knows, Handled
    <2> QED
      BY <2>1, <2>3, <2>4, CallerMovesKeeps DEF TimerTypeOK
  <1>8. CASE CancelSets
    <2>1. PICK me \in Blocks : me = caller.me
      BY <1>8 DEF CancelSets, Knows
    <2>2. UNCHANGED <<job, sigalrm>> /\ caller' = Idle /\ caller.at = "cancel"
      BY <1>8 DEF CancelSets
    <2>3. /\ heap' \in [Blocks -> Timers] /\ heap'[me].flag = "canceled"
          /\ heap'[me].calls = heap[me].calls
          /\ \A b \in Blocks : b # me => heap'[b] = heap[b]
      BY <1>8, <2>1 DEF CancelSets, TimerTypeOK, Timers
    <2>4. TimerTypeOK' /\ Calls'
      BY <1>2, <2>2, <2>3 DEF TimerTypeOK, Timers, CallerStates, Calls
    <2>5. Knows' /\ Handled'
      BY <2>2 DEF Knows, Handled, Idle
    <2>6. TableSound'
      <3>1. \A s \in Slots : job[s] # NULL => job[s] \in Blocks
        BY DEF TimerTypeOK
      <3>2. \A b \in Blocks : heap'[b].flag = "freed" => heap[b].flag = "freed"
        BY <2>3
      <3> QED
        BY <2>2, <3>1, <3>2 DEF TableSound
    <2> QED
      BY <2>4, <2>5, <2>6
  <1>9. CASE WaitTests \/ WaitPauses
    <2>1. PICK at \in {"pausing", "clear", "paused"} :
             /\ caller' = [caller EXCEPT !.at = at] /\ caller.at \in {"test", "pausing"}
             /\ UNCHANGED <<job, heap, sigalrm>>
      <3>1. CASE WaitTests
        <4>1. CASE heap[caller.me].flag = "running"
          BY <3>1, <4>1 DEF WaitTests, CallerGoes
        <4>2. CASE heap[caller.me].flag # "running"
          BY <3>1, <4>2 DEF WaitTests, CallerGoes
        <4> QED
          BY <4>1, <4>2
      <3>2. CASE WaitPauses
        BY <3>2 DEF WaitPauses, CallerGoes
      <3> QED
        BY <1>9, <3>1, <3>2
    <2>2. /\ caller' \in CallerStates /\ caller'.at = at /\ caller'.id = caller.id
          /\ caller'.me = caller.me
      BY <1>2, <2>1 DEF CallerStates
    <2>3. Knows' /\ Handled'
      BY <2>1, <2>2 DEF Knows, Handled
    <2> QED
      BY <2>1, <2>2, <2>3, CallerMovesKeeps DEF TimerTypeOK
  <1>10. CASE WaitClears
    <2>1. PICK me \in Blocks, id \in Slots : me = caller.me /\ id = caller.id
      BY <1>10 DEF WaitClears, Knows, TimerTypeOK, CallerStates
    <2>2. UNCHANGED <<heap, sigalrm>> /\ caller.at = "clear" /\ job[id] = me
      BY <1>10, <2>1 DEF WaitClears, Knows
    <2>3. /\ job' \in [Slots -> Blocks \cup {NULL}] /\ job'[id] = NULL
          /\ \A s \in Slots : s # id => job'[s] = job[s]
      BY <1>10, <2>1 DEF WaitClears, TimerTypeOK
    <2>4. caller' \in CallerStates /\ caller'.at = "free" /\ caller'.me = me
      BY <1>2, <1>10, <2>1 DEF WaitClears, CallerGoes, CallerStates
    <2>5. TimerTypeOK' /\ Calls' /\ Handled'
      BY <2>2, <2>3, <2>4 DEF TimerTypeOK, CallerStates, Calls, Handled
    <2>6. \A s \in Slots : job'[s] # me
      BY <1>1, <2>2, <2>3 DEF TableSound
    <2>7. Knows'
      BY <2>4, <2>6 DEF Knows, InTable
    <2>8. TableSound'
      BY <2>2, <2>3 DEF TableSound
    <2> QED
      BY <2>5, <2>7, <2>8
  <1>11. CASE WaitFrees
    <2>1. PICK me \in Blocks : me = caller.me
      BY <1>11 DEF WaitFrees, Knows
    <2>2. /\ UNCHANGED <<job, sigalrm>> /\ caller' = Idle /\ caller.at = "free"
          /\ \A s \in Slots : job[s] # me
      BY <1>11, <2>1 DEF WaitFrees, Knows, InTable
    <2>3. /\ heap' \in [Blocks -> Timers] /\ heap'[me].flag = "freed" /\ heap'[me].calls = 0
          /\ \A b \in Blocks : b # me => heap'[b] = heap[b]
      BY <1>11, <2>1 DEF WaitFrees, TimerTypeOK, Timers, Freed
    <2>4. TimerTypeOK' /\ Calls'
      BY <1>2, <2>2, <2>3 DEF TimerTypeOK, Timers, CallerStates, Calls
    <2>5. Knows' /\ Handled'
      BY <2>2 DEF Knows, Handled, Idle
    <2>6. TableSound'
      <3>1. \A s \in Slots : job[s] # NULL => job[s] \in Blocks /\ job[s] # me
        BY <2>2 DEF TimerTypeOK
      <3> QED
        BY <2>2, <2>3, <3>1 DEF TableSound
    <2> QED
      BY <2>4, <2>5, <2>6
  <1>12. CASE UnloadRestores
    <2>1. /\ caller' \in CallerStates /\ caller'.at = "unload" /\ caller.at = "idle"
          /\ UNCHANGED <<job, heap>> /\ sigalrm' = "default"
      BY <1>2, <1>12 DEF UnloadRestores, CallerGoes, CallerStates
    <2>2. Knows' /\ Handled'
      BY <2>1 DEF Knows, Handled
    <2> QED
      BY <2>1, <2>2, CallerMovesKeeps
  <1>13. CASE UnloadFrees
    <2>1. /\ caller' \in CallerStates /\ caller'.at = "exited" /\ caller.at = "unload"
          /\ UNCHANGED <<job, sigalrm>>
          /\ heap' = [b \in Blocks |-> IF InTable(b) THEN Freed ELSE heap[b]]
      BY <1>2, <1>13 DEF UnloadFrees, CallerGoes, CallerStates
    <2>2. Freed \in Timers /\ Freed.flag = "freed" /\ Freed.calls = 0
      BY DEF Freed, Timers
    <2>3. heap' \in [Blocks -> Timers] /\ \A b \in Blocks : heap'[b] = Freed \/ heap'[b] = heap[b]
      BY <2>1, <2>2 DEF TimerTypeOK, Timers
    <2>4. TimerTypeOK'
      BY <2>1, <2>3 DEF TimerTypeOK, Timers, CallerStates
    <2>5. Calls'
      BY <2>2, <2>3 DEF Calls
    <2>6. Knows' /\ Handled' /\ TableSound'
      BY <2>1 DEF Knows, Handled, TableSound
    <2> QED
      BY <2>4, <2>5, <2>6
  <1> QED
    BY <1>3, <1>4, <1>5, <1>6, <1>7, <1>8, <1>9, <1>10, <1>11, <1>12, <1>13
       DEF TimerNext, WaitSteps

\* The signal timer library, with any table, any number of blocks and any timers, and
\* an alarm between any two steps of the thread.
THEOREM SignalTimerInvariant == TimerSpec => []TimerInv
  <1>1. TimerInit => TimerInv
    <2> SUFFICES ASSUME TimerInit PROVE TimerInv
      OBVIOUS
    <2>1. Idle \in CallerStates /\ Idle.at = "idle" /\ Freed \in Timers
      BY SignalTimerAssumption DEF Idle, CallerStates, Slots, Freed, Timers
    <2>2. TimerTypeOK
      BY <2>1 DEF TimerInit, TimerTypeOK, CallerStates, Timers
    <2>3. Calls /\ Knows /\ Handled /\ TableSound
      BY <2>1 DEF TimerInit, Calls, Knows, Handled, TableSound, Freed
    <2> QED
      BY <2>2, <2>3 DEF TimerInv
  <1>2. TimerInv /\ [TimerNext]_timerVars => TimerInv'
    <2> SUFFICES ASSUME TimerInv, [TimerNext]_timerVars PROVE TimerInv'
      OBVIOUS
    <2>1. CASE TimerNext
      BY <2>1, TimerStep
    <2>2. CASE UNCHANGED timerVars
      BY <2>2 DEF timerVars, TimerInv, TimerTypeOK, Calls, Knows, Handled, TableSound, InTable
    <2> QED
      BY <2>1, <2>2
  <1> QED
    BY <1>1, <1>2, PTL DEF TimerSpec

\* A callback is called once at most, and no handler or caller meets a freed block
\* through the table: CancelSets, which does not look again, does not undo that.
THEOREM TimersSound == TimerSpec => [](CalledOnce /\ TableSound)
  <1>1. TimerInv => CalledOnce /\ TableSound
    BY DEF TimerInv, Calls, CalledOnce
  <1> QED
    BY <1>1, SignalTimerInvariant, PTL

-----------------------------------------------------------------------------
\* The token buckets.

BucketSpec == BucketInit /\ [][BucketNext]_bucketVars

\* What a user is about to take is there, and the value it loaded is not more than the
\* bucket holds: a handler in between adds.
Amounts ==
    \A u \in Users :
       /\ user[u].at \in {"load", "store", "read"} => user[u].n <= BUFSIZE
       /\ user[u].at = "load" => user[u].n <= token
       /\ user[u].at = "store" => user[u].n <= user[u].seen
       /\ user[u].at \in {"store", "putback"} => user[u].seen <= token

\* The signal library has one user, and only its users come between two instructions.
Sole ==
    /\ library = "signal" => \A u \in Users \ {Signaled} : user[u].at = "done"
    /\ library = "mt" => \A u \in Users :
          user[u].at \notin {"pausing", "load", "store", "putback", "clamp"}

\* More than burst only between token += n and the test that follows it.
Full == token > burst => user[Signaled].at = "clamp"

\* Nobody sleeps while there are tokens.
Sleepers == library = "mt" => \A u \in Users : user[u].at = "asleep" => token = 0

BucketInv == BucketTypeOK /\ Amounts /\ Sole /\ Full /\ Sleepers

Held(u) == IF user[u].at \in Holding THEN user[u].n ELSE 0

UserStates ==
    [at : {"fetch", "asleep", "pausing", "load", "store", "clamp", "done"} \cup Holding,
     n : 0 .. BUFSIZE + 1, seen : 0 .. burst + BUFSIZE + 1]

\* Counting tokens: held tells how many each user has in its hand.
TokensOf(held) == {t \in Users \X (1 .. BUFSIZE + 1) : t[2] <= held[t[1]]}

\* The tokens are those of one user and those of the others.
LEMMA HandsCounted ==
    ASSUME NEW held \in [Users -> 0 .. BUFSIZE + 1], NEW u \in Users
    PROVE  LET others == {t \in TokensOf(held) : t[1] # u}
           IN  /\ Cardinality(others) \in Nat /\ Cardinality(TokensOf(held)) \in Nat
               /\ Cardinality(TokensOf(held)) = Cardinality(others) + held[u]
  <1> DEFINE others == {t \in TokensOf(held) : t[1] # u}
             mine == {u} \X (1 .. held[u])
  <1>1. held[u] \in 0 .. BUFSIZE + 1 /\ BUFSIZE + 1 \in Nat
    BY BucketAssumption
  <1>2. /\ IsFiniteSet(1 .. BUFSIZE + 1)
        /\ IsFiniteSet(1 .. held[u]) /\ Cardinality(1 .. held[u]) = held[u]
    BY <1>1, FS_Interval
  <1>3. IsFiniteSet(Users \X (1 .. BUFSIZE + 1))
    BY <1>2, BucketAssumption, FS_Product
  <1>4. IsFiniteSet(TokensOf(held)) /\ IsFiniteSet(others)
    BY <1>3, FS_Subset DEF TokensOf
  <1>5. IsFiniteSet({u}) /\ Cardinality({u}) = 1
    BY FS_Singleton
  <1>6. IsFiniteSet(mine) /\ Cardinality(mine) = held[u]
    <2>1. IsFiniteSet(mine) /\ Cardinality(mine) = 1 * Cardinality(1 .. held[u])
      BY <1>2, <1>5, FS_Product
    <2> QED
      BY <1>1, <1>2, <2>1
  <1>7. TokensOf(held) = others \cup mine
    <2>1. ASSUME NEW t \in TokensOf(held), t[1] = u PROVE t \in mine
      <3>1. t \in Users \X (1 .. BUFSIZE + 1) /\ t[2] <= held[u]
        BY <2>1 DEF TokensOf
      <3>2. t[2] \in 1 .. held[u]
        BY <1>1, <3>1
      <3> QED
        BY <2>1, <3>1, <3>2
    <2>2. ASSUME NEW t \in mine PROVE t \in TokensOf(held)
      <3>1. t[1] = u /\ t[2] \in 1 .. held[u] /\ t = <<t[1], t[2]>>
        OBVIOUS
      <3>2. t \in Users \X (1 .. BUFSIZE + 1) /\ t[2] <= held[t[1]]
        BY <1>1, <3>1
      <3> QED
        BY <3>2 DEF TokensOf
    <2> QED
      BY <2>1, <2>2
  <1>8. others \cap mine = {} /\ Cardinality(others \cap mine) = 0
    BY FS_EmptySet
  <1>9. Cardinality(others) \in Nat /\ Cardinality(TokensOf(held)) \in Nat
    BY <1>4, FS_CardinalityType
  <1>10. Cardinality(TokensOf(held))
            = Cardinality(others) + Cardinality(mine) - Cardinality(others \cap mine)
    BY <1>4, <1>6, <1>7, FS_Union
  <1> QED
    BY <1>1, <1>6, <1>8, <1>9, <1>10

HeldNow == [v \in Users |-> Held(v)]

LEMMA HandsNow == ASSUME BucketTypeOK PROVE InHands = TokensOf(HeldNow)
  <1>1. ASSUME NEW t \in Users \X (1 .. BUFSIZE + 1)
        PROVE  t \in InHands <=> t \in TokensOf(HeldNow)
    <2>1. t[1] \in Users /\ t[2] \in Nat /\ t[2] >= 1
      BY BucketAssumption
    <2> QED
      BY <2>1 DEF InHands, TokensOf, HeldNow, Held
  <1> QED
    BY <1>1 DEF InHands, TokensOf

\* When one user's hand changes, so do the tokens in hand.
LEMMA HandChanges ==
    ASSUME BucketTypeOK, BucketTypeOK', NEW u \in Users,
           \A v \in Users \ {u} : Held(v)' = Held(v)
    PROVE  /\ Cardinality(InHands) \in Nat /\ Cardinality(InHands') \in Nat
           /\ Cardinality(InHands') = Cardinality(InHands) + Held(u)' - Held(u)
  <1> DEFINE others(held) == {t \in TokensOf(held) : t[1] # u}
  <1>1. HeldNow \in [Users -> 0 .. BUFSIZE + 1] /\ HeldNow' \in [Users -> 0 .. BUFSIZE + 1]
    BY BucketAssumption DEF BucketTypeOK, Held, HeldNow
  <1>2. /\ Cardinality(others(HeldNow)) \in Nat /\ Cardinality(TokensOf(HeldNow)) \in Nat
        /\ Cardinality(TokensOf(HeldNow)) = Cardinality(others(HeldNow)) + HeldNow[u]
    BY <1>1, HandsCounted
  <1>3. /\ Cardinality(others(HeldNow')) \in Nat /\ Cardinality(TokensOf(HeldNow')) \in Nat
        /\ Cardinality(TokensOf(HeldNow')) = Cardinality(others(HeldNow')) + HeldNow'[u]
    BY <1>1, HandsCounted
  <1>4. others(HeldNow') = others(HeldNow)
    BY DEF HeldNow, TokensOf
  <1>5. InHands = TokensOf(HeldNow) /\ InHands' = TokensOf(HeldNow')
    <2>1. ASSUME NEW t \in Users \X (1 .. BUFSIZE + 1)
          PROVE  /\ t \in InHands <=> t \in TokensOf(HeldNow)
                 /\ t \in InHands' <=> t \in TokensOf(HeldNow')
      <3>1. t[1] \in Users /\ t[2] \in Nat /\ t[2] >= 1
        BY BucketAssumption
      <3> QED
        BY <3>1 DEF InHands, TokensOf, HeldNow, Held
    <2> QED
      BY <2>1 DEF InHands, TokensOf
  <1>6. HeldNow[u] = Held(u) /\ HeldNow'[u] = Held(u)' /\ HeldNow[u] \in Nat /\ HeldNow'[u] \in Nat
    BY <1>1 DEF HeldNow
  <1> HIDE DEF others
  <1> QED
    BY <1>2, <1>3, <1>4, <1>5, <1>6

\* What a step of one user may do to it, to the bucket and to those who sleep.
Legal(u) ==
    /\ user' \in [Users -> UserStates]
    /\ \A v \in Users \ {u} :
          /\ user'[v].n = user[v].n /\ user'[v].seen = user[v].seen
          /\ \/ user'[v].at = user[v].at
             \/ user[v].at = "asleep" /\ user'[v].at = "fetch"
    /\ UNCHANGED <<library, listed>> /\ token' \in 0 .. burst + BUFSIZE + 1
    /\ user[u].at # "done"
    /\ user'[u].at \in {"load", "store", "read"} => user'[u].n <= BUFSIZE
    /\ user'[u].at = "load" => user'[u].n <= token'
    /\ user'[u].at = "store" => user'[u].n <= user'[u].seen
    /\ user'[u].at \in {"store", "putback"} => user'[u].seen <= token'
    /\ library = "mt" => user'[u].at \notin {"pausing", "load", "store", "putback", "clamp"}
    /\ token' > burst => library = "signal" /\ user'[u].at = "clamp"
    /\ library = "mt" => token' = 0 \/ \A v \in Users : user'[v].at # "asleep"

\* Such a step keeps the invariant, and the tokens in hand change by that user's.
LEMMA UserMoves ==
    ASSUME BucketInv, NEW u \in Users, Legal(u)
    PROVE  /\ BucketInv'
           /\ Cardinality(InHands) \in Nat /\ Cardinality(InHands') \in Nat
           /\ Cardinality(InHands') = Cardinality(InHands) + Held(u)' - Held(u)
  <1> USE DEF Legal
  <1>2. BucketTypeOK'
    BY DEF BucketInv, BucketTypeOK, UserStates
  <1>3. library = "signal" => u = Signaled
    BY DEF BucketInv, Sole
  <1>4. Sole'
    BY <1>3 DEF BucketInv, Sole
  <1>5. Full'
    BY <1>3 DEF Full
  <1>6. Amounts'
    <2>1. ASSUME NEW v \in Users \ {u}
          PROVE  user'[v].at \notin {"load", "store", "putback"}
      BY <1>3, <2>1 DEF BucketInv, BucketTypeOK, Sole
    <2>2. ASSUME NEW v \in Users \ {u}, user'[v].at = "read" PROVE user'[v].n <= BUFSIZE
      BY <2>2 DEF BucketInv, Amounts
    <2> QED
      BY <2>1, <2>2 DEF Amounts
  <1>7. Sleepers'
    BY DEF Sleepers
  <1>8. \A v \in Users \ {u} : Held(v)' = Held(v)
    BY DEF Held, Holding
  <1>10. BucketTypeOK
    BY DEF BucketInv
  <1> QED
    BY <1>2, <1>4, <1>5, <1>6, <1>7, <1>8, <1>10, HandChanges DEF BucketInv

\* No step but a second, or a read that fails, may add to the tokens.
Conserves == Tokens' <= Tokens + (IF Tick THEN cps ELSE IF ReadFailed THEN 1 ELSE 0)

LEMMA Conserved ==
    ASSUME Tokens \in Int, Tokens' \in Int, Tokens' <= Tokens
    PROVE  Conserves
  BY BucketAssumption DEF Conserves

\* Every step of a user.
LEMMA UserStepKeeps ==
    ASSUME BucketInv, NEW u \in Users, UserStep(u) \/ FetchSpuriousWakeup(u)
    PROVE  BucketInv' /\ Conserves
  <1>0. /\ token \in 0 .. burst + BUFSIZE + 1 /\ library \in {"mt", "signal"}
        /\ user \in [Users -> UserStates] /\ user[u] \in UserStates
        /\ burst \in Nat /\ BUFSIZE \in Nat /\ cps \in Nat
        /\ library = "mt" => token <= burst
        /\ user[u].at \notin {"clamp", "done"} => token <= burst
    <2>1. /\ token \in 0 .. burst + BUFSIZE + 1 /\ library \in {"mt", "signal"}
          /\ user \in [Users -> UserStates]
      BY DEF BucketInv, BucketTypeOK, UserStates
    <2>2. burst \in Nat /\ BUFSIZE \in Nat /\ cps \in Nat /\ Signaled \in Users
      BY BucketAssumption
    <2> QED
      BY <2>1, <2>2 DEF BucketInv, Full, Sole
  <1>00. library = "mt" => token = 0 \/ \A v \in Users : user[v].at # "asleep"
    BY DEF BucketInv, Sleepers
  <1>1. CASE FetchWaits(u) \/ FetchSpuriousWakeup(u) \/ Pause(u)
    <2>1. PICK at \in {"asleep", "pausing", "fetch"} :
             /\ user[u].at \notin Holding \cup {"clamp", "done"}
             /\ user' = [user EXCEPT ![u] = [at |-> at, n |-> 0, seen |-> 0]]
             /\ at = "pausing" => library = "signal"
             /\ at = "asleep" /\ library = "mt" => token = 0
      BY <1>0, <1>1 DEF FetchWaits, FetchSpuriousWakeup, Pause, Goes, Holding, BucketInv, Sole
    <2>2. [at |-> at, n |-> 0, seen |-> 0] \in UserStates
      BY <1>0 DEF UserStates
    <2>3. UNCHANGED <<library, listed, token>>
      BY <1>1 DEF FetchWaits, FetchSpuriousWakeup, Pause
    <2>4. /\ user' \in [Users -> UserStates] /\ user'[u] = [at |-> at, n |-> 0, seen |-> 0]
          /\ \A v \in Users \ {u} : user'[v] = user[v]
      BY <1>0, <2>1, <2>2
    <2>5. /\ BucketInv'
          /\ Cardinality(InHands) \in Nat /\ Cardinality(InHands') \in Nat
          /\ Cardinality(InHands') = Cardinality(InHands) + Held(u)' - Held(u)
      <3>1. Legal(u)
        BY <1>0, <1>00, <2>1, <2>3, <2>4 DEF Legal
      <3> QED
        BY <3>1, UserMoves
    <2>6. Held(u) = 0 /\ Held(u)' = 0
      BY <2>1, <2>4 DEF Held, Holding
    <2> QED
      BY <1>0, <2>3, <2>5, <2>6, Conserved DEF Tokens
  <1>2. CASE FetchTakes(u)
    <2> DEFINE n == min(token, BUFSIZE)
    <2>1. /\ user[u].at = "fetch" /\ token > 0 /\ UNCHANGED <<library, listed>>
          /\ n \in 0 .. BUFSIZE + 1 /\ n <= BUFSIZE /\ n <= token
      BY <1>0, <1>2 DEF FetchTakes, min
    <2>2. \A v \in Users : library = "mt" => user[v].at # "asleep"
      BY <1>0, <1>00, <2>1
    <2>3. CASE library = "mt"
      <3>1. user' = [user EXCEPT ![u] = [at |-> "read", n |-> n, seen |-> 0]] /\ token' = token - n
        BY <1>2, <2>3 DEF FetchTakes, Goes
      <3>2. [at |-> "read", n |-> n, seen |-> 0] \in UserStates
        BY <1>0, <2>1 DEF UserStates, Holding
      <3>3. /\ user' \in [Users -> UserStates]
            /\ user'[u] = [at |-> "read", n |-> n, seen |-> 0]
            /\ \A v \in Users \ {u} : user'[v] = user[v]
        BY <1>0, <3>1, <3>2
      <3>4. token' \in 0 .. burst + BUFSIZE + 1 /\ token' <= burst
        BY <1>0, <2>1, <2>3, <3>1
      <3>5. /\ BucketInv'
            /\ Cardinality(InHands) \in Nat /\ Cardinality(InHands') \in Nat
            /\ Cardinality(InHands') = Cardinality(InHands) + Held(u)' - Held(u)
        <4> HIDE DEF n
        <4>1. Legal(u)
          BY <1>0, <2>1, <2>2, <2>3, <3>3, <3>4 DEF Legal
        <4> QED
          BY <4>1, UserMoves
      <3>6. Held(u) = 0 /\ Held(u)' = n
        BY <2>1, <3>3 DEF Held, Holding
      <3> HIDE DEF n
      <3> QED
        BY <1>0, <2>1, <3>1, <3>4, <3>5, <3>6, Conserved DEF Tokens
    <2>4. CASE library = "signal"
      <3>1. user' = [user EXCEPT ![u] = [at |-> "load", n |-> n, seen |-> 0]] /\ token' = token
        BY <1>2, <2>4 DEF FetchTakes, Goes
      <3>2. [at |-> "load", n |-> n, seen |-> 0] \in UserStates
        BY <1>0, <2>1 DEF UserStates
      <3>3. /\ user' \in [Users -> UserStates]
            /\ user'[u] = [at |-> "load", n |-> n, seen |-> 0]
            /\ \A v \in Users \ {u} : user'[v] = user[v]
        BY <1>0, <3>1, <3>2
      <3>5. /\ BucketInv'
            /\ Cardinality(InHands) \in Nat /\ Cardinality(InHands') \in Nat
            /\ Cardinality(InHands') = Cardinality(InHands) + Held(u)' - Held(u)
        <4> HIDE DEF n
        <4>1. Legal(u)
          BY <1>0, <2>1, <2>4, <3>1, <3>3 DEF Legal
        <4> QED
          BY <4>1, UserMoves
      <3>6. Held(u) = 0 /\ Held(u)' = 0
        BY <2>1, <3>3 DEF Held, Holding
      <3> QED
        BY <1>0, <3>1, <3>5, <3>6, Conserved DEF Tokens
    <2> QED
      BY <1>0, <2>3, <2>4
  <1>3. CASE LoadToTake(u) \/ LoadToReturn(u)
    <2>1. PICK at \in {"store", "putback"} :
             /\ user' = [user EXCEPT ![u].at = at, ![u].seen = token]
             /\ at = "store" => user[u].at = "load"
             /\ at = "putback" => user[u].at = "return"
             /\ library = "signal" /\ UNCHANGED <<library, token, listed>>
      <3>1. library = "signal"
        BY <1>0, <1>3 DEF LoadToTake, LoadToReturn, BucketInv, Sole
      <3> QED
        BY <1>3, <3>1 DEF LoadToTake, LoadToReturn
    <2>2. /\ user'[u] = [[user[u] EXCEPT !.at = at] EXCEPT !.seen = token]
          /\ \A v \in Users \ {u} : user'[v] = user[v]
          /\ DOMAIN user' = Users
      BY <1>0, <2>1
    <2>3. /\ user'[u].at = at /\ user'[u].n = user[u].n /\ user'[u].seen = token
          /\ user'[u] \in UserStates
          /\ user' \in [Users -> UserStates]
          /\ \A v \in Users \ {u} : user'[v] = user[v]
      <3>1. /\ user'[u].at = at /\ user'[u].n = user[u].n /\ user'[u].seen = token
            /\ user'[u] \in UserStates
        BY <1>0, <2>1, <2>2 DEF UserStates, Holding
      <3> QED
        BY <1>0, <2>1, <2>2, <3>1
    <2>4. at = "store" => user[u].n <= BUFSIZE /\ user[u].n <= token
      BY <2>1 DEF BucketInv, Amounts
    <2>5. /\ BucketInv'
          /\ Cardinality(InHands) \in Nat /\ Cardinality(InHands') \in Nat
          /\ Cardinality(InHands') = Cardinality(InHands) + Held(u)' - Held(u)
      <3>1. Legal(u)
        BY <1>0, <2>1, <2>3, <2>4 DEF Legal
      <3> QED
        BY <3>1, UserMoves
    <2>6. Held(u)' = Held(u) /\ Held(u) \in Nat
      BY <1>0, <2>1, <2>3 DEF Held, Holding, UserStates
    <2> QED
      BY <1>0, <2>1, <2>5, <2>6, Conserved DEF Tokens
  <1>4. CASE StoreTaken(u)
    <2>1. /\ user[u].at = "store" /\ token' = user[u].seen - user[u].n
          /\ user' = [user EXCEPT ![u] = [at |-> "read", n |-> user[u].n, seen |-> 0]]
          /\ UNCHANGED <<library, listed>>
      BY <1>4 DEF StoreTaken, Goes
    <2>2. /\ user[u].n <= BUFSIZE /\ user[u].n <= user[u].seen /\ user[u].seen <= token
          /\ user[u].n \in 0 .. BUFSIZE + 1 /\ user[u].seen \in 0 .. burst + BUFSIZE + 1
          /\ library = "signal"
      BY <1>0, <2>1 DEF BucketInv, Amounts, Sole, UserStates
    <2>3. [at |-> "read", n |-> user[u].n, seen |-> 0] \in UserStates
      BY <1>0, <2>2 DEF UserStates, Holding
    <2>4. /\ user' \in [Users -> UserStates]
          /\ user'[u] = [at |-> "read", n |-> user[u].n, seen |-> 0]
          /\ \A v \in Users \ {u} : user'[v] = user[v]
      BY <1>0, <2>1, <2>3
    <2>5. /\ BucketInv'
          /\ Cardinality(InHands) \in Nat /\ Cardinality(InHands') \in Nat
          /\ Cardinality(InHands') = Cardinality(InHands) + Held(u)' - Held(u)
      <3>1. Legal(u)
        BY <1>0, <2>1, <2>2, <2>4 DEF Legal
      <3> QED
        BY <3>1, UserMoves
    <2>6. Held(u) = 0 /\ Held(u)' = user[u].n
      BY <2>1, <2>4 DEF Held, Holding
    <2> QED
      BY <1>0, <2>1, <2>2, <2>5, <2>6, Conserved DEF Tokens
  <1>5. ASSUME NEW len \in -1 .. BUFSIZE, ReadFile(u, len) PROVE BucketInv' /\ Conserves
    <2>1. /\ user[u].at = "read" /\ len <= user[u].n /\ UNCHANGED <<library, token, listed>>
          /\ user[u].n \in 0 .. BUFSIZE + 1 /\ user[u].n <= BUFSIZE
      BY <1>0, <1>5 DEF ReadFile, BucketInv, Amounts, UserStates
    <2>2. PICK at \in {"done", "return", "fetch"}, n \in 0 .. BUFSIZE + 1 :
             /\ user' = [user EXCEPT ![u] = [at |-> at, n |-> n, seen |-> 0]]
             /\ at # "return" => n = 0
             /\ at = "return" => n = user[u].n - len /\ n > 0
      <3>1. user[u].n - len \in 0 .. BUFSIZE + 1
        BY <1>0, <2>1
      <3>2. CASE len = 0
        <4>1. user' = [user EXCEPT ![u] = [at |-> "done", n |-> 0, seen |-> 0]]
          BY <1>5, <3>2 DEF ReadFile, Goes
        <4>2. 0 \in 0 .. BUFSIZE + 1
          BY <1>0
        <4> QED
          BY <4>1, <4>2
      <3>3. CASE len # 0 /\ user[u].n - len > 0
        <4>1. user' = [user EXCEPT ![u] = [at |-> "return", n |-> user[u].n - len, seen |-> 0]]
          BY <1>5, <3>3 DEF ReadFile, Goes
        <4> QED
          BY <4>1, <3>1, <3>3
      <3>4. CASE len # 0 /\ ~ (user[u].n - len > 0)
        <4>1. user' = [user EXCEPT ![u] = [at |-> "fetch", n |-> 0, seen |-> 0]]
          BY <1>5, <3>4 DEF ReadFile, Goes
        <4>2. 0 \in 0 .. BUFSIZE + 1
          BY <1>0
        <4> QED
          BY <4>1, <4>2
      <3> QED
        BY <3>2, <3>3, <3>4
    <2>3. [at |-> at, n |-> n, seen |-> 0] \in UserStates
      BY <1>0 DEF UserStates, Holding
    <2>4. /\ user' \in [Users -> UserStates]
          /\ user'[u] = [at |-> at, n |-> n, seen |-> 0]
          /\ \A v \in Users \ {u} : user'[v] = user[v]
      BY <1>0, <2>2, <2>3
    <2>5. /\ BucketInv'
          /\ Cardinality(InHands) \in Nat /\ Cardinality(InHands') \in Nat
          /\ Cardinality(InHands') = Cardinality(InHands) + Held(u)' - Held(u)
      <3>1. Legal(u)
        BY <1>0, <1>00, <2>1, <2>4 DEF Legal
      <3> QED
        BY <3>1, UserMoves
    <2>6. Held(u) = user[u].n /\ Held(u)' = n
      BY <2>1, <2>2, <2>4 DEF Held, Holding
    <2>7. CASE n <= user[u].n
      <3>1. Tokens \in Int /\ Tokens' \in Int /\ Tokens' <= Tokens
        BY <1>0, <2>1, <2>5, <2>6, <2>7 DEF Tokens
      <3> QED
        BY <2>5, <3>1, Conserved
    <2>8. CASE n > user[u].n
      <3>1. at = "return" /\ ReadFailed
        BY <1>0, <2>1, <2>2, <2>4, <2>8 DEF ReadFailed
      <3>2. Tokens \in Int /\ Tokens' \in Int /\ Tokens' <= Tokens + 1
        BY <1>0, <2>1, <2>2, <2>5, <2>6, <3>1 DEF Tokens
      <3>3. cps \in Nat /\ cps >= 1
        BY BucketAssumption
      <3> QED
        BY <2>5, <3>1, <3>2, <3>3 DEF Conserves
    <2> QED
      BY <2>1, <2>7, <2>8
  <1>6. CASE ReturnLocked(u)
    <2> DEFINE given == min(token + user[u].n, burst)
    <2>1. /\ user[u].at = "return" /\ library = "mt" /\ token' = given
          /\ user' = [Awake EXCEPT ![u] = [at |-> "fetch", n |-> 0, seen |-> 0]]
          /\ UNCHANGED <<library, listed>> /\ user[u].n \in 0 .. BUFSIZE + 1
      BY <1>0, <1>6 DEF ReturnLocked, UserStates
    <2>2. given \in 0 .. burst + BUFSIZE + 1 /\ given <= burst /\ given <= token + user[u].n
      BY <1>0, <2>1 DEF min
    <2> HIDE DEF given
    <2>3. /\ Awake \in [Users -> UserStates]
          /\ \A v \in Users : /\ Awake[v].n = user[v].n /\ Awake[v].seen = user[v].seen
                              /\ \/ Awake[v].at = user[v].at
                                 \/ user[v].at = "asleep" /\ Awake[v].at = "fetch"
                              /\ Awake[v].at # "asleep"
      BY <1>0 DEF Awake, UserStates
    <2>4. [at |-> "fetch", n |-> 0, seen |-> 0] \in UserStates
      BY <1>0 DEF UserStates
    <2>5. /\ user' \in [Users -> UserStates]
          /\ user'[u] = [at |-> "fetch", n |-> 0, seen |-> 0]
          /\ \A v \in Users \ {u} : user'[v] = Awake[v]
      BY <2>1, <2>3, <2>4
    <2>6. /\ BucketInv'
          /\ Cardinality(InHands) \in Nat /\ Cardinality(InHands') \in Nat
          /\ Cardinality(InHands') = Cardinality(InHands) + Held(u)' - Held(u)
      <3>1. \A v \in Users : user'[v].at # "asleep"
        BY <2>3, <2>5
      <3>2. Legal(u)
        BY <1>0, <2>1, <2>2, <2>3, <2>5, <3>1 DEF Legal
      <3> QED
        BY <3>2, UserMoves
    <2>7. Held(u) = user[u].n /\ Held(u)' = 0
      BY <2>1, <2>5 DEF Held, Holding
    <2> QED
      BY <1>0, <2>1, <2>2, <2>6, <2>7, Conserved DEF Tokens
  <1>7. CASE StoreReturned(u)
    <2>1. /\ user[u].at = "putback" /\ token' = user[u].seen + user[u].n
          /\ user' = [user EXCEPT ![u] = [at |-> "clamp", n |-> 0, seen |-> 0]]
          /\ UNCHANGED <<library, listed>>
      BY <1>7 DEF StoreReturned, Goes
    <2>2. /\ user[u].seen <= token /\ token <= burst
          /\ user[u].n \in 0 .. BUFSIZE + 1 /\ user[u].seen \in 0 .. burst + BUFSIZE + 1
          /\ library = "signal"
      BY <1>0, <2>1 DEF BucketInv, Amounts, Sole, UserStates
    <2>3. [at |-> "clamp", n |-> 0, seen |-> 0] \in UserStates
      BY <1>0 DEF UserStates
    <2>4. /\ user' \in [Users -> UserStates]
          /\ user'[u] = [at |-> "clamp", n |-> 0, seen |-> 0]
          /\ \A v \in Users \ {u} : user'[v] = user[v]
      BY <1>0, <2>1, <2>3
    <2>5. /\ BucketInv'
          /\ Cardinality(InHands) \in Nat /\ Cardinality(InHands') \in Nat
          /\ Cardinality(InHands') = Cardinality(InHands) + Held(u)' - Held(u)
      <3>1. Legal(u)
        BY <1>0, <2>1, <2>2, <2>4 DEF Legal
      <3> QED
        BY <3>1, UserMoves
    <2>6. Held(u) = user[u].n /\ Held(u)' = 0
      BY <2>1, <2>4 DEF Held, Holding
    <2> QED
      BY <1>0, <2>1, <2>2, <2>5, <2>6, Conserved DEF Tokens
  <1>8. CASE Clamp(u)
    <2>1. /\ user[u].at = "clamp" /\ library = "signal"
          /\ user' = [user EXCEPT ![u] = [at |-> "fetch", n |-> 0, seen |-> 0]]
          /\ UNCHANGED <<library, listed>>
      BY <1>0, <1>8 DEF Clamp, Goes, BucketInv, Sole
    <2>2. token' \in 0 .. burst + BUFSIZE + 1 /\ token' <= burst /\ token' <= token
      BY <1>0, <1>8 DEF Clamp, min
    <2>3. [at |-> "fetch", n |-> 0, seen |-> 0] \in UserStates
      BY <1>0 DEF UserStates
    <2>4. /\ user' \in [Users -> UserStates]
          /\ user'[u] = [at |-> "fetch", n |-> 0, seen |-> 0]
          /\ \A v \in Users \ {u} : user'[v] = user[v]
      BY <1>0, <2>1, <2>3
    <2>5. /\ BucketInv'
          /\ Cardinality(InHands) \in Nat /\ Cardinality(InHands') \in Nat
          /\ Cardinality(InHands') = Cardinality(InHands) + Held(u)' - Held(u)
      <3>1. Legal(u)
        BY <1>0, <2>1, <2>2, <2>4 DEF Legal
      <3> QED
        BY <3>1, UserMoves
    <2>6. Held(u) = 0 /\ Held(u)' = 0
      BY <2>1, <2>4 DEF Held, Holding
    <2> QED
      BY <1>0, <2>2, <2>5, <2>6, Conserved DEF Tokens
  <1> QED
    BY <1>1, <1>2, <1>3, <1>4, <1>5, <1>6, <1>7, <1>8 DEF UserStep

\* Every step of the library and of the programs.
LEMMA BucketStep ==
    ASSUME BucketInv, [BucketNext]_bucketVars
    PROVE  BucketInv' /\ (UNCHANGED bucketVars \/ Conserves)
  <1>0. /\ token \in 0 .. burst + BUFSIZE + 1 /\ library \in {"mt", "signal"}
        /\ user \in [Users -> UserStates] /\ burst \in Nat /\ BUFSIZE \in Nat /\ cps \in Nat
        /\ Signaled \in Users /\ cps >= 1
    BY BucketAssumption DEF BucketInv, BucketTypeOK, UserStates
  <1>1. CASE Tick
    <2>1. /\ user' = Awake /\ token' = min(token + cps, burst) /\ UNCHANGED <<library, listed>>
      BY <1>1 DEF Tick, Refilled
    <2>2. /\ user' \in [Users -> UserStates]
          /\ \A v \in Users : /\ user'[v].n = user[v].n /\ user'[v].seen = user[v].seen
                              /\ \/ user'[v].at = user[v].at
                                 \/ user[v].at = "asleep" /\ user'[v].at = "fetch"
                              /\ user'[v].at # "asleep"
      BY <1>0, <2>1 DEF Awake, UserStates
    <2>3. /\ token' \in 0 .. burst + BUFSIZE + 1 /\ token' <= burst /\ token' <= token + cps
          /\ token <= burst => token' >= token
      BY <1>0, <2>1 DEF min
    <2>4. BucketTypeOK'
      BY <2>1, <2>2, <2>3 DEF BucketInv, BucketTypeOK, UserStates
    <2>5. Sole' /\ Full' /\ Sleepers'
      BY <1>0, <2>1, <2>2, <2>3 DEF BucketInv, Sole, Full, Sleepers
    <2>6. Amounts'
      <3>1. ASSUME NEW u \in Users, user[u].at \in {"load", "store", "putback"}
            PROVE  token <= burst
        BY <1>0, <3>1 DEF BucketInv, Sole, Full
      <3>2. \A u \in Users : user[u].n \in Int /\ user[u].seen \in Int
        BY <1>0 DEF UserStates
      <3> QED
        BY <1>0, <2>2, <2>3, <3>1, <3>2 DEF BucketInv, Amounts
    <2>7. /\ Cardinality(InHands) \in Nat /\ Cardinality(InHands') \in Nat
          /\ Cardinality(InHands') = Cardinality(InHands)
      <3>1. \A v \in Users : Held(v)' = Held(v) /\ Held(v) \in Nat
        BY <1>0, <2>2 DEF Held, Holding, UserStates
      <3> QED
        BY <1>0, <2>4, <3>1, HandChanges DEF BucketInv
    <2>8. Conserves
      BY <1>0, <1>1, <2>3, <2>7 DEF Conserves, Tokens
    <2> QED
      BY <2>4, <2>5, <2>6, <2>8 DEF BucketInv
  <1>2. CASE mytbf_destroy
    <2>1. UNCHANGED <<library, token, user>> /\ listed' = FALSE
      BY <1>2 DEF mytbf_destroy
    <2>2. BucketInv'
      BY <2>1 DEF BucketInv, BucketTypeOK, Amounts, Sole, Full, Sleepers
    <2>3. \A v \in Users : Held(v)' = Held(v) /\ Held(v) \in Nat
      BY <1>0, <2>1 DEF Held, Holding, UserStates
    <2>4. /\ Cardinality(InHands) \in Nat /\ Cardinality(InHands') \in Nat
          /\ Cardinality(InHands') = Cardinality(InHands)
      BY <1>0, <2>2, <2>3, HandChanges DEF BucketInv
    <2> QED
      BY <1>0, <2>1, <2>2, <2>4, Conserved DEF Tokens
  <1>3. ASSUME NEW u \in Users, ProcessExits(u) PROVE BucketInv' /\ Conserves
    <2>1. /\ user' = [v \in Users |-> [at |-> "done", n |-> 0, seen |-> 0]]
          /\ listed' = FALSE /\ UNCHANGED <<library, token>> /\ user[u].at = "fetch"
      BY <1>3 DEF ProcessExits
    <2>2. [at |-> "done", n |-> 0, seen |-> 0] \in UserStates
      BY <1>0 DEF UserStates
    <2>3. /\ user' \in [Users -> UserStates]
          /\ \A v \in Users : user'[v] = [at |-> "done", n |-> 0, seen |-> 0]
      BY <2>1, <2>2
    <2>4. token <= burst
      BY <1>0, <2>1 DEF BucketInv, Full, Sole
    <2>5. BucketTypeOK'
      BY <2>1, <2>3 DEF BucketInv, BucketTypeOK, UserStates
    <2>6. Amounts' /\ Sole' /\ Full' /\ Sleepers'
      BY <1>0, <2>1, <2>3, <2>4 DEF Amounts, Sole, Full, Sleepers
    <2>7. InHands' = {} /\ Cardinality(InHands') = 0
      <3>1. ASSUME NEW t \in Users \X (1 .. BUFSIZE + 1) PROVE ~ (user'[t[1]].at \in Holding)
        <4>1. t[1] \in Users
          OBVIOUS
        <4> QED
          BY <4>1, <2>3 DEF Holding
      <3>2. InHands' = {}
        BY <3>1 DEF InHands
      <3> QED
        BY <3>2, FS_EmptySet
    <2>8. Cardinality(InHands) \in Nat
      <3>1. HeldNow \in [Users -> 0 .. BUFSIZE + 1]
        BY <1>0 DEF HeldNow, Held, UserStates
      <3>2. Cardinality(TokensOf(HeldNow)) \in Nat
        BY <1>0, <3>1, HandsCounted
      <3>3. InHands = TokensOf(HeldNow)
        BY HandsNow, <1>0 DEF BucketInv
      <3> QED
        BY <3>2, <3>3
    <2> QED
      BY <1>0, <2>1, <2>5, <2>6, <2>7, <2>8, Conserved DEF BucketInv, Tokens
  <1>4. CASE UNCHANGED bucketVars
    BY <1>4 DEF bucketVars, BucketInv, BucketTypeOK, Amounts, Sole, Full, Sleepers
  <1> QED
    BY <1>1, <1>2, <1>3, <1>4, UserStepKeeps DEF BucketNext

\* The token buckets of both libraries, with any rate, any users, and a handler between
\* any two instructions of the signal one: who takes and gives back has loaded a value
\* the bucket still covers.
THEOREM BucketInvariant == BucketSpec => []BucketInv
  <1>1. BucketInit => BucketInv
    <2> SUFFICES ASSUME BucketInit PROVE BucketInv
      OBVIOUS
    <2>1. burst \in Nat /\ BUFSIZE \in Nat /\ cps \in Nat /\ Signaled \in Users
      BY BucketAssumption
    <2>2. \A u \in Users : user[u].at \in {"done", "fetch"} /\ user[u].n = 0 /\ user[u].seen = 0
      BY DEF BucketInit
    <2>3. BucketTypeOK
      BY <2>1 DEF BucketInit, BucketTypeOK, Holding
    <2> QED
      BY <2>1, <2>2, <2>3 DEF BucketInit, BucketInv, Amounts, Sole, Full, Sleepers
  <1> QED
    BY <1>1, BucketStep, PTL DEF BucketSpec

\* Only a second adds tokens, cps at most: a race of fetch or return with the handler
\* may lose tokens and never makes any, and at rest the bucket holds burst at most.
THEOREM RateCorrect == BucketSpec => RateKept
  <1>1. BucketInv /\ [BucketNext]_bucketVars =>
          [/\ Tokens' <= Tokens + (IF Tick THEN cps ELSE IF ReadFailed THEN 1 ELSE 0)
           /\ (\A u \in Users : user'[u].at # "clamp") => token' <= burst]_bucketVars
    <2> SUFFICES ASSUME BucketInv, [BucketNext]_bucketVars
                 PROVE  \/ UNCHANGED bucketVars
                        \/ /\ Conserves
                           /\ (\A u \in Users : user'[u].at # "clamp") => token' <= burst
      BY DEF Conserves
    <2>1. BucketInv' /\ (UNCHANGED bucketVars \/ Conserves)
      BY BucketStep
    <2>2. token' \in Int /\ burst \in Int /\ Signaled \in Users
      BY <2>1, BucketAssumption DEF BucketInv, BucketTypeOK
    <2> QED
      BY <2>1, <2>2 DEF BucketInv, Full
  <1> QED
    BY <1>1, BucketInvariant, PTL DEF BucketSpec, RateKept

\* No wakeup is lost in the threaded library: whoever sleeps in mytbf_fetchtoken does
\* so while there is no token.
THEOREM TokensAwaken == BucketSpec => []Sleepers
  <1>1. BucketInv => Sleepers
    BY DEF BucketInv
  <1> QED
    BY <1>1, BucketInvariant, PTL

-----------------------------------------------------------------------------
\* The output of a worker.

OutputSpec == OutputInit /\ [][OutputNext]_outputVars

\* What may be logged.
Letters == Bytes \cup {"*", "[line omitted]", "[overlong line omitted]"}

LEMMA BytesAreLetters ==
    ASSUME NEW s \in Seq(Bytes)
    PROVE  s \in Seq(Letters)
  <1>1. s = [i \in 1 .. Len(s) |-> s[i]] /\ Len(s) \in Nat
    OBVIOUS
  <1>2. \A i \in 1 .. Len(s) : s[i] \in Bytes
    OBVIOUS
  <1>3. \A i \in 1 .. Len(s) : s[i] \in Letters
    BY <1>2 DEF Letters
  <1> QED
    BY <1>1, <1>3

LEMMA Concatenation ==
    ASSUME NEW S, NEW s \in Seq(S), NEW t \in Seq(S)
    PROVE  s \o t \in Seq(S)
  OBVIOUS

LEMMA Part ==
    ASSUME NEW S, NEW s \in Seq(S), NEW m \in 1 .. Len(s) + 1, NEW n \in 0 .. Len(s), m <= n + 1
    PROVE  /\ SubSeq(s, m, n) \in Seq(S) /\ Len(SubSeq(s, m, n)) = n - m + 1
           /\ \A i \in 1 .. n - m + 1 : SubSeq(s, m, n)[i] = s[m + i - 1]
  OBVIOUS

LEMMA LengthIsNatural ==
    ASSUME NEW S, NEW s \in Seq(S)
    PROVE  Len(s) \in Nat
  OBVIOUS

LEMMA SinglePart ==
    ASSUME NEW S, NEW s \in Seq(S), NEW n \in 1 .. Len(s)
    PROVE  SubSeq(s, n, n) = <<s[n]>>
  <1> DEFINE t == SubSeq(s, n, n)
  <1>1. n \in 1 .. Len(s) + 1 /\ n \in 0 .. Len(s) /\ n <= n + 1 /\ n - n + 1 = 1
        /\ 1 \in 1 .. n - n + 1 /\ n + 1 - 1 = n
    OBVIOUS
  <1>2. t \in Seq(S) /\ Len(t) = 1 /\ t[1] = s[n]
    BY <1>1, Part
  <1> HIDE DEF t
  <1>3. t = <<t[1]>>
    BY <1>2
  <1>4. t = <<s[n]>>
    BY <1>2, <1>3
  <1> QED
    BY <1>4 DEF t

LEMMA Single ==
    ASSUME NEW x
    PROVE  Len(<<x>>) = 1 /\ <<x>>[1] = x
  <1>1. Len(<<x>>) = 1
    OBVIOUS
  <1>2. <<x>>[1] = x
    OBVIOUS
  <1> QED
    BY <1>1, <1>2

LEMMA LeastNatural ==
    ASSUME NEW S, S \subseteq Nat, S # {}
    PROVE  \E m \in S : \A x \in S : m <= x
  <1>1. PICK m \in S : \A x \in S : ~ (<<x, m>> \in OpToRel(<, Nat))
    BY NatLessThanWellFounded, WFMin
  <1>2. ASSUME NEW x \in S PROVE ~ (x < m)
    BY <1>1 DEF OpToRel
  <1>3. ASSUME NEW x \in S PROVE m <= x
    BY <1>2
  <1> QED
    BY <1>3

\* A property of numbers that is kept from one to the next; the set is that of the
\* numbers that have it.
LEMMA Induction ==
    ASSUME NEW n \in Nat, NEW P, 0 \in P, \A i \in 1 .. n : i - 1 \in P => i \in P
    PROVE  \A i \in 0 .. n : i \in P
  <1> DEFINE Bad == {i \in 0 .. n : i \notin P}
  <1> SUFFICES ASSUME Bad # {} PROVE FALSE
    OBVIOUS
  <1>1. PICK m \in Bad : \A x \in Bad : m <= x
    <2>1. Bad \subseteq Nat
      OBVIOUS
    <2> HIDE DEF Bad
    <2> QED
      BY <2>1, LeastNatural
  <1>2. m \in 0 .. n /\ m \notin P
    OBVIOUS
  <1>3. m \in 1 .. n /\ m - 1 \in 0 .. n /\ ~ (m <= m - 1)
    BY <1>2
  <1>4. m - 1 \in P
    BY <1>1, <1>3
  <1> QED
    BY <1>2, <1>3, <1>4

LEMMA Largest ==
    ASSUME NEW n \in Nat, NEW S, S \subseteq 0 .. n, S # {}
    PROVE  Max(S) \in S /\ \A x \in S : x <= Max(S)
  <1> DEFINE D == {n - x : x \in S}
  <1>1. D \subseteq Nat /\ D # {}
    <2>1. ASSUME NEW x \in S PROVE n - x \in Nat
      OBVIOUS
    <2> QED
      BY <2>1
  <1>2. PICK d \in D : \A y \in D : d <= y
    <2> HIDE DEF D
    <2> QED
      BY <1>1, LeastNatural
  <1>3. PICK m \in S : d = n - m
    OBVIOUS
  <1>4. ASSUME NEW x \in S PROVE m >= x
    <2>1. n - x \in D
      OBVIOUS
    <2> HIDE DEF D
    <2>2. n - m <= n - x
      BY <1>2, <1>3, <2>1
    <2> QED
      BY <2>2
  <1>5. Max(S) \in S /\ \A y \in S : Max(S) >= y
    BY <1>4 DEF Max
  <1> QED
    BY <1>5

LEMMA Smallest ==
    ASSUME NEW S, S \subseteq Nat, S # {}
    PROVE  Min(S) \in S /\ \A x \in S : Min(S) <= x
  <1>1. PICK m \in S : \A x \in S : m =< x
    BY LeastNatural
  <1>2. Min(S) \in S /\ \A y \in S : Min(S) =< y
    BY <1>1 DEF Min
  <1> QED
    BY <1>2

\* So does the function of the loop over the matches.
LEMMA RedactDefined ==
    ASSUME NEW line \in Seq(Bytes),
           NEW redacted, redacted = CHOOSE f : f = [n \in 0 .. Len(line) |->
              IF n = 0 THEN <<>>
              ELSE IF Match(line, n) THEN gw_redact_url(SourceUrl) \o f[n - Len(SourceUrl)]
              ELSE <<line[Len(line) - n + 1]>> \o f[n - 1]]
    PROVE  /\ redacted[0] = <<>>
           /\ \A n \in 1 .. Len(line) : redacted[n] =
                IF Match(line, n) THEN gw_redact_url(SourceUrl) \o redacted[n - Len(SourceUrl)]
                ELSE <<line[Len(line) - n + 1]>> \o redacted[n - 1]
  <1> DEFINE Turn(f, n) == IF Match(line, n) THEN gw_redact_url(SourceUrl) \o f[n - Len(SourceUrl)]
                           ELSE <<line[Len(line) - n + 1]>> \o f[n - 1]
             Solves(f, m) == f = [n \in 0 .. m |-> IF n = 0 THEN <<>> ELSE Turn(f, n)]
             P == {m \in Nat : \E f : Solves(f, m)}
  <1>0. Len(SourceUrl) \in Nat /\ Len(SourceUrl) > 0 /\ Len(line) \in Nat
    BY OutputAssumption
  <1>1. ASSUME NEW n \in Nat, n > 0, NEW f, NEW g, \A i \in 0 .. n - 1 : f[i] = g[i]
        PROVE  Turn(f, n) = Turn(g, n)
    <2>1. CASE Match(line, n)
      <3>1. n - Len(SourceUrl) \in 0 .. n - 1
        BY <1>0, <2>1 DEF Match
      <3> QED
        BY <1>1, <2>1, <3>1
    <2>2. CASE ~ Match(line, n)
      <3>1. n - 1 \in 0 .. n - 1
        BY <1>1
      <3> QED
        BY <1>1, <2>2, <3>1
    <2> QED
      BY <2>1, <2>2
  <1> HIDE DEF Turn
  <1>2. 0 \in P
    <2> DEFINE g == [n \in 0 .. 0 |-> <<>>]
               h == [n \in 0 .. 0 |-> IF n = 0 THEN <<>> ELSE Turn(g, n)]
    <2>1. ASSUME NEW i \in 0 .. 0 PROVE g[i] = h[i]
      <3>1. i = 0
        OBVIOUS
      <3>2. g[0] = <<>> /\ h[0] = <<>>
        OBVIOUS
      <3> HIDE DEF g, h
      <3> QED
        BY <3>1, <3>2
    <2>2. Solves(g, 0)
      BY <2>1
    <2> HIDE DEF g, Solves
    <2> QED
      BY <2>2
  <1>3. ASSUME NEW m \in 1 .. Len(line), m - 1 \in P PROVE m \in P
    <2>1. PICK f : Solves(f, m - 1)
      <3> HIDE DEF Solves
      <3> QED
        BY <1>3
    <2>2. m \in Nat /\ m > 0 /\ m - 1 \in Nat
      BY <1>0
    <2> DEFINE g == [n \in 0 .. m |-> IF n = m THEN Turn(f, m) ELSE f[n]]
               h == [n \in 0 .. m |-> IF n = 0 THEN <<>> ELSE Turn(g, n)]
    <2>3. ASSUME NEW n \in 0 .. m PROVE g[n] = h[n]
      <3>1. \A i \in 0 .. n - 1 : g[i] = f[i]
        <4>1. ASSUME NEW i \in 0 .. n - 1 PROVE i \in 0 .. m /\ i # m
          BY <2>2
        <4> QED
          BY <4>1
      <3>2. CASE n = 0
        <4>1. 0 # m /\ 0 \in 0 .. m /\ 0 \in 0 .. m - 1
          BY <2>2
        <4>2. f[0] = <<>>
          BY <2>1, <4>1
        <4>3. g[0] = f[0] /\ h[0] = <<>>
          BY <4>1
        <4> HIDE DEF g, h
        <4> QED
          BY <3>2, <4>2, <4>3
      <3>3. CASE n # 0
        <4>1. n \in Nat /\ n > 0
          BY <2>2, <3>3
        <4>2. h[n] = Turn(g, n)
          BY <3>3
        <4>3. g[n] = Turn(f, n)
          <5>1. CASE n = m
            BY <5>1
          <5>2. CASE n # m
            <6>1. n \in 0 .. m - 1
              BY <2>2, <5>2
            <6>2. f[n] = Turn(f, n)
              BY <2>1, <3>3, <6>1
            <6> QED
              BY <5>2, <6>2
          <5> QED
            BY <5>1, <5>2
        <4>4. Turn(g, n) = Turn(f, n)
          <5> HIDE DEF g
          <5> QED
            BY <1>1, <3>1, <4>1
        <4> HIDE DEF g, h
        <4> QED
          BY <4>2, <4>3, <4>4
      <3> QED
        BY <3>2, <3>3
    <2>4. g = h
      BY <2>3
    <2>5. Solves(g, m)
      BY <2>4
    <2> HIDE DEF g, Solves
    <2> QED
      BY <2>2, <2>5
  <1>4. \E f : Solves(f, Len(line))
    <2>1. Len(line) \in 0 .. Len(line)
      BY <1>0
    <2>2. Len(line) \in P
      <3> HIDE DEF P
      <3> QED
        BY <1>0, <1>2, <1>3, <2>1, Induction
    <2> HIDE DEF Solves
    <2> QED
      BY <2>2
  <1>5. Solves(redacted, Len(line))
    <2>1. redacted = CHOOSE f : Solves(f, Len(line))
      BY DEF Turn
    <2> HIDE DEF Solves
    <2> QED
      BY <1>4, <2>1
  <1> HIDE DEF Solves
  <1>6. \A n \in 0 .. Len(line) : redacted[n] = IF n = 0 THEN <<>> ELSE Turn(redacted, n)
    BY <1>5 DEF Solves
  <1>7. 0 \in 0 .. Len(line) /\ \A n \in 1 .. Len(line) : n \in 0 .. Len(line) /\ n # 0
    BY <1>0
  <1>8. redacted[0] = <<>> /\ \A n \in 1 .. Len(line) : redacted[n] = Turn(redacted, n)
    BY <1>6, <1>7
  <1> QED
    BY <1>8 DEF Turn

\* The same from all the smaller ones.
LEMMA StrongInduction ==
    ASSUME NEW n \in Nat, NEW P, \A i \in 0 .. n : (\A j \in 0 .. i - 1 : j \in P) => i \in P
    PROVE  \A i \in 0 .. n : i \in P
  <1> DEFINE Bad == {i \in 0 .. n : i \notin P}
  <1> SUFFICES ASSUME Bad # {} PROVE FALSE
    OBVIOUS
  <1>1. PICK m \in Bad : \A x \in Bad : m <= x
    <2>1. Bad \subseteq Nat
      OBVIOUS
    <2> HIDE DEF Bad
    <2> QED
      BY <2>1, LeastNatural
  <1>2. m \in 0 .. n /\ m \notin P
    OBVIOUS
  <1>3. ASSUME NEW j \in 0 .. m - 1 PROVE j \in P
    <2>1. j \in 0 .. n /\ ~ (m <= j)
      BY <1>2
    <2> QED
      BY <1>1, <2>1
  <1> QED
    BY <1>2, <1>3

\* A redacted URL is one: its parts are parts of the URL.
LEMMA RedactedUrl == gw_redact_url(SourceUrl) \in Seq(Letters)
  <1> DEFINE url == SourceUrl
             schemes == {i \in 1 .. Len(url) : url[i] = "://"}
             scheme == IF schemes # {} THEN Min(schemes) ELSE 0
             path == {k \in scheme + 1 .. Len(url) : url[k] \in {"/", "?", "#"}}
             authority_end == Min(path \cup {Len(url) + 1})
             at == {k \in scheme + 1 .. authority_end - 1 : url[k] = "@"}
             colon == {k \in scheme + 1 .. Min(at) - 1 : url[k] = ":"}
  <1>1. gw_redact_url(SourceUrl) =
           IF scheme = 0 \/ at = {} THEN url
           ELSE SubSeq(url, 1, Max(colon \cup {scheme})) \o <<"*", "*", "*">>
                   \o SubSeq(url, Min(at), Len(url))
    BY DEF gw_redact_url, SelectInSeq
  <1>2. url \in Seq(Letters) /\ Len(url) \in Nat
    <2>1. url \in Seq(Bytes)
      BY OutputAssumption
    <2> QED
      BY <2>1, BytesAreLetters
  <1>3. scheme \in 0 .. Len(url)
    <2>1. schemes \subseteq Nat
      OBVIOUS
    <2>2. schemes # {} => Min(schemes) \in schemes
      BY <2>1, Smallest
    <2> QED
      BY <1>2, <2>2
  <1> HIDE DEF scheme
  <1>4. authority_end \in 1 .. Len(url) + 1
    <2> DEFINE ends == path \cup {Len(url) + 1}
    <2>1. ends \subseteq 1 .. Len(url) + 1 /\ ends # {}
      BY <1>2, <1>3
    <2>2. ends \subseteq Nat
      BY <2>1
    <2>3. Min(ends) \in ends
      <3> HIDE DEF ends
      <3> QED
        BY <2>1, <2>2, Smallest
    <2> QED
      BY <2>1, <2>3
  <1> HIDE DEF authority_end
  <1>5. ASSUME at # {} PROVE Min(at) \in 1 .. Len(url) /\ Max(colon \cup {scheme}) \in 0 .. Len(url)
    <2>1. at \subseteq 1 .. Len(url) /\ at \subseteq Nat
      BY <1>2, <1>3, <1>4
    <2>2. Min(at) \in at
      <3> HIDE DEF at
      <3> QED
        BY <1>5, <2>1, Smallest
    <2>3. Min(at) \in 1 .. Len(url)
      <3> HIDE DEF at
      <3> QED
        BY <2>1, <2>2
    <2> HIDE DEF at
    <2> DEFINE marks == colon \cup {scheme}
    <2>4. marks \subseteq 0 .. Len(url) /\ marks # {}
      BY <1>2, <1>3, <2>3
    <2>5. Max(marks) \in marks
      <3> HIDE DEF marks
      <3> QED
        BY <1>2, <2>4, Largest
    <2> QED
      BY <2>3, <2>4, <2>5
  <1> HIDE DEF at, colon
  <1>6. CASE scheme = 0 \/ at = {}
    BY <1>1, <1>2, <1>6
  <1>7. CASE ~ (scheme = 0 \/ at = {})
    <2>1. PICK m \in 0 .. Len(url) : m = Max(colon \cup {scheme})
      BY <1>5, <1>7
    <2>2. PICK a \in 1 .. Len(url) : a = Min(at)
      BY <1>5, <1>7
    <2>3. gw_redact_url(SourceUrl) =
             SubSeq(url, 1, m) \o <<"*", "*", "*">> \o SubSeq(url, a, Len(url))
      BY <1>1, <1>7, <2>1, <2>2
    <2>4. SubSeq(url, 1, m) \in Seq(Letters)
      BY <1>2
    <2>5. SubSeq(url, a, Len(url)) \in Seq(Letters)
      BY <1>2
    <2>6. <<"*", "*", "*">> \in Seq(Letters)
      BY DEF Letters
    <2> HIDE DEF url
    <2> QED
      BY <2>3, <2>4, <2>5, <2>6
  <1> QED
    BY <1>6, <1>7

\* redact_source_url leaves a line without the URL as it is.
LEMMA Redaction ==
    ASSUME NEW line \in Seq(Bytes)
    PROVE  /\ redact_source_url(line) \in Seq(Letters)
           /\ ~ HasPart(line, SourceUrl) => redact_source_url(line) = line
  <1> DEFINE redacted == CHOOSE f : f = [n \in 0 .. Len(line) |->
              IF n = 0 THEN <<>>
              ELSE IF Match(line, n) THEN gw_redact_url(SourceUrl) \o f[n - Len(SourceUrl)]
              ELSE <<line[Len(line) - n + 1]>> \o f[n - 1]]
  <1>1. redact_source_url(line) = redacted[Len(line)]
    BY DEF redact_source_url
  <1>2. /\ redacted[0] = <<>>
        /\ \A n \in 1 .. Len(line) : redacted[n] =
             IF Match(line, n) THEN gw_redact_url(SourceUrl) \o redacted[n - Len(SourceUrl)]
             ELSE <<line[Len(line) - n + 1]>> \o redacted[n - 1]
    BY RedactDefined
  <1> HIDE DEF redacted
  <1>3. /\ Len(SourceUrl) \in Nat /\ Len(SourceUrl) > 0 /\ Len(line) \in Nat
        /\ gw_redact_url(SourceUrl) \in Seq(Letters) /\ line \in Seq(Letters)
        /\ Len(line) \in 0 .. Len(line)
    BY OutputAssumption, RedactedUrl, BytesAreLetters
  <1>4. redacted[Len(line)] \in Seq(Letters)
    <2> DEFINE P == {n \in Nat : redacted[n] \in Seq(Letters)}
    <2>1. ASSUME NEW n \in 0 .. Len(line), \A j \in 0 .. n - 1 : j \in P PROVE n \in P
      <3>0. n \in Nat /\ <<>> \in Seq(Letters)
        OBVIOUS
      <3>1. CASE n = 0
        BY <1>2, <3>0, <3>1
      <3>2. CASE n # 0 /\ Match(line, n)
        <4>1. n - Len(SourceUrl) \in 0 .. n - 1 /\ n \in 1 .. Len(line)
          BY <1>3, <3>2 DEF Match
        <4>2. redacted[n - Len(SourceUrl)] \in Seq(Letters)
          BY <2>1, <4>1
        <4>3. redacted[n] = gw_redact_url(SourceUrl) \o redacted[n - Len(SourceUrl)]
          BY <1>2, <3>2, <4>1
        <4>4. redacted[n] \in Seq(Letters)
          BY <1>3, <4>2, <4>3, Concatenation
        <4> QED
          BY <3>0, <4>4
      <3>3. CASE n # 0 /\ ~ Match(line, n)
        <4>1. n - 1 \in 0 .. n - 1 /\ n \in 1 .. Len(line) /\ Len(line) - n + 1 \in 1 .. Len(line)
          BY <1>3, <3>3
        <4>2. redacted[n - 1] \in Seq(Letters)
          BY <2>1, <4>1
        <4>3. redacted[n] = <<line[Len(line) - n + 1]>> \o redacted[n - 1]
          BY <1>2, <3>3, <4>1
        <4>4. <<line[Len(line) - n + 1]>> \in Seq(Letters)
          BY <1>3, <4>1
        <4>5. redacted[n] \in Seq(Letters)
          BY <4>2, <4>3, <4>4, Concatenation
        <4> QED
          BY <3>0, <4>5
      <3> QED
        BY <3>1, <3>2, <3>3
    <2>2. Len(line) \in P
      <3> HIDE DEF P
      <3> QED
        BY <1>3, <2>1, StrongInduction
    <2> QED
      BY <2>2
  <1>5. ASSUME ~ HasPart(line, SourceUrl) PROVE redacted[Len(line)] = line
    <2>1. ASSUME NEW n \in 1 .. Len(line) PROVE ~ Match(line, n)
      <3> SUFFICES ASSUME Match(line, n) PROVE FALSE
        OBVIOUS
      <3> DEFINE k == Len(line) - n + 1
      <3>1. k \in 1 .. Len(line) - Len(SourceUrl) + 1
        BY <1>3, <2>1 DEF Match
      <3>2. k + Len(SourceUrl) - 1 = Len(line) - n + Len(SourceUrl)
        BY <1>3
      <3>3. SubSeq(line, k, k + Len(SourceUrl) - 1) = SourceUrl
        BY <3>2 DEF Match
      <3> HIDE DEF k
      <3> QED
        BY <1>5, <3>1, <3>3 DEF HasPart
    <2> DEFINE P == {n \in Nat : redacted[n] = SubSeq(line, Len(line) - n + 1, Len(line))}
    <2>2. 0 \in P
      <3>1. SubSeq(line, Len(line) - 0 + 1, Len(line)) = <<>>
        BY <1>3
      <3> QED
        BY <1>2, <3>1
    <2>3. ASSUME NEW n \in 1 .. Len(line), n - 1 \in P PROVE n \in P
      <3> DEFINE k == Len(line) - n + 1
      <3>1. k \in 1 .. Len(line) /\ k + 1 = Len(line) - (n - 1) + 1 /\ n \in Nat
        BY <1>3
      <3>2. redacted[n] = <<line[k]>> \o SubSeq(line, k + 1, Len(line))
        BY <1>2, <2>1, <2>3, <3>1
      <3>3. SubSeq(line, k, Len(line)) = <<line[k]>> \o SubSeq(line, k + 1, Len(line))
        <4> HIDE DEF k
        <4> QED
          BY <1>3, <3>1
      <3> QED
        BY <3>1, <3>2, <3>3
    <2>4. Len(line) \in P
      <3> HIDE DEF P
      <3> QED
        BY <1>3, <2>2, <2>3, Induction
    <2>5. Len(line) - Len(line) + 1 = 1 /\ SubSeq(line, 1, Len(line)) = line
      BY <1>3
    <2> QED
      BY <2>4, <2>5
  <1> QED
    BY <1>1, <1>4, <1>5

-----------------------------------------------------------------------------
\* Where lines end.

LEMMA LineFacts ==
    ASSUME NEW text \in Seq(Bytes), NEW k \in 0 .. Len(text)
    PROVE  /\ Ends(text, k) \subseteq 1 .. k /\ k \in Nat
           /\ Max({0} \cup Ends(text, k)) \in 0 .. k
           /\ LineUpTo(text, k) \in Seq(Bytes)
           /\ Len(LineUpTo(text, k)) \in Nat
  <1> DEFINE S == {0} \cup Ends(text, k)
  <1>1. k \in Nat /\ Len(text) \in Nat
    OBVIOUS
  <1>2. Ends(text, k) \subseteq 1 .. k /\ S \subseteq 0 .. k /\ S # {}
    BY <1>1 DEF Ends
  <1>3. Max(S) \in 0 .. k
    <2> HIDE DEF S
    <2> QED
      BY <1>1, <1>2, Largest
  <1>4. PICK b \in 0 .. k : b = Max(S)
    BY <1>3
  <1>5. LineUpTo(text, k) = SubSeq(text, b + 1, k)
    BY <1>4 DEF LineUpTo
  <1>6. SubSeq(text, b + 1, k) \in Seq(Bytes)
    BY <1>1
  <1> QED
    BY <1>1, <1>2, <1>3, <1>5, <1>6

LEMMA NoLineYet ==
    ASSUME NEW text \in Seq(Bytes)
    PROVE  Ends(text, 0) = {} /\ LineUpTo(text, 0) = <<>>
  <1>1. Ends(text, 0) = {}
    BY DEF Ends
  <1>2. Max({0} \cup Ends(text, 0)) \in 0 .. 0
    BY LineFacts
  <1>3. LineUpTo(text, 0) = SubSeq(text, 1, 0)
    BY <1>2 DEF LineUpTo
  <1> QED
    BY <1>1, <1>3

\* A byte that ends no line makes the line longer.
LEMMA LineGrows ==
    ASSUME NEW text \in Seq(Bytes), NEW k \in 0 .. Len(text) - 1, text[k + 1] # "\n"
    PROVE  /\ Ends(text, k + 1) = Ends(text, k)
           /\ LineUpTo(text, k + 1) = Append(LineUpTo(text, k), text[k + 1])
  <1>1. k \in 0 .. Len(text) /\ k + 1 \in 1 .. Len(text)
    OBVIOUS
  <1>2. Ends(text, k + 1) = Ends(text, k)
    BY <1>1 DEF Ends
  <1>3. PICK b \in 0 .. k : b = Max({0} \cup Ends(text, k))
    BY <1>1, LineFacts
  <1>4. /\ LineUpTo(text, k) = SubSeq(text, b + 1, k)
        /\ LineUpTo(text, k + 1) = SubSeq(text, b + 1, k + 1)
    BY <1>2, <1>3 DEF LineUpTo
  <1>5. SubSeq(text, b + 1, k + 1) = Append(SubSeq(text, b + 1, k), text[k + 1])
    BY <1>1
  <1> QED
    BY <1>2, <1>4, <1>5

\* A byte that ends a line begins an empty one.
LEMMA LineEnds ==
    ASSUME NEW text \in Seq(Bytes), NEW k \in 0 .. Len(text) - 1, text[k + 1] = "\n"
    PROVE  /\ Ends(text, k + 1) = Ends(text, k) \cup {k + 1} /\ k + 1 \notin Ends(text, k)
           /\ LineUpTo(text, k + 1) = <<>>
           /\ IsFiniteSet(Ends(text, k)) /\ Cardinality(Ends(text, k)) \in Nat
           /\ Cardinality(Ends(text, k + 1)) = Cardinality(Ends(text, k)) + 1
  <1>1. k \in 0 .. Len(text) /\ k + 1 \in 1 .. Len(text) /\ k + 1 \in 0 .. Len(text) /\ k \in Nat
    OBVIOUS
  <1>2. Ends(text, k + 1) = Ends(text, k) \cup {k + 1} /\ k + 1 \notin Ends(text, k)
    BY <1>1 DEF Ends
  <1>3. Max({0} \cup Ends(text, k + 1)) = k + 1
    <2> DEFINE S == {0} \cup Ends(text, k + 1)
    <2>1. S \subseteq 0 .. k + 1 /\ k + 1 \in S /\ k + 1 \in Nat
      <3>1. Ends(text, k + 1) \subseteq 1 .. k + 1
        BY <1>1, LineFacts
      <3> QED
        BY <1>1, <1>2, <3>1
    <2> HIDE DEF S
    <2>2. Max(S) \in 0 .. k + 1 /\ k + 1 <= Max(S)
      BY <2>1, Largest
    <2>3. Max(S) = k + 1
      BY <1>1, <2>2
    <2> QED
      BY <2>3 DEF S
  <1>4. LineUpTo(text, k + 1) = SubSeq(text, k + 1 + 1, k + 1)
    BY <1>3 DEF LineUpTo
  <1>5. SubSeq(text, k + 1 + 1, k + 1) = <<>>
    BY <1>1
  <1>6. IsFiniteSet(Ends(text, k))
    <2>1. Ends(text, k) \subseteq 1 .. k
      BY <1>1, LineFacts
    <2>2. IsFiniteSet(1 .. k)
      BY <1>1, FS_Interval
    <2> QED
      BY <2>1, <2>2, FS_Subset
  <1>7. /\ Cardinality(Ends(text, k)) \in Nat
        /\ Cardinality(Ends(text, k) \cup {k + 1}) = Cardinality(Ends(text, k)) + 1
    BY <1>2, <1>6, FS_CardinalityType, FS_AddElement
  <1> QED
    BY <1>2, <1>4, <1>5, <1>6, <1>7

-----------------------------------------------------------------------------
\* The record of standard output.

ParserStates ==
    [line : Seq(Bytes), frame : Nat, latest : Seq(Nat), failed : BOOLEAN]

LEMMA Stripped ==
    ASSUME NEW line \in Seq(Bytes)
    PROVE  /\ WithoutCR(line) \in Seq(Bytes) /\ Len(WithoutCR(line)) <= Len(line)
           /\ \A i \in 1 .. Len(WithoutCR(line)) : WithoutCR(line)[i] = line[i]
  <1>1. CASE line # <<>> /\ line[Len(line)] = "\r"
    <2>1. WithoutCR(line) = SubSeq(line, 1, Len(line) - 1)
      BY <1>1 DEF WithoutCR, Front, Last
    <2>2. Len(line) \in Nat /\ Len(line) >= 1
      BY <1>1
    <2>3. Len(line) - 1 \in 0 .. Len(line)
      BY <2>2
    <2> QED
      BY <2>1, <2>2, <2>3
  <1>2. CASE ~ (line # <<>> /\ line[Len(line)] = "\r")
    <2>1. WithoutCR(line) = line
      BY <1>2 DEF WithoutCR, Last
    <2> QED
      BY <2>1
  <1> QED
    BY <1>1, <1>2

\* parse_line looks for the first separator; only three lines and those that end a
\* record count.
LEMMA ParsedLine ==
    ASSUME NEW state \in ParserStates, NEW line \in Seq(Bytes)
    PROVE  parse_line(state, line) =
             IF ClosesRecord(line) THEN [state EXCEPT !.latest = <<state.frame>>, !.frame = 0]
             ELSE IF line = <<"f", "=", "1">> THEN [state EXCEPT !.frame = 1]
             ELSE IF line = <<"f", "=", "2">> THEN [state EXCEPT !.frame = 2]
             ELSE state
  <1> DEFINE S == {i \in 1 .. Len(line) : line[i] = "="}
             separator == IF S # {} THEN Min(S) ELSE 0
             key == SubSeq(line, 1, separator - 1)
             value == SubSeq(line, separator + 1, Len(line))
  <1>1. parse_line(state, line) =
          IF separator = 0 THEN state
          ELSE IF key = <<"f">> THEN [state EXCEPT !.frame = parse_u64(value, state.frame)]
          ELSE IF key = <<"p">> THEN [state EXCEPT !.latest = <<state.frame>>, !.frame = 0]
          ELSE state
    BY DEF parse_line, SelectInSeq
  <1>2. /\ separator \in 0 .. Len(line) /\ Len(line) \in Nat
        /\ separator = 0 => S = {}
        /\ separator # 0 => separator \in S /\ \A i \in S : separator <= i
    <2>1. S \subseteq Nat /\ S \subseteq 1 .. Len(line)
      OBVIOUS
    <2>2. S # {} => Min(S) \in S /\ \A i \in S : Min(S) <= i
      <3> HIDE DEF S
      <3> QED
        BY <2>1, Smallest
    <2>3. Len(line) \in Nat
      OBVIOUS
    <2> HIDE DEF S
    <2>4. CASE S = {}
      BY <2>3, <2>4
    <2>5. CASE S # {}
      <3>1. Min(S) \in 1 .. Len(line) /\ Min(S) # 0
        <4>1. PICK m : m = Min(S)
          OBVIOUS
        <4>2. m \in 1 .. Len(line)
          BY <2>1, <2>2, <2>5, <4>1
        <4>3. m # 0
          BY <2>3, <4>2
        <4> QED
          BY <4>1, <4>2, <4>3
      <3> QED
        BY <2>2, <2>3, <2>5, <3>1
    <2> QED
      BY <2>4, <2>5
  <1> HIDE DEF separator
  <1>3. ASSUME Len(line) >= 2, line[1] # "=", line[2] = "="
        PROVE  separator = 2 /\ key = <<line[1]>>
    <2>1. 2 \in S /\ 1 \notin S
      BY <1>2, <1>3
    <2>2. separator # 0 /\ separator <= 2 /\ separator # 1
      BY <1>2, <2>1
    <2>3. separator = 2
      BY <1>2, <2>2
    <2>4. SubSeq(line, 1, 1) = <<line[1]>>
      <3>1. 1 \in 1 .. Len(line)
        BY <1>2, <1>3
      <3> QED
        BY <3>1, SinglePart
    <2> QED
      BY <2>3, <2>4
  <1>4. ASSUME separator # 0, NEW sign, key = <<sign>>
        PROVE  separator = 2 /\ Len(line) >= 2 /\ line[1] = sign /\ line[2] = "="
    <2>1. Len(key) = 1 /\ key[1] = sign
      <3> HIDE DEF key
      <3> QED
        BY <1>4, Single
    <2>2. separator \in 1 .. Len(line) /\ line[separator] = "="
      BY <1>2, <1>4
    <2>3. separator - 1 = Len(key) /\ (separator >= 2 => key[1] = line[1])
      <3>1. 1 \in 1 .. Len(line) + 1 /\ separator - 1 \in 0 .. Len(line) /\ 1 <= separator - 1 + 1
        BY <1>2, <2>2
      <3>2. /\ Len(key) = separator - 1 - 1 + 1
            /\ \A i \in 1 .. separator - 1 - 1 + 1 : key[i] = line[1 + i - 1]
        BY <3>1, Part
      <3> HIDE DEF key
      <3> QED
        BY <1>2, <2>2, <3>2
    <2> HIDE DEF key
    <2>4. separator = 2
      <3>1. separator \in Int /\ separator - 1 = 1
        BY <2>1, <2>2, <2>3
      <3> QED
        BY <3>1
    <2> QED
      BY <1>2, <2>1, <2>2, <2>3, <2>4
  <1>5. CASE ClosesRecord(line)
    <2>1. separator = 2 /\ key = <<"p">>
      BY <1>3, <1>5 DEF ClosesRecord
    <2>2. <<"p">> # <<"f">>
      OBVIOUS
    <2> HIDE DEF key, value
    <2> QED
      BY <1>1, <1>5, <2>1, <2>2
  <1>6. ASSUME NEW digit \in {"1", "2"}, line = <<"f", "=", digit>>
        PROVE  /\ ~ ClosesRecord(line)
               /\ parse_line(state, line) = [state EXCEPT !.frame = IF digit = "1" THEN 1 ELSE 2]
    <2>1. Len(line) = 3 /\ line[1] = "f" /\ line[2] = "=" /\ line[3] = digit
      BY <1>6
    <2>2. separator = 2 /\ key = <<"f">>
      BY <1>3, <2>1
    <2>3. SubSeq(line, 3, 3) = <<line[3]>>
      <3>1. 3 \in 1 .. Len(line)
        BY <2>1
      <3> QED
        BY <3>1, SinglePart
    <2>4. value = <<digit>>
      BY <2>1, <2>2, <2>3
    <2>5. parse_u64(value, state.frame) = IF digit = "1" THEN 1 ELSE 2
      BY <2>4 DEF parse_u64
    <2> HIDE DEF key, value
    <2> QED
      BY <1>1, <2>1, <2>2, <2>5 DEF ClosesRecord
  <1>7. CASE ~ ClosesRecord(line) /\ line # <<"f", "=", "1">> /\ line # <<"f", "=", "2">>
    <2>1. CASE separator = 0
      BY <1>1, <1>7, <2>1
    <2>2. CASE separator # 0 /\ key = <<"f">>
      <3>1. separator = 2 /\ Len(line) >= 2 /\ line[1] = "f" /\ line[2] = "="
        BY <1>4, <2>2
      <3>2. ASSUME NEW digit, value = <<digit>> PROVE line = <<"f", "=", digit>>
        <4>1. value = SubSeq(line, 3, Len(line))
          BY <3>1
        <4>2. Len(line) - 2 = Len(value) /\ (Len(line) >= 3 => value[1] = line[3])
          <5>1. 3 \in 1 .. Len(line) + 1 /\ Len(line) \in 0 .. Len(line) /\ 3 <= Len(line) + 1
            BY <1>2, <3>1
          <5>2. /\ Len(SubSeq(line, 3, Len(line))) = Len(line) - 3 + 1
                /\ \A i \in 1 .. Len(line) - 3 + 1 : SubSeq(line, 3, Len(line))[i] = line[3 + i - 1]
            BY <5>1, Part
          <5>3. Len(line) >= 3 => 1 \in 1 .. Len(line) - 3 + 1 /\ 3 + 1 - 1 = 3
            BY <1>2
          <5> QED
            BY <1>2, <4>1, <5>2, <5>3
        <4> HIDE DEF value
        <4>3. Len(value) = 1 /\ value[1] = digit
          BY <3>2, Single
        <4>4. Len(line) = 3
          <5>1. Len(line) \in Int /\ Len(line) - 2 = 1
            BY <1>2, <4>2, <4>3
          <5> QED
            BY <5>1
        <4>5. line[3] = digit
          BY <4>2, <4>3, <4>4
        <4> QED
          BY <3>1, <4>4, <4>5
      <3>3. value # <<"1">> /\ value # <<"2">>
        <4> HIDE DEF value
        <4> QED
          BY <1>7, <3>2
      <3>4. parse_u64(value, state.frame) = state.frame
        <4> HIDE DEF value
        <4> QED
          BY <3>3 DEF parse_u64
      <3>5. [state EXCEPT !.frame = state.frame] = state
        BY DEF ParserStates
      <3> HIDE DEF key, value
      <3> QED
        BY <1>1, <1>7, <2>2, <3>4, <3>5
    <2>3. CASE separator # 0 /\ key = <<"p">>
      <3>1. ClosesRecord(line)
        BY <1>4, <2>3 DEF ClosesRecord
      <3> QED
        BY <1>7, <3>1
    <2>4. CASE separator # 0 /\ key # <<"f">> /\ key # <<"p">>
      <3> HIDE DEF key, value
      <3> QED
        BY <1>1, <1>7, <2>4
    <2> QED
      BY <2>1, <2>2, <2>3, <2>4
  <1>8. CASE line = <<"f", "=", "1">>
    BY <1>6, <1>8
  <1>9. CASE line = <<"f", "=", "2">>
    <2>1. /\ ~ ClosesRecord(line)
          /\ parse_line(state, line) = [state EXCEPT !.frame = IF "2" = "1" THEN 1 ELSE 2]
      BY <1>6, <1>9
    <2>2. <<"f", "=", "1">> # <<"f", "=", "2">> /\ "2" # "1"
      OBVIOUS
    <2> QED
      BY <1>9, <2>1, <2>2
  <1> QED
    BY <1>5, <1>7, <1>8, <1>9

\* The lines that count end within the text read.
LEMMA CountedWithin ==
    ASSUME NEW text \in Seq(Bytes), NEW k \in 0 .. Len(text)
    PROVE  /\ Closing(text, k) \subseteq 1 .. k /\ Counting(text, k) \subseteq 1 .. k
           /\ Max({0} \cup Closing(text, k)) \in 0 .. k
  <1>1. Ends(text, k) \subseteq 1 .. k /\ k \in Nat
    BY LineFacts
  <1>2. Closing(text, k) \subseteq 1 .. k /\ Counting(text, k) \subseteq 1 .. k
    BY <1>1 DEF Closing, Counting
  <1> DEFINE S == {0} \cup Closing(text, k)
  <1>3. S \subseteq 0 .. k /\ S # {}
    BY <1>1, <1>2
  <1> HIDE DEF S
  <1>4. Max(S) \in 0 .. k
    BY <1>1, <1>3, Largest
  <1> QED
    BY <1>2, <1>4 DEF S

LEMMA RecordStays ==
    ASSUME NEW text \in Seq(Bytes), NEW k \in 0 .. Len(text) - 1, text[k + 1] # "\n"
    PROVE  /\ FrameUpTo(text, k + 1) = FrameUpTo(text, k)
           /\ RecordUpTo(text, k + 1) = RecordUpTo(text, k)
  <1>1. Ends(text, k + 1) = Ends(text, k)
    BY LineGrows
  <1>2. Closing(text, k + 1) = Closing(text, k) /\ Counting(text, k + 1) = Counting(text, k)
    BY <1>1 DEF Closing, Counting
  <1> QED
    BY <1>2 DEF FrameUpTo, RecordUpTo

\* What a whole line does to the number and to the record.
LEMMA RecordMoves ==
    ASSUME NEW text \in Seq(Bytes), NEW k \in 0 .. Len(text) - 1, text[k + 1] = "\n",
           NEW line, line = WithoutCR(LineUpTo(text, k))
    PROVE  /\ FrameUpTo(text, k + 1) = IF ClosesRecord(line) THEN 0
                                       ELSE IF line = <<"f", "=", "1">> THEN 1
                                       ELSE IF line = <<"f", "=", "2">> THEN 2
                                       ELSE FrameUpTo(text, k)
           /\ RecordUpTo(text, k + 1) = IF ClosesRecord(line) THEN <<FrameUpTo(text, k)>>
                                        ELSE RecordUpTo(text, k)
  <1>0. /\ k \in 0 .. Len(text) /\ k + 1 \in 0 .. Len(text) /\ k \in Nat
        /\ (k + 1) - 1 = k /\ LineUpTo(text, k + 1 - 1) = LineUpTo(text, k)
    OBVIOUS
  <1>1. Ends(text, k + 1) = Ends(text, k) \cup {k + 1} /\ k + 1 \notin Ends(text, k)
    BY LineEnds
  <1>2. Closing(text, k + 1) = IF ClosesRecord(line) THEN Closing(text, k) \cup {k + 1}
                               ELSE Closing(text, k)
    BY <1>0, <1>1 DEF Closing
  <1>3. Counting(text, k + 1) = IF line \in {<<"f", "=", "1">>, <<"f", "=", "2">>}
                                THEN Counting(text, k) \cup {k + 1} ELSE Counting(text, k)
    BY <1>0, <1>1 DEF Counting
  <1>4. /\ Closing(text, k) \subseteq 1 .. k /\ Counting(text, k) \subseteq 1 .. k
        /\ Closing(text, k + 1) \subseteq 1 .. k + 1 /\ Counting(text, k + 1) \subseteq 1 .. k + 1
    BY <1>0, CountedWithin
  <1>5. PICK m \in 0 .. k : m = Max({0} \cup Closing(text, k))
    BY <1>0, CountedWithin
  <1>6. ASSUME NEW S, S \subseteq 0 .. k + 1, k + 1 \in S PROVE Max(S) = k + 1
    <2>1. k + 1 \in Nat
      BY <1>0
    <2>2. Max(S) \in 0 .. k + 1 /\ k + 1 <= Max(S)
      BY <1>6, <2>1, Largest
    <2> QED
      BY <2>1, <2>2
  <1>7. CASE ClosesRecord(line)
    <2>1. Max(Closing(text, k + 1)) = k + 1
      <3>1. Closing(text, k + 1) \subseteq 0 .. k + 1 /\ k + 1 \in Closing(text, k + 1)
        BY <1>0, <1>2, <1>4, <1>7
      <3> QED
        BY <1>6, <3>1
    <2>2. Max({0} \cup Closing(text, k + 1)) = k + 1
      <3>1. /\ {0} \cup Closing(text, k + 1) \subseteq 0 .. k + 1
            /\ k + 1 \in {0} \cup Closing(text, k + 1)
        BY <1>0, <1>2, <1>4, <1>7
      <3> QED
        BY <1>6, <3>1
    <2>3. {e \in Counting(text, k + 1) : e > Max({0} \cup Closing(text, k + 1))} = {}
      <3>1. ASSUME NEW e \in Counting(text, k + 1) PROVE ~ (e > k + 1)
        <4>1. e \in 1 .. k + 1
          BY <1>4
        <4> QED
          BY <1>0, <4>1
      <3> QED
        BY <2>2, <3>1
    <2>4. FrameUpTo(text, k + 1) = 0
      BY <2>3 DEF FrameUpTo
    <2>5. RecordUpTo(text, k + 1) = <<FrameUpTo(text, k)>>
      <3>1. Closing(text, k + 1) # {}
        BY <1>2, <1>7
      <3> QED
        BY <1>0, <2>1, <3>1 DEF RecordUpTo
    <2> QED
      BY <1>7, <2>4, <2>5
  <1>8. CASE ~ ClosesRecord(line)
    <2>1. Closing(text, k + 1) = Closing(text, k)
      BY <1>2, <1>8
    <2>2. RecordUpTo(text, k + 1) = RecordUpTo(text, k)
      BY <2>1 DEF RecordUpTo
    <2>3. ASSUME NEW digit \in {"1", "2"}, line = <<"f", "=", digit>>
          PROVE  FrameUpTo(text, k + 1) = IF digit = "1" THEN 1 ELSE 2
      <3> DEFINE counted == {e \in Counting(text, k + 1) : e > Max({0} \cup Closing(text, k + 1))}
      <3>1. k + 1 \in Counting(text, k + 1)
        BY <1>3, <2>3
      <3>2. k + 1 > Max({0} \cup Closing(text, k + 1))
        <4>1. Max({0} \cup Closing(text, k + 1)) = m
          BY <1>5, <2>1
        <4>2. k + 1 > m
          BY <1>0
        <4> QED
          BY <4>1, <4>2
      <3>3. counted \subseteq 0 .. k + 1 /\ k + 1 \in counted
        BY <1>0, <1>4, <3>1, <3>2
      <3>4. Max(counted) = k + 1
        <4> HIDE DEF counted
        <4> QED
          BY <1>6, <3>3
      <3>5. LineUpTo(text, k)[3] = digit
        <4>1. LineUpTo(text, k) \in Seq(Bytes)
          BY <1>0, LineFacts
        <4>2. \A i \in 1 .. Len(line) : line[i] = LineUpTo(text, k)[i]
          BY <4>1, Stripped
        <4>3. Len(line) = 3 /\ line[3] = digit
          BY <2>3
        <4> HIDE DEF counted
        <4> QED
          BY <4>2, <4>3
      <3>6. FrameUpTo(text, k + 1) = IF LineUpTo(text, Max(counted) - 1)[3] = "1" THEN 1 ELSE 2
        BY <3>3 DEF FrameUpTo
      <3> HIDE DEF counted
      <3> QED
        BY <1>0, <3>4, <3>5, <3>6
    <2>4. CASE line = <<"f", "=", "1">>
      BY <1>8, <2>2, <2>3, <2>4
    <2>5. CASE line = <<"f", "=", "2">>
      <3>1. FrameUpTo(text, k + 1) = IF "2" = "1" THEN 1 ELSE 2
        BY <2>3, <2>5
      <3>2. "2" # "1" /\ <<"f", "=", "1">> # <<"f", "=", "2">>
        OBVIOUS
      <3> QED
        BY <1>8, <2>2, <2>5, <3>1, <3>2
    <2>6. CASE line # <<"f", "=", "1">> /\ line # <<"f", "=", "2">>
      <3>1. Counting(text, k + 1) = Counting(text, k)
        BY <1>3, <2>6
      <3>2. FrameUpTo(text, k + 1) = FrameUpTo(text, k)
        BY <2>1, <3>1 DEF FrameUpTo
      <3> QED
        BY <1>8, <2>2, <2>6, <3>2
    <2> QED
      BY <2>4, <2>5, <2>6
  <1> QED
    BY <1>7, <1>8

\* The parser after k bytes of a text.
ParserAt(text, k, state) ==
    /\ state \in ParserStates
    /\ state.failed = ~ \A j \in 0 .. k : Len(LineUpTo(text, j)) < GW_PROGRESS_LINE_CAP
    /\ ~ state.failed => /\ state.line = LineUpTo(text, k)
                         /\ state.frame = FrameUpTo(text, k)
                         /\ state.latest = RecordUpTo(text, k)

\* A byte takes the parser from the first k bytes to the first k + 1.
LEMMA ConsumeByteKeeps ==
    ASSUME NEW text \in Seq(Bytes), NEW k \in 0 .. Len(text) - 1,
           NEW state, ParserAt(text, k, state)
    PROVE  ParserAt(text, k + 1, ConsumeByte(state, text[k + 1]))
  <1> DEFINE byte == text[k + 1]
             moved == ConsumeByte(state, byte)
             Fits(j) == Len(LineUpTo(text, j)) < GW_PROGRESS_LINE_CAP
  <1>0. /\ k \in 0 .. Len(text) /\ k + 1 \in 0 .. Len(text) /\ k + 1 \in 1 .. Len(text) /\ k \in Nat
        /\ byte \in Bytes /\ GW_PROGRESS_LINE_CAP \in Nat /\ GW_PROGRESS_LINE_CAP > 0
    BY OutputAssumption
  <1>1. /\ state \in ParserStates /\ state.line \in Seq(Bytes)
        /\ state.failed = ~ \A j \in 0 .. k : Fits(j)
        /\ ~ state.failed => /\ state.line = LineUpTo(text, k)
                             /\ state.frame = FrameUpTo(text, k)
                             /\ state.latest = RecordUpTo(text, k)
    BY DEF ParserAt, ParserStates
  <1>2. (\A j \in 0 .. k + 1 : Fits(j)) <=> (\A j \in 0 .. k : Fits(j)) /\ Fits(k + 1)
    <2>1. 0 .. k + 1 = (0 .. k) \cup {k + 1}
      BY <1>0
    <2> HIDE DEF Fits
    <2> QED
      BY <2>1
  <1>3. LineUpTo(text, k) \in Seq(Bytes) /\ LineUpTo(text, k + 1) \in Seq(Bytes)
    BY <1>0, LineFacts
  <1> SUFFICES ParserAt(text, k + 1, moved)
    OBVIOUS
  <1>4. CASE state.failed
    <2>1. moved = state
      BY <1>4 DEF ConsumeByte
    <2> HIDE DEF moved, Fits
    <2>2. moved \in ParserStates /\ moved.failed /\ ~ \A j \in 0 .. k + 1 : Fits(j)
      BY <1>1, <1>2, <1>4, <2>1
    <2> QED
      BY <1>1, <1>4, <2>1, <2>2 DEF ParserAt, Fits
  <1>5. CASE ~ state.failed /\ byte = "\n"
    <2> DEFINE line == WithoutCR(state.line)
               parsed == parse_line(state, line)
    <2>1. line = WithoutCR(LineUpTo(text, k)) /\ line \in Seq(Bytes)
      BY <1>1, <1>3, <1>5, Stripped
    <2>2. moved = [parsed EXCEPT !.line = <<>>]
      BY <1>5 DEF ConsumeByte
    <2>3. parsed = IF ClosesRecord(line) THEN [state EXCEPT !.latest = <<state.frame>>, !.frame = 0]
                   ELSE IF line = <<"f", "=", "1">> THEN [state EXCEPT !.frame = 1]
                   ELSE IF line = <<"f", "=", "2">> THEN [state EXCEPT !.frame = 2]
                   ELSE state
      <3> HIDE DEF line
      <3> QED
        BY <1>1, <2>1, ParsedLine
    <2>4. /\ FrameUpTo(text, k + 1) = IF ClosesRecord(line) THEN 0
                                       ELSE IF line = <<"f", "=", "1">> THEN 1
                                       ELSE IF line = <<"f", "=", "2">> THEN 2
                                       ELSE FrameUpTo(text, k)
          /\ RecordUpTo(text, k + 1) = IF ClosesRecord(line) THEN <<FrameUpTo(text, k)>>
                                        ELSE RecordUpTo(text, k)
      <3> HIDE DEF line
      <3> QED
        BY <1>5, <2>1, RecordMoves
    <2> HIDE DEF line, parsed
    <2>5. /\ parsed \in ParserStates /\ ~ parsed.failed
          /\ parsed.frame = FrameUpTo(text, k + 1) /\ parsed.latest = RecordUpTo(text, k + 1)
      <3>1. CASE ClosesRecord(line)
        <4>1. parsed = [state EXCEPT !.latest = <<state.frame>>, !.frame = 0]
          BY <2>3, <3>1
        <4>2. <<state.frame>> \in Seq(Nat)
          BY <1>1 DEF ParserStates
        <4>3. /\ parsed \in ParserStates /\ parsed.failed = state.failed
              /\ parsed.frame = 0 /\ parsed.latest = <<state.frame>>
          BY <1>1, <4>1, <4>2 DEF ParserStates
        <4> QED
          BY <1>1, <1>5, <2>4, <3>1, <4>3
      <3>2. ASSUME ~ ClosesRecord(line), NEW n \in Nat, FrameUpTo(text, k + 1) = n,
                   parsed = [state EXCEPT !.frame = n]
            PROVE  /\ parsed \in ParserStates /\ ~ parsed.failed
                   /\ parsed.frame = FrameUpTo(text, k + 1)
                   /\ parsed.latest = RecordUpTo(text, k + 1)
        <4>1. /\ parsed \in ParserStates /\ parsed.failed = state.failed
              /\ parsed.frame = n /\ parsed.latest = state.latest
          BY <1>1, <3>2 DEF ParserStates
        <4> QED
          BY <1>1, <1>5, <2>4, <3>2, <4>1
      <3>3. CASE ~ ClosesRecord(line) /\ line = <<"f", "=", "1">>
        BY <2>3, <2>4, <3>2, <3>3
      <3>4. CASE ~ ClosesRecord(line) /\ line # <<"f", "=", "1">> /\ line = <<"f", "=", "2">>
        BY <2>3, <2>4, <3>2, <3>4
      <3>5. CASE ~ ClosesRecord(line) /\ line # <<"f", "=", "1">> /\ line # <<"f", "=", "2">>
        BY <1>1, <1>5, <2>3, <2>4, <3>5
      <3> QED
        BY <3>1, <3>3, <3>4, <3>5
    <2>6. LineUpTo(text, k + 1) = <<>>
      BY <1>5, LineEnds
    <2>7. Fits(k + 1)
      BY <1>0, <2>6
    <2> HIDE DEF moved, Fits
    <2>8. /\ moved \in ParserStates /\ moved.failed = parsed.failed /\ moved.line = <<>>
          /\ moved.frame = parsed.frame /\ moved.latest = parsed.latest
      <3>1. <<>> \in Seq(Bytes)
        OBVIOUS
      <3> QED
        BY <2>2, <2>5, <3>1 DEF ParserStates
    <2>9. ~ moved.failed /\ \A j \in 0 .. k + 1 : Fits(j)
      BY <1>1, <1>2, <1>5, <2>5, <2>7, <2>8
    <2>10. /\ moved.line = LineUpTo(text, k + 1) /\ moved.frame = FrameUpTo(text, k + 1)
           /\ moved.latest = RecordUpTo(text, k + 1)
      BY <2>5, <2>6, <2>8
    <2> QED
      BY <2>8, <2>9, <2>10 DEF ParserAt, ParserStates, Fits
  <1>6. CASE ~ state.failed /\ byte # "\n"
    <2>1. LineUpTo(text, k + 1) = Append(LineUpTo(text, k), byte)
      BY <1>6, LineGrows
    <2>2. /\ FrameUpTo(text, k + 1) = FrameUpTo(text, k)
          /\ RecordUpTo(text, k + 1) = RecordUpTo(text, k)
      BY <1>6, RecordStays
    <2>3. Len(LineUpTo(text, k + 1)) = Len(state.line) + 1 /\ Len(state.line) \in Nat
      BY <1>0, <1>1, <1>3, <1>6, <2>1
    <2>4. CASE Len(state.line) + 1 >= GW_PROGRESS_LINE_CAP
      <3>1. moved = [state EXCEPT !.line = <<>>, !.failed = TRUE]
        BY <1>6, <2>4 DEF ConsumeByte
      <3>2. ~ Fits(k + 1)
        BY <1>0, <2>3, <2>4
      <3> HIDE DEF moved, Fits
      <3>3. moved \in ParserStates /\ moved.failed = TRUE
        <4>1. <<>> \in Seq(Bytes)
          OBVIOUS
        <4> QED
          BY <1>1, <3>1, <4>1 DEF ParserStates
      <3>4. ~ \A j \in 0 .. k + 1 : Fits(j)
        BY <1>2, <3>2
      <3> QED
        BY <3>3, <3>4 DEF ParserAt, Fits
    <2>5. CASE ~ (Len(state.line) + 1 >= GW_PROGRESS_LINE_CAP)
      <3>1. moved = [state EXCEPT !.line = Append(state.line, byte)]
        BY <1>6, <2>5 DEF ConsumeByte
      <3>2. Fits(k + 1)
        BY <1>0, <2>3, <2>5
      <3>3. Append(state.line, byte) \in Seq(Bytes)
        BY <1>0, <1>1
      <3> HIDE DEF moved, Fits, byte
      <3>4. /\ moved \in ParserStates /\ moved.failed = state.failed
            /\ moved.line = Append(state.line, byte)
            /\ moved.frame = state.frame /\ moved.latest = state.latest
        BY <1>1, <3>1, <3>3 DEF ParserStates
      <3>5. ~ moved.failed /\ \A j \in 0 .. k + 1 : Fits(j)
        BY <1>1, <1>2, <1>6, <3>2, <3>4
      <3> QED
        BY <1>1, <1>6, <2>1, <2>2, <3>4, <3>5 DEF ParserAt, Fits
    <2> QED
      BY <2>4, <2>5
  <1> QED
    BY <1>4, <1>5, <1>6

\* And so does a read, wherever it ends.  The function of the loop exists: one up to
\* i - 1 could be continued.
LEMMA ConsumeKeeps ==
    ASSUME NEW text \in Seq(Bytes), NEW k \in 0 .. Len(text), NEW n \in Nat, k + n <= Len(text),
           NEW state, ParserAt(text, k, state)
    PROVE  ParserAt(text, k + n, gw_progress_parser_consume(state, SubSeq(text, k + 1, k + n)))
  <1> DEFINE chunk == SubSeq(text, k + 1, k + n)
             after == CHOOSE f : f = [i \in 0 .. Len(chunk) |->
                         IF i = 0 THEN state ELSE ConsumeByte(f[i - 1], chunk[i])]
             Reached == {i \in Nat : ParserAt(text, k + i, after[i])}
  <1>1. /\ k + 1 \in 1 .. Len(text) + 1 /\ k + n \in 0 .. Len(text) /\ k + 1 <= k + n + 1
        /\ k + n - (k + 1) + 1 = n /\ \A i \in 1 .. n : k + 1 + i - 1 = k + i
    OBVIOUS
  <1>2. Len(chunk) = n /\ \A i \in 1 .. n : chunk[i] = text[k + i]
    BY <1>1, Part
  <1>3. gw_progress_parser_consume(state, chunk) = after[Len(chunk)]
    BY DEF gw_progress_parser_consume
  <1> HIDE DEF chunk
  <1>4. after[0] = state /\ \A i \in 1 .. Len(chunk) : after[i] = ConsumeByte(after[i - 1], chunk[i])
    <2>0. Len(chunk) \in Nat
      BY <1>2
    <2> DEFINE Solves(f, m) == f = [i \in 0 .. m |->
                                  IF i = 0 THEN state ELSE ConsumeByte(f[i - 1], chunk[i])]
               P == {m \in Nat : \E f : Solves(f, m)}
    <2>1. 0 \in P
      <3>1. Solves([i \in 0 .. 0 |-> state], 0)
        <4> DEFINE g == [i \in 0 .. 0 |-> state]
                   h == [i \in 0 .. 0 |-> IF i = 0 THEN state ELSE ConsumeByte(g[i - 1], chunk[i])]
        <4>1. ASSUME NEW i \in 0 .. 0 PROVE g[i] = h[i]
          <5>1. i = 0
            OBVIOUS
          <5>2. g[0] = state /\ h[0] = state
            OBVIOUS
          <5> HIDE DEF g, h
          <5> QED
            BY <5>1, <5>2
        <4>2. g = h
          BY <4>1
        <4> QED
          BY <4>2
      <3> QED
        BY <3>1
    <2>2. ASSUME NEW m \in 1 .. Len(chunk), m - 1 \in P PROVE m \in P
      <3>1. PICK f : Solves(f, m - 1)
        <4> HIDE DEF Solves
        <4> QED
          BY <2>2
      <3> DEFINE g == [i \in 0 .. m |-> IF i = m THEN ConsumeByte(f[m - 1], chunk[m]) ELSE f[i]]
                 h == [i \in 0 .. m |-> IF i = 0 THEN state ELSE ConsumeByte(g[i - 1], chunk[i])]
      <3>2. ASSUME NEW i \in 0 .. m PROVE g[i] = h[i]
        <4>1. CASE i = 0
          BY <3>1, <4>1
        <4>2. CASE i \in 1 .. m - 1
          <5>1. i - 1 \in 0 .. m /\ i - 1 # m /\ i # m /\ i # 0 /\ i \in 0 .. m - 1
            BY <4>2
          <5>2. g[i - 1] = f[i - 1] /\ g[i] = f[i]
            BY <5>1
          <5>3. f[i] = ConsumeByte(f[i - 1], chunk[i])
            BY <3>1, <5>1
          <5>4. h[i] = ConsumeByte(g[i - 1], chunk[i])
            BY <5>1
          <5> HIDE DEF g, h
          <5> QED
            BY <5>2, <5>3, <5>4
        <4>3. CASE i = m
          <5>1. m - 1 \in 0 .. m /\ m - 1 # m /\ m # 0 /\ m \in 0 .. m
            OBVIOUS
          <5>2. g[m - 1] = f[m - 1] /\ g[m] = ConsumeByte(f[m - 1], chunk[m])
            BY <5>1
          <5>3. h[m] = ConsumeByte(g[m - 1], chunk[m])
            BY <5>1
          <5> HIDE DEF g, h
          <5> QED
            BY <4>3, <5>2, <5>3
        <4> QED
          BY <4>1, <4>2, <4>3
      <3>3. g = h
        BY <3>2
      <3>4. Solves(g, m)
        BY <3>3
      <3> HIDE DEF g
      <3> QED
        BY <3>4
    <2>3. Len(chunk) \in P
      <3>1. Len(chunk) \in 0 .. Len(chunk)
        BY <2>0
      <3> HIDE DEF P
      <3> QED
        BY <2>0, <2>1, <2>2, <3>1, Induction
    <2>4. Solves(after, Len(chunk))
      BY <2>3
    <2> HIDE DEF Solves, after
    <2>5. \A i \in 0 .. Len(chunk) :
             after[i] = IF i = 0 THEN state ELSE ConsumeByte(after[i - 1], chunk[i])
      BY <2>4 DEF Solves
    <2>6. 0 \in 0 .. Len(chunk) /\ \A i \in 1 .. Len(chunk) : i \in 0 .. Len(chunk) /\ i # 0
      BY <2>0
    <2> QED
      BY <2>5, <2>6
  <1> HIDE DEF after
  <1>5. 0 \in Reached
    <2>1. k + 0 = k
      OBVIOUS
    <2> QED
      BY <1>4, <2>1
  <1>6. ASSUME NEW i \in 1 .. n, i - 1 \in Reached PROVE i \in Reached
    <2>1. ParserAt(text, k + (i - 1), after[i - 1])
      BY <1>6
    <2>2. k + (i - 1) \in 0 .. Len(text) - 1 /\ k + (i - 1) + 1 = k + i /\ i \in Nat
      OBVIOUS
    <2>3. ParserAt(text, k + (i - 1) + 1, ConsumeByte(after[i - 1], text[k + (i - 1) + 1]))
      BY <2>1, <2>2, ConsumeByteKeeps
    <2>4. after[i] = ConsumeByte(after[i - 1], text[k + i])
      BY <1>2, <1>4
    <2> QED
      BY <2>2, <2>3, <2>4
  <1>7. n \in Reached
    <2>1. n \in 0 .. n
      OBVIOUS
    <2> HIDE DEF Reached
    <2> QED
      BY <1>5, <1>6, <2>1, Induction
  <1> QED
    BY <1>2, <1>3, <1>7 DEF chunk

-----------------------------------------------------------------------------
\* The lines of standard error.

LineStates == [data : Seq(Bytes), dropping : BOOLEAN, log : Seq(Seq(Letters))]

\* What is logged for a line.
LogOf(line, text) == IF Len(line) >= STDERR_LINE_CAP THEN Overlong ELSE emit_stderr_line(text)

\* The buffer and the log after k bytes of a text.
StderrAt(text, k, state) ==
    /\ state \in LineStates
    /\ state.dropping = (Len(LineUpTo(text, k)) >= STDERR_LINE_CAP)
    /\ state.data = IF state.dropping THEN <<>> ELSE LineUpTo(text, k)
    /\ Len(state.log) = Cardinality(Ends(text, k))
    /\ \A e \in Ends(text, k) :
         state.log[Cardinality(Ends(text, e))] =
            LogOf(LineUpTo(text, e - 1), WithoutCR(LineUpTo(text, e - 1)))

LEMMA EmittedLetters ==
    ASSUME NEW line \in Seq(Bytes)
    PROVE  emit_stderr_line(line) \in Seq(Letters) /\ Overlong \in Seq(Letters)
  <1>1. redact_source_url(line) \in Seq(Letters)
    BY Redaction
  <1>2. Omitted \in Seq(Letters) /\ Overlong \in Seq(Letters)
    <2>1. "[line omitted]" \in Letters /\ "[overlong line omitted]" \in Letters
      BY DEF Letters
    <2>2. ASSUME NEW x \in Letters PROVE <<x>> \in Seq(Letters)
      OBVIOUS
    <2>3. <<"[line omitted]">> \in Seq(Letters)
      BY <2>1, <2>2
    <2>4. <<"[overlong line omitted]">> \in Seq(Letters)
      BY <2>1, <2>2
    <2> QED
      BY <2>3, <2>4 DEF Omitted, Overlong
  <1> QED
    BY <1>1, <1>2 DEF emit_stderr_line

\* The line that ends at e is one of those that ended before.
LEMMA EndsCounted ==
    ASSUME NEW text \in Seq(Bytes), NEW k \in 0 .. Len(text), NEW e \in Ends(text, k)
    PROVE  Cardinality(Ends(text, e)) \in 1 .. Cardinality(Ends(text, k))
  <1>1. Ends(text, k) \subseteq 1 .. k /\ k \in Nat
    BY LineFacts
  <1>2. e \in 1 .. k /\ text[e] = "\n"
    BY DEF Ends
  <1>3. Ends(text, e) \subseteq Ends(text, k) /\ e \in Ends(text, e)
    BY <1>1, <1>2 DEF Ends
  <1>4. IsFiniteSet(Ends(text, k))
    <2>1. IsFiniteSet(1 .. k)
      BY <1>1, FS_Interval
    <2> QED
      BY <1>1, <2>1, FS_Subset
  <1>5. /\ IsFiniteSet(Ends(text, e)) /\ Cardinality(Ends(text, e)) \in Nat
        /\ Cardinality(Ends(text, k)) \in Nat
        /\ Cardinality(Ends(text, e)) <= Cardinality(Ends(text, k))
    BY <1>3, <1>4, FS_Subset, FS_CardinalityType
  <1>6. Cardinality(Ends(text, e)) # 0
    BY <1>3, <1>5, FS_EmptySet
  <1> QED
    BY <1>5, <1>6

\* A line that ends is logged behind the others.
LEMMA LoggedBehind ==
    ASSUME NEW text \in Seq(Bytes), NEW k \in 0 .. Len(text) - 1, text[k + 1] = "\n",
           NEW log \in Seq(Seq(Letters)), Len(log) = Cardinality(Ends(text, k)),
           \A e \in Ends(text, k) :
              log[Cardinality(Ends(text, e))] =
                 LogOf(LineUpTo(text, e - 1), WithoutCR(LineUpTo(text, e - 1))),
           NEW entry \in Seq(Letters),
           entry = LogOf(LineUpTo(text, k), WithoutCR(LineUpTo(text, k)))
    PROVE  /\ Append(log, entry) \in Seq(Seq(Letters))
           /\ Len(Append(log, entry)) = Cardinality(Ends(text, k + 1))
           /\ \A e \in Ends(text, k + 1) :
                Append(log, entry)[Cardinality(Ends(text, e))] =
                   LogOf(LineUpTo(text, e - 1), WithoutCR(LineUpTo(text, e - 1)))
  <1> DEFINE longer == Append(log, entry)
  <1>1. /\ Ends(text, k + 1) = Ends(text, k) \cup {k + 1}
        /\ Cardinality(Ends(text, k)) \in Nat
        /\ Cardinality(Ends(text, k + 1)) = Cardinality(Ends(text, k)) + 1
    BY LineEnds
  <1>2. k \in 0 .. Len(text) /\ (k + 1) - 1 = k
    OBVIOUS
  <1>3. /\ longer \in Seq(Seq(Letters)) /\ Len(longer) = Len(log) + 1
        /\ longer[Len(log) + 1] = entry
        /\ \A i \in 1 .. Len(log) : longer[i] = log[i]
    OBVIOUS
  <1> HIDE DEF longer
  <1>4. ASSUME NEW e \in Ends(text, k + 1)
        PROVE  longer[Cardinality(Ends(text, e))] =
                  LogOf(LineUpTo(text, e - 1), WithoutCR(LineUpTo(text, e - 1)))
    <2>1. CASE e = k + 1
      BY <1>1, <1>2, <1>3, <2>1
    <2>2. CASE e \in Ends(text, k)
      <3>1. Cardinality(Ends(text, e)) \in 1 .. Len(log)
        BY <1>2, <2>2, EndsCounted
      <3> QED
        BY <1>3, <2>2, <3>1
    <2> QED
      BY <1>1, <2>1, <2>2
  <1> QED
    BY <1>1, <1>3, <1>4 DEF longer

\* A byte takes the buffer and the log from the first k bytes to the first k + 1.
LEMMA StderrByteKeeps ==
    ASSUME NEW text \in Seq(Bytes), NEW k \in 0 .. Len(text) - 1,
           NEW state, StderrAt(text, k, state)
    PROVE  StderrAt(text, k + 1, StderrByte(state, text[k + 1]))
  <1> DEFINE byte == text[k + 1]
             moved == StderrByte(state, byte)
  <1>0. /\ k \in 0 .. Len(text) /\ k + 1 \in 0 .. Len(text) /\ k + 1 \in 1 .. Len(text) /\ k \in Nat
        /\ byte \in Bytes /\ STDERR_LINE_CAP \in Nat /\ STDERR_LINE_CAP > 0
    BY OutputAssumption
  <1>1. /\ state \in LineStates /\ state.data \in Seq(Bytes) /\ state.dropping \in BOOLEAN
        /\ state.log \in Seq(Seq(Letters))
        /\ state.dropping = (Len(LineUpTo(text, k)) >= STDERR_LINE_CAP)
        /\ state.data = IF state.dropping THEN <<>> ELSE LineUpTo(text, k)
        /\ Len(state.log) = Cardinality(Ends(text, k))
        /\ \A e \in Ends(text, k) :
             state.log[Cardinality(Ends(text, e))] =
                LogOf(LineUpTo(text, e - 1), WithoutCR(LineUpTo(text, e - 1)))
    BY DEF StderrAt, LineStates
  <1>2. /\ LineUpTo(text, k) \in Seq(Bytes) /\ Len(LineUpTo(text, k)) \in Nat
        /\ LineUpTo(text, k + 1) \in Seq(Bytes) /\ Len(LineUpTo(text, k + 1)) \in Nat
    BY <1>0, LineFacts
  <1>3. <<>> \in Seq(Bytes) /\ Len(<<>>) = 0
    OBVIOUS
  <1> SUFFICES StderrAt(text, k + 1, moved)
    OBVIOUS
  <1>4. CASE byte = "\n"
    <2> DEFINE entry == LogOf(LineUpTo(text, k), WithoutCR(LineUpTo(text, k)))
    <2>1. WithoutCR(LineUpTo(text, k)) \in Seq(Bytes)
      BY <1>2, Stripped
    <2>2. entry \in Seq(Letters)
      BY <2>1, EmittedLetters DEF LogOf
    <2>3. moved = [data |-> <<>>, dropping |-> FALSE, log |-> Append(state.log, entry)]
      <3>1. state = [data |-> state.data, dropping |-> state.dropping, log |-> state.log]
        BY <1>1 DEF LineStates
      <3>2. CASE state.dropping
        <4>1. entry = Overlong /\ state.data = <<>>
          BY <1>1, <3>2 DEF LogOf
        <4>2. moved = [Logged(state, Overlong) EXCEPT !.dropping = FALSE]
          BY <1>4, <3>2 DEF StderrByte
        <4> HIDE DEF moved, entry
        <4> QED
          BY <3>1, <4>1, <4>2 DEF Logged
      <3>3. CASE ~ state.dropping
        <4>1. entry = emit_stderr_line(WithoutCR(state.data)) /\ state.dropping = FALSE
          BY <1>0, <1>1, <1>2, <3>3 DEF LogOf
        <4>2. moved = [Logged(state, emit_stderr_line(WithoutCR(state.data))) EXCEPT !.data = <<>>]
          BY <1>4, <3>3 DEF StderrByte
        <4> HIDE DEF moved, entry
        <4> QED
          BY <3>1, <4>1, <4>2 DEF Logged
      <3> QED
        BY <3>2, <3>3
    <2> HIDE DEF moved
    <2>4. /\ Append(state.log, entry) \in Seq(Seq(Letters))
          /\ Len(Append(state.log, entry)) = Cardinality(Ends(text, k + 1))
          /\ \A e \in Ends(text, k + 1) :
               Append(state.log, entry)[Cardinality(Ends(text, e))] =
                  LogOf(LineUpTo(text, e - 1), WithoutCR(LineUpTo(text, e - 1)))
      <3>1. text[k + 1] = "\n" /\ entry = LogOf(LineUpTo(text, k), WithoutCR(LineUpTo(text, k)))
        BY <1>4
      <3> HIDE DEF entry, byte
      <3> QED
        BY <1>1, <2>2, <3>1, LoggedBehind
    <2> DEFINE longer == Append(state.log, entry)
    <2> HIDE DEF entry, longer
    <2>5. /\ moved \in LineStates /\ moved.data = <<>> /\ moved.dropping = FALSE
          /\ moved.log = longer
      BY <1>3, <2>3, <2>4 DEF LineStates, longer
    <2>6. LineUpTo(text, k + 1) = <<>>
      BY <1>4, LineEnds
    <2>7. (Len(LineUpTo(text, k + 1)) >= STDERR_LINE_CAP) = FALSE
      BY <1>0, <1>3, <2>6
    <2>8. /\ Len(longer) = Cardinality(Ends(text, k + 1))
          /\ \A e \in Ends(text, k + 1) :
               longer[Cardinality(Ends(text, e))] =
                  LogOf(LineUpTo(text, e - 1), WithoutCR(LineUpTo(text, e - 1)))
      BY <2>4 DEF longer
    <2> QED
      BY <2>5, <2>6, <2>7, <2>8 DEF StderrAt
  <1>5. CASE byte # "\n"
    <2>1. /\ Ends(text, k + 1) = Ends(text, k)
          /\ LineUpTo(text, k + 1) = Append(LineUpTo(text, k), byte)
      BY <1>5, LineGrows
    <2>2. Len(LineUpTo(text, k + 1)) = Len(LineUpTo(text, k)) + 1
      BY <1>0, <1>2, <2>1
    <2> DEFINE drops == Len(LineUpTo(text, k + 1)) >= STDERR_LINE_CAP
    <2>3. /\ moved \in LineStates /\ moved.log = state.log
          /\ moved.dropping = drops
          /\ moved.data = IF drops THEN <<>> ELSE LineUpTo(text, k + 1)
      <3>1. CASE state.dropping
        <4>1. moved = state
          BY <1>5, <3>1 DEF StderrByte
        <4>2. Len(LineUpTo(text, k)) >= STDERR_LINE_CAP
          BY <1>1, <3>1
        <4>3. drops = TRUE
          BY <1>0, <1>2, <2>2, <4>2
        <4> HIDE DEF moved, drops
        <4> QED
          BY <1>1, <3>1, <4>1, <4>3
      <3>2. CASE ~ state.dropping /\ Len(state.data) + 1 >= STDERR_LINE_CAP
        <4>1. moved = [state EXCEPT !.data = <<>>, !.dropping = TRUE]
          BY <1>5, <3>2 DEF StderrByte
        <4>2. drops = TRUE
          BY <1>0, <1>1, <1>2, <2>2, <3>2
        <4> HIDE DEF moved, drops
        <4> QED
          BY <1>1, <1>3, <4>1, <4>2 DEF LineStates
      <3>3. CASE ~ state.dropping /\ ~ (Len(state.data) + 1 >= STDERR_LINE_CAP)
        <4>1. moved = [state EXCEPT !.data = Append(state.data, byte)]
          BY <1>5, <3>3 DEF StderrByte
        <4>2. drops = FALSE
          BY <1>0, <1>1, <1>2, <2>2, <3>3
        <4>3. Append(state.data, byte) = LineUpTo(text, k + 1) /\ state.dropping = FALSE
          BY <1>1, <2>1, <3>3
        <4> HIDE DEF moved, drops, byte
        <4> QED
          BY <1>1, <1>2, <4>1, <4>2, <4>3 DEF LineStates
      <3> QED
        BY <3>1, <3>2, <3>3
    <2> HIDE DEF moved
    <2> QED
      BY <1>1, <2>1, <2>3 DEF StderrAt
  <1> QED
    BY <1>4, <1>5

LEMMA StderrKeeps ==
    ASSUME NEW text \in Seq(Bytes), NEW k \in 0 .. Len(text), NEW n \in Nat, k + n <= Len(text),
           NEW state, StderrAt(text, k, state)
    PROVE  StderrAt(text, k + n, consume_stderr(state, SubSeq(text, k + 1, k + n)))
  <1> DEFINE chunk == SubSeq(text, k + 1, k + n)
             after == CHOOSE f : f = [i \in 0 .. Len(chunk) |->
                         IF i = 0 THEN state ELSE StderrByte(f[i - 1], chunk[i])]
             Reached == {i \in Nat : StderrAt(text, k + i, after[i])}
  <1>1. /\ k + 1 \in 1 .. Len(text) + 1 /\ k + n \in 0 .. Len(text) /\ k + 1 <= k + n + 1
        /\ k + n - (k + 1) + 1 = n /\ \A i \in 1 .. n : k + 1 + i - 1 = k + i
    OBVIOUS
  <1>2. Len(chunk) = n /\ \A i \in 1 .. n : chunk[i] = text[k + i]
    BY <1>1, Part
  <1>3. consume_stderr(state, chunk) = after[Len(chunk)]
    BY DEF consume_stderr
  <1> HIDE DEF chunk
  <1>4. after[0] = state /\ \A i \in 1 .. Len(chunk) : after[i] = StderrByte(after[i - 1], chunk[i])
    <2>0. Len(chunk) \in Nat
      BY <1>2
    <2> DEFINE Solves(f, m) == f = [i \in 0 .. m |->
                                  IF i = 0 THEN state ELSE StderrByte(f[i - 1], chunk[i])]
               P == {m \in Nat : \E f : Solves(f, m)}
    <2>1. 0 \in P
      <3>1. Solves([i \in 0 .. 0 |-> state], 0)
        <4> DEFINE g == [i \in 0 .. 0 |-> state]
                   h == [i \in 0 .. 0 |-> IF i = 0 THEN state ELSE StderrByte(g[i - 1], chunk[i])]
        <4>1. ASSUME NEW i \in 0 .. 0 PROVE g[i] = h[i]
          <5>1. i = 0
            OBVIOUS
          <5>2. g[0] = state /\ h[0] = state
            OBVIOUS
          <5> HIDE DEF g, h
          <5> QED
            BY <5>1, <5>2
        <4>2. g = h
          BY <4>1
        <4> QED
          BY <4>2
      <3> QED
        BY <3>1
    <2>2. ASSUME NEW m \in 1 .. Len(chunk), m - 1 \in P PROVE m \in P
      <3>1. PICK f : Solves(f, m - 1)
        <4> HIDE DEF Solves
        <4> QED
          BY <2>2
      <3> DEFINE g == [i \in 0 .. m |-> IF i = m THEN StderrByte(f[m - 1], chunk[m]) ELSE f[i]]
                 h == [i \in 0 .. m |-> IF i = 0 THEN state ELSE StderrByte(g[i - 1], chunk[i])]
      <3>2. ASSUME NEW i \in 0 .. m PROVE g[i] = h[i]
        <4>1. CASE i = 0
          BY <3>1, <4>1
        <4>2. CASE i \in 1 .. m - 1
          <5>1. i - 1 \in 0 .. m /\ i - 1 # m /\ i # m /\ i # 0 /\ i \in 0 .. m - 1
            BY <4>2
          <5>2. g[i - 1] = f[i - 1] /\ g[i] = f[i]
            BY <5>1
          <5>3. f[i] = StderrByte(f[i - 1], chunk[i])
            BY <3>1, <5>1
          <5>4. h[i] = StderrByte(g[i - 1], chunk[i])
            BY <5>1
          <5> HIDE DEF g, h
          <5> QED
            BY <5>2, <5>3, <5>4
        <4>3. CASE i = m
          <5>1. m - 1 \in 0 .. m /\ m - 1 # m /\ m # 0 /\ m \in 0 .. m
            OBVIOUS
          <5>2. g[m - 1] = f[m - 1] /\ g[m] = StderrByte(f[m - 1], chunk[m])
            BY <5>1
          <5>3. h[m] = StderrByte(g[m - 1], chunk[m])
            BY <5>1
          <5> HIDE DEF g, h
          <5> QED
            BY <4>3, <5>2, <5>3
        <4> QED
          BY <4>1, <4>2, <4>3
      <3>3. g = h
        BY <3>2
      <3>4. Solves(g, m)
        BY <3>3
      <3> HIDE DEF g
      <3> QED
        BY <3>4
    <2>3. Len(chunk) \in P
      <3>1. Len(chunk) \in 0 .. Len(chunk)
        BY <2>0
      <3> HIDE DEF P
      <3> QED
        BY <2>0, <2>1, <2>2, <3>1, Induction
    <2>4. Solves(after, Len(chunk))
      BY <2>3
    <2> HIDE DEF Solves, after
    <2>5. \A i \in 0 .. Len(chunk) :
             after[i] = IF i = 0 THEN state ELSE StderrByte(after[i - 1], chunk[i])
      BY <2>4 DEF Solves
    <2>6. 0 \in 0 .. Len(chunk) /\ \A i \in 1 .. Len(chunk) : i \in 0 .. Len(chunk) /\ i # 0
      BY <2>0
    <2> QED
      BY <2>5, <2>6
  <1> HIDE DEF after
  <1>5. 0 \in Reached
    <2>1. k + 0 = k
      OBVIOUS
    <2> QED
      BY <1>4, <2>1
  <1>6. ASSUME NEW i \in 1 .. n, i - 1 \in Reached PROVE i \in Reached
    <2>1. StderrAt(text, k + (i - 1), after[i - 1])
      BY <1>6
    <2>2. k + (i - 1) \in 0 .. Len(text) - 1 /\ k + (i - 1) + 1 = k + i /\ i \in Nat
      OBVIOUS
    <2>3. StderrAt(text, k + (i - 1) + 1, StderrByte(after[i - 1], text[k + (i - 1) + 1]))
      BY <2>1, <2>2, StderrByteKeeps
    <2>4. after[i] = StderrByte(after[i - 1], text[k + i])
      BY <1>2, <1>4
    <2> QED
      BY <2>2, <2>3, <2>4
  <1>7. n \in Reached
    <2>1. n \in 0 .. n
      OBVIOUS
    <2> HIDE DEF Reached
    <2> QED
      BY <1>5, <1>6, <2>1, Induction
  <1> QED
    BY <1>2, <1>3, <1>7 DEF chunk

-----------------------------------------------------------------------------
\* Reads.

OutputInv ==
    /\ stream \in {"stdout", "stderr"} /\ closed \in BOOLEAN
    /\ written \in Outputs[stream] /\ written \in Seq(Bytes)
    /\ taken \in 0 .. Len(written)
    /\ closed => taken = Len(written)
    /\ stream = "stdout" => ParserAt(written, taken, parser)
    /\ stream = "stderr" /\ ~ closed => StderrAt(written, taken, lines)
    /\ stream = "stderr" /\ closed =>
         \E before \in LineStates : StderrAt(written, taken, before) /\ lines = flush_stderr(before)

\* The capacity of the URL buffer stays what it is, and so does what is logged.
LEMMA StderrAtKept ==
    ASSUME UNCHANGED url_cap
    PROVE  /\ \A text, k, state : StderrAt(text, k, state)' <=> StderrAt(text, k, state)
           /\ \A state : flush_stderr(state)' = flush_stderr(state)
  <1>1. UrlOverflows' = UrlOverflows
    BY DEF UrlOverflows
  <1>2. \A line : emit_stderr_line(line)' = emit_stderr_line(line)
    BY <1>1 DEF emit_stderr_line
  <1>3. \A line, text : LogOf(line, text)' = LogOf(line, text)
    BY <1>2 DEF LogOf
  <1> QED
    BY <1>2, <1>3 DEF StderrAt, flush_stderr

LEMMA ReadKeeps ==
    ASSUME OutputInv, NEW n \in 1 .. ReadSize, Read(n)
    PROVE  OutputInv'
  <1>0. n \in Nat /\ n >= 1
    BY OutputAssumption
  <1>1. /\ stream \in {"stdout", "stderr"} /\ closed \in BOOLEAN
        /\ written \in Outputs[stream] /\ written \in Seq(Bytes) /\ taken \in 0 .. Len(written)
        /\ closed => taken = Len(written)
    BY DEF OutputInv
  <1>2. /\ taken + n <= Len(written) /\ taken' = taken + n
        /\ UNCHANGED <<url_cap, stream, written, closed>>
    BY DEF Read
  <1>3. taken' \in 0 .. Len(written) /\ ~ closed
    BY <1>0, <1>1, <1>2
  <1>4. ASSUME stream = "stdout" PROVE ParserAt(written, taken + n, parser')
    <2>1. parser' = gw_progress_parser_consume(parser, SubSeq(written, taken + 1, taken + n))
      BY <1>4 DEF Read
    <2>2. ParserAt(written, taken, parser)
      BY <1>4 DEF OutputInv
    <2> QED
      BY <1>0, <1>1, <1>2, <2>1, <2>2, ConsumeKeeps
  <1>5. ASSUME stream = "stderr" PROVE StderrAt(written, taken + n, lines')
    <2>1. lines' = consume_stderr(lines, SubSeq(written, taken + 1, taken + n))
      BY <1>5 DEF Read
    <2>2. StderrAt(written, taken, lines)
      BY <1>3, <1>5 DEF OutputInv
    <2> QED
      BY <1>0, <1>1, <1>2, <2>1, <2>2, StderrKeeps
  <1>6. /\ stream' = "stdout" => ParserAt(written', taken', parser')
        /\ stream' = "stderr" /\ ~ closed' => StderrAt(written', taken', lines')
    BY <1>2, <1>4, <1>5
  <1> QED
    BY <1>1, <1>2, <1>3, <1>6, StderrAtKept DEF OutputInv

LEMMA EndOfStreamKeeps ==
    ASSUME OutputInv, EndOfStream
    PROVE  OutputInv'
  <1>1. /\ taken = Len(written) /\ ~ closed /\ lines' = flush_stderr(lines) /\ closed' = TRUE
        /\ UNCHANGED <<url_cap, stream, written, taken, parser>>
    BY DEF EndOfStream
  <1>2. stream = "stderr" => StderrAt(written, taken, lines)
    BY <1>1 DEF OutputInv
  <1>3. stream' = "stderr" /\ closed' =>
           \E before \in LineStates : StderrAt(written', taken', before) /\ lines' = flush_stderr(before)
    <2> SUFFICES ASSUME stream' = "stderr"
                 PROVE  \E before \in LineStates :
                           StderrAt(written', taken', before) /\ lines' = flush_stderr(before)
      OBVIOUS
    <2>1. StderrAt(written, taken, lines) /\ lines \in LineStates
      BY <1>1, <1>2 DEF StderrAt
    <2> QED
      BY <1>1, <2>1
  <1>4. stream' = "stdout" => ParserAt(written', taken', parser')
    BY <1>1 DEF OutputInv
  <1> QED
    BY <1>1, <1>3, <1>4, StderrAtKept DEF OutputInv

\* Wherever the reads ended, the parser and the log are what the bytes read so far make
\* them: a function of the text, whatever the worker wrote and whatever the capacities.
THEOREM OutputInvariant == OutputSpec => []OutputInv
  <1>1. OutputInit => OutputInv
    <2> SUFFICES ASSUME OutputInit PROVE OutputInv
      OBVIOUS
    <2>1. /\ stream \in {"stdout", "stderr"} /\ written \in Outputs[stream] /\ taken = 0 /\ ~ closed
          /\ closed \in BOOLEAN
          /\ parser = [line |-> <<>>, frame |-> 0, latest |-> <<>>, failed |-> FALSE]
          /\ lines = [data |-> <<>>, dropping |-> FALSE, log |-> <<>>]
      BY DEF OutputInit
    <2>2. written \in Seq(Bytes) /\ Len(written) \in Nat /\ 0 \in 0 .. Len(written)
      BY <2>1, OutputAssumption
    <2>3. /\ Ends(written, 0) = {} /\ LineUpTo(written, 0) = <<>> /\ Len(<<>>) = 0
          /\ <<>> \in Seq(Bytes) /\ <<>> \in Seq(Nat) /\ <<>> \in Seq(Seq(Letters))
          /\ GW_PROGRESS_LINE_CAP \in Nat /\ GW_PROGRESS_LINE_CAP > 0
          /\ STDERR_LINE_CAP \in Nat /\ STDERR_LINE_CAP > 0
      BY <2>2, NoLineYet, OutputAssumption
    <2>4. ParserAt(written, 0, parser)
      <3>1. Closing(written, 0) = {} /\ Counting(written, 0) = {}
        BY <2>3 DEF Closing, Counting
      <3>2. FrameUpTo(written, 0) = 0 /\ RecordUpTo(written, 0) = <<>>
        BY <3>1 DEF FrameUpTo, RecordUpTo
      <3>3. parser \in ParserStates
        BY <2>1, <2>3 DEF ParserStates
      <3>4. \A j \in 0 .. 0 : Len(LineUpTo(written, j)) < GW_PROGRESS_LINE_CAP
        <4>1. \A j \in 0 .. 0 : j = 0
          OBVIOUS
        <4> QED
          BY <2>3, <4>1
      <3> QED
        BY <2>1, <2>3, <3>2, <3>3, <3>4 DEF ParserAt
    <2>5. StderrAt(written, 0, lines)
      <3>1. lines \in LineStates
        BY <2>1, <2>3 DEF LineStates
      <3>2. Cardinality(Ends(written, 0)) = 0
        BY <2>3, FS_EmptySet
      <3>3. (Len(LineUpTo(written, 0)) >= STDERR_LINE_CAP) = FALSE
        BY <2>3
      <3> QED
        BY <2>1, <2>3, <3>1, <3>2, <3>3 DEF StderrAt
    <2> QED
      BY <2>1, <2>2, <2>4, <2>5 DEF OutputInv
  <1>2. OutputInv /\ [OutputNext]_outputVars => OutputInv'
    <2>1. ASSUME OutputInv, UNCHANGED outputVars PROVE OutputInv'
      <3>1. UNCHANGED <<url_cap, stream, written, taken, closed, parser, lines>>
        BY <2>1 DEF outputVars
      <3> QED
        BY <2>1, <3>1, StderrAtKept DEF OutputInv
    <2> QED
      BY <2>1, ReadKeeps, EndOfStreamKeeps DEF OutputNext
  <1> QED
    BY <1>1, <1>2, PTL DEF OutputSpec

\* ReadsAsWritten with what is logged for a line that has the URL, too.
LinesAsWritten ==
    LET rest == LineUpTo(written, taken)
        fits == \A k \in 0 .. taken : Len(LineUpTo(written, k)) < GW_PROGRESS_LINE_CAP
    IN  IF stream = "stdout"
        THEN /\ parser.failed = ~ fits
             /\ fits => parser.line = rest /\ parser.latest = RecordUpTo(written, taken)
        ELSE /\ Len(lines.log) = Cardinality(Ends(written, taken))
                                   + (IF closed /\ rest # <<>> THEN 1 ELSE 0)
             /\ \A e \in Ends(written, taken) :
                  LET line == LineUpTo(written, e - 1)
                  IN  lines.log[Cardinality(Ends(written, e))] = LogOf(line, WithoutCR(line))
             /\ closed /\ rest # <<>> => Last(lines.log) = LogOf(rest, rest)

LEMMA InvariantReads ==
    ASSUME OutputInv
    PROVE  LinesAsWritten
  <1> DEFINE rest == LineUpTo(written, taken)
  <1>0. written \in Seq(Bytes) /\ taken \in 0 .. Len(written)
    BY DEF OutputInv
  <1>1. CASE stream = "stdout"
    <2>1. ParserAt(written, taken, parser)
      BY <1>1 DEF OutputInv
    <2> QED
      BY <1>1, <2>1 DEF LinesAsWritten, ParserAt
  <1>2. CASE stream = "stderr" /\ ~ closed
    <2>1. StderrAt(written, taken, lines)
      BY <1>2 DEF OutputInv
    <2>2. Cardinality(Ends(written, taken)) \in Nat
      BY <2>1 DEF StderrAt, LineStates
    <2>3. Len(lines.log) = Cardinality(Ends(written, taken)) + 0
      BY <2>1, <2>2 DEF StderrAt
    <2> QED
      BY <1>2, <2>1, <2>3 DEF LinesAsWritten, StderrAt
  <1>3. CASE stream = "stderr" /\ closed
    <2>1. PICK before \in LineStates :
             StderrAt(written, taken, before) /\ lines = flush_stderr(before)
      BY <1>3 DEF OutputInv
    <2> DEFINE log == before.log
    <2>2. /\ log \in Seq(Seq(Letters)) /\ Len(log) = Cardinality(Ends(written, taken))
          /\ before.data \in Seq(Bytes) /\ before.dropping \in BOOLEAN
          /\ before.dropping = (Len(rest) >= STDERR_LINE_CAP)
          /\ before.data = IF before.dropping THEN <<>> ELSE rest
          /\ \A e \in Ends(written, taken) :
               log[Cardinality(Ends(written, e))] =
                  LogOf(LineUpTo(written, e - 1), WithoutCR(LineUpTo(written, e - 1)))
      BY <2>1 DEF StderrAt, LineStates
    <2>3. rest \in Seq(Bytes) /\ Len(rest) \in Nat /\ STDERR_LINE_CAP \in Nat /\ STDERR_LINE_CAP > 0
      <3>1. STDERR_LINE_CAP \in Nat /\ STDERR_LINE_CAP > 0
        BY OutputAssumption
      <3>2. rest \in Seq(Bytes) /\ Len(rest) \in Nat
        BY <1>0, LineFacts
      <3> QED
        BY <3>1, <3>2
    <2>4. ASSUME rest # <<>> PROVE lines.log = Append(log, LogOf(rest, rest))
      <3>1. CASE before.dropping
        <4>1. LogOf(rest, rest) = Overlong
          BY <2>2, <3>1 DEF LogOf
        <4>2. lines.log = Append(before.log, Overlong)
          BY <2>1, <3>1 DEF flush_stderr
        <4> QED
          BY <4>1, <4>2
      <3>2. CASE ~ before.dropping
        <4>1. before.data = rest /\ LogOf(rest, rest) = emit_stderr_line(rest)
          BY <2>2, <3>2 DEF LogOf
        <4>2. lines.log = Append(before.log, emit_stderr_line(before.data))
          BY <2>1, <2>4, <3>2, <4>1 DEF flush_stderr
        <4> QED
          BY <4>1, <4>2
      <3> QED
        BY <3>1, <3>2
    <2>5. ASSUME rest = <<>> PROVE lines.log = log
      <3> HIDE DEF rest
      <3>1. ~ (Len(rest) >= STDERR_LINE_CAP)
        BY <2>3, <2>5
      <3>2. ~ before.dropping /\ before.data = <<>>
        BY <2>2, <2>5, <3>1
      <3> QED
        BY <2>1, <3>2 DEF flush_stderr
    <2> HIDE DEF rest, log
    <2>6. CASE rest = <<>>
      <3>1. Len(log) = Cardinality(Ends(written, taken)) + 0
        BY <2>2
      <3> QED
        BY <1>3, <2>2, <2>5, <2>6, <3>1 DEF LinesAsWritten, rest
    <2>7. CASE rest # <<>>
      <3> DEFINE entry == LogOf(rest, rest)
                 longer == Append(log, entry)
      <3>1. entry \in Seq(Letters)
        BY <2>3, EmittedLetters DEF LogOf
      <3> HIDE DEF entry
      <3>2. /\ Len(longer) = Len(log) + 1 /\ longer[Len(longer)] = entry
            /\ \A i \in 1 .. Len(log) : longer[i] = log[i]
        BY <2>2, <3>1
      <3> HIDE DEF longer
      <3>3. lines.log = longer
        BY <2>4, <2>7 DEF longer, entry
      <3>4. ASSUME NEW e \in Ends(written, taken)
            PROVE  longer[Cardinality(Ends(written, e))] =
                      LogOf(LineUpTo(written, e - 1), WithoutCR(LineUpTo(written, e - 1)))
        <4>1. Cardinality(Ends(written, e)) \in 1 .. Len(log)
          BY <1>0, <2>2, EndsCounted
        <4> QED
          BY <2>2, <3>2, <4>1
      <3>5. Last(lines.log) = LogOf(rest, rest)
        BY <3>2, <3>3 DEF Last, entry
      <3>6. Len(lines.log) = Cardinality(Ends(written, taken)) + 1
        BY <2>2, <3>2, <3>3
      <3> QED
        BY <1>3, <2>7, <3>3, <3>4, <3>5, <3>6 DEF LinesAsWritten, rest
    <2> QED
      BY <2>6, <2>7
  <1> QED
    BY <1>1, <1>2, <1>3 DEF OutputInv

-----------------------------------------------------------------------------
\* The password.

LEMMA OccursAt ==
    ASSUME NEW text \in Seq(Bytes), NEW k \in Nat, k >= 1
    PROVE  Occurs(text, k) <=> /\ k + Len(SourceUrl) - 1 <= Len(text)
                               /\ \A i \in 1 .. Len(SourceUrl) : text[k + i - 1] = SourceUrl[i]
  <1> DEFINE L == Len(SourceUrl)
             found == SubSeq(text, k, k + L - 1)
  <1>0. SourceUrl \in Seq(Bytes) /\ L \in Nat /\ L >= 1 /\ Len(text) \in Nat
    BY OutputAssumption
  <1>1. ASSUME k + L - 1 <= Len(text)
        PROVE  found = SourceUrl <=> \A i \in 1 .. L : text[k + i - 1] = SourceUrl[i]
    <2>1. k \in 1 .. Len(text) + 1 /\ k + L - 1 \in 0 .. Len(text) /\ k <= k + L - 1 + 1
      BY <1>0, <1>1
    <2>2. k + L - 1 - k + 1 = L
      BY <1>0
    <2>3. /\ found \in Seq(Bytes) /\ Len(found) = L
          /\ \A i \in 1 .. L : found[i] = text[k + i - 1]
      BY <2>1, <2>2, Part
    <2> HIDE DEF found
    <2>4. found = SourceUrl => \A i \in 1 .. L : text[k + i - 1] = SourceUrl[i]
      BY <2>3
    <2>5. (\A i \in 1 .. L : found[i] = SourceUrl[i]) => found = SourceUrl
      BY <1>0, <2>3
    <2> QED
      BY <2>3, <2>4, <2>5
  <1> QED
    BY <1>1 DEF Occurs

\* A line of a text, with or without its return, has a letter as the text does: the URL
\* does not go beyond a line.
LEMMA LineCovered ==
    ASSUME NEW text \in Seq(Bytes), NEW sign, Covered(text, sign),
           \A i \in 1 .. Len(SourceUrl) : SourceUrl[i] \notin {"\n", "\r"},
           NEW line \in Seq(Bytes), NEW b \in Nat, NEW c \in Nat, c <= Len(text),
           Len(line) = c - b, \A j \in 1 .. Len(line) : line[j] = text[b + j],
           b = 0 \/ text[b] = "\n", c = Len(text) \/ text[c + 1] \in {"\n", "\r"}
    PROVE  Covered(line, sign)
  <1> DEFINE L == Len(SourceUrl)
  <1>0. L \in Nat /\ L >= 1 /\ Len(text) \in Nat /\ Len(line) \in Nat /\ b <= c
    BY OutputAssumption
  <1>1. ASSUME NEW k \in 1 .. Len(line), Occurs(line, k) PROVE Occurs(text, b + k)
    <2>1. k \in Nat /\ k >= 1 /\ b + k \in Nat /\ b + k >= 1
      BY <1>0
    <2>2. k + L - 1 <= Len(line) /\ \A i \in 1 .. L : line[k + i - 1] = SourceUrl[i]
      BY <1>1, <2>1, OccursAt
    <2>3. (b + k) + L - 1 <= Len(text)
      BY <1>0, <2>1, <2>2
    <2>4. ASSUME NEW i \in 1 .. L PROVE text[(b + k) + i - 1] = SourceUrl[i]
      <3>1. k + i - 1 \in 1 .. Len(line) /\ b + (k + i - 1) = (b + k) + i - 1
        BY <1>0, <2>1, <2>2
      <3>2. line[k + i - 1] = text[b + (k + i - 1)]
        BY <3>1
      <3> QED
        BY <2>2, <3>1, <3>2
    <2> QED
      BY <2>1, <2>3, <2>4, OccursAt
  <1>2. ASSUME NEW j \in 1 .. Len(line), line[j] = sign
        PROVE  \E k \in 1 .. j : Occurs(line, k) /\ j <= k + L - 1
    <2>1. b + j \in 1 .. Len(text) /\ text[b + j] = sign
      BY <1>0, <1>2
    <2>2. PICK m \in 1 .. b + j : Occurs(text, m) /\ b + j <= m + L - 1
      BY <2>1 DEF Covered
    <2>3. m \in Nat /\ m >= 1 /\ m + L - 1 <= Len(text)
          /\ \A i \in 1 .. L : text[m + i - 1] = SourceUrl[i]
      BY <2>2, OccursAt
    <2>4. ASSUME NEW p \in m .. m + L - 1 PROVE text[p] \notin {"\n", "\r"}
      <3>1. p - m + 1 \in 1 .. L /\ m + (p - m + 1) - 1 = p
        BY <1>0, <2>3
      <3> QED
        BY <2>3, <3>1
    <2>5. m > b
      <3> SUFFICES ASSUME ~ (m > b) PROVE FALSE
        OBVIOUS
      <3>1. b \in m .. m + L - 1 /\ b # 0
        BY <1>0, <2>2, <2>3
      <3> QED
        BY <2>4, <3>1
    <2>6. m + L - 1 <= c
      <3> SUFFICES ASSUME ~ (m + L - 1 <= c) PROVE FALSE
        OBVIOUS
      <3>1. c + 1 \in m .. m + L - 1 /\ c # Len(text)
        BY <1>0, <2>2, <2>3
      <3> QED
        BY <2>4, <3>1
    <2> DEFINE k == m - b
    <2>7. k \in 1 .. j /\ k \in Nat /\ k >= 1 /\ k + L - 1 <= Len(line) /\ j <= k + L - 1
      BY <1>0, <2>2, <2>3, <2>5, <2>6
    <2>8. ASSUME NEW i \in 1 .. L PROVE line[k + i - 1] = SourceUrl[i]
      <3>1. k + i - 1 \in 1 .. Len(line) /\ b + (k + i - 1) = m + i - 1
        BY <1>0, <2>3, <2>7
      <3>2. line[k + i - 1] = text[b + (k + i - 1)]
        BY <3>1
      <3> QED
        BY <2>3, <3>1, <3>2
    <2> HIDE DEF k
    <2>9. Occurs(line, k)
      BY <2>7, <2>8, OccursAt
    <2> QED
      BY <2>7, <2>9
  <1>3. ASSUME NEW k \in 1 .. Len(line), NEW m \in 1 .. Len(line),
               Occurs(line, k), Occurs(line, m), k < m
        PROVE  k + L <= m
    <2>1. Occurs(text, b + k) /\ Occurs(text, b + m)
      BY <1>1, <1>3
    <2>2. b + k \in 1 .. Len(text) /\ b + m \in 1 .. Len(text) /\ b + k < b + m
      BY <1>0, <1>3
    <2>3. (b + k) + L <= b + m
      BY <2>1, <2>2 DEF Covered
    <2> QED
      BY <1>0, <2>3
  <1> QED
    BY <1>2, <1>3 DEF Covered

LEMMA ConcatenationFree ==
    ASSUME NEW sign, NEW s \in Seq(Letters), NEW t \in Seq(Letters),
           \A i \in 1 .. Len(s) : s[i] # sign, \A i \in 1 .. Len(t) : t[i] # sign
    PROVE  \A i \in 1 .. Len(s \o t) : (s \o t)[i] # sign
  <1> SUFFICES ASSUME NEW i \in 1 .. Len(s \o t) PROVE (s \o t)[i] # sign
    OBVIOUS
  <1>1. Len(s) \in Nat /\ Len(t) \in Nat /\ i \in 1 .. Len(s) + Len(t)
    OBVIOUS
  <1>2. CASE i <= Len(s)
    <2>1. (s \o t)[i] = s[i] /\ i \in 1 .. Len(s)
      BY <1>1, <1>2
    <2> QED
      BY <2>1
  <1>3. CASE i > Len(s)
    <2>1. (s \o t)[i] = t[i - Len(s)] /\ i - Len(s) \in 1 .. Len(t)
      BY <1>1, <1>3
    <2> QED
      BY <2>1
  <1> QED
    BY <1>1, <1>2, <1>3

\* From left to right, every URL of a line gives way: where the rest of a line is not
\* inside of one, nothing of the rest is left of the letter.
LEMMA RedactedApart ==
    ASSUME NEW sign, NEW line \in Seq(Bytes), Covered(line, sign),
           \A k \in 1 .. Len(gw_redact_url(SourceUrl)) : gw_redact_url(SourceUrl)[k] # sign
    PROVE  \A i \in 1 .. Len(redact_source_url(line)) : redact_source_url(line)[i] # sign
  <1> DEFINE L == Len(SourceUrl)
             stars == gw_redact_url(SourceUrl)
             redacted == CHOOSE f : f = [n \in 0 .. Len(line) |->
              IF n = 0 THEN <<>>
              ELSE IF Match(line, n) THEN gw_redact_url(SourceUrl) \o f[n - Len(SourceUrl)]
              ELSE <<line[Len(line) - n + 1]>> \o f[n - 1]]
             At(n) == Len(line) - n + 1
             Free(s) == \A i \in 1 .. Len(s) : s[i] # sign
             Outside(n) == \A k \in 1 .. Len(line) : k < At(n) /\ Occurs(line, k) => k + L - 1 < At(n)
             P == {n \in Nat : redacted[n] \in Seq(Letters) /\ (Outside(n) => Free(redacted[n]))}
  <1>1. redact_source_url(line) = redacted[Len(line)]
    BY DEF redact_source_url
  <1>2. /\ redacted[0] = <<>>
        /\ \A n \in 1 .. Len(line) : redacted[n] =
             IF Match(line, n) THEN gw_redact_url(SourceUrl) \o redacted[n - Len(SourceUrl)]
             ELSE <<line[Len(line) - n + 1]>> \o redacted[n - 1]
    BY RedactDefined
  <1> HIDE DEF redacted
  <1>3. /\ L \in Nat /\ L >= 1 /\ Len(line) \in Nat /\ Len(line) \in 0 .. Len(line)
        /\ stars \in Seq(Letters) /\ line \in Seq(Letters) /\ Free(stars)
    BY OutputAssumption, RedactedUrl, BytesAreLetters
  <1>4. ASSUME NEW n \in 1 .. Len(line) PROVE Match(line, n) <=> Occurs(line, At(n))
    <2>1. At(n) + L - 1 = Len(line) - n + L /\ (L <= n <=> At(n) + L - 1 <= Len(line))
      BY <1>3
    <2> QED
      BY <2>1 DEF Match, Occurs
  <1> HIDE DEF stars, L
  <1>5. ASSUME NEW n \in 0 .. Len(line), \A j \in 0 .. n - 1 : j \in P PROVE n \in P
    <2>0. n \in Nat
      OBVIOUS
    <2>1. CASE n = 0
      <3>1. redacted[0] \in Seq(Letters) /\ Free(redacted[0])
        BY <1>2
      <3> HIDE DEF Free
      <3> QED
        BY <2>1, <3>1
    <2>2. CASE n # 0 /\ Match(line, n)
      <3> DEFINE m == n - L
      <3>1. m \in 0 .. n - 1 /\ n \in 1 .. Len(line) /\ m \in Nat /\ At(n) \in 1 .. Len(line)
        BY <1>3, <2>2 DEF Match, L
      <3>2. redacted[m] \in Seq(Letters) /\ (Outside(m) => Free(redacted[m]))
        BY <1>5, <3>1
      <3>3. redacted[n] = stars \o redacted[m]
        BY <1>2, <2>2, <3>1 DEF stars, L
      <3>4. ASSUME Outside(n) PROVE Outside(m)
        <4> SUFFICES ASSUME NEW k \in 1 .. Len(line), k < At(m), Occurs(line, k)
                     PROVE  k + L - 1 < At(m)
          OBVIOUS
        <4>1. At(m) = At(n) + L
          BY <1>3, <3>1
        <4>2. CASE k < At(n)
          <5>1. k + L - 1 < At(n)
            BY <3>4, <4>2
          <5> QED
            BY <1>3, <3>1, <4>1, <5>1
        <4>3. CASE k = At(n)
          BY <1>3, <3>1, <4>1, <4>3
        <4>4. CASE k > At(n)
          <5>1. At(n) + L <= k
            <6>1. Occurs(line, At(n))
              BY <1>4, <2>2, <3>1
            <6> HIDE DEF At
            <6> QED
              BY <3>1, <4>4, <6>1 DEF Covered, L
          <5> QED
            BY <1>3, <3>1, <4>1, <5>1
        <4> QED
          BY <1>3, <3>1, <4>2, <4>3, <4>4
      <3>5. redacted[n] \in Seq(Letters)
        BY <1>3, <3>2, <3>3, Concatenation
      <3>6. ASSUME Outside(n) PROVE Free(redacted[n])
        <4>1. Free(redacted[m])
          BY <3>2, <3>4, <3>6
        <4> QED
          BY <1>3, <3>2, <3>3, <4>1, ConcatenationFree
      <3> HIDE DEF Outside, Free
      <3> QED
        BY <2>0, <3>5, <3>6
    <2>3. CASE n # 0 /\ ~ Match(line, n)
      <3> DEFINE byte == line[At(n)]
      <3>1. /\ n - 1 \in 0 .. n - 1 /\ n \in 1 .. Len(line) /\ n - 1 \in Nat
            /\ At(n) \in 1 .. Len(line) /\ At(n - 1) = At(n) + 1
        BY <1>3, <2>3
      <3>2. redacted[n - 1] \in Seq(Letters) /\ (Outside(n - 1) => Free(redacted[n - 1]))
        BY <1>5, <3>1
      <3>3. redacted[n] = <<byte>> \o redacted[n - 1]
        BY <1>2, <2>3, <3>1
      <3>4. <<byte>> \in Seq(Letters)
        <4>1. byte \in Letters
          BY <1>3, <3>1
        <4> HIDE DEF byte
        <4> QED
          BY <4>1
      <3>5. ~ Occurs(line, At(n))
        BY <1>4, <2>3, <3>1
      <3>6. ASSUME Outside(n) PROVE Outside(n - 1)
        <4> SUFFICES ASSUME NEW k \in 1 .. Len(line), k < At(n - 1), Occurs(line, k)
                     PROVE  k + L - 1 < At(n - 1)
          OBVIOUS
        <4>1. k < At(n)
          <5>1. k # At(n)
            BY <3>5
          <5> QED
            BY <3>1, <5>1
        <4>2. k + L - 1 < At(n)
          BY <3>6, <4>1
        <4> QED
          BY <1>3, <3>1, <4>2
      <3>7. ASSUME Outside(n) PROVE byte # sign
        <4> SUFFICES ASSUME byte = sign PROVE FALSE
          OBVIOUS
        <4>1. PICK k \in 1 .. At(n) : Occurs(line, k) /\ At(n) <= k + L - 1
          <5> HIDE DEF At
          <5> QED
            BY <3>1 DEF Covered, L
        <4>2. k < At(n)
          <5>1. k # At(n)
            BY <3>5, <4>1
          <5> QED
            BY <3>1, <5>1
        <4>3. k + L - 1 < At(n)
          <5>1. k \in 1 .. Len(line)
            BY <1>3, <3>1
          <5> QED
            BY <3>7, <4>1, <4>2, <5>1
        <4> QED
          BY <1>3, <3>1, <4>1, <4>3
      <3>8. redacted[n] \in Seq(Letters)
        BY <3>2, <3>3, <3>4, Concatenation
      <3>9. ASSUME Outside(n) PROVE Free(redacted[n])
        <4>1. Free(redacted[n - 1])
          BY <3>2, <3>6, <3>9
        <4>2. Free(<<byte>>)
          <5>1. Len(<<byte>>) = 1 /\ <<byte>>[1] = byte
            BY Single
          <5>2. \A i \in 1 .. 1 : i = 1
            OBVIOUS
          <5> HIDE DEF byte
          <5> QED
            BY <3>7, <3>9, <5>1, <5>2
        <4> HIDE DEF byte
        <4> QED
          BY <3>2, <3>3, <3>4, <4>1, <4>2, ConcatenationFree
      <3> HIDE DEF Outside, Free
      <3> QED
        BY <2>0, <3>8, <3>9
    <2> QED
      BY <2>1, <2>2, <2>3
  <1>6. Len(line) \in P
    <2> HIDE DEF P
    <2> QED
      BY <1>3, <1>5, StrongInduction
  <1>7. Outside(Len(line))
    <2>1. At(Len(line)) = 1
      BY <1>3
    <2> QED
      BY <1>3, <2>1
  <1>8. Free(redacted[Len(line)])
    <2> HIDE DEF Outside, Free
    <2> QED
      BY <1>6, <1>7
  <1> QED
    BY <1>1, <1>8

\* What lacks a letter of the password lacks the password.
LEMMA NotAPart ==
    ASSUME NEW logged \in Seq(Letters), NEW secret \in Seq(Bytes), NEW i \in 1 .. Len(secret),
           \A k \in 1 .. Len(logged) : logged[k] # secret[i]
    PROVE  ~ HasPart(logged, secret)
  <1> SUFFICES ASSUME HasPart(logged, secret) PROVE FALSE
    OBVIOUS
  <1>1. PICK k \in 1 .. Len(logged) - Len(secret) + 1 :
           SubSeq(logged, k, k + Len(secret) - 1) = secret
    BY DEF HasPart
  <1>2. Len(secret) \in Nat /\ Len(secret) >= 1 /\ Len(logged) \in Nat
    OBVIOUS
  <1>3. /\ k \in 1 .. Len(logged) + 1 /\ k + Len(secret) - 1 \in 0 .. Len(logged)
        /\ k <= k + Len(secret) - 1 + 1
    BY <1>2
  <1>4. k + Len(secret) - 1 - k + 1 = Len(secret) /\ k + i - 1 \in 1 .. Len(logged)
    BY <1>2, <1>3
  <1>5. SubSeq(logged, k, k + Len(secret) - 1)[i] = logged[k + i - 1]
    BY <1>3, <1>4, Part
  <1>6. secret[i] = logged[k + i - 1]
    BY <1>1, <1>5
  <1> QED
    BY <1>4, <1>6

LEMMA LoggedFree ==
    ASSUME NEW sign, NEW text \in Seq(Bytes), Covered(text, sign), sign # Omitted[1],
           \A k \in 1 .. Len(gw_redact_url(SourceUrl)) : gw_redact_url(SourceUrl)[k] # sign
    PROVE  \A k \in 1 .. Len(emit_stderr_line(text)) : emit_stderr_line(text)[k] # sign
  <1> DEFINE logged == emit_stderr_line(text)
  <1>1. logged = Omitted \/ logged = redact_source_url(text)
    BY DEF emit_stderr_line
  <1> HIDE DEF logged
  <1>2. CASE logged = redact_source_url(text)
    <2>1. \A k \in 1 .. Len(redact_source_url(text)) : redact_source_url(text)[k] # sign
      BY RedactedApart
    <2> QED
      BY <1>2, <2>1 DEF logged
  <1>3. CASE logged = Omitted
    <2>1. Len(Omitted) = 1
      BY Single DEF Omitted
    <2>2. \A k \in 1 .. 1 : k = 1
      OBVIOUS
    <2>3. \A k \in 1 .. Len(logged) : logged[k] # sign
      BY <1>3, <2>1, <2>2
    <2> QED
      BY <2>3 DEF logged
  <1> QED
    BY <1>1, <1>2, <1>3

LEMMA LoggedVerbatim ==
    ASSUME NEW text \in Seq(Bytes), NEW length \in Nat, Len(text) <= length,
           ~ (length >= STDERR_LINE_CAP), ~ HasPart(text, SourceUrl), ~ UrlOverflows
    PROVE  emit_stderr_line(text) = text
  <1>1. redact_source_url(text) = text
    BY Redaction
  <1>2. STDERR_LINE_CAP \in Nat
    BY OutputAssumption
  <1>3. Len(text) \in Nat
    BY LengthIsNatural
  <1>4. ~ (Len(text) >= STDERR_LINE_CAP)
    BY <1>2, <1>3
  <1> QED
    BY <1>1, <1>4 DEF emit_stderr_line

\* A line without its return has no other parts.
LEMMA StrippedPart ==
    ASSUME NEW line \in Seq(Bytes), HasPart(WithoutCR(line), SourceUrl)
    PROVE  HasPart(line, SourceUrl)
  <1> DEFINE L == Len(SourceUrl)
             short == WithoutCR(line)
  <1>0. L \in Nat /\ L >= 1 /\ SourceUrl \in Seq(Bytes)
    BY OutputAssumption
  <1>1. /\ short \in Seq(Bytes) /\ Len(short) <= Len(line)
        /\ \A i \in 1 .. Len(short) : short[i] = line[i]
    BY Stripped
  <1> HIDE DEF short
  <1>2. PICK k \in 1 .. Len(short) - L + 1 : SubSeq(short, k, k + L - 1) = SourceUrl
    BY DEF HasPart, short
  <1>3. /\ k \in Nat /\ k >= 1 /\ k + L - 1 <= Len(short) /\ k + L - 1 <= Len(line)
        /\ k \in 1 .. Len(line) - L + 1
    BY <1>0, <1>1
  <1>4. Occurs(short, k)
    BY <1>2, <1>3 DEF Occurs
  <1>5. \A i \in 1 .. L : short[k + i - 1] = SourceUrl[i]
    BY <1>1, <1>3, <1>4, OccursAt
  <1>6. ASSUME NEW i \in 1 .. L PROVE line[k + i - 1] = SourceUrl[i]
    <2>1. k + i - 1 \in 1 .. Len(short)
      BY <1>0, <1>1, <1>3
    <2> QED
      BY <1>1, <1>5, <2>1
  <1>7. Occurs(line, k)
    BY <1>3, <1>6, OccursAt
  <1> QED
    BY <1>3, <1>7 DEF HasPart, Occurs

\* Where the line at byte k begins.
LEMMA LineBegins ==
    ASSUME NEW text \in Seq(Bytes), NEW k \in 0 .. Len(text)
    PROVE  \E b \in 0 .. k : /\ b = 0 \/ text[b] = "\n"
                             /\ Len(LineUpTo(text, k)) = k - b
                             /\ \A j \in 1 .. k - b : LineUpTo(text, k)[j] = text[b + j]
  <1> DEFINE S == {0} \cup Ends(text, k)
  <1>0. k \in Nat /\ Ends(text, k) \subseteq 1 .. k
    BY LineFacts
  <1>1. k \in Nat /\ S \subseteq 0 .. k /\ S # {}
    BY <1>0
  <1>2. Max(S) \in S
    <2> HIDE DEF S
    <2> QED
      BY <1>1, Largest
  <1>3. PICK b \in 0 .. k : b = Max(S)
    BY <1>1, <1>2
  <1>4. b = 0 \/ text[b] = "\n"
    BY <1>2, <1>3 DEF Ends
  <1>5. LineUpTo(text, k) = SubSeq(text, b + 1, k)
    BY <1>3 DEF LineUpTo
  <1> HIDE DEF S
  <1>6. b + 1 \in 1 .. Len(text) + 1 /\ k \in 0 .. Len(text) /\ b + 1 <= k + 1
        /\ k - (b + 1) + 1 = k - b /\ \A j \in 1 .. k - b : b + 1 + j - 1 = b + j
    BY <1>1
  <1>7. /\ Len(SubSeq(text, b + 1, k)) = k - b
        /\ \A j \in 1 .. k - b : SubSeq(text, b + 1, k)[j] = text[b + j]
    BY <1>6, Part
  <1> QED
    BY <1>4, <1>5, <1>7

\* Whatever a worker writes and wherever the reads end: the latest record is that of the
\* lines read, a line too long is one error or one remark, and every other line is logged
\* once in its place, redacted, or as a remark when redaction has no room.
THEOREM LinesCorrect == OutputSpec => []LinesAsWritten
  BY OutputInvariant, InvariantReads, PTL

\* The line at a place of the text is logged as ReadsAsWritten says.
LEMMA LineLogged ==
    ASSUME SecretApart, NEW text \in Seq(Bytes), text \in Outputs["stderr"],
           NEW line \in Seq(Bytes), NEW short \in Seq(Bytes), NEW b \in Nat, NEW c \in Nat,
           c <= Len(text), b = 0 \/ text[b] = "\n", c = Len(text) \/ text[c + 1] \in {"\n", "\r"},
           Len(short) = c - b, \A j \in 1 .. Len(short) : short[j] = text[b + j],
           Len(short) <= Len(line), HasPart(short, SourceUrl) => HasPart(line, SourceUrl)
    PROVE  LoggedAs(line, short, LogOf(line, short))
  <1>1. CASE Len(line) >= STDERR_LINE_CAP
    BY <1>1 DEF LoggedAs, LogOf
  <1>2. CASE ~ (Len(line) >= STDERR_LINE_CAP)
    <2>1. LogOf(line, short) = emit_stderr_line(short)
      BY <1>2 DEF LogOf
    <2>2. ~ HasPart(emit_stderr_line(short), Password)
      <3>1. PICK i \in 1 .. Len(Password) :
              /\ \A k \in 1 .. Len(gw_redact_url(SourceUrl)) :
                    gw_redact_url(SourceUrl)[k] # Password[i]
              /\ Password[i] # Omitted[1]
              /\ \A t \in Outputs["stderr"] : Covered(t, Password[i])
        BY DEF SecretApart
      <3>2. /\ \A j \in 1 .. Len(SourceUrl) : SourceUrl[j] \notin {"\n", "\r"}
            /\ Password \in Seq(Bytes)
        BY DEF SecretApart
      <3>3. PICK sign : sign = Password[i]
        OBVIOUS
      <3>4. Covered(text, sign)
        BY <3>1, <3>3
      <3>5. Covered(short, sign)
        BY <3>2, <3>4, LineCovered
      <3>6. \A k \in 1 .. Len(emit_stderr_line(short)) : emit_stderr_line(short)[k] # sign
        BY <3>1, <3>3, <3>5, LoggedFree
      <3>7. emit_stderr_line(short) \in Seq(Letters)
        BY EmittedLetters
      <3>8. \A k \in 1 .. Len(emit_stderr_line(short)) : emit_stderr_line(short)[k] # Password[i]
        BY <3>3, <3>6
      <3> QED
        BY <3>2, <3>7, <3>8, NotAPart
    <2>3. ~ UrlOverflows /\ ~ HasPart(line, SourceUrl) => emit_stderr_line(short) = short
      <3>1. Len(line) \in Nat
        OBVIOUS
      <3> QED
        BY <1>2, <3>1, LoggedVerbatim
    <2>4. UrlOverflows => emit_stderr_line(short) = Omitted
      BY DEF emit_stderr_line
    <2> QED
      BY <1>2, <2>1, <2>2, <2>3, <2>4 DEF LoggedAs
  <1> QED
    BY <1>1, <1>2

\* Where a letter of the password is in the worker's output only as part of the URL, the
\* password is not logged either, and a line without the URL is logged as it is unless
\* the redacted URL does not fit its buffer.
THEOREM ReadsCorrect == SecretApart => (OutputSpec => []ReadsAsWritten)
  <1>1. ASSUME SecretApart, OutputInv PROVE ReadsAsWritten
    <2>0. /\ written \in Seq(Bytes) /\ taken \in 0 .. Len(written) /\ stream \in {"stdout", "stderr"}
          /\ written \in Outputs[stream] /\ LinesAsWritten /\ Len(written) \in Nat
          /\ closed => taken = Len(written)
      BY <1>1, InvariantReads DEF OutputInv
    <2>1. CASE stream = "stdout"
      BY <2>0, <2>1 DEF LinesAsWritten, ReadsAsWritten
    <2>2. CASE stream = "stderr"
      <3> DEFINE rest == LineUpTo(written, taken)
      <3>1. ASSUME NEW e \in Ends(written, taken)
            PROVE  LoggedAs(LineUpTo(written, e - 1), WithoutCR(LineUpTo(written, e - 1)),
                            LogOf(LineUpTo(written, e - 1), WithoutCR(LineUpTo(written, e - 1))))
        <4> DEFINE line == LineUpTo(written, e - 1)
                   short == WithoutCR(line)
        <4>1. e \in 1 .. Len(written) /\ written[e] = "\n" /\ e - 1 \in 0 .. Len(written)
          BY <2>0 DEF Ends
        <4>2. line \in Seq(Bytes) /\ Len(line) \in Nat
          BY <2>0, <4>1, LineFacts
        <4>3. PICK b \in 0 .. e - 1 :
                 /\ b = 0 \/ written[b] = "\n"
                 /\ Len(line) = (e - 1) - b
                 /\ \A j \in 1 .. (e - 1) - b : line[j] = written[b + j]
          BY <2>0, <4>1, LineBegins
        <4> HIDE DEF line
        <4>4. /\ short \in Seq(Bytes) /\ Len(short) <= Len(line) /\ Len(short) \in Nat
              /\ \A j \in 1 .. Len(short) : short[j] = line[j]
          BY <4>2, Stripped
        <4>5. HasPart(short, SourceUrl) => HasPart(line, SourceUrl)
          BY <4>2, StrippedPart
        <4>6. PICK c \in Nat : /\ c <= Len(written) /\ Len(short) = c - b
                               /\ written[c + 1] \in {"\n", "\r"}
          <5>1. CASE short = line
            <6>1. e - 1 \in Nat /\ (e - 1) + 1 = e /\ e - 1 <= Len(written)
              BY <4>1
            <6> QED
              BY <4>1, <4>3, <5>1, <6>1
          <5>2. CASE short # line
            <6>1. line # <<>> /\ line[Len(line)] = "\r" /\ short = SubSeq(line, 1, Len(line) - 1)
              BY <5>2 DEF WithoutCR, Last, Front
            <6>2. Len(line) >= 1
              BY <4>2, <6>1
            <6>3. /\ 1 \in 1 .. Len(line) + 1 /\ Len(line) - 1 \in 0 .. Len(line)
                  /\ 1 <= Len(line) - 1 + 1 /\ Len(line) - 1 - 1 + 1 = Len(line) - 1
              BY <4>2, <6>2
            <6>4. Len(short) = Len(line) - 1
              BY <4>2, <6>1, <6>3, Part
            <6>5. /\ e - 2 \in Nat /\ e - 2 <= Len(written) /\ (e - 2) - b = Len(line) - 1
                  /\ b + Len(line) = (e - 2) + 1 /\ Len(line) \in 1 .. (e - 1) - b
              BY <4>1, <4>2, <4>3, <6>2
            <6>6. written[(e - 2) + 1] = "\r"
              BY <4>3, <6>1, <6>5
            <6> QED
              BY <6>4, <6>5, <6>6
          <5> QED
            BY <5>1, <5>2
        <4> HIDE DEF short
        <4>7. \A j \in 1 .. Len(short) : short[j] = written[b + j]
          <5>1. ASSUME NEW j \in 1 .. Len(short) PROVE j \in 1 .. (e - 1) - b
            BY <4>1, <4>2, <4>3, <4>4
          <5> QED
            BY <4>3, <4>4, <5>1
        <4>8. b \in Nat
          BY <4>1
        <4>9. LoggedAs(line, short, LogOf(line, short))
          BY <1>1, <2>0, <2>2, <4>2, <4>3, <4>4, <4>5, <4>6, <4>7, <4>8, LineLogged
        <4> QED
          BY <4>9 DEF line, short
      <3>2. ASSUME closed PROVE LoggedAs(rest, rest, LogOf(rest, rest))
        <4>1. taken = Len(written) /\ taken \in Nat
          BY <2>0, <3>2
        <4>2. rest \in Seq(Bytes)
          BY <2>0, LineFacts
        <4>3. PICK b \in 0 .. taken :
                 /\ b = 0 \/ written[b] = "\n"
                 /\ Len(rest) = taken - b
                 /\ \A j \in 1 .. taken - b : rest[j] = written[b + j]
          BY <2>0, LineBegins
        <4> HIDE DEF rest
        <4>4. b \in Nat /\ Len(rest) <= Len(rest) /\ taken <= Len(written)
              /\ \A j \in 1 .. Len(rest) : rest[j] = written[b + j]
          BY <2>0, <4>1, <4>3
        <4> QED
          BY <1>1, <2>0, <2>2, <4>1, <4>2, <4>3, <4>4, LineLogged
      <3> QED
        BY <2>0, <2>2, <3>1, <3>2 DEF LinesAsWritten, ReadsAsWritten
    <2> QED
      BY <2>0, <2>1, <2>2
  <1>2. SecretApart /\ OutputInv => ReadsAsWritten
    BY <1>1
  <1>3. SecretApart => []SecretApart
    OBVIOUS
  <1> QED
    BY <1>2, <1>3, OutputInvariant, PTL
=============================================================================
