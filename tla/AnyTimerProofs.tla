--------------------------- MODULE AnyTimerProofs ---------------------------
(***************************************************************************)
(* The threaded timer library is memory safe, calls func once or never and *)
(* calls it in time, for any table size, any number of threads, blocks and *)
(* seconds.                                                                *)
(*                                                                         *)
(* The inductive invariant says who may reach a block at each point where  *)
(* no lock is held: the handler in a callback (its timer is executing and  *)
(* cannot leave the table), the one thread that waits for it, and, once    *)
(* that thread has cleared the slot, nobody else.                          *)
(***************************************************************************)
EXTENDS AnyTimer, WellFoundedInduction, TLAPS

\* mut_job is kept through a pass and free outside it.
Lock == mut_job = "handler" <=> handler.at = "scan"

\* The timer whose callback runs, and no other, is executing, and is in its slot.
Calling ==
    /\ handler.at = "callback" =>
          /\ handler.i \in Slots /\ handler.me \in Blocks
          /\ job[handler.i] = handler.me /\ heap[handler.me].flag = "executing"
    /\ \A b \in Blocks : heap[b].flag = "executing" =>
          handler.at = "callback" /\ handler.me = b

Table ==
    /\ \A s \in Slots : job[s] # NULL => heap[job[s]].flag # "freed"
    /\ \A s, t \in Slots : s # t /\ job[s] # NULL => job[s] # job[t]
    /\ \A b \in Blocks : heap[b].flag # "freed" =>
          \/ \E s \in Slots : job[s] = b
          \/ \E c \in Clients : call[c].at = "free" /\ call[c].me = b

\* A thread in at_waittimer names the timer in the slot, until it has cleared the
\* slot; by then the timer has ended.
Waits ==
    \A c \in Clients :
       /\ call[c].at # "idle" => call[c].me \in Blocks
       /\ call[c].at \in {"waiting", "woken", "clear"} => call[c].me = job[call[c].id]
       /\ call[c].at = "free" => \A s \in Slots : job[s] # call[c].me
       /\ call[c].at \in {"clear", "free"} => heap[call[c].me].flag \in {"over", "canceled"}

\* No two threads wait for one timer.
Apart ==
    \A c, d \in Clients :
       c # d /\ call[c].at # "idle" /\ call[d].at # "idle" =>
          call[c].id # call[d].id /\ call[c].me # call[d].me

Exit ==
    /\ exiting # "no" => \A c \in Clients : call[c].at = "idle"
    /\ handler.at = "canceled" => exiting # "no"
    /\ exiting = "done" => handler.at = "canceled" /\ \A s \in Slots : job[s] = NULL

\* Will slot s be counted down before the handler sleeps again?
Ahead(s) ==
    \/ handler.at = "woken"
    \/ handler.at = "scan" /\ s >= handler.i
    \/ handler.at = "callback" /\ s > handler.i

\* The seconds counted down and the sleeps since the timer was added differ by at
\* most one, which way depends on the pass.
Running(timer, ahead) ==
    /\ timer.sec >= 0 /\ (timer.sec = 0 => timer.asked = 0)
    /\ IF ahead THEN timer.sec + timer.age \in {timer.asked, timer.asked + 1}
       ELSE timer.sec + timer.age \in {timer.asked, timer.asked - 1}

Latest(timer) == IF timer.asked = 0 THEN 1 ELSE timer.asked

Timing ==
    /\ \A s \in Slots : job[s] # NULL /\ heap[job[s]].flag = "running" =>
          Running(heap[job[s]], Ahead(s))
    /\ \A b \in Blocks :
          /\ heap[b].flag = "executing" =>
                heap[b].age <= Latest(heap[b]) /\ heap[b].age >= heap[b].asked - 1
          /\ heap[b].flag \in {"over", "canceled"} => heap[b].asked = 0 /\ heap[b].age = 0

IInv ==
    TypeOK /\ Lock /\ Calling /\ Table /\ Waits /\ Apart /\ Exit /\ Timing /\ CalledOrCanceled

-----------------------------------------------------------------------------
\* get_free_pos_unlocked finds an empty slot when there is one.
LEMMA FreePosition ==
    ASSUME TypeOK, FreeSlots # {}
    PROVE  get_free_pos_unlocked \in FreeSlots
  <1> DEFINE less == OpToRel(<, Nat)
  <1>1. \A x, y \in Nat : x < y => <<x, y>> \in less
    BY DEF OpToRel
  <1>2. IsWellFoundedOn(less, Nat)
    BY NatLessThanWellFounded
  <1>3. FreeSlots \subseteq Nat
    BY TimerAssumption DEF FreeSlots, Slots
  <1> HIDE DEF less
  <1>4. PICK s \in FreeSlots : \A t \in FreeSlots : ~ (<<t, s>> \in less)
    BY <1>2, <1>3, WFMin
  <1>5. \A t \in FreeSlots : s <= t
    <2> SUFFICES ASSUME NEW t \in FreeSlots PROVE s <= t
      OBVIOUS
    <2>1. s \in Nat /\ t \in Nat
      BY <1>3
    <2>2. ~ (t < s)
      BY <1>1, <1>4, <2>1
    <2> QED
      BY <2>1, <2>2
  <1> QED
    BY <1>5 DEF get_free_pos_unlocked

LEMMA InitKeeps == Init => IInv
  <1> SUFFICES ASSUME Init PROVE IInv
    OBVIOUS
  <1> USE TimerAssumption DEF Init
  <1>1. TypeOK
    BY DEF TypeOK, Timers, Freed, Idle, Slots
  <1>2. Lock /\ Calling /\ Table /\ Waits /\ Apart /\ Exit
    BY DEF Lock, Calling, Table, Waits, Apart, Exit, Freed, Idle
  <1>3. Timing /\ CalledOrCanceled
    BY DEF Timing, CalledOrCanceled, Allocated, Freed
  <1> QED
    BY <1>1, <1>2, <1>3 DEF IInv

-----------------------------------------------------------------------------
\* thr_handler.

\* Between two passes the handler looks at nothing.
LEMMA HandlerMovesKeeps ==
    ASSUME IInv, PassBegins \/ PassEnds \/ Canceled
    PROVE  IInv'
  <1> USE DEF IInv
  <1>1. /\ UNCHANGED <<job, heap, call, exiting>>
        /\ handler.at \in {"woken", "scan", "asleep"}
        /\ handler'.at \in {"scan", "asleep", "canceled"}
        /\ handler' \in [at : {"asleep", "woken", "scan", "callback", "canceled"},
                         i : 1 .. JOB_MAX + 1, me : Blocks \cup {NULL}]
        /\ mut_job' \in {"free", "handler"}
        /\ mut_job' = "handler" <=> handler'.at = "scan"
        /\ handler'.at = "canceled" => exiting # "no"
        /\ handler.at # "canceled"
    <2>1. CASE PassBegins
      <3>1. 1 \in 1 .. JOB_MAX + 1
        BY TimerAssumption
      <3> QED
        BY <2>1, <3>1 DEF PassBegins, TypeOK, Lock
    <2>2. CASE PassEnds
      BY <2>2 DEF PassEnds, TypeOK, Lock
    <2>3. CASE Canceled
      BY <2>3 DEF Canceled, TypeOK, Lock
    <2> QED
      BY <2>1, <2>2, <2>3
  <1>2. \A s \in Slots : Ahead(s)' <=> Ahead(s)
    <2> SUFFICES ASSUME NEW s \in Slots PROVE Ahead(s)' <=> Ahead(s)
      OBVIOUS
    <2>1. s \in 1 .. JOB_MAX /\ JOB_MAX \in Nat /\ handler.i \in Nat
      BY TimerAssumption DEF Slots, TypeOK
    <2>2. CASE PassBegins
      BY <2>1, <2>2 DEF PassBegins, Ahead, TypeOK
    <2>3. CASE PassEnds
      BY <2>1, <2>3 DEF PassEnds, Ahead, TypeOK
    <2>4. CASE Canceled
      BY <2>1, <2>4 DEF Canceled, Ahead, TypeOK
    <2> QED
      BY <2>2, <2>3, <2>4
  <1>3. TypeOK' /\ Lock'
    BY <1>1 DEF TypeOK, Lock
  <1>4. Calling'
    BY <1>1 DEF Calling
  <1>5. Table' /\ Waits' /\ Apart'
    BY <1>1 DEF Table, Waits, Apart
  <1>6. Exit'
    BY <1>1 DEF Exit
  <1>7. Timing'
    <2>1. \A timer, a, b : (a <=> b) => (Running(timer, a) <=> Running(timer, b))
      BY DEF Running
    <2> QED
      BY <1>1, <1>2, <2>1 DEF Timing
  <1>8. CalledOrCanceled'
    BY <1>1 DEF CalledOrCanceled, Allocated
  <1> QED
    BY <1>3, <1>4, <1>5, <1>6, <1>7, <1>8

\* The seconds of a timer that runs.
LEMMA RunningBounds ==
    ASSUME NEW timer \in Timers, NEW ahead \in BOOLEAN, Running(timer, ahead)
    PROVE  /\ timer.age <= Latest(timer)
           /\ ~ ahead => timer.age <= timer.asked
           /\ ahead /\ timer.sec - 1 <= 0 => timer.age >= timer.asked - 1
  <1>1. timer.sec \in Int /\ timer.age \in Nat /\ timer.asked \in Nat
    BY TimerAssumption DEF Timers
  <1>2. CASE ahead
    BY <1>1, <1>2 DEF Running, Latest
  <1>3. CASE ~ ahead
    BY <1>1, <1>3 DEF Running, Latest
  <1> QED
    BY <1>2, <1>3

LEMMA SleepEndsKeeps ==
    ASSUME IInv, SleepEnds
    PROVE  IInv'
  <1> USE DEF IInv
  <1>1. /\ UNCHANGED <<job, mut_job, call, exiting>>
        /\ handler.at = "asleep" /\ handler'.at = "woken" /\ exiting = "no"
        /\ handler' \in [at : {"asleep", "woken", "scan", "callback", "canceled"},
                         i : 1 .. JOB_MAX + 1, me : Blocks \cup {NULL}]
    BY DEF SleepEnds, TypeOK
  <1>2. ASSUME NEW b \in Blocks, heap[b].flag = "running"
        PROVE  Running(heap[b], FALSE)
    <2>1. PICK s \in Slots : job[s] = b
      BY <1>2 DEF Table, Waits
    <2>2. Running(heap[b], Ahead(s))
      BY <1>2, <2>1, TimerAssumption DEF Timing
    <2> QED
      BY <1>1, <2>2 DEF Ahead
  <1>3. ASSUME NEW b \in Blocks
        PROVE  /\ heap'[b] \in Timers
               /\ heap'[b].flag = heap[b].flag /\ heap'[b].calls = heap[b].calls
               /\ heap[b].flag # "running" => heap'[b] = heap[b]
               /\ heap[b].flag = "running" => Running(heap'[b], TRUE)
    <2>1. heap[b] \in Timers /\ heap[b].sec \in Int /\ heap[b].age \in Nat
          /\ heap[b].asked \in 0 .. MaxSec /\ MaxSec \in Nat
      BY TimerAssumption DEF TypeOK, Timers
    <2>2. CASE heap[b].flag # "running"
      BY <2>1, <2>2 DEF SleepEnds
    <2>3. CASE heap[b].flag = "running"
      <3>1. heap'[b] = [heap[b] EXCEPT !.age = @ + 1]
        BY <2>3 DEF SleepEnds
      <3>2. Running(heap[b], FALSE)
        BY <1>2, <2>3
      <3>3. heap[b].age + 1 \in 0 .. MaxSec + 1
        BY <2>1, <3>2 DEF Running
      <3>4. heap'[b] \in Timers /\ heap'[b].sec = heap[b].sec /\ heap'[b].age = heap[b].age + 1
            /\ heap'[b].asked = heap[b].asked /\ heap'[b].flag = heap[b].flag
            /\ heap'[b].calls = heap[b].calls
        BY <2>1, <3>1, <3>3 DEF Timers
      <3>5. Running(heap'[b], TRUE)
        BY <2>1, <3>2, <3>4 DEF Running
      <3> QED
        BY <2>3, <3>4, <3>5
    <2> QED
      BY <2>2, <2>3
  <1>4. TypeOK'
    BY <1>1, <1>3 DEF SleepEnds, TypeOK
  <1>5. Lock' /\ Exit'
    BY <1>1 DEF Lock, Exit
  <1>6. Calling'
    BY <1>1, <1>3 DEF Calling
  <1>7. Table'
    <2>1. \A s \in Slots : job[s] # NULL => job[s] \in Blocks
      BY DEF TypeOK
    <2>2. \A s \in Slots : job'[s] # NULL => heap'[job'[s]].flag # "freed"
      BY <1>1, <1>3, <2>1 DEF Table
    <2>3. \A b \in Blocks : heap'[b].flag # "freed" =>
             \/ \E s \in Slots : job[s] = b
             \/ \E c \in Clients : call[c].at = "free" /\ call[c].me = b
      BY <1>3 DEF Table
    <2> QED
      BY <1>1, <2>2, <2>3 DEF Table
  <1>8. Waits' /\ Apart'
    BY <1>1, <1>3 DEF Waits, Apart
  <1>9. Timing'
    <2>1. \A s \in Slots : Ahead(s)'
      BY <1>1 DEF Ahead
    <2>2. ASSUME NEW s \in Slots, job[s] # NULL, heap'[job[s]].flag = "running"
          PROVE  Running(heap'[job[s]], Ahead(s)')
      BY <1>3, <2>1, <2>2 DEF TypeOK, Running
    <2> QED
      BY <1>1, <1>3, <2>2 DEF Timing, TypeOK
  <1>10. CalledOrCanceled'
    BY <1>3 DEF CalledOrCanceled, Allocated
  <1> QED
    BY <1>4, <1>5, <1>6, <1>7, <1>8, <1>9, <1>10

-----------------------------------------------------------------------------
\* What a step does to the table and to the waits is clear when it only changes
\* timers in place, and wakes threads.
Wakes ==
    /\ call' \in [Clients -> [at : {"idle", "waiting", "woken", "clear", "free"},
                              id : Slots, me : Blocks \cup {NULL}]]
    /\ \A c \in Clients :
          /\ call'[c].id = call[c].id /\ call'[c].me = call[c].me
          /\ call'[c].at = call[c].at \/ (call[c].at = "waiting" /\ call'[c].at = "woken")

InPlace ==
    /\ job' = job
    /\ \A b \in Blocks :
          /\ heap'[b] \in Timers
          /\ heap'[b].flag = "freed" <=> heap[b].flag = "freed"
          /\ heap[b].flag \in {"over", "canceled"} => heap'[b] = heap[b]

LEMMA InPlaceKeeps ==
    ASSUME TypeOK, Table, Waits, Apart, Wakes, InPlace
    PROVE  Table' /\ Waits' /\ Apart'
  <1>1. \A s \in Slots : job[s] # NULL => job[s] \in Blocks
    BY DEF TypeOK
  <1>2. Table'
    <2>1. \A s \in Slots : job'[s] # NULL => heap'[job'[s]].flag # "freed"
      BY <1>1 DEF Table, InPlace
    <2>2. \A s, t \in Slots : s # t /\ job'[s] # NULL => job'[s] # job'[t]
      BY DEF Table, InPlace
    <2>3. ASSUME NEW b \in Blocks, heap'[b].flag # "freed"
          PROVE  \/ \E s \in Slots : job'[s] = b
                 \/ \E c \in Clients : call'[c].at = "free" /\ call'[c].me = b
      <3>1. \/ \E s \in Slots : job[s] = b
            \/ \E c \in Clients : call[c].at = "free" /\ call[c].me = b
        BY <2>3 DEF Table, InPlace
      <3> QED
        BY <3>1 DEF InPlace, Wakes
    <2> QED
      BY <2>1, <2>2, <2>3 DEF Table
  <1>3. Waits'
    <2> SUFFICES ASSUME NEW c \in Clients
        PROVE  /\ call'[c].at # "idle" => call'[c].me \in Blocks
               /\ call'[c].at \in {"waiting", "woken", "clear"} => call'[c].me = job'[call'[c].id]
               /\ call'[c].at = "free" => \A s \in Slots : job'[s] # call'[c].me
               /\ call'[c].at \in {"clear", "free"} =>
                     heap'[call'[c].me].flag \in {"over", "canceled"}
      BY DEF Waits
    <2> QED
      BY DEF Waits, Wakes, InPlace
  <1>4. Apart'
    BY DEF Apart, Wakes
  <1> QED
    BY <1>2, <1>3, <1>4

LEMMA BroadcastWakes ==
    ASSUME TypeOK, NEW me, call' = Broadcast(me)
    PROVE  Wakes
  BY DEF TypeOK, Broadcast, Wakes

LEMMA UnchangedWakes ==
    ASSUME TypeOK, call' = call
    PROVE  Wakes
  BY DEF TypeOK, Wakes

LEMMA VisitKeeps ==
    ASSUME IInv, Visit
    PROVE  IInv'
  <1> USE DEF IInv
  <1>1. PICK i \in Slots : handler.i = i
    BY TimerAssumption DEF Visit, TypeOK, Slots
  <1> DEFINE me == job[i]
  <1>2. /\ handler.at = "scan" /\ mut_job = "handler" /\ UNCHANGED <<job, call, exiting>>
        /\ me \in Blocks \cup {NULL} /\ i \in Nat /\ i + 1 \in 1 .. JOB_MAX + 1
        /\ exiting # "done"
    BY <1>1, TimerAssumption DEF Visit, TypeOK, Lock, Slots, Exit
  <1>3. Exit'
    BY <1>2 DEF Visit, Exit, TypeOK
  <1>4. Wakes
    BY <1>2, UnchangedWakes
  \* A slot that is passed over.
  <1>5. ASSUME handler' = [handler EXCEPT !.i = @ + 1], mut_job' = mut_job
        PROVE  /\ handler'.at = "scan" /\ Lock'
               /\ handler' \in [at : {"asleep", "woken", "scan", "callback", "canceled"},
                                i : 1 .. JOB_MAX + 1, me : Blocks \cup {NULL}]
               /\ \A s \in Slots : Ahead(s)' <=> (Ahead(s) /\ s # i)
    <2>1. /\ handler \in [at : {"asleep", "woken", "scan", "callback", "canceled"},
                          i : 1 .. JOB_MAX + 1, me : Blocks \cup {NULL}]
          /\ handler.i = i
      BY <1>1 DEF TypeOK
    <2>2. /\ handler'.at = "scan" /\ handler'.i = i + 1
          /\ handler' \in [at : {"asleep", "woken", "scan", "callback", "canceled"},
                           i : 1 .. JOB_MAX + 1, me : Blocks \cup {NULL}]
      BY <1>2, <1>5, <2>1
    <2>3. \A s \in Slots : s \in Int /\ (s >= i + 1 <=> (s >= i /\ s # i))
      BY <1>2 DEF Slots
    <2>4. ASSUME NEW s \in Slots PROVE Ahead(s)' <=> (Ahead(s) /\ s # i)
      BY <1>2, <2>1, <2>2, <2>3 DEF Ahead
    <2> QED
      BY <1>2, <1>5, <2>2, <2>4 DEF Lock
  <1>6. ASSUME me = NULL \/ heap[me].flag # "running" PROVE IInv'
    <2>1. handler' = [handler EXCEPT !.i = @ + 1] /\ UNCHANGED <<heap, mut_job>>
      BY <1>1, <1>6 DEF Visit
    <2>2. InPlace
      BY <1>2, <2>1 DEF TypeOK, InPlace
    <2>3. Table' /\ Waits' /\ Apart'
      BY <1>4, <2>2, InPlaceKeeps
    <2>4. TypeOK' /\ Lock'
      BY <1>2, <1>5, <2>1 DEF TypeOK
    <2>5. Calling'
      BY <1>2, <1>5, <2>1 DEF Calling
    <2>6. Timing'
      <3>1. ASSUME NEW s \in Slots, job[s] # NULL, heap[job[s]].flag = "running"
            PROVE  Running(heap[job[s]], Ahead(s)')
        <4>1. s # i
          BY <1>6, <3>1
        <4>2. Ahead(s)' <=> Ahead(s)
          BY <4>1, <1>5, <2>1
        <4> QED
          BY <3>1, <4>2 DEF Timing, Running
      <3> QED
        BY <1>2, <2>1, <3>1 DEF Timing
    <2>7. CalledOrCanceled'
      BY <2>1 DEF CalledOrCanceled, Allocated
    <2> QED
      BY <1>3, <2>3, <2>4, <2>5, <2>6, <2>7
  <1>7. ASSUME me \in Blocks, heap[me].flag = "running" PROVE IInv'
    <2>1. /\ heap[me] \in Timers /\ heap[me].sec \in -1 .. MaxSec /\ heap[me].age \in Nat
          /\ heap[me].asked \in Nat /\ heap[me].calls \in 0 .. 2 /\ MaxSec \in Nat
          /\ me # NULL
      BY <1>7, TimerAssumption DEF TypeOK, Timers
    <2>2. Running(heap[me], TRUE)
      <3>1. Ahead(i)
        BY <1>1, <1>2 DEF Ahead
      <3> QED
        BY <1>7, <2>1, <3>1 DEF Timing, Running
    <2>3. heap[me].calls = 0
      BY <1>7 DEF CalledOrCanceled, Allocated
    <2>4. CASE ~ Due(heap[me])
      <3>1. /\ heap' = [heap EXCEPT ![me].sec = @ - 1]
            /\ handler' = [handler EXCEPT !.i = @ + 1] /\ mut_job' = mut_job
        BY <1>1, <1>7, <2>1, <2>4 DEF Visit
      <3>2. heap[me].sec - 1 \in -1 .. MaxSec
        BY <2>1, <2>4 DEF Due
      <3>3. /\ heap'[me] \in Timers /\ heap'[me].flag = "running"
            /\ heap'[me].sec = heap[me].sec - 1 /\ heap'[me].age = heap[me].age
            /\ heap'[me].asked = heap[me].asked /\ heap'[me].calls = 0
            /\ \A b \in Blocks : b # me => heap'[b] = heap[b]
            /\ heap' \in [Blocks -> Timers]
        <4>1. [heap[me] EXCEPT !.sec = @ - 1] \in Timers
          BY <2>1, <3>2 DEF Timers
        <4> QED
          BY <1>7, <2>1, <2>3, <3>1, <4>1 DEF TypeOK, Timers
      <3>4. InPlace
        BY <1>2, <1>7, <3>3 DEF InPlace
      <3>5. Table' /\ Waits' /\ Apart'
        BY <1>4, <3>4, InPlaceKeeps
      <3>6. TypeOK' /\ Lock'
        BY <1>2, <1>5, <3>1, <3>3 DEF TypeOK
      <3>7. Calling'
        BY <1>2, <1>5, <3>1, <3>3 DEF Calling
      <3>8. Timing'
        <4>1. Running(heap'[me], FALSE)
          BY <2>1, <2>2, <2>4, <3>3 DEF Running, Due
        <4>2. ASSUME NEW s \in Slots, job[s] # NULL, heap'[job[s]].flag = "running"
              PROVE  Running(heap'[job[s]], Ahead(s)')
          <5>1. CASE s = i
            BY <1>5, <3>1, <4>1, <5>1 DEF Running
          <5>2. CASE s # i
            <6>1. job[s] \in Blocks /\ job[s] # me
              BY <4>2, <5>2 DEF TypeOK, Table
            <6>2. Ahead(s)' <=> Ahead(s)
              BY <5>2, <1>5, <3>1
            <6> QED
              BY <3>3, <4>2, <6>1, <6>2 DEF Timing, Running
          <5> QED
            BY <5>1, <5>2
        <4>3. ASSUME NEW b \in Blocks
              PROVE  /\ heap'[b].flag = "executing" =>
                          heap'[b].age <= Latest(heap'[b]) /\ heap'[b].age >= heap'[b].asked - 1
                     /\ heap'[b].flag \in {"over", "canceled"} =>
                          heap'[b].asked = 0 /\ heap'[b].age = 0
          BY <3>3 DEF Timing
        <4> QED
          BY <1>2, <4>2, <4>3 DEF Timing
      <3>9. CalledOrCanceled'
        BY <3>3 DEF CalledOrCanceled, Allocated
      <3> QED
        BY <1>3, <3>5, <3>6, <3>7, <3>8, <3>9
    <2>5. CASE Due(heap[me])
      <3>1. /\ heap' = [heap EXCEPT ![me].sec = @ - 1, ![me].flag = "executing",
                                    ![me].calls = @ + 1]
            /\ handler' = [handler EXCEPT !.at = "callback", !.me = me] /\ mut_job' = "free"
        BY <1>1, <1>7, <2>1, <2>5 DEF Visit
      <3>2. heap[me].sec - 1 \in -1 .. MaxSec
        BY <2>1, <2>2 DEF Running
      <3>3. /\ heap'[me] \in Timers /\ heap'[me].flag = "executing"
            /\ heap'[me].age = heap[me].age
            /\ heap'[me].asked = heap[me].asked /\ heap'[me].calls = 1
            /\ \A b \in Blocks : b # me => heap'[b] = heap[b]
            /\ heap' \in [Blocks -> Timers]
        <4>1. [heap[me] EXCEPT !.sec = @ - 1, !.flag = "executing", !.calls = @ + 1] \in Timers
          <5>1. heap[me].calls + 1 \in 0 .. 2
            BY <2>3
          <5> QED
            BY <2>1, <3>2, <5>1 DEF Timers
        <4>2. heap'[me] = [heap[me] EXCEPT !.sec = @ - 1, !.flag = "executing", !.calls = @ + 1]
          BY <1>7, <3>1 DEF TypeOK
        <4> QED
          BY <1>7, <2>1, <2>3, <3>1, <4>1, <4>2 DEF TypeOK, Timers
      <3>4. InPlace
        BY <1>2, <1>7, <3>3 DEF InPlace
      <3>5. Table' /\ Waits' /\ Apart'
        BY <1>4, <3>4, InPlaceKeeps
      <3>6. /\ handler'.at = "callback" /\ handler'.i = i /\ handler'.me = me
            /\ handler' \in [at : {"asleep", "woken", "scan", "callback", "canceled"},
                             i : 1 .. JOB_MAX + 1, me : Blocks \cup {NULL}]
        BY <1>1, <1>2, <3>1 DEF TypeOK
      <3>7. TypeOK' /\ Lock'
        BY <1>2, <3>1, <3>3, <3>6 DEF TypeOK, Lock
      <3>8. Calling'
        BY <1>2, <1>7, <3>3, <3>6 DEF Calling
      <3>9. Timing'
        <4>1. ASSUME NEW s \in Slots, job[s] # NULL, heap'[job[s]].flag = "running"
              PROVE  Running(heap'[job[s]], Ahead(s)')
          <5>1. s # i
            BY <3>3, <4>1
          <5>2. job[s] \in Blocks /\ job[s] # me
            BY <4>1, <5>1 DEF TypeOK, Table
          <5>3. Ahead(s)' <=> Ahead(s)
            BY <1>1, <1>2, <5>1, <3>6 DEF Ahead, Slots
          <5> QED
            BY <3>3, <4>1, <5>2, <5>3 DEF Timing, Running
        <4>2. heap'[me].age <= Latest(heap'[me]) /\ heap'[me].age >= heap'[me].asked - 1
          BY <2>1, <2>2, <2>5, <3>3 DEF Running, Due, Latest
        <4>3. ASSUME NEW b \in Blocks
              PROVE  /\ heap'[b].flag = "executing" =>
                          heap'[b].age <= Latest(heap'[b]) /\ heap'[b].age >= heap'[b].asked - 1
                     /\ heap'[b].flag \in {"over", "canceled"} =>
                          heap'[b].asked = 0 /\ heap'[b].age = 0
          BY <3>3, <4>2 DEF Timing
        <4> QED
          BY <1>2, <4>1, <4>3 DEF Timing
      <3>10. CalledOrCanceled'
        BY <3>3 DEF CalledOrCanceled, Allocated
      <3> QED
        BY <1>3, <3>5, <3>7, <3>8, <3>9, <3>10
    <2> QED
      BY <2>4, <2>5
  <1> QED
    BY <1>2, <1>6, <1>7

LEMMA EndedTyped ==
    ASSUME NEW timer \in Timers, NEW flag \in {"over", "canceled"}
    PROVE  /\ Ended(timer, flag) \in Timers /\ Ended(timer, flag).flag = flag
           /\ Ended(timer, flag).asked = 0 /\ Ended(timer, flag).age = 0
           /\ Ended(timer, flag).calls = timer.calls
  <1>1. 0 \in 0 .. MaxSec /\ 0 \in 0 .. MaxSec + 1
    BY TimerAssumption
  <1> QED
    BY <1>1 DEF Timers, Ended

LEMMA CallbackReturnsKeeps ==
    ASSUME IInv, CallbackReturns
    PROVE  IInv'
  <1> USE DEF IInv
  <1>1. PICK i \in Slots : handler.i = i
    BY DEF CallbackReturns, Calling
  <1>2. PICK me \in Blocks : handler.me = me
    BY DEF CallbackReturns, Calling
  <1>3. /\ handler.at = "callback" /\ mut_job = "free" /\ mut_job' = "handler"
        /\ job[i] = me /\ heap[me].flag = "executing" /\ UNCHANGED <<job, exiting>>
        /\ i \in Nat /\ i + 1 \in 1 .. JOB_MAX + 1
        /\ exiting # "done" /\ heap[me] \in Timers
    BY <1>1, <1>2, TimerAssumption DEF CallbackReturns, Calling, Slots, Exit, TypeOK
  <1>4. /\ handler'.at = "scan" /\ handler'.i = i + 1
        /\ handler' \in [at : {"asleep", "woken", "scan", "callback", "canceled"},
                         i : 1 .. JOB_MAX + 1, me : Blocks \cup {NULL}]
    BY <1>1, <1>3 DEF CallbackReturns, TypeOK
  <1>5. /\ heap'[me] \in Timers /\ heap'[me].flag = "over" /\ heap'[me].calls = 1
        /\ heap'[me].asked = 0 /\ heap'[me].age = 0
        /\ \A b \in Blocks : b # me => heap'[b] = heap[b]
        /\ heap' \in [Blocks -> Timers]
    <2>1. heap' = [heap EXCEPT ![me] = Ended(@, "over")]
      BY <1>1, <1>3 DEF CallbackReturns
    <2>2. heap[me].calls = 1
      BY <1>3 DEF CalledOrCanceled, Allocated
    <2> DEFINE ended == Ended(heap[me], "over")
    <2>3. ended \in Timers /\ ended.flag = "over" /\ ended.calls = 1
          /\ ended.asked = 0 /\ ended.age = 0
      BY <1>3, <2>2, EndedTyped
    <2>4. heap' = [heap EXCEPT ![me] = ended]
      BY <2>1
    <2> HIDE DEF ended
    <2> QED
      BY <2>3, <2>4 DEF TypeOK
  <1>6. Wakes
    BY BroadcastWakes DEF CallbackReturns
  <1>7. InPlace
    BY <1>3, <1>5 DEF InPlace
  <1>8. Table' /\ Waits' /\ Apart'
    BY <1>6, <1>7, InPlaceKeeps
  <1>9. TypeOK' /\ Lock'
    BY <1>3, <1>4, <1>5, <1>6 DEF TypeOK, Lock, Wakes
  <1>10. Calling'
    BY <1>2, <1>4, <1>5 DEF Calling
  <1>11. Exit'
    BY <1>3, <1>4, <1>6 DEF Exit, Wakes
  <1>12. Timing'
    <2>1. ASSUME NEW s \in Slots, job[s] # NULL, heap'[job[s]].flag = "running"
          PROVE  Running(heap'[job[s]], Ahead(s)')
      <3>1. job[s] \in Blocks /\ job[s] # me
        BY <1>5, <2>1 DEF TypeOK
      <3>2. Ahead(s)' <=> Ahead(s)
        BY <1>1, <1>3, <1>4 DEF Ahead, Slots
      <3> QED
        BY <1>5, <2>1, <3>1, <3>2 DEF Timing, Running
    <2>2. ASSUME NEW b \in Blocks
          PROVE  /\ heap'[b].flag = "executing" =>
                      heap'[b].age <= Latest(heap'[b]) /\ heap'[b].age >= heap'[b].asked - 1
                 /\ heap'[b].flag \in {"over", "canceled"} =>
                      heap'[b].asked = 0 /\ heap'[b].age = 0
      BY <1>5 DEF Timing
    <2> QED
      BY <1>3, <2>1, <2>2 DEF Timing
  <1>13. CalledOrCanceled'
    BY <1>5 DEF CalledOrCanceled, Allocated
  <1> QED
    BY <1>8, <1>9, <1>10, <1>11, <1>12, <1>13

-----------------------------------------------------------------------------
\* The calls.

LEMMA CancelKeeps ==
    ASSUME IInv, NEW id \in Slots, at_canceltimer(id)
    PROVE  IInv'
  <1> USE DEF IInv
  <1>1. PICK me \in Blocks : me = job[id]
    BY DEF at_canceltimer, TypeOK
  <1>2. /\ heap[me].flag = "running" /\ heap[me] \in Timers
        /\ UNCHANGED <<job, mut_job, handler, exiting>>
    BY <1>1 DEF at_canceltimer, TypeOK
  <1>3. /\ heap'[me] \in Timers /\ heap'[me].flag = "canceled" /\ heap'[me].calls = 0
        /\ heap'[me].asked = 0 /\ heap'[me].age = 0
        /\ \A b \in Blocks : b # me => heap'[b] = heap[b]
        /\ heap' \in [Blocks -> Timers]
    <2>1. heap[me].calls = 0
      BY <1>2 DEF CalledOrCanceled, Allocated
    <2> DEFINE ended == Ended(heap[me], "canceled")
    <2>2. ended \in Timers /\ ended.flag = "canceled" /\ ended.calls = 0
          /\ ended.asked = 0 /\ ended.age = 0
      BY <1>2, <2>1, EndedTyped
    <2>3. heap' = [heap EXCEPT ![me] = ended]
      BY <1>1 DEF at_canceltimer
    <2> HIDE DEF ended
    <2> QED
      BY <2>2, <2>3 DEF TypeOK
  <1>4. Wakes
    BY BroadcastWakes DEF at_canceltimer
  <1>5. InPlace
    BY <1>2, <1>3 DEF InPlace
  <1>6. Table' /\ Waits' /\ Apart'
    BY <1>4, <1>5, InPlaceKeeps
  <1>7. TypeOK' /\ Lock'
    BY <1>2, <1>3, <1>4 DEF TypeOK, Lock, Wakes
  <1>8. Calling'
    BY <1>2, <1>3 DEF Calling
  <1>9. Exit'
    BY <1>2, <1>4 DEF Exit, Wakes
  <1>10. Timing'
    <2>1. ASSUME NEW s \in Slots, job[s] # NULL, heap'[job[s]].flag = "running"
          PROVE  Running(heap'[job[s]], Ahead(s)')
      <3>1. job[s] \in Blocks /\ job[s] # me
        BY <1>3, <2>1 DEF TypeOK
      <3>2. Ahead(s)' <=> Ahead(s)
        BY <1>2 DEF Ahead
      <3> QED
        BY <1>3, <2>1, <3>1, <3>2 DEF Timing, Running
    <2>2. ASSUME NEW b \in Blocks
          PROVE  /\ heap'[b].flag = "executing" =>
                      heap'[b].age <= Latest(heap'[b]) /\ heap'[b].age >= heap'[b].asked - 1
                 /\ heap'[b].flag \in {"over", "canceled"} =>
                      heap'[b].asked = 0 /\ heap'[b].age = 0
      BY <1>3 DEF Timing
    <2> QED
      BY <1>2, <2>1, <2>2 DEF Timing
  <1>11. CalledOrCanceled'
    BY <1>3 DEF CalledOrCanceled, Allocated
  <1> QED
    BY <1>6, <1>7, <1>8, <1>9, <1>10, <1>11

LEMMA AddKeeps ==
    ASSUME IInv, NEW sec \in 0 .. MaxSec, at_addtimer(sec)
    PROVE  IInv'
  <1> USE DEF IInv
  <1>1. PICK me \in Blocks : /\ heap[me].flag = "freed"
                             /\ heap' = [heap EXCEPT ![me] =
                                   [Freed EXCEPT !.flag = "running", !.sec = sec, !.asked = sec]]
                             /\ job' = [job EXCEPT ![get_free_pos_unlocked] = me]
    BY DEF at_addtimer
  <1>2. PICK pos \in Slots : pos = get_free_pos_unlocked /\ job[pos] = NULL
    BY FreePosition DEF at_addtimer, FreeSlots
  <1>3. UNCHANGED <<mut_job, handler, call, exiting>>
    BY DEF at_addtimer
  <1>4. /\ heap'[me] \in Timers /\ heap'[me].flag = "running" /\ heap'[me].calls = 0
        /\ heap'[me].asked = sec /\ heap'[me].sec = sec /\ heap'[me].age = 0
        /\ \A b \in Blocks : b # me => heap'[b] = heap[b]
        /\ heap' \in [Blocks -> Timers]
    <2> DEFINE new == [Freed EXCEPT !.flag = "running", !.sec = sec, !.asked = sec]
    <2>1. /\ new \in Timers /\ new.flag = "running" /\ new.calls = 0
          /\ new.asked = sec /\ new.sec = sec /\ new.age = 0
      <3>1. 0 \in 0 .. MaxSec + 1 /\ sec \in -1 .. MaxSec /\ 0 \in 0 .. 2
        BY TimerAssumption
      <3> QED
        BY <3>1 DEF Freed, Timers
    <2>2. heap' = [heap EXCEPT ![me] = new]
      BY <1>1
    <2> HIDE DEF new
    <2> QED
      BY <2>1, <2>2 DEF TypeOK
  <1>5. /\ job'[pos] = me /\ \A s \in Slots : s # pos => job'[s] = job[s]
        /\ job' \in [Slots -> Blocks \cup {NULL}]
    BY <1>1, <1>2 DEF TypeOK
  \* The block was free, so it is nobody's.
  <1>6. /\ \A s \in Slots : job[s] # me
        /\ \A c \in Clients : call[c].at # "idle" =>
              \/ call[c].me # me /\ call[c].id # pos
              \/ call[c].at = "free" /\ call[c].me # me
    <2>1. \A s \in Slots : job[s] # me
      BY <1>1, TimerAssumption DEF Table
    <2>2. ASSUME NEW c \in Clients, call[c].at \in {"clear", "free"} PROVE call[c].me # me
      BY <1>1, <2>2 DEF Waits
    <2>3. ASSUME NEW c \in Clients, call[c].at \in {"waiting", "woken", "clear"}
          PROVE  call[c].me # me /\ call[c].id # pos
      BY <1>2, <2>1, <2>3, TimerAssumption DEF Waits, TypeOK
    <2> QED
      BY <2>1, <2>2, <2>3 DEF TypeOK
  <1>7. TypeOK' /\ Lock'
    BY <1>3, <1>4, <1>5 DEF TypeOK, Lock
  <1>8. Calling'
    <2>1. handler.at = "callback" => handler.i # pos /\ handler.me # me
      BY <1>1, <1>2, TimerAssumption DEF Calling
    <2> QED
      BY <1>3, <1>4, <1>5, <2>1 DEF Calling
  <1>9. Table'
    <2>1. \A s \in Slots : job'[s] # NULL => heap'[job'[s]].flag # "freed"
      BY <1>4, <1>5, <1>6 DEF Table, TypeOK
    <2>2. \A s, t \in Slots : s # t /\ job'[s] # NULL => job'[s] # job'[t]
      BY <1>5, <1>6 DEF Table
    <2>3. ASSUME NEW b \in Blocks, heap'[b].flag # "freed"
          PROVE  \/ \E s \in Slots : job'[s] = b
                 \/ \E c \in Clients : call'[c].at = "free" /\ call'[c].me = b
      <3>1. CASE b = me
        BY <1>5, <3>1
      <3>2. CASE b # me
        <4>1. \/ \E s \in Slots : job[s] = b
              \/ \E c \in Clients : call[c].at = "free" /\ call[c].me = b
          BY <1>4, <2>3, <3>2 DEF Table
        <4>2. \A s \in Slots : job[s] = b => job'[s] = b
          BY <1>2, <1>5, TimerAssumption
        <4> QED
          BY <1>3, <4>1, <4>2
      <3> QED
        BY <3>1, <3>2
    <2> QED
      BY <2>1, <2>2, <2>3 DEF Table
  <1>10. Waits'
    <2> SUFFICES ASSUME NEW c \in Clients
        PROVE  /\ call[c].at # "idle" => call[c].me \in Blocks
               /\ call[c].at \in {"waiting", "woken", "clear"} => call[c].me = job'[call[c].id]
               /\ call[c].at = "free" => \A s \in Slots : job'[s] # call[c].me
               /\ call[c].at \in {"clear", "free"} =>
                     heap'[call[c].me].flag \in {"over", "canceled"}
      BY <1>3 DEF Waits
    <2>1. call[c].id \in Slots
      BY DEF TypeOK
    <2> QED
      BY <2>1, <1>4, <1>5, <1>6 DEF Waits
  <1>11. Apart'
    BY <1>3 DEF Apart
  <1>12. Exit'
    BY <1>3, <1>5 DEF Exit, at_addtimer, Caller
  <1>13. Timing'
    <2>1. Running(heap'[me], TRUE) /\ Running(heap'[me], FALSE)
      BY <1>4 DEF Running
    <2>2. ASSUME NEW s \in Slots, job'[s] # NULL, heap'[job'[s]].flag = "running"
          PROVE  Running(heap'[job'[s]], Ahead(s)')
      <3>1. CASE s = pos
        BY <1>5, <2>1, <3>1 DEF Running
      <3>2. CASE s # pos
        <4>1. job'[s] = job[s] /\ job[s] \in Blocks /\ job[s] # me
          BY <1>5, <1>6, <2>2, <3>2 DEF TypeOK
        <4>2. Ahead(s)' <=> Ahead(s)
          BY <1>3 DEF Ahead
        <4> QED
          BY <1>4, <2>2, <4>1, <4>2 DEF Timing, Running
      <3> QED
        BY <3>1, <3>2
    <2>3. ASSUME NEW b \in Blocks
          PROVE  /\ heap'[b].flag = "executing" =>
                      heap'[b].age <= Latest(heap'[b]) /\ heap'[b].age >= heap'[b].asked - 1
                 /\ heap'[b].flag \in {"over", "canceled"} =>
                      heap'[b].asked = 0 /\ heap'[b].age = 0
      BY <1>4 DEF Timing
    <2> QED
      BY <2>2, <2>3 DEF Timing
  <1>14. CalledOrCanceled'
    BY <1>4 DEF CalledOrCanceled, Allocated
  <1> QED
    BY <1>7, <1>8, <1>9, <1>10, <1>11, <1>12, <1>13, <1>14

\* What a step that changes calls alone leaves as it is.
LEMMA CallStepKeeps ==
    ASSUME IInv, UNCHANGED <<job, heap, mut_job, handler, exiting>>
    PROVE  Lock' /\ Calling' /\ Timing' /\ CalledOrCanceled'
  <1>1. Lock' /\ Calling' /\ CalledOrCanceled'
    BY DEF IInv, Lock, Calling, CalledOrCanceled, Allocated
  <1>2. \A s \in Slots : Ahead(s)' <=> Ahead(s)
    BY DEF Ahead
  <1>3. Timing'
    BY <1>2 DEF IInv, Timing, Running
  <1> QED
    BY <1>1, <1>3

\* at_waittimer while it waits: the timer of the slot is still in the slot.
LEMMA WaitStepKeeps ==
    ASSUME IInv, NEW c \in Clients,
           \/ \E id \in Slots : WaitBegins(c, id)
           \/ SpuriousWakeup(c)
           \/ WaitChecks(c)
    PROVE  IInv'
  <1> USE DEF IInv
  <1>1. UNCHANGED <<job, heap, mut_job, handler, exiting>>
    BY DEF WaitBegins, SpuriousWakeup, WaitChecks
  <1>2. /\ call' \in [Clients -> [at : {"idle", "waiting", "woken", "clear", "free"},
                                  id : Slots, me : Blocks \cup {NULL}]]
        /\ \A d \in Clients : d # c => call'[d] = call[d]
        /\ call'[c].at \in {"waiting", "woken", "clear"}
        /\ call'[c].me = job[call'[c].id] /\ call'[c].me \in Blocks
        /\ call'[c].at = "clear" => heap[call'[c].me].flag \in {"over", "canceled"}
        /\ call[c].at # "free"
        /\ \/ call'[c].id = call[c].id /\ call'[c].me = call[c].me /\ call[c].at # "idle"
           \/ NotWaitedFor(call'[c].id)
        /\ exiting # "no" => call[c].at # "idle"
    <2>1. CASE SpuriousWakeup(c)
      BY <2>1 DEF SpuriousWakeup, TypeOK, Waits
    <2>2. CASE WaitChecks(c)
      <3>1. call[c].me \in Blocks /\ call[c].me = job[call[c].id] /\ call[c].id \in Slots
        BY <2>2 DEF WaitChecks, Waits, TypeOK
      <3>2. heap[call[c].me].flag # "freed"
        BY <3>1, TimerAssumption DEF Table
      <3>3. ~ StillBusy(call[c].me) => heap[call[c].me].flag \in {"over", "canceled"}
        BY <3>1, <3>2 DEF StillBusy, TypeOK, Timers
      <3> QED
        BY <2>2, <3>1, <3>3 DEF WaitChecks, TypeOK
    <2>3. CASE \E id \in Slots : WaitBegins(c, id)
      <3>1. PICK id \in Slots : WaitBegins(c, id)
        BY <2>3
      <3>2. job[id] \in Blocks
        BY <3>1 DEF WaitBegins, TypeOK
      <3>3. heap[job[id]].flag # "freed"
        BY <3>2, TimerAssumption DEF Table
      <3>4. ~ StillBusy(job[id]) => heap[job[id]].flag \in {"over", "canceled"}
        BY <3>2, <3>3 DEF StillBusy, TypeOK, Timers
      <3>5. PICK at \in {"waiting", "clear"} :
               /\ call' = [call EXCEPT ![c] = [at |-> at, id |-> id, me |-> job[id]]]
               /\ at = "clear" => ~ StillBusy(job[id])
        BY <3>1 DEF WaitBegins
      <3> QED
        BY <3>1, <3>2, <3>4, <3>5 DEF WaitBegins, TypeOK
    <2> QED
      BY <2>1, <2>2, <2>3
  <1>3. TypeOK'
    BY <1>1, <1>2 DEF TypeOK
  <1>4. Table'
    BY <1>1, <1>2 DEF Table
  <1>5. Waits'
    BY <1>1, <1>2 DEF Waits
  <1>6. Apart'
    <2>1. ASSUME NEW d \in Clients, d # c, call[d].at # "idle"
          PROVE  call'[c].id # call[d].id /\ call'[c].me # call[d].me
      <3>1. CASE call'[c].id = call[c].id /\ call'[c].me = call[c].me /\ call[c].at # "idle"
        BY <2>1, <3>1 DEF Apart
      <3>2. CASE NotWaitedFor(call'[c].id)
        <4>1. call'[c].id # call[d].id
          BY <2>1, <3>2 DEF NotWaitedFor
        <4>2. CASE call[d].at = "free"
          <5>1. call'[c].id \in Slots
            BY <1>2
          <5> QED
            BY <1>2, <2>1, <4>1, <4>2, <5>1 DEF Waits
        <4>3. CASE call[d].at # "free"
          <5>1. call[d].me = job[call[d].id] /\ call[d].id \in Slots /\ call'[c].id \in Slots
            BY <1>2, <2>1, <4>3 DEF Waits, TypeOK
          <5> QED
            BY <1>2, <4>1, <5>1, TimerAssumption DEF Table
        <4> QED
          BY <4>1, <4>2, <4>3
      <3> QED
        BY <1>2, <3>1, <3>2
    <2> QED
      BY <1>2, <2>1 DEF Apart
  <1>7. Exit'
    BY <1>1, <1>2 DEF Exit
  <1> QED
    BY <1>1, <1>3, <1>4, <1>5, <1>6, <1>7, CallStepKeeps

LEMMA WaitClearsKeeps ==
    ASSUME IInv, NEW c \in Clients, WaitClears(c)
    PROVE  IInv'
  <1> USE DEF IInv
  <1>1. PICK id \in Slots : id = call[c].id
    BY DEF TypeOK
  <1>2. /\ UNCHANGED <<heap, mut_job, handler, exiting>>
        /\ call[c].at = "clear" /\ call[c].me = job[id] /\ call[c].me \in Blocks
        /\ heap[call[c].me].flag \in {"over", "canceled"} /\ handler.at # "scan"
        /\ exiting = "no"
    BY <1>1 DEF WaitClears, Waits, Exit, Lock
  <1>3. /\ job' = [job EXCEPT ![id] = NULL]
        /\ job'[id] = NULL /\ \A s \in Slots : s # id => job'[s] = job[s]
        /\ job' \in [Slots -> Blocks \cup {NULL}]
    BY <1>1 DEF WaitClears, TypeOK
  <1>4. /\ call' \in [Clients -> [at : {"idle", "waiting", "woken", "clear", "free"},
                                  id : Slots, me : Blocks \cup {NULL}]]
        /\ \A d \in Clients : d # c => call'[d] = call[d]
        /\ call'[c].at = "free" /\ call'[c].id = id /\ call'[c].me = call[c].me
    BY <1>1 DEF WaitClears, TypeOK
  <1>5. \A s \in Slots : job'[s] # call[c].me
    BY <1>2, <1>3, TimerAssumption DEF Table
  <1>6. TypeOK' /\ Lock'
    BY <1>2, <1>3, <1>4 DEF TypeOK, Lock
  <1>7. Calling'
    <2>1. handler.at = "callback" => handler.i # id
      BY <1>2 DEF Calling
    <2> QED
      BY <1>2, <1>3, <2>1 DEF Calling
  <1>8. Table'
    <2>1. \A s \in Slots : job'[s] # NULL => heap'[job'[s]].flag # "freed"
      BY <1>2, <1>3 DEF Table
    <2>2. \A s, t \in Slots : s # t /\ job'[s] # NULL => job'[s] # job'[t]
      BY <1>3 DEF Table
    <2>3. ASSUME NEW b \in Blocks, heap'[b].flag # "freed"
          PROVE  \/ \E s \in Slots : job'[s] = b
                 \/ \E d \in Clients : call'[d].at = "free" /\ call'[d].me = b
      <3>1. CASE b = call[c].me
        BY <1>4, <3>1
      <3>2. CASE b # call[c].me
        <4>1. \/ \E s \in Slots : job[s] = b
              \/ \E d \in Clients : call[d].at = "free" /\ call[d].me = b
          BY <1>2, <2>3 DEF Table
        <4> QED
          BY <1>2, <1>3, <1>4, <3>2, <4>1
      <3> QED
        BY <3>1, <3>2
    <2> QED
      BY <2>1, <2>2, <2>3 DEF Table
  <1>9. Waits'
    <2> SUFFICES ASSUME NEW d \in Clients
        PROVE  /\ call'[d].at # "idle" => call'[d].me \in Blocks
               /\ call'[d].at \in {"waiting", "woken", "clear"} => call'[d].me = job'[call'[d].id]
               /\ call'[d].at = "free" => \A s \in Slots : job'[s] # call'[d].me
               /\ call'[d].at \in {"clear", "free"} =>
                     heap'[call'[d].me].flag \in {"over", "canceled"}
      BY DEF Waits
    <2>1. CASE d = c
      BY <1>2, <1>4, <1>5, <2>1
    <2>2. CASE d # c
      <3>1. call[d].at # "idle" => call[d].id # id
        BY <1>1, <1>2, <2>2 DEF Apart
      <3>2. call[d].id \in Slots
        BY DEF TypeOK
      <3>3. call[d].at # "idle" => call[d].me # NULL
        BY TimerAssumption DEF Waits
      <3> QED
        BY <1>2, <1>3, <1>4, <2>2, <3>1, <3>2, <3>3 DEF Waits
    <2> QED
      BY <2>1, <2>2
  <1>10. Apart'
    <2>1. \A d \in Clients : /\ call'[d].id = call[d].id /\ call'[d].me = call[d].me
                             /\ call'[d].at # "idle" => call[d].at # "idle"
      BY <1>1, <1>2, <1>4
    <2> QED
      BY <2>1 DEF Apart
  <1>11. Exit'
    BY <1>2, <1>3, <1>4 DEF Exit
  <1>12. Timing'
    <2>1. ASSUME NEW s \in Slots, job'[s] # NULL, heap'[job'[s]].flag = "running"
          PROVE  Running(heap'[job'[s]], Ahead(s)')
      <3>1. job'[s] = job[s]
        BY <1>3, <2>1
      <3>2. Ahead(s)' <=> Ahead(s)
        BY <1>2 DEF Ahead
      <3> QED
        BY <1>2, <2>1, <3>1, <3>2 DEF Timing, Running
    <2> QED
      BY <1>2, <2>1 DEF Timing
  <1>13. CalledOrCanceled'
    BY <1>2 DEF CalledOrCanceled, Allocated
  <1> QED
    BY <1>6, <1>7, <1>8, <1>9, <1>10, <1>11, <1>12, <1>13

LEMMA FreedTyped ==
    /\ Freed \in Timers /\ Freed.flag = "freed"
  <1>1. 0 \in -1 .. MaxSec /\ 0 \in 0 .. MaxSec /\ 0 \in 0 .. MaxSec + 1 /\ 0 \in 0 .. 2
    BY TimerAssumption
  <1> QED
    BY <1>1 DEF Freed, Timers

LEMMA WaitFreesKeeps ==
    ASSUME IInv, NEW c \in Clients, WaitFrees(c)
    PROVE  IInv'
  <1> USE DEF IInv
  <1>1. PICK me \in Blocks : me = call[c].me
    BY DEF WaitFrees, Waits
  <1>2. /\ UNCHANGED <<job, mut_job, handler, exiting>>
        /\ call[c].at = "free" /\ \A s \in Slots : job[s] # me
        /\ heap[me].flag \in {"over", "canceled"}
    BY <1>1 DEF WaitFrees, Waits
  <1>3. /\ heap'[me].flag = "freed" /\ \A b \in Blocks : b # me => heap'[b] = heap[b]
        /\ heap' \in [Blocks -> Timers]
    BY <1>1, FreedTyped DEF WaitFrees, TypeOK
  <1>4. /\ call' \in [Clients -> [at : {"idle", "waiting", "woken", "clear", "free"},
                                  id : Slots, me : Blocks \cup {NULL}]]
        /\ \A d \in Clients : d # c => call'[d] = call[d]
        /\ call'[c].at = "idle"
    <2>1. 1 \in Slots
      BY TimerAssumption DEF Slots
    <2> QED
      BY <2>1 DEF WaitFrees, TypeOK, Idle
  <1>5. TypeOK' /\ Lock'
    BY <1>2, <1>3, <1>4 DEF TypeOK, Lock
  <1>6. Calling'
    <2>1. handler.at = "callback" => handler.me # me
      BY <1>2 DEF Calling
    <2> QED
      BY <1>2, <1>3, <2>1 DEF Calling
  <1>7. Table'
    <2>1. \A s \in Slots : job'[s] # NULL => heap'[job'[s]].flag # "freed"
      BY <1>2, <1>3 DEF Table, TypeOK
    <2>2. \A s, t \in Slots : s # t /\ job'[s] # NULL => job'[s] # job'[t]
      BY <1>2 DEF Table
    <2>3. ASSUME NEW b \in Blocks, heap'[b].flag # "freed"
          PROVE  \/ \E s \in Slots : job'[s] = b
                 \/ \E d \in Clients : call'[d].at = "free" /\ call'[d].me = b
      <3>1. b # me
        BY <1>3, <2>3
      <3>2. \/ \E s \in Slots : job[s] = b
            \/ \E d \in Clients : call[d].at = "free" /\ call[d].me = b
        BY <1>3, <2>3, <3>1 DEF Table
      <3> QED
        BY <1>1, <1>2, <1>4, <3>1, <3>2
    <2> QED
      BY <2>1, <2>2, <2>3 DEF Table
  <1>8. Waits'
    <2> SUFFICES ASSUME NEW d \in Clients
        PROVE  /\ call'[d].at # "idle" => call'[d].me \in Blocks
               /\ call'[d].at \in {"waiting", "woken", "clear"} => call'[d].me = job'[call'[d].id]
               /\ call'[d].at = "free" => \A s \in Slots : job'[s] # call'[d].me
               /\ call'[d].at \in {"clear", "free"} =>
                     heap'[call'[d].me].flag \in {"over", "canceled"}
      BY DEF Waits
    <2>1. CASE d = c
      BY <1>4, <2>1
    <2>2. CASE d # c
      <3>1. call[d].at # "idle" => call[d].me # me
        BY <1>1, <1>2, <2>2 DEF Apart
      <3> QED
        BY <1>2, <1>3, <1>4, <2>2, <3>1 DEF Waits
    <2> QED
      BY <2>1, <2>2
  <1>9. Apart'
    BY <1>4 DEF Apart
  <1>10. Exit'
    BY <1>2, <1>4 DEF Exit
  <1>11. Timing'
    <2>1. ASSUME NEW s \in Slots, job'[s] # NULL, heap'[job'[s]].flag = "running"
          PROVE  Running(heap'[job'[s]], Ahead(s)')
      <3>1. job'[s] = job[s] /\ job[s] \in Blocks /\ heap'[job[s]] = heap[job[s]]
        BY <1>2, <1>3, <2>1 DEF TypeOK
      <3>2. Ahead(s)' <=> Ahead(s)
        BY <1>2 DEF Ahead
      <3> QED
        BY <2>1, <3>1, <3>2 DEF Timing, Running
    <2>2. ASSUME NEW b \in Blocks
          PROVE  /\ heap'[b].flag = "executing" =>
                      heap'[b].age <= Latest(heap'[b]) /\ heap'[b].age >= heap'[b].asked - 1
                 /\ heap'[b].flag \in {"over", "canceled"} =>
                      heap'[b].asked = 0 /\ heap'[b].age = 0
      BY <1>3 DEF Timing
    <2> QED
      BY <2>1, <2>2 DEF Timing
  <1>12. CalledOrCanceled'
    BY <1>3 DEF CalledOrCanceled, Allocated
  <1> QED
    BY <1>5, <1>6, <1>7, <1>8, <1>9, <1>10, <1>11, <1>12

LEMMA UnloadBeginsKeeps ==
    ASSUME IInv, UnloadBegins
    PROVE  IInv'
  <1> USE DEF IInv
  <1>1. UNCHANGED <<job, heap, mut_job, handler, call>> /\ exiting' = "cancel"
        /\ exiting = "no" /\ \A c \in Clients : call[c].at = "idle"
    BY DEF UnloadBegins
  <1>2. TypeOK' /\ Lock' /\ Calling' /\ CalledOrCanceled'
    BY <1>1 DEF TypeOK, Lock, Calling, CalledOrCanceled, Allocated
  <1>3. Table' /\ Waits' /\ Apart'
    BY <1>1 DEF Table, Waits, Apart
  <1>4. Exit'
    BY <1>1 DEF Exit
  <1>5. Timing'
    <2>1. \A s \in Slots : Ahead(s)' <=> Ahead(s)
      BY <1>1 DEF Ahead
    <2> QED
      BY <1>1, <2>1 DEF Timing, Running
  <1> QED
    BY <1>2, <1>3, <1>4, <1>5

LEMMA UnloadEndsKeeps ==
    ASSUME IInv, UnloadEnds
    PROVE  IInv'
  <1> USE DEF IInv
  <1>1. /\ UNCHANGED <<mut_job, handler, call>> /\ exiting' = "done" /\ handler.at = "canceled"
        /\ \A c \in Clients : call[c].at = "idle"
    BY DEF UnloadEnds, Exit
  <1>2. job' \in [Slots -> Blocks \cup {NULL}] /\ \A s \in Slots : job'[s] = NULL
    BY DEF UnloadEnds
  \* Every block that was not freed yet was in the table.
  <1>3. heap' \in [Blocks -> Timers] /\ \A b \in Blocks : heap'[b].flag = "freed"
    <2> SUFFICES ASSUME NEW b \in Blocks
                 PROVE  heap'[b] \in Timers /\ heap'[b].flag = "freed"
      BY DEF UnloadEnds
    <2>1. CASE \E s \in Slots : job[s] = b
      BY <2>1, FreedTyped DEF UnloadEnds
    <2>2. CASE ~ \E s \in Slots : job[s] = b
      BY <1>1, <2>2 DEF UnloadEnds, Table, TypeOK
    <2> QED
      BY <2>1, <2>2
  <1>4. TypeOK' /\ Lock' /\ Calling'
    BY <1>1, <1>2, <1>3 DEF TypeOK, Lock, Calling
  <1>5. Table' /\ Waits' /\ Apart' /\ Exit'
    BY <1>1, <1>2, <1>3 DEF Table, Waits, Apart, Exit
  <1>6. Timing' /\ CalledOrCanceled'
    BY <1>2, <1>3 DEF Timing, CalledOrCanceled, Allocated
  <1> QED
    BY <1>4, <1>5, <1>6

-----------------------------------------------------------------------------
\* The inductive invariant holds of every reachable state.
THEOREM TimerInvariant == Spec => []IInv
  <1>1. ASSUME IInv, [Next]_vars PROVE IInv'
    <2>1. CASE SleepEnds
      BY <1>1, <2>1, SleepEndsKeeps
    <2>2. CASE PassBegins \/ PassEnds \/ Canceled
      BY <1>1, <2>2, HandlerMovesKeeps
    <2>3. CASE Visit
      BY <1>1, <2>3, VisitKeeps
    <2>4. CASE CallbackReturns
      BY <1>1, <2>4, CallbackReturnsKeeps
    <2>5. CASE \E sec \in 0 .. MaxSec : at_addtimer(sec)
      BY <1>1, <2>5, AddKeeps
    <2>6. CASE \E id \in Slots : at_canceltimer(id)
      BY <1>1, <2>6, CancelKeeps
    <2>7. ASSUME NEW c \in Clients,
                 \/ \E id \in Slots : WaitBegins(c, id)
                 \/ SpuriousWakeup(c) \/ WaitChecks(c) \/ WaitClears(c) \/ WaitFrees(c)
          PROVE  IInv'
      BY <1>1, <2>7, WaitStepKeeps, WaitClearsKeeps, WaitFreesKeeps
    <2>8. CASE UnloadBegins
      BY <1>1, <2>8, UnloadBeginsKeeps
    <2>9. CASE UnloadEnds
      BY <1>1, <2>9, UnloadEndsKeeps
    <2>10. CASE UNCHANGED vars
      <3>1. UNCHANGED <<job, heap, mut_job, handler, call, exiting>>
        BY <2>10 DEF vars
      <3>2. TypeOK' /\ Table' /\ Waits' /\ Apart' /\ Exit'
        BY <1>1, <3>1 DEF IInv, TypeOK, Table, Waits, Apart, Exit
      <3> QED
        BY <1>1, <3>1, <3>2, CallStepKeeps DEF IInv
    <2> QED
      BY <1>1, <2>1, <2>2, <2>3, <2>4, <2>5, <2>6, <2>7, <2>8, <2>9, <2>10
      DEF Next, thr_handler
  <1> QED
    BY <1>1, InitKeeps, PTL DEF Spec

\* No step of the handler, of a caller or of module_unload reaches a block that was
\* freed, no block is lost, and none outlives module_unload.
THEOREM TimersMemorySafe == Spec => []MemorySafe
  <1>1. ASSUME IInv PROVE MemorySafe
    <2>1. handler.at = "callback" => job[handler.i] = handler.me /\ handler.me \in Allocated
      BY <1>1 DEF IInv, Calling, Allocated
    <2>2. \A c \in Clients : call[c].at # "idle" => call[c].me \in Allocated
      <3> SUFFICES ASSUME NEW c \in Clients, call[c].at # "idle" PROVE call[c].me \in Allocated
        OBVIOUS
      <3>1. call[c].me \in Blocks /\ call[c].id \in Slots
        BY <1>1 DEF IInv, Waits, TypeOK
      <3>2. CASE call[c].at = "free"
        BY <1>1, <3>1, <3>2 DEF IInv, Waits, Allocated
      <3>3. CASE call[c].at # "free"
        <4>1. call[c].me = job[call[c].id]
          BY <1>1, <3>3 DEF IInv, Waits, TypeOK
        <4> QED
          BY <1>1, <3>1, <4>1, TimerAssumption DEF IInv, Table, Allocated
      <3> QED
        BY <3>2, <3>3
    <2>3. \A s \in Slots : job[s] # NULL => job[s] \in Allocated
      BY <1>1 DEF IInv, Table, TypeOK, Allocated
    <2>4. \A s, t \in Slots : s # t /\ job[s] # NULL => job[s] # job[t]
      BY <1>1 DEF IInv, Table
    <2>5. \A b \in Allocated : \/ \E s \in Slots : job[s] = b
                               \/ \E c \in Clients : call[c].at = "free" /\ call[c].me = b
      BY <1>1 DEF IInv, Table, Allocated
    <2>6. exiting = "done" => Allocated = {}
      <3> SUFFICES ASSUME exiting = "done", NEW b \in Allocated PROVE FALSE
        OBVIOUS
      <3>1. b \in Blocks /\ b # NULL
        BY TimerAssumption DEF Allocated
      <3> QED
        BY <1>1, <2>5, <3>1 DEF IInv, Exit
    <2> QED
      BY <2>1, <2>2, <2>3, <2>4, <2>5, <2>6 DEF MemorySafe
  <1> QED
    BY <1>1, TimerInvariant, PTL

\* func of a timer that is over was called once, that of a canceled one never.
THEOREM CallsExact == Spec => []CalledOrCanceled
  <1>1. IInv => CalledOrCanceled
    BY DEF IInv
  <1> QED
    BY <1>1, TimerInvariant, PTL

\* A timer fires neither early nor late, whatever the pass was doing when it was added.
THEOREM CallsOnTime == Spec => []OnTime
  <1>1. ASSUME IInv PROVE OnTime
    <2> SUFFICES ASSUME NEW b \in Allocated
                 PROVE  /\ heap[b].age <= Latest(heap[b])
                        /\ heap[b].calls = 1 => heap[b].age >= heap[b].asked - 1
      BY DEF OnTime, Latest
    <2>1. b \in Blocks /\ heap[b].flag # "freed" /\ heap[b] \in Timers
      BY <1>1 DEF Allocated, IInv, TypeOK
    <2>2. CASE heap[b].flag = "running"
      <3>1. PICK s \in Slots : job[s] = b
        BY <1>1, <2>1, <2>2 DEF IInv, Table, Waits
      <3>2. Running(heap[b], TRUE) \/ Running(heap[b], FALSE)
        BY <1>1, <2>1, <2>2, <3>1, TimerAssumption DEF IInv, Timing, Running
      <3>3. heap[b].age <= Latest(heap[b])
        BY <2>1, <3>2, RunningBounds
      <3>4. heap[b].calls = 0
        BY <1>1, <2>2 DEF IInv, CalledOrCanceled
      <3> QED
        BY <3>3, <3>4
    <2>3. CASE heap[b].flag = "executing"
      BY <1>1, <2>1, <2>3 DEF IInv, Timing
    <2>4. CASE heap[b].flag \in {"over", "canceled"}
      BY <1>1, <2>1, <2>4 DEF IInv, Timing, Latest
    <2> QED
      BY <2>1, <2>2, <2>3, <2>4 DEF Timers
  <1> QED
    BY <1>1, TimerInvariant, PTL

-----------------------------------------------------------------------------
\* Who sleeps in at_waittimer sleeps for a timer that has not ended.
SleepsForBusy == \A c \in Clients : call[c].at = "waiting" => StillBusy(call[c].me)

\* That timer is still in its slot, and the handler is there to come to it.
Awaited ==
    \A c \in Clients : call[c].at = "waiting" =>
       /\ StillBusy(call[c].me) /\ job[call[c].id] = call[c].me
       /\ handler.at # "canceled" /\ exiting = "no"

\* The broadcasts of the handler and of at_canceltimer reach every sleeper.
LEMMA EndWakes ==
    ASSUME IInv, SleepsForBusy, NEW me \in Blocks, NEW flag \in {"over", "canceled"},
           heap' = [heap EXCEPT ![me] = Ended(@, flag)], call' = Broadcast(me)
    PROVE  SleepsForBusy'
  <1> SUFFICES ASSUME NEW c \in Clients, call'[c].at = "waiting"
               PROVE  heap'[call'[c].me].flag \in {"running", "executing"}
    BY DEF SleepsForBusy, StillBusy
  <1>1. call'[c] = IF call[c].at = "waiting" /\ call[c].me = me
                   THEN [call[c] EXCEPT !.at = "woken"] ELSE call[c]
    BY DEF Broadcast
  <1>2. call[c] \in [at : {"idle", "waiting", "woken", "clear", "free"},
                     id : Slots, me : Blocks \cup {NULL}]
    BY DEF IInv, TypeOK
  <1>3. call'[c] = call[c] /\ call[c].me # me
    BY <1>1, <1>2
  <1>4. call[c].me \in Blocks /\ heap[call[c].me].flag \in {"running", "executing"}
    BY <1>3 DEF SleepsForBusy, StillBusy, IInv, Waits
  <1>5. heap'[call[c].me] = heap[call[c].me]
    BY <1>3, <1>4 DEF IInv, TypeOK
  <1> QED
    BY <1>3, <1>4, <1>5

\* Nobody falls asleep, and the timers slept for go on.
LEMMA BusyStays ==
    ASSUME IInv, SleepsForBusy,
           \A c \in Clients : call'[c].at = "waiting" =>
              call[c].at = "waiting" /\ call'[c].me = call[c].me,
           \A b \in Blocks : heap[b].flag \in {"running", "executing"} =>
              heap'[b].flag \in {"running", "executing"}
    PROVE  SleepsForBusy'
  BY DEF IInv, Waits, SleepsForBusy, StillBusy

LEMMA SleepStep ==
    ASSUME IInv, SleepsForBusy, Next
    PROVE  SleepsForBusy'
  <1> USE TimerAssumption
  <1>1. /\ TypeOK
        /\ \A b \in Blocks : heap[b] \in Timers
        /\ call \in [Clients -> [at : {"idle", "waiting", "woken", "clear", "free"},
                                 id : Slots, me : Blocks \cup {NULL}]]
    BY DEF IInv, TypeOK
  <1>2. CASE SleepEnds
    <2>1. /\ call' = call
          /\ \A b \in Blocks : heap'[b].flag = heap[b].flag
      BY <1>1, <1>2 DEF SleepEnds, Timers
    <2> QED
      BY <2>1, BusyStays
  <1>3. CASE PassBegins \/ PassEnds \/ Canceled \/ UnloadBegins
    BY <1>3, BusyStays DEF PassBegins, PassEnds, Canceled, UnloadBegins
  <1>4. CASE Visit
    <2>1. call' = call
      BY <1>4 DEF Visit
    <2>2. CASE heap' = heap
      BY <2>1, <2>2, BusyStays
    <2>3. CASE heap' # heap
      <3>1. PICK me \in Blocks : me = job[handler.i] /\ heap[me].flag = "running"
        BY <1>1, <1>4, <2>3 DEF Visit, TypeOK, Slots
      <3>2. \/ heap' = [heap EXCEPT ![me].sec = @ - 1]
            \/ heap' = [heap EXCEPT ![me].sec = @ - 1, ![me].flag = "executing", ![me].calls = @ + 1]
        BY <1>4, <2>3, <3>1 DEF Visit
      <3>3. \A b \in Blocks : IF b = me THEN heap'[b].flag \in {"running", "executing"}
                              ELSE heap'[b].flag = heap[b].flag
        <4>1. CASE heap' = [heap EXCEPT ![me].sec = @ - 1]
          BY <1>1, <3>1, <4>1 DEF TypeOK, Timers
        <4>2. CASE heap' = [heap EXCEPT ![me].sec = @ - 1, ![me].flag = "executing",
                                        ![me].calls = @ + 1]
          BY <1>1, <3>1, <4>2 DEF TypeOK, Timers
        <4> QED
          BY <3>2, <4>1, <4>2
      <3> QED
        BY <2>1, <3>3, BusyStays
    <2> QED
      BY <2>2, <2>3
  <1>5. CASE CallbackReturns
    <2>1. handler.me \in Blocks /\ job[handler.i] = handler.me
      BY <1>5 DEF CallbackReturns, IInv, Calling
    <2> QED
      BY <1>5, <2>1, EndWakes DEF CallbackReturns
  <1>6. ASSUME NEW sec \in 0 .. MaxSec, at_addtimer(sec) PROVE SleepsForBusy'
    <2>1. PICK me \in {b \in Blocks : heap[b].flag = "freed"} :
             heap' = [heap EXCEPT ![me] = [Freed EXCEPT !.flag = "running", !.sec = sec,
                                                        !.asked = sec]]
      BY <1>6 DEF at_addtimer
    <2>2. call' = call
      BY <1>6 DEF at_addtimer
    <2>3. \A b \in Blocks : heap[b].flag \in {"running", "executing"} => heap'[b] = heap[b]
      BY <1>1, <2>1 DEF TypeOK
    <2> QED
      BY <2>2, <2>3, BusyStays
  <1>7. ASSUME NEW id \in Slots, at_canceltimer(id) PROVE SleepsForBusy'
    <2>1. job[id] \in Blocks
      BY <1>1, <1>7 DEF at_canceltimer, TypeOK
    <2> QED
      BY <1>7, <2>1, EndWakes DEF at_canceltimer
  <1>8. ASSUME NEW c \in Clients, NEW id \in Slots, WaitBegins(c, id) PROVE SleepsForBusy'
    BY <1>1, <1>8 DEF WaitBegins, SleepsForBusy, StillBusy
  <1>9. ASSUME NEW c \in Clients, SpuriousWakeup(c) \/ WaitClears(c) PROVE SleepsForBusy'
    BY <1>1, <1>9, BusyStays DEF SpuriousWakeup, WaitClears
  <1>10. ASSUME NEW c \in Clients, WaitChecks(c) PROVE SleepsForBusy'
    BY <1>1, <1>10 DEF WaitChecks, SleepsForBusy, StillBusy
  <1>11. ASSUME NEW c \in Clients, WaitFrees(c) PROVE SleepsForBusy'
    <2>1. /\ call[c].at = "free" /\ heap' = [heap EXCEPT ![call[c].me] = Freed]
          /\ \A d \in Clients : call'[d] = IF d = c THEN Idle ELSE call[d]
      BY <1>1, <1>11 DEF WaitFrees
    <2>2. heap[call[c].me].flag \in {"over", "canceled"}
      BY <2>1 DEF IInv, Waits
    <2>3. \A b \in Blocks : heap[b].flag \in {"running", "executing"} => heap'[b] = heap[b]
      BY <1>1, <2>1, <2>2 DEF TypeOK
    <2> QED
      BY <2>1, <2>3, BusyStays DEF Idle
  <1>12. CASE UnloadEnds
    <2>1. \A c \in Clients : call'[c].at = "idle"
      BY <1>12 DEF UnloadEnds, IInv, Exit
    <2> QED
      BY <2>1 DEF SleepsForBusy
  <1> QED
    BY <1>2, <1>3, <1>4, <1>5, <1>6, <1>7, <1>8, <1>9, <1>10, <1>11, <1>12 DEF Next, thr_handler

\* at_waittimer loses no wakeup: whoever sleeps in it sleeps for a timer that runs or
\* whose callback runs, that is in its slot, and that a living handler will come to.
THEOREM WaitersAwaited == Spec => []Awaited
  <1>1. Init => SleepsForBusy
    BY DEF Init, SleepsForBusy, Idle
  <1>2. IInv /\ SleepsForBusy /\ [Next]_vars => SleepsForBusy'
    <2> SUFFICES ASSUME IInv, SleepsForBusy, [Next]_vars PROVE SleepsForBusy'
      OBVIOUS
    <2>1. CASE Next
      BY <2>1, SleepStep
    <2>2. CASE UNCHANGED vars
      BY <2>2 DEF vars, SleepsForBusy, StillBusy
    <2> QED
      BY <2>1, <2>2
  <1>3. IInv /\ SleepsForBusy => Awaited
    <2> SUFFICES ASSUME IInv, SleepsForBusy, NEW c \in Clients, call[c].at = "waiting"
                 PROVE  /\ StillBusy(call[c].me) /\ job[call[c].id] = call[c].me
                        /\ handler.at # "canceled" /\ exiting = "no"
      BY DEF Awaited
    <2>1. exiting = "no"
      BY DEF IInv, Exit, TypeOK
    <2> QED
      BY <2>1 DEF SleepsForBusy, IInv, Waits, Exit
  <1> QED
    BY <1>1, <1>2, <1>3, TimerInvariant, PTL DEF Spec
=============================================================================
