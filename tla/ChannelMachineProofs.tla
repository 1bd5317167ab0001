------------------------ MODULE ChannelMachineProofs ------------------------
(***************************************************************************)
(* The lifecycle table under any caller, for every set of policies and     *)
(* every width of the counters.                                            *)
(***************************************************************************)
EXTENDS ChannelMachine, ChannelStateProofs, FiniteSetTheorems, WellFoundedInduction

\* Every event gw_channel_transition accepts keeps the runtime well typed: the
\* counters stay within their widths, the delay is one of the policy's.
THEOREM MachineTypeCorrect == Spec => []TypeOK
  <1> USE PoliciesAssumption
  <1>1. Init => TypeOK
    BY InitType DEF Init, TypeOK
  <1>2. TypeOK /\ [Next]_vars => TypeOK'
    <2> SUFFICES ASSUME TypeOK, [Next]_vars PROVE TypeOK'
      OBVIOUS
    <2>1. ASSUME NEW event \in gw_channel_event, Apply(event) PROVE TypeOK'
      BY <2>1, TransitionType DEF TypeOK, Apply
    <2>2. CASE UNCHANGED vars
      BY <2>2 DEF TypeOK, vars
    <2> QED BY <2>1, <2>2 DEF Next
  <1> QED BY <1>1, <1>2, PTL DEF Spec

\* One accepted event keeps the retry budget of handle_failure.
LEMMA ApplyBudget ==
    ASSUME TypeOK, RetryBudget, NEW event \in gw_channel_event, Apply(event)
    PROVE  RetryBudget'
  <1> DEFINE next == gw_channel_transition(runtime, event, policy)
  <1>1. policy \in gw_retry_policy /\ runtime \in gw_channel_runtime(policy)
    BY PoliciesAssumption DEF TypeOK
  <1>2. runtime' = next /\ policy' = policy /\ Accepts(runtime, event)
    BY DEF Apply
  <1>3. CASE event = "FAILURE"
    <2>1. next = handle_failure(runtime, policy)
      BY <1>2, <1>3 DEF gw_channel_transition
    <2> HIDE DEF next
    <2> QED BY <1>1, <1>2, <2>1, FailureFacts DEF RetryBudget
  <1>4. CASE event \in {"START", "STOP", "DISABLE", "STABLE"}
    <2>1. next.consecutive_failures = 0 /\ next.state \notin {"BACKOFF", "FAILED"}
      BY <1>1, <1>2, <1>4
      DEF gw_channel_transition, Reset, gw_channel_runtime, Accepts, AcceptedIn
    <2> HIDE DEF next
    <2> QED BY <1>2, <2>1 DEF RetryBudget
  <1>5. CASE event = "ENABLE"
    <2>1. next = [runtime EXCEPT !.state = "STOPPED"] /\ runtime.state = "DISABLED"
      BY <1>2, <1>5 DEF gw_channel_transition, Accepts, AcceptedIn
    <2> HIDE DEF next
    <2> QED BY <1>1, <1>2, <2>1 DEF RetryBudget, gw_channel_runtime
  <1>6. CASE event \in {"PROGRESS", "BACKOFF_ELAPSED"}
    <2>1. next.state \in {"RUNNING", "STARTING"}
      BY <1>1, <1>2, <1>6 DEF gw_channel_transition, Progressed, gw_channel_runtime
    <2> HIDE DEF next
    <2> QED BY <1>2, <2>1 DEF RetryBudget
  <1> QED BY <1>3, <1>4, <1>5, <1>6 DEF gw_channel_event

\* handle_failure keeps the retry budget: BACKOFF means retries are left, FAILED
\* means none are, and a channel at rest has a clean record.
THEOREM RetryBudgetCorrect == Spec => []RetryBudget
  <1>1. Init => RetryBudget
    BY DEF Init, RetryBudget, gw_channel_runtime_init
  <1>2. TypeOK /\ RetryBudget /\ [Next]_vars => RetryBudget'
    <2> SUFFICES ASSUME TypeOK, RetryBudget, [Next]_vars PROVE RetryBudget'
      OBVIOUS
    <2>1. CASE UNCHANGED vars
      BY <2>1 DEF RetryBudget, vars
    <2> QED BY <2>1, ApplyBudget DEF Next
  <1> QED BY <1>1, <1>2, MachineTypeCorrect, PTL DEF Spec

\* The counter of failures saturates: a channel that has spent its retries gets
\* no BACKOFF again until it was stable, stopped or restarted.
THEOREM ExhaustedCorrect == Spec => ExhaustedStaysExhausted
  <1>1. ASSUME TypeOK, NEW event \in gw_channel_event, Apply(event),
               runtime.consecutive_failures > policy.max_retries
        PROVE  runtime'.state # "BACKOFF"
    <2> DEFINE next == gw_channel_transition(runtime, event, policy)
    <2>1. policy \in gw_retry_policy /\ runtime \in gw_channel_runtime(policy)
      BY <1>1, PoliciesAssumption DEF TypeOK
    <2>2. runtime' = next /\ Accepts(runtime, event)
      BY <1>1 DEF Apply
    <2>3. CASE event = "FAILURE"
      <3>1. next = handle_failure(runtime, policy)
        BY <2>2, <2>3 DEF gw_channel_transition
      <3>2. NextFailureCount(runtime.consecutive_failures) > policy.max_retries
        BY <1>1, <2>1, CountType DEF gw_channel_runtime, gw_retry_policy
      <3>3. policy.max_retries \in Int
        BY <2>1, WidthAssumption DEF gw_retry_policy
      <3>4. NextFailureCount(runtime.consecutive_failures) \in Int
        BY <2>1, CountType DEF gw_channel_runtime
      <3> HIDE DEF next
      <3> QED BY <2>1, <2>2, <3>1, <3>2, <3>3, <3>4, FailureFacts
    <2>4. CASE event # "FAILURE"
      BY <2>1, <2>2, <2>4, <1>1
      DEF gw_channel_transition, Progressed, Reset, gw_channel_runtime, Accepts, AcceptedIn,
          gw_channel_event
    <2> QED BY <2>3, <2>4
  <1>2. TypeOK /\ [Next]_vars =>
           [runtime.consecutive_failures > policy.max_retries
              => runtime'.state # "BACKOFF"]_vars
    BY <1>1 DEF Next
  <1> QED BY <1>2, MachineTypeCorrect, PTL DEF Spec, ExhaustedStaysExhausted

-----------------------------------------------------------------------------
\* What the loop of calculate_backoff computes.

\* 2^n counts the subsets of 1 .. n, and one more element doubles them.
LEMMA PowerDoubles ==
    ASSUME NEW n \in Nat
    PROVE  2 ^ n \in Nat /\ 2 ^ (n + 1) = 2 * 2 ^ n
  <1> DEFINE S == 1 .. n
             T == 1 .. n + 1
             without == SUBSET S
             with == {A \cup {n + 1} : A \in without}
             extend == [A \in without |-> A \cup {n + 1}]
  <1>1. /\ IsFiniteSet(S) /\ Cardinality(S) = n
        /\ IsFiniteSet(T) /\ Cardinality(T) = n + 1
    BY FS_Interval
  <1>2. n + 1 \notin S /\ T = S \cup {n + 1}
    OBVIOUS
  <1>3. IsFiniteSet(without) /\ Cardinality(without) = 2 ^ n
    <2> HIDE DEF S
    <2> QED
      BY <1>1, FS_SUBSET
  <1>4. Cardinality(SUBSET T) = 2 ^ (n + 1)
    <2> HIDE DEF T
    <2> QED
      BY <1>1, FS_SUBSET
  <1> HIDE DEF S, T
  <1>5. extend \in Bijection(without, with)
    <2>1. extend \in [without -> with]
      OBVIOUS
    <2>2. \A A, B \in without : extend[A] = extend[B] => A = B
      BY <1>2
    <2>3. \A C \in with : \E A \in without : extend[A] = C
      OBVIOUS
    <2> HIDE DEF extend, with, without
    <2> QED
      BY <2>1, <2>2, <2>3 DEF Bijection, Injection, IsInjective, Surjection
  <1>6. SUBSET T = without \cup with /\ without \cap with = {}
    <2>1. ASSUME NEW C \in SUBSET T PROVE C \in without \cup with
      <3>1. CASE n + 1 \in C
        <4>1. C \ {n + 1} \in without /\ C = (C \ {n + 1}) \cup {n + 1}
          BY <1>2, <3>1
        <4> QED
          BY <4>1
      <3>2. CASE n + 1 \notin C
        BY <1>2, <3>2
      <3> QED
        BY <3>1, <3>2
    <2>2. without \cup with \subseteq SUBSET T
      BY <1>2
    <2>3. \A C \in with : n + 1 \in C
      OBVIOUS
    <2>4. \A C \in without : n + 1 \notin C
      BY <1>2
    <2> HIDE DEF with, without
    <2> QED
      BY <2>1, <2>2, <2>3, <2>4
  <1> HIDE DEF with, without, extend
  <1>7. IsFiniteSet(with) /\ Cardinality(with) = Cardinality(without)
    BY <1>3, <1>5, FS_Bijection DEF ExistsBijection
  <1>8. Cardinality(without \cap with) = 0
    BY <1>6, FS_EmptySet
  <1>9. Cardinality(without) \in Nat
    BY <1>3, FS_CardinalityType
  <1>10. Cardinality(without \cup with) = 2 * Cardinality(without)
    BY <1>3, <1>7, <1>8, <1>9, FS_Union
  <1> QED
    BY <1>3, <1>4, <1>6, <1>9, <1>10

\* calculate_backoff: "1, 2, 4, ... seconds without overflowing past the configured
\* cap".  The closed form satisfies the equation of the loop, and nothing else does: a
\* smallest step at which two solutions differ does not exist.
LEMMA BackoffComputed ==
    ASSUME NEW failures \in Nat \ {0}, NEW maximum \in Nat \ {0}
    PROVE  calculate_backoff(failures, maximum) =
              IF 2 ^ (failures - 1) < maximum THEN 2 ^ (failures - 1) ELSE maximum
  <1> DEFINE Turn(d) == IF d >= maximum THEN d
                        ELSE IF d > maximum \div 2 THEN maximum ELSE 2 * d
             Loop(f) == [step \in Nat |-> IF step <= 1 THEN 1 ELSE Turn(f[step - 1])]
             delay == CHOOSE f : f = Loop(f)
             closed == [step \in Nat |-> IF step <= 1 THEN 1
                                         ELSE IF 2 ^ (step - 1) < maximum THEN 2 ^ (step - 1)
                                         ELSE maximum]
  <1>1. calculate_backoff(failures, maximum) =
           IF delay[failures] > maximum THEN maximum ELSE delay[failures]
    BY DEF calculate_backoff
  <1>2. 2 ^ 0 = 1 /\ 1 - 1 = 0
    OBVIOUS
  <1>3. closed[1] = IF 2 ^ (1 - 1) < maximum THEN 2 ^ (1 - 1) ELSE maximum
    BY <1>2
  <1>4. \A step \in Nat : step > 1 => closed[step] = Turn(closed[step - 1])
    <2> SUFFICES ASSUME NEW step \in Nat, step > 1 PROVE closed[step] = Turn(closed[step - 1])
      OBVIOUS
    <2>1. PICK k \in Nat : step = k + 2
      <3>1. step - 2 \in Nat /\ step = (step - 2) + 2
        OBVIOUS
      <3> QED
        BY <3>1
    <2>2. PICK p \in Nat : p = 2 ^ k
      BY PowerDoubles
    <2>3. 2 ^ (k + 1) = 2 * p /\ step - 1 = k + 1
      BY <2>1, <2>2, PowerDoubles
    <2>4. closed[step - 1] = IF p < maximum THEN p ELSE maximum
      <3>1. CASE k = 0
        BY <1>2, <1>3, <2>1, <2>2, <2>3, <3>1
      <3>2. CASE k # 0
        <4>1. step - 1 \in Nat /\ ~ (step - 1 <= 1) /\ (step - 1) - 1 = k
          BY <2>1, <3>2
        <4> QED
          BY <2>2, <4>1
      <3> QED
        BY <3>1, <3>2
    <2>5. closed[step] = IF 2 * p < maximum THEN 2 * p ELSE maximum
      <3>1. ~ (step <= 1)
        OBVIOUS
      <3> QED
        BY <2>3, <3>1
    <2>6. Turn(IF p < maximum THEN p ELSE maximum) = IF 2 * p < maximum THEN 2 * p ELSE maximum
      <3>1. PICK h \in Nat : h = maximum \div 2 /\ (maximum = 2 * h \/ maximum = 2 * h + 1)
        <4>1. maximum \div 2 \in Nat
          OBVIOUS
        <4>2. maximum = 2 * (maximum \div 2) \/ maximum = 2 * (maximum \div 2) + 1
          OBVIOUS
        <4> QED
          BY <4>1, <4>2
      <3>2. CASE p >= maximum
        BY <3>2
      <3>3. CASE p < maximum /\ p > h
        BY <3>1, <3>3
      <3>4. CASE p < maximum /\ p <= h
        BY <3>1, <3>4
      <3> QED
        BY <3>1, <3>2, <3>3, <3>4
    <2> HIDE DEF closed, Turn
    <2> QED
      BY <2>4, <2>5, <2>6
  <1>5. closed = Loop(closed)
    <2> HIDE DEF Turn
    <2>1. \A step \in Nat : closed[step] = Loop(closed)[step]
      <3> SUFFICES ASSUME NEW step \in Nat PROVE closed[step] = Loop(closed)[step]
        OBVIOUS
      <3>1. CASE step <= 1
        BY <3>1
      <3>2. CASE ~ (step <= 1)
        <4> HIDE DEF closed
        <4>1. closed[step] = Turn(closed[step - 1])
          BY <1>4, <3>2
        <4> QED
          BY <3>2, <4>1
      <3> QED
        BY <3>1, <3>2
    <2> QED
      BY <2>1
  <1>6. delay = Loop(delay)
    <2> HIDE DEF closed, Loop
    <2> QED
      BY <1>5
  <1>7. \A step \in Nat : delay[step] = closed[step]
    <2> HIDE DEF delay
    <2> DEFINE less == OpToRel(<, Nat)
               differ == {step \in Nat : delay[step] # closed[step]}
    <2>1. \A x, y \in Nat : x < y => <<x, y>> \in less
      BY DEF OpToRel
    <2>2. IsWellFoundedOn(less, Nat)
      BY NatLessThanWellFounded
    <2> HIDE DEF less
    <2>3. SUFFICES ASSUME differ # {} PROVE FALSE
      OBVIOUS
    <2>4. differ \subseteq Nat
      OBVIOUS
    <2>5. PICK s \in differ : \A t \in differ : ~ (<<t, s>> \in less)
      <3> HIDE DEF differ
      <3> QED
        BY <2>2, <2>3, <2>4, WFMin
    <2>6. s \in Nat /\ delay[s] # closed[s]
      BY <2>5
    <2>7. s > 1
      <3>1. SUFFICES ASSUME s <= 1 PROVE FALSE
        BY <2>6
      <3>2. delay[s] = 1
        BY <1>6, <2>6, <3>1
      <3> QED
        BY <2>6, <3>1, <3>2
    <2>8. s - 1 \in Nat /\ s - 1 < s
      BY <2>6, <2>7
    <2>9. s - 1 \notin differ
      BY <2>1, <2>5, <2>6, <2>8
    <2>10. delay[s - 1] = closed[s - 1]
      BY <2>8, <2>9
    <2> HIDE DEF Turn, closed, differ
    <2>11. delay[s] = Turn(delay[s - 1])
      BY <1>6, <2>6, <2>7
    <2>12. closed[s] = Turn(closed[s - 1])
      BY <1>4, <2>6, <2>7
    <2> QED
      BY <2>6, <2>10, <2>11, <2>12
  <1>8. PICK p \in Nat : p = 2 ^ (failures - 1)
    <2>1. failures - 1 \in Nat
      OBVIOUS
    <2> QED
      BY <2>1, PowerDoubles
  <1>9. closed[failures] = IF p < maximum THEN p ELSE maximum
    <2>1. CASE failures = 1
      BY <1>2, <1>3, <1>8, <2>1
    <2>2. CASE failures # 1
      BY <1>8, <2>2
    <2> QED
      BY <2>1, <2>2
  <1> HIDE DEF delay, closed
  <1> QED
    BY <1>1, <1>7, <1>8, <1>9

\* One accepted event keeps the schedule of the delays.
LEMMA ApplySchedule ==
    ASSUME TypeOK, BackoffSchedule, NEW event \in gw_channel_event, Apply(event)
    PROVE  BackoffSchedule'
  <1> DEFINE next == gw_channel_transition(runtime, event, policy)
  <1>1. policy \in gw_retry_policy /\ runtime \in gw_channel_runtime(policy)
    BY PoliciesAssumption DEF TypeOK
  <1>2. runtime' = next /\ policy' = policy /\ runtime.state \in AcceptedIn(event)
    BY DEF Apply, Accepts
  <1>3. CASE event = "FAILURE"
    <2>1. PICK failures \in Nat \ {0} :
             failures = NextFailureCount(runtime.consecutive_failures)
      BY <1>1, CountType DEF gw_channel_runtime
    <2>2. policy.max_backoff_sec \in Nat \ {0}
      BY <1>1 DEF gw_retry_policy
    <2>3. next = handle_failure(runtime, policy)
      BY <1>2, <1>3 DEF gw_channel_transition, Accepts
    <2>4. PICK delay : delay = calculate_backoff(failures, policy.max_backoff_sec)
      OBVIOUS
    <2>5. delay = IF 2 ^ (failures - 1) < policy.max_backoff_sec THEN 2 ^ (failures - 1)
                  ELSE policy.max_backoff_sec
      BY <2>2, <2>4, BackoffComputed
    <2>6. runtime' = [runtime EXCEPT
                        !.state = IF failures > policy.max_retries THEN "FAILED" ELSE "BACKOFF",
                        !.consecutive_failures = failures,
                        !.backoff_sec = IF failures > policy.max_retries
                                        THEN policy.max_backoff_sec ELSE delay]
      BY <1>2, <2>1, <2>3, <2>4 DEF handle_failure
    <2>7. /\ runtime'.state = (IF failures > policy.max_retries THEN "FAILED" ELSE "BACKOFF")
          /\ runtime'.consecutive_failures = failures
          /\ runtime'.backoff_sec = (IF failures > policy.max_retries
                                     THEN policy.max_backoff_sec ELSE delay)
      BY <1>1, <2>6 DEF gw_channel_runtime
    <2> HIDE DEF next
    <2>8. CASE failures > policy.max_retries
      BY <1>2, <2>7, <2>8 DEF BackoffSchedule
    <2>9. CASE ~ (failures > policy.max_retries)
      BY <1>2, <2>5, <2>7, <2>9 DEF BackoffSchedule
    <2> QED
      BY <2>8, <2>9
  <1>4. CASE event \in {"START", "STOP", "DISABLE", "STABLE", "BACKOFF_ELAPSED"}
    <2>1. next.backoff_sec = 0 /\ next.state \notin {"BACKOFF", "FAILED"}
      BY <1>1, <1>2, <1>4
      DEF gw_channel_transition, Reset, gw_channel_runtime, Accepts, AcceptedIn
    <2> HIDE DEF next
    <2> QED
      BY <1>2, <2>1 DEF BackoffSchedule
  <1>5. CASE event \in {"ENABLE", "PROGRESS"}
    <2>1. /\ next.backoff_sec = runtime.backoff_sec /\ next.state \in {"STOPPED", "RUNNING"}
          /\ runtime.state \notin {"BACKOFF", "FAILED"}
      BY <1>1, <1>2, <1>5
      DEF gw_channel_transition, Progressed, gw_channel_runtime, Accepts, AcceptedIn
    <2> HIDE DEF next
    <2> QED
      BY <1>2, <2>1 DEF BackoffSchedule
  <1> QED
    BY <1>3, <1>4, <1>5 DEF gw_channel_event

\* The delay a channel waits is the smaller of the cap and the power of two for its
\* failures, the cap when its retries are spent, and none otherwise; for every policy.
THEOREM ScheduleCorrect == Spec => []BackoffSchedule
  <1>1. Init => BackoffSchedule
    BY DEF Init, BackoffSchedule, gw_channel_runtime_init
  <1>2. TypeOK /\ BackoffSchedule /\ [Next]_vars => BackoffSchedule'
    <2> SUFFICES ASSUME TypeOK, BackoffSchedule, [Next]_vars PROVE BackoffSchedule'
      OBVIOUS
    <2>1. CASE UNCHANGED vars
      BY <2>1 DEF BackoffSchedule, vars
    <2> QED
      BY <2>1, ApplySchedule DEF Next
  <1> QED
    BY <1>1, <1>2, MachineTypeCorrect, PTL DEF Spec
=============================================================================
