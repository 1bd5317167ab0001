------------------------- MODULE ChannelStateProofs -------------------------
(***************************************************************************)
(* Facts about the lifecycle table that the proofs of ChannelMachine and   *)
(* Supervisor cite.  calculate_backoff stays opaque here: what its loop    *)
(* computes is the subject of BackoffComputed in ChannelMachineProofs.     *)
(***************************************************************************)
EXTENDS ChannelState, TLAPS

\* gw_channel_runtime_init yields a runtime.
LEMMA InitType ==
    ASSUME NEW policy \in gw_retry_policy, NEW enabled \in BOOLEAN
    PROVE  gw_channel_runtime_init(enabled) \in gw_channel_runtime(policy)
  BY WidthAssumption
  DEF gw_channel_runtime_init, gw_channel_runtime, gw_channel_state, Delays

\* The saturating counter stays in its type and does not fall.
LEMMA CountType ==
    ASSUME NEW failures \in 0 .. UINT_MAX
    PROVE  /\ NextFailureCount(failures) \in 0 .. UINT_MAX
           /\ NextFailureCount(failures) >= failures
           /\ NextFailureCount(failures) > 0
  BY WidthAssumption DEF NextFailureCount

\* A failure: FAILED exactly when the budget is spent, BACKOFF otherwise.
LEMMA FailureFacts ==
    ASSUME NEW policy \in gw_retry_policy, NEW runtime \in gw_channel_runtime(policy)
    PROVE  /\ handle_failure(runtime, policy) \in gw_channel_runtime(policy)
           /\ handle_failure(runtime, policy).consecutive_failures
                 = NextFailureCount(runtime.consecutive_failures)
           /\ \/ /\ handle_failure(runtime, policy).state = "FAILED"
                 /\ NextFailureCount(runtime.consecutive_failures) > policy.max_retries
              \/ /\ handle_failure(runtime, policy).state = "BACKOFF"
                 /\ NextFailureCount(runtime.consecutive_failures) \in 1 .. policy.max_retries
  <1> DEFINE failures == NextFailureCount(runtime.consecutive_failures)
             delay == calculate_backoff(failures, policy.max_backoff_sec)
             next == handle_failure(runtime, policy)
  <1>1. runtime.consecutive_failures \in 0 .. UINT_MAX
    BY DEF gw_channel_runtime
  <1>2. failures \in 0 .. UINT_MAX /\ failures > 0
    BY <1>1, CountType
  <1>3. delay \in Delays(policy) /\ policy.max_backoff_sec \in Delays(policy)
    BY <1>2 DEF Delays
  <1>4. policy.max_retries \in Nat
    BY WidthAssumption DEF gw_retry_policy
  <1>5. next.state = IF failures > policy.max_retries THEN "FAILED" ELSE "BACKOFF"
    BY DEF handle_failure, gw_channel_runtime
  <1>6. next.consecutive_failures = failures
    BY DEF handle_failure, gw_channel_runtime
  <1>7. next \in gw_channel_runtime(policy)
    <2> HIDE DEF failures, delay
    <2>1. next = [runtime EXCEPT
                    !.state = IF failures > policy.max_retries THEN "FAILED" ELSE "BACKOFF",
                    !.consecutive_failures = failures,
                    !.backoff_sec = IF failures > policy.max_retries
                                    THEN policy.max_backoff_sec ELSE delay]
      BY DEF handle_failure, failures, delay
    <2> HIDE DEF next
    <2> QED BY <2>1, <1>2, <1>3 DEF gw_channel_runtime, gw_channel_state
  <1> HIDE DEF delay
  <1> QED BY <1>2, <1>4, <1>5, <1>6, <1>7

\* An accepted event takes a runtime to a runtime.
LEMMA TransitionType ==
    ASSUME NEW policy \in gw_retry_policy, NEW runtime \in gw_channel_runtime(policy),
           NEW event \in gw_channel_event, Accepts(runtime, event)
    PROVE  gw_channel_transition(runtime, event, policy) \in gw_channel_runtime(policy)
  <1>1. 0 \in Delays(policy) /\ 0 \in 0 .. UINT_MAX
    BY WidthAssumption DEF Delays
  <1>2. \A s \in gw_channel_state : Reset(runtime, s) \in gw_channel_runtime(policy)
    BY <1>1 DEF Reset, gw_channel_runtime
  <1>3. (runtime.total_restarts + 1) % RestartModulus \in 0 .. RestartModulus - 1
    BY WidthAssumption DEF gw_channel_runtime
  <1>4. CASE event = "BACKOFF_ELAPSED"
    <2>1. [runtime EXCEPT !.state = "STARTING", !.backoff_sec = 0,
                          !.total_restarts = (@ + 1) % RestartModulus]
             \in gw_channel_runtime(policy)
      BY <1>1, <1>3 DEF gw_channel_runtime, gw_channel_state
    <2> QED BY <2>1, <1>4 DEF gw_channel_transition
  <1>5. CASE event = "FAILURE"
    BY <1>5, FailureFacts DEF gw_channel_transition
  <1>6. CASE event \in {"ENABLE", "PROGRESS"}
    <2>1. \A s \in gw_channel_state : [runtime EXCEPT !.state = s] \in gw_channel_runtime(policy)
      BY DEF gw_channel_runtime
    <2> QED BY <2>1, <1>6 DEF gw_channel_transition, Progressed, gw_channel_state
  <1>7. CASE event \in {"START", "STOP", "DISABLE", "STABLE"}
    <2>1. runtime.state \in gw_channel_state
      BY DEF gw_channel_runtime
    <2> QED BY <2>1, <1>2, <1>7 DEF gw_channel_transition, gw_channel_state
  <1> QED BY <1>4, <1>5, <1>6, <1>7 DEF gw_channel_event

\* The events in the states in which gw_supervisor_run applies them: accepted,
\* and where they lead.
LEMMA EventFacts ==
    ASSUME NEW policy \in gw_retry_policy, NEW runtime \in gw_channel_runtime(policy)
    PROVE  /\ runtime.state = "STOPPED" =>
                 /\ Accepts(runtime, "START")
                 /\ gw_channel_transition(runtime, "START", policy).state = "STARTING"
           /\ runtime.state = "DISABLED" => ~ Accepts(runtime, "START")
           /\ runtime.state \in {"STARTING", "RUNNING"} =>
                 /\ Accepts(runtime, "PROGRESS")
                 /\ gw_channel_transition(runtime, "PROGRESS", policy).state = "RUNNING"
                 /\ Accepts(runtime, "FAILURE")
                 /\ gw_channel_transition(runtime, "FAILURE", policy).state
                       \in {"BACKOFF", "FAILED"}
           /\ runtime.state = "RUNNING" =>
                 /\ Accepts(runtime, "STABLE")
                 /\ gw_channel_transition(runtime, "STABLE", policy).state = "RUNNING"
           /\ runtime.state \in {"BACKOFF", "FAILED"} =>
                 /\ Accepts(runtime, "BACKOFF_ELAPSED")
                 /\ gw_channel_transition(runtime, "BACKOFF_ELAPSED", policy).state = "STARTING"
           /\ runtime.state # "DISABLED" =>
                 /\ Accepts(runtime, "STOP")
                 /\ gw_channel_transition(runtime, "STOP", policy).state = "STOPPED"
  <1> USE DEF gw_channel_runtime
  <1>1. runtime.state \in gw_channel_state
    OBVIOUS
  <1>2. \A s : Reset(runtime, s).state = s
    BY DEF Reset
  <1>3. \A s : [runtime EXCEPT !.state = s].state = s
    OBVIOUS
  <1>4. [runtime EXCEPT !.state = "STARTING", !.backoff_sec = 0,
                        !.total_restarts = (@ + 1) % RestartModulus].state = "STARTING"
    OBVIOUS
  <1>5. handle_failure(runtime, policy).state \in {"BACKOFF", "FAILED"}
    BY FailureFacts
  <1> QED
    BY <1>1, <1>2, <1>3, <1>4, <1>5
    DEF Accepts, AcceptedIn, gw_channel_transition, gw_channel_state, Progressed

\* Only STABLE, STOP, START and DISABLE lower the count of failures.
LEMMA CountFacts ==
    ASSUME NEW policy \in gw_retry_policy, NEW runtime \in gw_channel_runtime(policy)
    PROVE  /\ Accepts(runtime, "PROGRESS") =>
                 gw_channel_transition(runtime, "PROGRESS", policy).consecutive_failures
                    = runtime.consecutive_failures
           /\ Accepts(runtime, "BACKOFF_ELAPSED") =>
                 gw_channel_transition(runtime, "BACKOFF_ELAPSED", policy).consecutive_failures
                    = runtime.consecutive_failures
           /\ Accepts(runtime, "FAILURE") =>
                 gw_channel_transition(runtime, "FAILURE", policy).consecutive_failures
                    >= runtime.consecutive_failures
  <1>1. handle_failure(runtime, policy).consecutive_failures >= runtime.consecutive_failures
    BY FailureFacts, CountType DEF gw_channel_runtime
  <1>2. [runtime EXCEPT !.state = "RUNNING"].consecutive_failures
           = runtime.consecutive_failures
    BY DEF gw_channel_runtime
  <1>3. [runtime EXCEPT !.state = "STARTING", !.backoff_sec = 0,
                        !.total_restarts = (@ + 1) % RestartModulus].consecutive_failures
           = runtime.consecutive_failures
    BY DEF gw_channel_runtime
  <1> QED BY <1>1, <1>2, <1>3 DEF gw_channel_transition, Progressed
=============================================================================
