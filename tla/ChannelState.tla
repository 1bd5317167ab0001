---------------------------- MODULE ChannelState ----------------------------
(***************************************************************************)
(* The channel lifecycle table of src/channel/channel_state.c, as pure     *)
(* operators on the struct gw_channel_runtime.                             *)
(*                                                                         *)
(* The two machine integers keep their behaviour at the limit:             *)
(* consecutive_failures is an unsigned int that saturates at UINT_MAX,     *)
(* total_restarts a uint64_t that wraps around at RestartModulus (2^64 in  *)
(* the program, a small number in a model).                                *)
(***************************************************************************)
EXTENDS Integers

CONSTANTS UINT_MAX,        \* largest value of consecutive_failures
          RestartModulus   \* total_restarts counts modulo this number

ASSUME WidthAssumption == UINT_MAX \in Nat \ {0} /\ RestartModulus \in Nat \ {0}

gw_channel_state ==
    {"DISABLED", "STOPPED", "STARTING", "RUNNING", "BACKOFF", "FAILED"}

gw_channel_event ==
    {"ENABLE", "DISABLE", "START", "PROGRESS", "FAILURE", "BACKOFF_ELAPSED",
     "STABLE", "STOP"}

\* A retry policy gw_channel_transition does not refuse.  max_retries is an int,
\* so it is always below UINT_MAX.
gw_retry_policy == [max_retries : 0 .. UINT_MAX - 1, max_backoff_sec : Nat \ {0}]

-----------------------------------------------------------------------------
\* A wrong calculate_backoff: doubles once too often.
EagerBackoff(failures, maximum) ==
    IF 2 ^ failures > maximum THEN maximum ELSE 2 ^ failures

\* The loop of calculate_backoff: delay[n] is the local delay when the loop
\* ends with step = n.
calculate_backoff(failures, maximum) ==
    LET delay[step \in Nat] ==
            IF step <= 1 THEN 1
            ELSE LET d == delay[step - 1]
                 IN  IF d >= maximum THEN d
                     ELSE IF d > maximum \div 2 THEN maximum ELSE 2 * d
    IN  IF delay[failures] > maximum THEN maximum ELSE delay[failures]

\* Every value backoff_sec can take under a policy.
Delays(policy) ==
    {0, policy.max_backoff_sec} \cup
    {calculate_backoff(f, policy.max_backoff_sec) : f \in 0 .. UINT_MAX}

gw_channel_runtime(policy) ==
    [state                : gw_channel_state,
     consecutive_failures : 0 .. UINT_MAX,
     total_restarts       : 0 .. RestartModulus - 1,
     backoff_sec          : Delays(policy)]

gw_channel_runtime_init(enabled) ==
    [state                |-> IF enabled THEN "STOPPED" ELSE "DISABLED",
     consecutive_failures |-> 0,
     total_restarts       |-> 0,
     backoff_sec          |-> 0]

-----------------------------------------------------------------------------
\* The states in which an event is not answered by reject_transition.
AcceptedIn(event) ==
    CASE event = "ENABLE"                  -> {"DISABLED"}
      [] event = "DISABLE"                 -> gw_channel_state
      [] event = "START"                   -> {"STOPPED", "FAILED"}
      [] event \in {"PROGRESS", "FAILURE"} -> {"STARTING", "RUNNING"}
      [] event = "BACKOFF_ELAPSED"         -> {"BACKOFF", "FAILED"}
      [] event = "STABLE"                  -> {"RUNNING"}
      [] event = "STOP"                    -> gw_channel_state \ {"DISABLED"}

\* A wrong Accepts: a worker that never reported progress cannot fail.
AcceptsLateFailure(runtime, event) ==
    runtime.state \in AcceptedIn(event) \ (IF event = "FAILURE" THEN {"STARTING"} ELSE {})

\* A wrong Accepts: FAILED is final.
AcceptsNoRecovery(runtime, event) ==
    runtime.state \in AcceptedIn(event) \ (IF event = "BACKOFF_ELAPSED" THEN {"FAILED"} ELSE {})

Accepts(runtime, event) == runtime.state \in AcceptedIn(event)

\* A wrong NextFailureCount: the counter wraps around instead of saturating.
WrappingFailureCount(failures) == (failures + 1) % (UINT_MAX + 1)

\* The saturating increment of consecutive_failures.
NextFailureCount(failures) == IF failures < UINT_MAX THEN failures + 1 ELSE failures

\* A wrong handle_failure: the last retry is refused (>= for >).
StingyFailure(runtime, policy) ==
    LET failures  == NextFailureCount(runtime.consecutive_failures)
        exhausted == failures >= policy.max_retries
    IN  [runtime EXCEPT
            !.state = IF exhausted THEN "FAILED" ELSE "BACKOFF",
            !.consecutive_failures = failures,
            !.backoff_sec = IF exhausted
                            THEN policy.max_backoff_sec
                            ELSE calculate_backoff(failures, policy.max_backoff_sec)]

handle_failure(runtime, policy) ==
    LET failures  == NextFailureCount(runtime.consecutive_failures)
        exhausted == failures > policy.max_retries
    IN  [runtime EXCEPT
            !.state = IF exhausted THEN "FAILED" ELSE "BACKOFF",
            !.consecutive_failures = failures,
            !.backoff_sec = IF exhausted
                            THEN policy.max_backoff_sec
                            ELSE calculate_backoff(failures, policy.max_backoff_sec)]

\* DISABLE, START, STABLE and STOP forget the failures that went before.
Reset(runtime, state) ==
    [runtime EXCEPT !.state = state, !.consecutive_failures = 0, !.backoff_sec = 0]

\* A wrong Progressed: progress is taken for stability.
ForgivingProgress(runtime) == Reset(runtime, "RUNNING")

Progressed(runtime) == [runtime EXCEPT !.state = "RUNNING"]

\* The runtime after an event; a rejected event leaves it alone.
gw_channel_transition(runtime, event, policy) ==
    IF ~ Accepts(runtime, event) THEN runtime
    ELSE CASE event = "ENABLE"   -> [runtime EXCEPT !.state = "STOPPED"]
           [] event = "DISABLE"  -> Reset(runtime, "DISABLED")
           [] event = "START"    -> Reset(runtime, "STARTING")
           [] event = "PROGRESS" -> Progressed(runtime)
           [] event = "FAILURE"  -> handle_failure(runtime, policy)
           [] event = "BACKOFF_ELAPSED" ->
                [runtime EXCEPT
                    !.state = "STARTING",
                    !.backoff_sec = 0,
                    !.total_restarts = (@ + 1) % RestartModulus]
           [] event = "STABLE"   -> Reset(runtime, runtime.state)
           [] event = "STOP"     -> Reset(runtime, "STOPPED")
=============================================================================
