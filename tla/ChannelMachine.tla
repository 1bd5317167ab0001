--------------------------- MODULE ChannelMachine ---------------------------
(***************************************************************************)
(* The lifecycle table driven by any caller: every event in every state,   *)
(* under every policy of a set.  Supervisor.tla uses the same table in the *)
(* order gw_supervisor_run applies it.                                     *)
(***************************************************************************)
EXTENDS ChannelState

CONSTANT Policies   \* the retry policies to try

ASSUME PoliciesAssumption == Policies \subseteq gw_retry_policy

VARIABLES policy,    \* config->defaults, fixed for the life of the runtime
          runtime    \* the gw_channel_runtime
vars == <<policy, runtime>>

TypeOK ==
    /\ policy \in Policies
    /\ runtime \in gw_channel_runtime(policy)

Init ==
    /\ policy \in Policies
    /\ \E enabled \in BOOLEAN : runtime = gw_channel_runtime_init(enabled)

Apply(event) ==
    /\ Accepts(runtime, event)
    /\ runtime' = gw_channel_transition(runtime, event, policy)
    /\ UNCHANGED policy

Next == \E event \in gw_channel_event : Apply(event)

Spec == Init /\ [][Next]_vars

-----------------------------------------------------------------------------
\* "Produce 1, 2, 4, ... seconds without overflowing past the configured cap":
\* the loop of calculate_backoff computes the smaller of the cap and the power
\* of two for the number of failures, and a channel with its retry budget spent
\* waits for the cap.
BackoffSchedule ==
    /\ runtime.state = "BACKOFF" =>
          LET power == 2 ^ (runtime.consecutive_failures - 1)
              cap   == policy.max_backoff_sec
          IN  runtime.backoff_sec = IF power < cap THEN power ELSE cap
    /\ runtime.state = "FAILED" => runtime.backoff_sec = policy.max_backoff_sec
    /\ runtime.state \notin {"BACKOFF", "FAILED"} => runtime.backoff_sec = 0

\* handle_failure: a channel is in BACKOFF only while it has retries left and
\* in FAILED only when it has none, so the state alone tells the two apart.
RetryBudget ==
    /\ runtime.state = "BACKOFF" =>
          runtime.consecutive_failures \in 1 .. policy.max_retries
    /\ runtime.state = "FAILED" =>
          runtime.consecutive_failures > policy.max_retries
    /\ runtime.state \in {"STOPPED", "DISABLED"} => runtime.consecutive_failures = 0

\* The saturating counter of handle_failure: a channel that has spent its
\* retries never gets the short delays of BACKOFF back by failing again, however
\* often it fails (a counter that wrapped around would hand them out anew).
ExhaustedStaysExhausted ==
    [][runtime.consecutive_failures > policy.max_retries
         => runtime'.state # "BACKOFF"]_vars
=============================================================================
