---------------------------- MODULE MCSupervisor ----------------------------
EXTENDS Supervisor, TLC
MCPolicy == [max_retries |-> 1, max_backoff_sec |-> 2]
Daemon  == [stop_on_clean_exit |-> FALSE, exit_on_retry_exhaustion |-> FALSE]
OneShot == [stop_on_clean_exit |-> TRUE, exit_on_retry_exhaustion |-> TRUE]
MCModes == {Daemon, OneShot}
PidSymmetry == Permutations(Pids)
=============================================================================
