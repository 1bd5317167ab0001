-------------------------- MODULE MCChannelMachine --------------------------
(* Every policy with up to five retries, and caps of the delay below, at,    *)
(* between and above the powers of two the loop passes.                      *)
EXTENDS ChannelMachine

MCPolicies == [max_retries : 0 .. 5, max_backoff_sec : {1, 2, 3, 4, 5, 7, 8, 9, 16, 30}]
=============================================================================
