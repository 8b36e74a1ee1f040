---------------------------- MODULE MCPollNotify ----------------------------
(* Model-checking instance of PollNotify. *)
EXTENDS PollNotify

=============================================================================
