--------------------------- MODULE MCPullApproval ---------------------------
(* The instance of PullApproval that TLC checks. *)
EXTENDS PullApproval
CONSTANT p1   \* a decider
=============================================================================
