--------------------------- MODULE MCPrioqueLocks ---------------------------
(* Small instances of PrioqueLocks for TLC. *)
EXTENDS PrioqueLocks, TLC

\* Any two queues in either order, and one queue twice.
AllPairs == Queues \X Queues

=============================================================================
