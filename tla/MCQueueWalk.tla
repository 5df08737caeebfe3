---------------------------- MODULE MCQueueWalk ----------------------------
(* A small instance of QueueWalk for TLC. *)
EXTENDS QueueWalk, TLC

\* Elements that go in front of others and behind them.
MCPriorities == {1, 2}
MCAhead      == {<<1, 1>>, <<1, 2>>, <<2, 2>>}

=============================================================================
