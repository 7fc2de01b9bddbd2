----------------------------- MODULE MCMsgQueue -----------------------------
(* MrtkMsgQueue with a sender, a receiver and a task that only waits.       *)
EXTENDS MrtkMsgQueue

\* Tasks 1 and 2 are tasks 3 and 4 of four_tasks_demo.c.
MCDeadline == [t \in 0..2 |-> <<4, 3, 2>>[t + 1]]
=============================================================================
