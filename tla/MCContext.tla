----------------------------- MODULE MCContext -----------------------------
(* MrtkContext with two tasks and the idle task.                           *)
EXTENDS MrtkContext

MCDeadline == [t \in 0..1 |-> <<2, 3>>[t + 1]]
=============================================================================
