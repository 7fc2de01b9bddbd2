------------------------------ MODULE MCKernel ------------------------------
(* MrtkKernel and MrtkTask with a handful of tasks.                         *)
EXTENDS MrtkTask

MCDeadline3 == [t \in 0..2 |-> <<2, 3, 5>>[t + 1]]
MCDeadline2 == [t \in 0..1 |-> <<2, 3>>[t + 1]]
=============================================================================
