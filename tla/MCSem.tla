-------------------------------- MODULE MCSem --------------------------------
(* MrtkSem with three tasks.                                                *)
EXTENDS MrtkSem

MCDeadline3 == [t \in 0..2 |-> <<2, 3, 5>>[t + 1]]
=============================================================================
