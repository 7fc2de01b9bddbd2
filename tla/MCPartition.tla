---------------------------- MODULE MCPartition ----------------------------
(* MrtkPartition with a few shapes of tasks.                                *)
EXTENDS MrtkPartition

Shape(c, d, t) == [executiontime |-> c, deadline |-> d, period |-> t]

MCProperties ==
    {Shape(1, 3, 3), Shape(1, 3, 4), Shape(1, 4, 4), Shape(3, 6, 6), Shape(2, 4, 12)}
=============================================================================
