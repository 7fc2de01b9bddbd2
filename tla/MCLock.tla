------------------------------- MODULE MCLock -------------------------------
(* MrtkLock with one or two tasks of each CPU.                              *)
EXTENDS MrtkLock

\* Task 0 on CPU 0 and task 1 on CPU 1, as in lock_test_demo.c.
MCCpu == [t \in {0, 1} |-> t]
MCDeadline == [t \in {0, 1} |-> <<2, 4>>[t + 1]]

\* Deadlines that are distinct, and equal in 16 bits (U16 = 16 here).
MCDeadlineWide == [t \in {0, 1} |-> <<2, 18>>[t + 1]]

\* Tasks 0 and 1 on CPU 0.
MCCpuShared == [t \in {0, 1} |-> 0]
=============================================================================
