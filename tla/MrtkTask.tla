------------------------------ MODULE MrtkTask ------------------------------
(***************************************************************************)
(* The deletion of tasks while the kernel of one CPU runs, over MrtkKernel *)
(* (kernel/src/mrtk_task.c).  A deletion clears the TCB and leaves the     *)
(* ready queue as it is: a task that was READY keeps its entry and is      *)
(* elected by it, from a TCB whose StartStkptr is NULL.                    *)
(***************************************************************************)
EXTENDS MrtkKernel

\* Processor2TaskPrioTable[CpuId]: read by mrtk_DeleteTask, written nowhere.
Processor2TaskPrioTable == 0

\* The task may be deleted; its State may still be another for a moment.
Deletable(u) ==
    \/ State[u] = "READY"
    \/ State[u] = "EXECUTING" /\ u = Processor2TaskPrioTable

(* mrtk_DeleteTask, called by a task: one critical section, mrtk_sched     *)
(* included.  The calls that are refused (a deleted task, one that runs on *)
(* another CPU) or that do nothing (a task that waits) change no table:    *)
(* they are calls of KernelCall.                                           *)
DeleteTask(t, u) ==
    /\ InTask(t)
    /\ pc[t] \in {"new", "app"}
    /\ Deletable(u)
    /\ SchedFrom([State EXCEPT ![u] = "SLEEPING"])
    /\ pc' = [pc EXCEPT ![t] = "app"]
    /\ UNCHANGED <<Delay, AbsoluteDeadline, boot, isr, MrtkTime, due>>

\* The CPU runs a task that has a stack to run on.
HasStack == MrtkRunning => State[RunningTask] # "SLEEPING"

\* After a switch to a NULL stack the model says nothing more.
StackLost == ~HasStack /\ UNCHANGED vars

TaskStep ==
    /\ HasStack
    /\ Next \/ \E t \in Users, u \in Tasks : DeleteTask(t, u)

TaskSpec == Init /\ [][TaskStep \/ StackLost]_vars

-----------------------------------------------------------------------------
(* "This function allows to delete a task in mrtk.  The task cannot be     *)
(* elected to be schedule on one processor" (mrtk_task.c:48): a switch     *)
(* never goes to a task that has been deleted.                             *)
DeletedNotElected == HasStack
=============================================================================
