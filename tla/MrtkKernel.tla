----------------------------- MODULE MrtkKernel -----------------------------
(***************************************************************************)
(* The kernel on one CPU: the tasks that mrtk_partitioned has given it,    *)
(* mrtk_start, mrtk_wait, the tick interrupt and mrtk_sched, over the      *)
(* deadline queue of MrtkHeap.  Each CPU runs its own binary with its own  *)
(* copy of the kernel's tables, so one CPU is the whole of a kernel.       *)
(*                                                                         *)
(* What one step is.  Between mrtk_begincriticalsection and                *)
(* mrtk_endcriticalsection interrupts are off, so a critical section is    *)
(* one step.  The tick interrupt is taken between two steps of the running *)
(* task, when it has interrupts on.  The interrupt is acknowledged after   *)
(* systickhandler returns (mrtk_port_timer.c:62), but systickhandler ends  *)
(* in mrtk_sched, which may switch to another task: then the acknowledge   *)
(* waits until the interrupted task runs again, and until it is written    *)
(* the hardware holds further ticks back.                                  *)
(***************************************************************************)
EXTENDS MrtkHeap

CONSTANTS CpuId,        \* mrtk_GetCpuId() of this CPU
          UsersMax,     \* NB_USERS_TASK_MAX
          Users,        \* the user tasks that were created and placed here
          Deadline,     \* their relative deadlines, in ticks
          WaitTimes,    \* the arguments of mrtk_wait
          MaxTime       \* bound on MrtkTime_ms

Idle == UsersMax + CpuId

Tasks == Users \cup {Idle}

\* The relative deadline that mrtk_Init gives the idle tasks: 0xFFFFFFFF.
IdleDeadline == U32 - 1

ASSUME KernelAssumption ==
    /\ CpuId \in Nat
    /\ UsersMax \in Nat
    /\ UsersMax + 2 <= QueueSize
    /\ Users \subseteq 0..(UsersMax - 1)
    /\ Deadline \in [Users -> Nat]
    /\ WaitTimes \subseteq Nat \ {0}
    /\ MaxTime \in Nat
    /\ \A t \in Users : MaxTime + Deadline[t] < U32

\* The value of isrOwner when every tick taken has been acknowledged.
NoOwner == -1

\* The value of count when no tick is being processed.
NotTicking == UsersMax + 1

VARIABLES
    State, Delay, AbsoluteDeadline,  \* TaskTcbTable
    RdyQueue,       \* RdyQueue[CpuId]
    RunningTask,    \* RunningTasks[CpuId]
    MrtkRunning,
    MrtkTime,       \* MrtkTime_ms[CpuId]
    toPlace,        \* tasks that mrtk_partitioned still has to insert
    pc,             \* where a task is, see TypeOK
    count,          \* loop variable of mrtk_tick
    isrOwner,       \* the task that was running when the tick was taken
    due             \* history: when the last mrtk_wait or timeout ends

tcb == <<State, Delay, AbsoluteDeadline>>
sched == <<RdyQueue, RunningTask>>
boot == <<MrtkRunning, toPlace>>
isr == <<count, isrOwner>>

vars == <<tcb, sched, boot, isr, MrtkTime, pc, due>>

Ticking == count # NotTicking

\* The running task is executing code of its own, not the interrupt's.
InTask(t) == MrtkRunning /\ RunningTask = t /\ isrOwner # t

-----------------------------------------------------------------------------
(* mrtk_Init and mrtk_CreateTask have run, for the user tasks and Idle. *)
Init ==
    /\ State = [t \in Tasks |-> "READY"]
    /\ Delay = [t \in Tasks |-> 0]
    /\ AbsoluteDeadline =
          [t \in Tasks |-> IF t = Idle THEN IdleDeadline ELSE Deadline[t]]
    /\ RdyQueue = QueuesInit
    /\ RunningTask = 0
    /\ MrtkRunning = FALSE
    /\ MrtkTime = 0
    /\ toPlace = Users
    /\ pc = [t \in Tasks |-> "new"]
    /\ count = NotTicking
    /\ isrOwner = NoOwner
    /\ due = [t \in Tasks |-> 0]

\* mrtk_partitioned inserts the tasks in the order of their capacities.
PlaceTask(t) ==
    /\ t \in toPlace
    /\ RdyQueue' = InsertInQueue(RdyQueue, t, Deadline[t])
    /\ toPlace' = toPlace \ {t}
    /\ UNCHANGED <<tcb, RunningTask, MrtkRunning, isr, MrtkTime, pc, due>>

Start ==
    /\ ~MrtkRunning
    /\ toPlace = {}
    /\ LET hgh == GetTaskWithNearestDeadline(RdyQueue, Idle)
       IN  /\ RunningTask' = hgh
           /\ State' = [State EXCEPT ![hgh] = "EXECUTING"]
    /\ RdyQueue' = RemoveFirstElementInQueue(RdyQueue)
    /\ MrtkRunning' = TRUE
    /\ UNCHANGED <<Delay, AbsoluteDeadline, toPlace, isr, MrtkTime, pc, due>>

-----------------------------------------------------------------------------
\* The test is `TaskId <= NB_USERS_TASK_MAX`, true of the idle task of CPU 0.
Schedulable(t) == t <= UsersMax

PreemptedNever(state, t) == FALSE

Preempted(state, t) == Schedulable(t) /\ state[t] = "EXECUTING"

Switch(state, hgh, run) ==
    LET popped == RemoveFirstElementInQueue(RdyQueue)
        slept  == IF Preempted(state, run)
                  THEN [state EXCEPT ![run] = "READY"] ELSE state
    IN  /\ RdyQueue' = IF Preempted(state, run)
                       THEN InsertInQueue(popped, run, AbsoluteDeadline[run])
                       ELSE popped
        /\ State' = IF Schedulable(hgh) /\ slept[hgh] = "READY"
                    THEN [slept EXCEPT ![hgh] = "EXECUTING"] ELSE slept
        /\ RunningTask' = hgh

(* mrtk_sched does not compare the deadline of the running task.  state is *)
(* the State of the TCBs that its caller leaves to it.                     *)
SchedFrom(state) ==
    LET hgh == GetTaskWithNearestDeadline(RdyQueue, Idle)
    IN  IF hgh # RunningTask
        THEN Switch(state, hgh, RunningTask)
        ELSE State' = state /\ UNCHANGED <<RdyQueue, RunningTask>>

Sched == SchedFrom(State)

-----------------------------------------------------------------------------
(* The first critical section that a fresh task leaves turns interrupts on *)
(* in it: its initial context was captured with interrupts off.  The idle  *)
(* task does nothing but enter and leave a critical section.               *)
KernelCall(t) ==
    /\ InTask(t)
    /\ pc[t] \in {"new", "app"}
    /\ pc' = [pc EXCEPT ![t] = "app"]
    /\ UNCHANGED <<tcb, sched, boot, isr, MrtkTime, due>>

\* The critical section of mrtk_wait.
WaitBegin(t, d) ==
    /\ InTask(t)
    /\ pc[t] \in {"new", "app"}
    /\ State' = [State EXCEPT ![t] = "SUSPENDED"]
    /\ Delay' = [Delay EXCEPT ![t] = d]
    /\ due' = [due EXCEPT ![t] = MrtkTime + d]
    /\ pc' = [pc EXCEPT ![t] = "wait"]
    /\ UNCHANGED <<AbsoluteDeadline, sched, boot, isr, MrtkTime>>

\* mrtk_wait calls mrtk_sched, in a critical section of its own.
WaitSched(t) ==
    /\ InTask(t)
    /\ pc[t] = "wait"
    /\ Sched
    /\ pc' = [pc EXCEPT ![t] = "app"]
    /\ UNCHANGED <<Delay, AbsoluteDeadline, boot, isr, MrtkTime, due>>

-----------------------------------------------------------------------------
(* The tick interrupt, as far as the loop of mrtk_tick. *)
TickTaken ==
    /\ MrtkTime < MaxTime
    /\ MrtkTime' = MrtkTime + 1
    /\ isrOwner' = RunningTask
    /\ count' = 0
    /\ UNCHANGED <<tcb, sched, boot, pc, due>>

\* When it may be taken; MrtkContext derives it from the interrupt masks.
TickBegin ==
    /\ MrtkRunning
    /\ isrOwner = NoOwner
    /\ pc[RunningTask] # "new"
    /\ TickTaken

\* No task is working when the clock ticks for the first time.
FirstTickFindsIdle == TickBegin /\ MrtkTime = 0 => RunningTask = Idle

SleepsFromOne(t) == t # 0 /\ t \in Users /\ State[t] = "SUSPENDED"

Sleeps(t) == t \in Users /\ State[t] = "SUSPENDED" /\ Delay[t] # 0

\* One turn of the loop of mrtk_tick that finds nothing to do.
TickSkip ==
    /\ count < UsersMax
    /\ ~Sleeps(count)
    /\ count' = count + 1
    /\ UNCHANGED <<tcb, sched, boot, isrOwner, MrtkTime, pc, due>>

\* One turn that counts a delay down.
TickDelay ==
    /\ count < UsersMax
    /\ Sleeps(count)
    /\ Delay[count] # 1
    /\ Delay' = [Delay EXCEPT ![count] = @ - 1]
    /\ count' = count + 1
    /\ UNCHANGED <<State, AbsoluteDeadline, sched, boot, isrOwner, MrtkTime, pc, due>>

\* One turn that ends a delay and makes the task ready.
TickWake ==
    /\ count < UsersMax
    /\ Sleeps(count)
    /\ Delay[count] = 1
    /\ LET key == MrtkTime + Deadline[count]
       IN  /\ AbsoluteDeadline' = [AbsoluteDeadline EXCEPT ![count] = key]
           /\ RdyQueue' = InsertInQueue(RdyQueue, count, key)
    /\ Delay' = [Delay EXCEPT ![count] = 0]
    /\ State' = [State EXCEPT ![count] = "READY"]
    /\ count' = count + 1
    /\ UNCHANGED <<RunningTask, boot, isrOwner, MrtkTime, pc, due>>

\* mrtk_exitinterrupt: the nesting counter is back to 0.
TickSched ==
    /\ count = UsersMax
    /\ Sched
    /\ count' = NotTicking
    /\ UNCHANGED <<Delay, AbsoluteDeadline, boot, isrOwner, MrtkTime, pc, due>>

\* The end of cpu_timer0_isr, in the context of the interrupted task.
AckTick ==
    /\ ~Ticking
    /\ isrOwner # NoOwner
    /\ RunningTask = isrOwner
    /\ isrOwner' = NoOwner
    /\ UNCHANGED <<tcb, sched, boot, count, MrtkTime, pc, due>>

-----------------------------------------------------------------------------
TickNext == TickBegin \/ TickSkip \/ TickDelay \/ TickWake \/ TickSched \/ AckTick

TaskNext ==
    \/ \E t \in Tasks : KernelCall(t)
    \/ \E t \in Users : WaitSched(t) \/ \E d \in WaitTimes : WaitBegin(t, d)

Next == (\E t \in Users : PlaceTask(t)) \/ Start \/ TaskNext \/ TickNext

Spec == Init /\ [][Next]_vars

-----------------------------------------------------------------------------
\* The State of a TCB; WAITING is that of semaphores and message queues.
TaskStates == {"SLEEPING", "READY", "EXECUTING", "SUSPENDED"}

TypeOK ==
    /\ State \in [Tasks -> TaskStates]
    /\ Delay \in [Tasks -> Nat]
    /\ AbsoluteDeadline \in [Tasks -> 0..(U32 - 1)]
    /\ RdyQueue \in QueueType
    /\ RunningTask \in IF MrtkRunning THEN Tasks ELSE {0}
    /\ MrtkRunning \in BOOLEAN
    /\ MrtkTime \in 0..MaxTime
    /\ toPlace \subseteq Users
    /\ count \in 0..NotTicking
    /\ isrOwner \in Tasks \cup {NoOwner}
    /\ due \in [Tasks -> Nat]
    \* "new":  not yet out of its first critical section, interrupts off
    \* "app":  in code of its own, or switched out inside mrtk_sched
    \* "wait": in mrtk_wait, between its critical section and mrtk_sched
    /\ pc \in [Tasks -> {"new", "app", "wait"}]

(* The ready queue holds exactly the tasks that are READY, each once, and  *)
(* never the running task: mrtk_wait, the tick and mrtk_sched, each in its *)
(* own critical section, hand a task over without losing or doubling it.   *)
(* The idle task is READY when nobody needs it, queued only by preemption. *)
(* Of a deleted task (SLEEPING) nothing is said: its entry may be left.    *)
ReadyOnce ==
    /\ Distinct(RdyQueue)
    /\ \A t \in Users \ toPlace :
          State[t] # "SLEEPING" => (t \in Members(RdyQueue) <=> State[t] = "READY")
    /\ Idle \in Members(RdyQueue) => State[Idle] \in {"READY", "SLEEPING"}
    /\ MrtkRunning => RunningTask \notin Members(RdyQueue)

(* A user task that is not in the ready queue runs, or has a delay that a  *)
(* tick will still count down: no task is left where nothing looks for it. *)
TaskNotLost ==
    \A t \in Users :
        /\ State[t] = "EXECUTING" => MrtkRunning /\ RunningTask = t
        /\ State[t] = "SUSPENDED" => Delay[t] # 0

(* mrtk_wait(d) returns at the d-th tick or later, and a task is never     *)
(* still suspended when the d-th tick has been processed, however the wait,*)
(* the tick and preemptions interleave (mrtk_eventhandler.c:18).           *)
WakesOnTime ==
    \A t \in Users :
        /\ MrtkRunning /\ RunningTask = t /\ pc[t] = "app" => MrtkTime >= due[t]
        /\ State[t] = "SUSPENDED" /\ ~Ticking => MrtkTime < due[t]

(* A task that was interrupted by a tick and switched out, and so owes the *)
(* acknowledge that lets the next tick come (mrtk_port_timer.c:61), is in  *)
(* the ready queue and will run again without a tick.  The one exception   *)
(* is a task that the tick found in the window of mrtk_wait: it sleeps     *)
(* until a later tick, which it holds back.                                *)
AcknowledgeComes ==
    isrOwner \in Users /\ RunningTask # isrOwner
        => isrOwner \in Members(RdyQueue) \/ pc[isrOwner] = "wait"

(* The key a task is queued under, a copy, is its absolute deadline.       *)
KeyMatchesTcb ==
    \A e \in Held(RdyQueue) : e.Deadline = AbsoluteDeadline[e.TaskId]

(* A switch goes to the ready task with the nearest deadline.              *)
SwitchPicksNearest ==
    [][RunningTask' # RunningTask
          => \A e \in Held(RdyQueue) :
                AbsoluteDeadline[RunningTask'] <= e.Deadline]_vars

-----------------------------------------------------------------------------
(* MRTK "will always schedule on each core the task with the nearest       *)
(* deadline" (README.md:7).                                                *)
RunsNearest ==
    MrtkRunning /\ ~Ticking /\ State[RunningTask] # "SUSPENDED"
       => \A e \in Held(RdyQueue) : AbsoluteDeadline[RunningTask] <= e.Deadline
=============================================================================
