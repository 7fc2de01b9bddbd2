---------------------------- MODULE MrtkPartition ----------------------------
(***************************************************************************)
(* From mrtk_CreateTask to mrtk_start: the tasks that main creates, sorted *)
(* by decreasing capacity, are given one by one to the least loaded CPU on *)
(* which mrtk_IsEdfSchedulingFeasible accepts them.  Every CPU runs this   *)
(* on tables of its own, and then starts the tasks it has given to itself. *)
(*                                                                         *)
(* Capacities, Float32 in the code, are exact here: a capacity is counted  *)
(* in parts of 1 / Scale, and Scale is a multiple of every period.         *)
(***************************************************************************)
EXTENDS MrtkHeap, SequencesExt

CONSTANTS Users,         \* the identifiers of user tasks
          UsersMax,      \* NB_USERS_TASK_MAX
          CpuId,         \* mrtk_GetCpuId() of this CPU
          NbProcessors,  \* first argument of mrtk_Init
          MaxCpuUsage,   \* MaxCpuUtilization, second argument, in per cent
          Properties,    \* what a task may be created with: TaskProperties
          Scale          \* a common multiple of the periods

ASSUME PartitionAssumption ==
    /\ UsersMax \in Nat
    /\ UsersMax + 2 <= QueueSize
    /\ Users \subseteq 0..(UsersMax - 1)
    /\ NbProcessors \in 1..2
    /\ CpuId \in 0..(NbProcessors - 1)
    /\ MaxCpuUsage \in 1..99
    /\ Scale \in Nat \ {0}
    /\ Properties # {}
    \* "we should have deadline <= period" (mrtk_task.h:15)
    /\ \A p \in Properties :
          /\ p.executiontime \in Nat
          /\ p.period \in 1..(U32 - 1)
          /\ p.deadline \in 1..p.period
          /\ Scale % p.period = 0

CPUs == 0..(NbProcessors - 1)

Idle == UsersMax + CpuId

VARIABLES
    State,                  \* TaskTcbTable, SLEEPING before mrtk_CreateTask
    prop,                   \* and the properties a task was created with
    TasksToPartitioned,     \* the tasks that the loop has not placed yet
    ProcessorCapacityList,
    allocation,             \* TaskPerProcAllocation, the tasks of each CPU
    RdyQueue,               \* the ready queue of each CPU
    found,                  \* what mrtk_partitioned returns
    phase,                  \* how far main is, see PartitionTypeOK
    RunningTask             \* RunningTasks[CpuId]

tcb == <<State, prop>>
result == <<ProcessorCapacityList, allocation, RdyQueue>>
vars == <<tcb, TasksToPartitioned, result, found, phase, RunningTask>>

-----------------------------------------------------------------------------
Capacity(t) == (prop[t].executiontime * Scale) \div prop[t].period

Utilization(S) == SumFunctionOnSet([t \in Users |-> Capacity(t)], S)

MaxMargin(S) == Max({prop[t].period - prop[t].deadline : t \in S})

\* The time x is below MaxCpuUtilization / (1 - MaxCpuUtilization) * margin.
BelowLimit(x, margin) == x * (100 - MaxCpuUsage) < MaxCpuUsage * margin

DemandWithoutFirstJob(S, x) ==
    SumFunctionOnSet([t \in Users |-> (x - prop[t].deadline) * Capacity(t)], S)

\* The processor time that the tasks may need by x, in parts of 1 / Scale.
Demand(S, x) ==
    SumFunctionOnSet([t \in Users |-> (x - prop[t].deadline) * Capacity(t)
                                         + prop[t].executiontime * Scale], S)

IsEdfSchedulingFeasible(S) ==
    /\ 100 * Utilization(S) <= MaxCpuUsage * Scale
    /\ \A x \in 1..(MaxCpuUsage * MaxMargin(S)) :
          BelowLimit(x, MaxMargin(S)) => Demand(S, x) < x * Scale

-----------------------------------------------------------------------------
\* Insertion sort: a task moves in front of those of smaller capacity.
InsertTask(tasks, t) ==
    LET ahead == {j \in DOMAIN tasks : Capacity(tasks[j]) >= Capacity(t)}
    IN  InsertAt(tasks, Max(ahead \cup {0}) + 1, t)

SortTasksToPartitioned(tasks) == FoldLeft(InsertTask, <<>>, tasks)

InsertProcessor(list, p) ==
    LET ahead == {j \in DOMAIN list : list[j].total_capacity <= p.total_capacity}
    IN  InsertAt(list, Max(ahead \cup {0}) + 1, p)

LeftUnsorted(list) == list

SortProcessors(list) == FoldLeft(InsertProcessor, <<>>, list)

-----------------------------------------------------------------------------
\* mrtk_Init.
Init ==
    /\ State = [t \in Users |-> "SLEEPING"]
    /\ prop \in [Users -> {CHOOSE p \in Properties : TRUE}]
    /\ TasksToPartitioned = <<>>
    /\ ProcessorCapacityList =
          [j \in 1..NbProcessors |-> [processorid |-> j - 1, total_capacity |-> 0]]
    /\ allocation = [c \in CPUs |-> {}]
    /\ RdyQueue = [c \in CPUs |-> QueuesInit]
    /\ found = FALSE
    /\ phase = "create"
    /\ RunningTask = 0

(* A task that exists is refused, and nothing changes.  A task may also be *)
(* created after mrtk_start: it is READY, and nobody will place it.        *)
CreateTask(t, p) ==
    /\ phase \in {"create", "running"}
    /\ State[t] = "SLEEPING"
    /\ State' = [State EXCEPT ![t] = "READY"]
    /\ prop' = [prop EXCEPT ![t] = p]
    /\ TasksToPartitioned' = Append(TasksToPartitioned, t)
    /\ UNCHANGED <<result, found, phase, RunningTask>>

\* mrtk_start calls mrtk_partitioned, which begins by sorting the tasks.
BeginPartition ==
    /\ phase = "create"
    /\ phase' = IF TasksToPartitioned = <<>> THEN "partitioned" ELSE "placing"
    /\ TasksToPartitioned' = SortTasksToPartitioned(TasksToPartitioned)
    /\ UNCHANGED <<tcb, result, found, RunningTask>>

\* The places in ProcessorCapacityList of the processors that can take t.
Fits(t) ==
    {j \in 1..NbProcessors :
        LET cpuid == ProcessorCapacityList[j].processorid
        IN  IsEdfSchedulingFeasible(allocation[cpuid] \cup {t})}

\* One turn of the loop over the tasks that finds a processor.
PlaceTask ==
    /\ phase = "placing"
    /\ LET t == Head(TasksToPartitioned)
           j == Min(Fits(t))
           cpuid == ProcessorCapacityList[j].processorid
       IN  /\ Fits(t) # {}
           /\ allocation' = [allocation EXCEPT ![cpuid] = @ \cup {t}]
           /\ RdyQueue' = [RdyQueue EXCEPT
                 ![cpuid] = InsertInQueue(@, t, prop[t].deadline)]
           /\ ProcessorCapacityList' = SortProcessors(
                 [ProcessorCapacityList EXCEPT ![j].total_capacity = @ + Capacity(t)])
    /\ TasksToPartitioned' = Tail(TasksToPartitioned)
    /\ found' = TRUE
    /\ phase' = IF Len(TasksToPartitioned) = 1 THEN "partitioned" ELSE "placing"
    /\ UNCHANGED <<tcb, RunningTask>>

GiveUpKeepingFound ==
    /\ phase = "placing"
    /\ Fits(Head(TasksToPartitioned)) = {}
    /\ phase' = "partitioned"
    /\ UNCHANGED <<tcb, TasksToPartitioned, result, found, RunningTask>>

\* A turn that finds none: this task and those after it are not placed.
GiveUp ==
    /\ phase = "placing"
    /\ Fits(Head(TasksToPartitioned)) = {}
    /\ found' = FALSE
    /\ phase' = "partitioned"
    /\ UNCHANGED <<tcb, TasksToPartitioned, result, RunningTask>>

\* The rest of mrtk_start, whatever mrtk_partitioned has returned.
Start ==
    /\ phase = "partitioned"
    /\ LET hgh == GetTaskWithNearestDeadline(RdyQueue[CpuId], Idle)
       IN  /\ RunningTask' = hgh
           /\ State' = [t \in Users |-> IF t = hgh THEN "EXECUTING" ELSE State[t]]
    /\ RdyQueue' = [RdyQueue EXCEPT ![CpuId] = RemoveFirstElementInQueue(@)]
    /\ phase' = "running"
    /\ UNCHANGED <<prop, TasksToPartitioned, ProcessorCapacityList, allocation,
                   found>>

Next ==
    \/ \E t \in Users, p \in Properties : CreateTask(t, p)
    \/ BeginPartition \/ PlaceTask \/ GiveUp \/ Start

Spec == Init /\ [][Next]_vars

-----------------------------------------------------------------------------
PartitionTypeOK ==
    /\ State \in [Users -> {"SLEEPING", "READY", "EXECUTING"}]
    /\ prop \in [Users -> Properties]
    /\ TasksToPartitioned \in Seq(Users)
    /\ allocation \in [CPUs -> SUBSET Users]
    /\ RdyQueue \in [CPUs -> QueueType]
    /\ found \in BOOLEAN
    \* "placing": in the loop of mrtk_partitioned; "running": after mrtk_start
    /\ phase \in {"create", "placing", "partitioned", "running"}
    /\ RunningTask \in Users \cup {0, Idle}

\* The processor time that the jobs of t released and due within x need.
JobsDue(t, x) ==
    IF x < prop[t].deadline
    THEN 0
    ELSE ((x - prop[t].deadline) \div prop[t].period + 1) * prop[t].executiontime

(* The tasks given to a CPU meet their deadlines under EDF: at no time do  *)
(* the jobs that are due by then need more than that time.  The code tests *)
(* an upper bound of that need, and only up to a limit (mrtk_sched.c:79).  *)
DeadlinesCanBeMet ==
    \A c \in CPUs, x \in 1..(2 * Scale) :
        SumFunctionOnSet([t \in Users |-> JobsDue(t, x)], allocation[c]) <= x

(* When mrtk_partitioned returns TRUE every task created is in the ready   *)
(* queue of one CPU, once and under its deadline, and of no other.         *)
EveryTaskPlacedOnce ==
    phase = "partitioned" /\ found
        => \A t \in Users : State[t] = "READY" =>
              \E c \in CPUs :
                 /\ Entry(t, prop[t].deadline) \in Held(RdyQueue[c])
                 /\ Distinct(RdyQueue[c])
                 /\ \A d \in CPUs \ {c} : t \notin Members(RdyQueue[d])

(* The biggest task left goes to a CPU, and only if every CPU that is less *)
(* loaded is unable to take it: both lists are in order when they are read.*)
BiggestToLeastLoaded ==
    [][\A c, d \in CPUs : \A t \in allocation'[c] \ allocation[c] :
          /\ \A u \in ToSet(TasksToPartitioned') : Capacity(u) <= Capacity(t)
          /\ Utilization(allocation[d]) < Utilization(allocation[c])
                => ~IsEdfSchedulingFeasible(allocation[d] \cup {t})]_vars
=============================================================================
