-------------------------- MODULE MrtkKernelProofs --------------------------
(***************************************************************************)
(* The tasks of one CPU are neither lost nor doubled, whatever their       *)
(* number and deadlines, and whichever are deleted, provided no task calls *)
(* mrtk_wait(1).                                                           *)
(*                                                                         *)
(* The inductive invariant adds to the properties what each of them needs  *)
(* of the others: where the interrupted task stands (TickInv, WaitInv), so *)
(* that a tick never wakes the task it has interrupted, and what the boot  *)
(* has done so far (BootInv).                                              *)
(***************************************************************************)
EXTENDS MrtkTask, MrtkHeapProofs, FiniteSetTheorems

\* A wait of one tick can end in the window between the critical sections of
\* mrtk_wait, before the task has been switched out.
NoWaitOfOne == 1 \notin WaitTimes

QueueInv ==
    /\ GoodQueue(RdyQueue)
    /\ Members(RdyQueue) \subseteq Tasks
    /\ KeyMatchesTcb

BootInv ==
    /\ ~MrtkRunning => /\ count = NotTicking /\ isrOwner = NoOwner
                       /\ Members(RdyQueue) = Users \ toPlace
                       /\ \A t \in Tasks : /\ State[t] = "READY"
                                           /\ pc[t] = "new"
                                           /\ t \in Users => AbsoluteDeadline[t] = Deadline[t]
    /\ MrtkRunning => toPlace = {}

\* The running task executes, unless it is in the window of mrtk_wait or has
\* been deleted.
RunningInv ==
    MrtkRunning /\ RunningTask \in Users
       => \/ State[RunningTask] \in {"EXECUTING", "SLEEPING"}
          \/ State[RunningTask] = "SUSPENDED" /\ pc[RunningTask] = "wait"

TickInv == Ticking => MrtkRunning /\ isrOwner = RunningTask

\* A task in the window of mrtk_wait runs and has two ticks to go, or was
\* interrupted there, and then it has at least one and never runs again.
WaitInv ==
    \A t \in Tasks : pc[t] = "wait" =>
        /\ t \in Users /\ State[t] = "SUSPENDED"
        /\ isrOwner # t => RunningTask = t /\ Delay[t] >= 2
        /\ isrOwner = t /\ Ticking /\ count <= t => Delay[t] >= 2
        /\ isrOwner = t /\ ~Ticking => RunningTask # t

\* The tick in progress has already counted a task's delay down, or not yet.
DueInv ==
    \A t \in Users :
        IF State[t] = "SUSPENDED"
        THEN due[t] = MrtkTime + Delay[t] - (IF Ticking /\ count <= t THEN 1 ELSE 0)
        ELSE MrtkTime >= due[t]

IInv ==
    /\ TypeOK /\ QueueInv /\ ReadyOnce /\ TaskNotLost
    /\ BootInv /\ RunningInv /\ TickInv /\ WaitInv /\ DueInv
    /\ AcknowledgeComes

-----------------------------------------------------------------------------
(* The numbers of the tasks: the user tasks come first, and the idle task  *)
(* of the CPU is none of them.                                             *)
LEMMA TaskNumbers ==
    /\ UsersMax \in Nat /\ Idle \in Nat /\ Idle \notin Users
    /\ Tasks \subseteq Nat /\ Users \subseteq Tasks /\ Idle \in Tasks
    /\ \A t \in Users : t \in 0..(UsersMax - 1)
    /\ NoOwner \notin Tasks
    /\ NotTicking = UsersMax + 1
  BY KernelAssumption DEF Idle, Tasks, NoOwner, NotTicking

(* A queue that is not empty has a root that belongs to one of its tasks.  *)
LEMMA MembersHaveEntries ==
    ASSUME NEW q, GoodQueue(q)
    PROVE  /\ q.last = 0 => Members(q) = {}
           /\ q.last # 0 => q.tab[1].TaskId \in Members(q) /\ q.tab[1] \in Held(q)
           /\ Distinct(q)
  BY QueueEntries DEF Members, Held, Slots, Distinct, GoodQueue, GoodTable

(* The root leaves, and only its task with it.                             *)
LEMMA RemoveFirstMembers ==
    ASSUME NEW q, GoodQueue(q), q.last # 0
    PROVE  LET r == RemoveFirstElementInQueue(q)
           IN  /\ GoodQueue(r)
               /\ Members(r) = Members(q) \ {q.tab[1].TaskId}
               /\ Held(r) \subseteq Held(q)
               /\ r.last < QueueSize - 1
<1> DEFINE r == RemoveFirstElementInQueue(q)
<1>1. /\ GoodQueue(r) /\ Held(r) = Held(q) \ {q.tab[1]} /\ q.tab[1] \in Held(q)
      /\ r.last = q.last - 1
  BY RemoveFirstTakesRoot
<1>2. \A e \in Held(q) : e # q.tab[1] => e.TaskId # q.tab[1].TaskId
  <2>1. 1 \in Slots(q)
    BY QueueEntries DEF Slots
  <2> QED BY <2>1, MembersHaveEntries DEF Held, Distinct
<1>3. Members(r) = Members(q) \ {q.tab[1].TaskId}
  <2>1. /\ Members(r) = {e.TaskId : e \in Held(r)}
        /\ Members(q) = {e.TaskId : e \in Held(q)}
    BY <1>1, QueueEntries
  <2> HIDE DEF r
  <2> QED BY <1>1, <1>2, <2>1
<1>4. r.last < QueueSize - 1
  BY <1>1, QueueEntries, HeapAssumption
<1> QED BY <1>1, <1>3, <1>4

(* An insertion adds one task to the members of a queue.                   *)
LEMMA InsertMembers ==
    ASSUME NEW q, GoodQueue(q), q.last < QueueSize - 1,
           NEW t \in Nat, t \notin Members(q), NEW d \in 0..(U32 - 1)
    PROVE  LET r == InsertInQueue(q, t, d)
           IN  /\ GoodQueue(r)
               /\ Members(r) = Members(q) \cup {t}
               /\ Held(r) = Held(q) \cup {Entry(t, d)}
<1> DEFINE r == InsertInQueue(q, t, d)
<1>1. GoodQueue(r) /\ Held(r) = Held(q) \cup {Entry(t, d)}
  BY InsertAddsEntry
<1>2. /\ Members(r) = {e.TaskId : e \in Held(r)}
      /\ Members(q) = {e.TaskId : e \in Held(q)}
  BY <1>1, QueueEntries
<1>3. Members(r) = Members(q) \cup {t}
  <2>1. Entry(t, d).TaskId = t
    BY DEF Entry
  <2> HIDE DEF r
  <2> QED BY <1>1, <1>2, <2>1
<1> QED BY <1>1, <1>3

(* The table has room for every task of the CPU but one: mrtk_InsertInQueue *)
(* needs no bound check where the task it inserts is not in the queue.      *)
THEOREM RoomForTask ==
    ASSUME NEW q, GoodQueue(q), NEW t \in Tasks, Members(q) \subseteq Tasks \ {t}
    PROVE  q.last <= UsersMax /\ q.last < QueueSize - 1
<1> DEFINE T == 0..(UsersMax - 1) \cup {Idle}
           f == [i \in 1..q.last |-> q.tab[i].TaskId]
<1>1. /\ q.last \in 0..(QueueSize - 1) /\ UsersMax + 2 <= QueueSize /\ UsersMax \in Nat
      /\ QueueSize \in Nat
  BY QueueEntries, KernelAssumption, HeapAssumption
<1>2. IsFiniteSet(0..(UsersMax - 1)) /\ Cardinality(0..(UsersMax - 1)) = UsersMax
  <2>1. CASE UsersMax = 0
    <3>1. 0..(UsersMax - 1) = {}
      BY <2>1
    <3> QED BY <2>1, <3>1, FS_EmptySet
  <2>2. CASE UsersMax # 0
    <3>1. 0 \in Int /\ UsersMax - 1 \in Int /\ ~(0 > UsersMax - 1)
          /\ UsersMax - 1 - 0 + 1 = UsersMax
      BY <1>1, <2>2
    <3>2. /\ IsFiniteSet(0..(UsersMax - 1))
          /\ Cardinality(0..(UsersMax - 1)) = UsersMax - 1 - 0 + 1
      BY <3>1, FS_Interval, Zenon
    <3> QED BY <3>1, <3>2
  <2> QED BY <2>1, <2>2
<1>3. IsFiniteSet(T) /\ Cardinality(T) = UsersMax + 1
  <2>1. Idle \notin 0..(UsersMax - 1)
    BY KernelAssumption DEF Idle
  <2> QED BY <1>2, <2>1, FS_AddElement
<1>4. IsFiniteSet(T \ {t}) /\ Cardinality(T \ {t}) = UsersMax
  <2>1. t \in T
    BY TaskNumbers DEF Tasks
  <2> HIDE DEF T
  <2>2. IsFiniteSet(T \ {t}) /\ Cardinality(T \ {t}) = Cardinality(T) - 1
    BY <1>3, <2>1, FS_RemoveElement
  <2> QED BY <1>1, <1>3, <2>2
<1>5. f \in [1..q.last -> T \ {t}]
  <2>1. \A i \in 1..q.last : q.tab[i].TaskId \in Members(q)
    BY DEF Members, Slots
  <2>2. Tasks \subseteq T
    BY TaskNumbers DEF Tasks
  <2> HIDE DEF T
  <2> QED BY <2>1, <2>2
<1>6. SUFFICES ASSUME UsersMax < q.last PROVE FALSE
  BY <1>1
<1>7. IsFiniteSet(1..q.last) /\ Cardinality(1..q.last) = q.last
  <2>1. 1 \in Int /\ q.last \in Int /\ ~(1 > q.last) /\ q.last - 1 + 1 = q.last
    BY <1>1, <1>6
  <2>2. IsFiniteSet(1..q.last) /\ Cardinality(1..q.last) = q.last - 1 + 1
    BY <2>1, FS_Interval, Zenon
  <2> QED BY <2>1, <2>2
<1>8. \E x, y \in 1..q.last : x # y /\ f[x] = f[y]
  <2> DEFINE S == 1..q.last
             R == T \ {t}
  <2>1. Cardinality(R) < Cardinality(S)
    BY <1>4, <1>6, <1>7
  <2> HIDE DEF T, f, S, R
  <2>2. IsFiniteSet(S) /\ IsFiniteSet(R) /\ f \in [S -> R]
    BY <1>4, <1>5, <1>7 DEF S, R
  <2>3. \E x, y \in S : x # y /\ f[x] = f[y]
    BY <2>1, <2>2, FS_PigeonHole
  <2> QED BY <2>3 DEF S
<1>9. \A x, y \in 1..q.last : f[x] = f[y] => x = y
  BY MembersHaveEntries DEF Distinct, Slots
<1> QED BY <1>8, <1>9

-----------------------------------------------------------------------------
(* The task with the nearest deadline leaves the queue; where the queue is *)
(* empty that task is the idle task, and the queue stays empty.            *)
LEMMA NearestLeaves ==
    ASSUME NEW q, GoodQueue(q), Members(q) \subseteq Tasks
    PROVE  LET hgh == GetTaskWithNearestDeadline(q, Idle)
               r   == RemoveFirstElementInQueue(q)
           IN  /\ GoodQueue(r)
               /\ Members(r) = Members(q) \ {hgh}
               /\ Held(r) \subseteq Held(q)
               /\ hgh \in Tasks
               /\ hgh \in Users => hgh \in Members(q)
<1>1. CASE q.last = 0
  BY <1>1, MembersHaveEntries, TaskNumbers
     DEF GetTaskWithNearestDeadline, RemoveFirstElementInQueue
<1>2. CASE q.last # 0
  <2>1. GetTaskWithNearestDeadline(q, Idle) = q.tab[1].TaskId
    BY <1>2 DEF GetTaskWithNearestDeadline
  <2>2. q.tab[1].TaskId \in Members(q)
    BY <1>2, MembersHaveEntries
  <2> QED BY <1>2, <2>1, <2>2, RemoveFirstMembers
<1> QED BY <1>1, <1>2

(* A task can be inserted in the ready queue of its CPU, when it is not in *)
(* there, under its absolute deadline.                                     *)
LEMMA TaskInserted ==
    ASSUME NEW q, GoodQueue(q), Members(q) \subseteq Tasks,
           NEW t \in Tasks, t \notin Members(q), NEW d \in 0..(U32 - 1)
    PROVE  LET r == InsertInQueue(q, t, d)
           IN  /\ GoodQueue(r)
               /\ Members(r) = Members(q) \cup {t}
               /\ Held(r) = Held(q) \cup {Entry(t, d)}
<1>1. q.last < QueueSize - 1
  <2>1. Members(q) \subseteq Tasks \ {t}
    OBVIOUS
  <2> QED BY <2>1, RoomForTask
<1>2. t \in Nat
  BY TaskNumbers
<1> QED BY <1>1, <1>2, InsertMembers

(* Every entry of a queue belongs to one of its members.                   *)
LEMMA HeldAreMembers ==
    ASSUME NEW q, GoodQueue(q)
    PROVE  \A e \in Held(q) : e.TaskId \in Members(q)
  BY QueueEntries

(* mrtk_sched hands the CPU over without losing or doubling a task, never  *)
(* wakes one, and leaves a user task in place only by switching away.      *)
LEMMA SchedFromStep ==
    ASSUME TypeOK, QueueInv, ReadyOnce, TaskNotLost,
           MrtkRunning, toPlace = {},
           NEW state \in [Tasks -> TaskStates], SchedFrom(state),
           \A t \in Tasks : \/ state[t] = State[t]
                            \/ (State[t] # "SUSPENDED" /\ state[t] = "SLEEPING"),
           UNCHANGED <<AbsoluteDeadline, Delay, boot>>
    PROVE  /\ State' \in [Tasks -> TaskStates]
           /\ RdyQueue' \in QueueType /\ RunningTask' \in Tasks
           /\ QueueInv' /\ ReadyOnce' /\ TaskNotLost'
           /\ \A t \in Tasks : State'[t] = "SUSPENDED" <=> State[t] = "SUSPENDED"
           /\ RunningTask' = RunningTask => RunningTask = Idle
           /\ RunningTask' # RunningTask /\ RunningTask' \in Users
                 => State'[RunningTask'] \in {"EXECUTING", "SLEEPING"}
           /\ \A t \in Users :
                 /\ t \in Members(RdyQueue)
                       => t \in Members(RdyQueue') \/ t = RunningTask'
                 /\ t = RunningTask /\ state[t] = "EXECUTING"
                       => t \in Members(RdyQueue')
<1> DEFINE hgh    == GetTaskWithNearestDeadline(RdyQueue, Idle)
           popped == RemoveFirstElementInQueue(RdyQueue)
           slept  == IF Preempted(state, RunningTask)
                     THEN [state EXCEPT ![RunningTask] = "READY"] ELSE state
<1>1. /\ GoodQueue(popped)
      /\ Members(popped) = Members(RdyQueue) \ {hgh}
      /\ Held(popped) \subseteq Held(RdyQueue)
      /\ hgh \in Tasks
      /\ hgh \in Users => hgh \in Members(RdyQueue)
  BY NearestLeaves DEF QueueInv
<1>2. /\ RunningTask \in Tasks /\ RunningTask \notin Members(RdyQueue)
      /\ Members(RdyQueue) \subseteq Tasks /\ GoodQueue(RdyQueue)
      /\ State \in [Tasks -> TaskStates] /\ {"READY", "EXECUTING"} \subseteq TaskStates
      /\ AbsoluteDeadline[RunningTask] \in 0..(U32 - 1)
  BY DEF TypeOK, QueueInv, ReadyOnce, TaskStates
<1>3. CASE hgh = RunningTask
  <2>1. State' = state /\ UNCHANGED <<RdyQueue, RunningTask>>
    BY <1>3 DEF SchedFrom
  <2>2. RunningTask = Idle
    BY <1>1, <1>2, <1>3 DEF Tasks
  <2>3. /\ \A t \in Users : t \in Tasks
        /\ Idle \in Tasks /\ Idle \notin Members(RdyQueue)
    BY <1>2, <2>2, TaskNumbers
  <2>5. QueueInv' /\ ReadyOnce' /\ TaskNotLost'
    BY <2>1, <2>3 DEF QueueInv, ReadyOnce, TaskNotLost, boot, KeyMatchesTcb
  <2>6. \A t \in Tasks : State'[t] = "SUSPENDED" <=> State[t] = "SUSPENDED"
    BY <2>1
  <2>4. RdyQueue' \in QueueType
    BY <2>1 DEF TypeOK
  <2> QED BY <1>2, <2>1, <2>2, <2>4, <2>5, <2>6, TaskNumbers
<1>4. CASE hgh # RunningTask
  <2>1. /\ RdyQueue' = IF Preempted(state, RunningTask)
                       THEN InsertInQueue(popped, RunningTask, AbsoluteDeadline[RunningTask])
                       ELSE popped
        /\ State' = IF Schedulable(hgh) /\ slept[hgh] = "READY"
                    THEN [slept EXCEPT ![hgh] = "EXECUTING"] ELSE slept
        /\ RunningTask' = hgh
    BY <1>4 DEF SchedFrom, Switch
  <2>2. /\ GoodQueue(RdyQueue')
        /\ Members(RdyQueue') = Members(popped)
              \cup (IF Preempted(state, RunningTask) THEN {RunningTask} ELSE {})
        /\ Held(RdyQueue') \subseteq Held(RdyQueue)
              \cup {Entry(RunningTask, AbsoluteDeadline[RunningTask])}
    <3>1. Members(popped) \subseteq Tasks /\ RunningTask \notin Members(popped)
      BY <1>1, <1>2
    <3> HIDE DEF popped
    <3>2. CASE Preempted(state, RunningTask)
      BY <1>1, <1>2, <2>1, <3>1, <3>2, TaskInserted
    <3>3. CASE ~Preempted(state, RunningTask)
      BY <1>1, <2>1, <3>3
    <3> QED BY <3>2, <3>3
  <2> HIDE DEF hgh, popped
  <2>3. /\ slept \in [Tasks -> TaskStates]
        /\ \A t \in Tasks : t # RunningTask => slept[t] = state[t]
        /\ Preempted(state, RunningTask) => /\ state[RunningTask] = "EXECUTING"
                                            /\ slept[RunningTask] = "READY"
        /\ ~Preempted(state, RunningTask) => slept = state
    BY <1>2 DEF Preempted
  <2>4. \A t \in Users : Schedulable(t)
    BY TaskNumbers DEF Schedulable
  <2> HIDE DEF slept
  <2>5. /\ State' \in [Tasks -> TaskStates]
        /\ \A t \in Tasks : t # hgh => State'[t] = slept[t]
        /\ State'[hgh] \in {slept[hgh], "EXECUTING"}
        /\ slept[hgh] = "SUSPENDED" => State'[hgh] = "SUSPENDED"
    BY <1>1, <1>2, <2>1, <2>3
  <2>6. hgh \in Users => \/ state[hgh] = "READY" /\ State'[hgh] = "EXECUTING"
                         \/ state[hgh] = "SLEEPING" /\ State'[hgh] = "SLEEPING"
    <3>1. ASSUME hgh \in Users PROVE state[hgh] \in {"READY", "SLEEPING"}
      BY <1>1, <3>1 DEF ReadyOnce
    <3> QED BY <1>1, <1>4, <2>1, <2>3, <2>4, <3>1
  <2>7. \A t \in Tasks : State'[t] = "SUSPENDED" <=> State[t] = "SUSPENDED"
    <3>1. \A t \in Tasks : slept[t] = "SUSPENDED" <=> state[t] = "SUSPENDED"
      BY <1>2, <2>3
    <3>2. \A t \in Tasks : State'[t] = "SUSPENDED" <=> slept[t] = "SUSPENDED"
      BY <1>1, <2>5
    <3> QED BY <3>1, <3>2
  <2>8. QueueInv'
    <3>1. Members(RdyQueue') \subseteq Tasks
      BY <1>1, <1>2, <2>2
    <3>2. KeyMatchesTcb'
      <4> SUFFICES ASSUME NEW e \in Held(RdyQueue')
                   PROVE  e.Deadline = AbsoluteDeadline[e.TaskId]
        BY DEF KeyMatchesTcb
      <4>1. CASE e \in Held(RdyQueue)
        BY <4>1 DEF QueueInv, KeyMatchesTcb
      <4>2. CASE e = Entry(RunningTask, AbsoluteDeadline[RunningTask])
        BY <4>2 DEF Entry
      <4> QED BY <2>2, <4>1, <4>2
    <3> QED BY <2>2, <3>1, <3>2 DEF QueueInv
  <2>9. ReadyOnce'
    <3>1. Distinct(RdyQueue)'
      BY <2>2, MembersHaveEntries
    <3>2. ASSUME NEW t \in Users, State'[t] # "SLEEPING"
          PROVE  t \in Members(RdyQueue') <=> State'[t] = "READY"
      <4>1. /\ t \in Tasks
            /\ state[t] # "SLEEPING"
                  => (t \in Members(RdyQueue) <=> state[t] = "READY")
        BY TaskNumbers DEF ReadyOnce
      <4>2. CASE t = hgh
        BY <1>1, <1>4, <2>2, <2>6, <3>2, <4>1, <4>2
      <4>3. CASE t # hgh /\ t = RunningTask
        <5>1. t \in Members(RdyQueue') <=> Preempted(state, RunningTask)
          BY <1>1, <1>2, <2>2, <4>3
        <5>2. State'[t] = slept[t]
          BY <2>5, <4>1, <4>3
        <5> QED BY <1>2, <2>3, <3>2, <4>1, <4>3, <5>1, <5>2
      <4>4. CASE t # hgh /\ t # RunningTask
        BY <1>1, <2>2, <2>3, <2>5, <3>2, <4>1, <4>4
      <4> QED BY <4>2, <4>3, <4>4
    <3>3. Idle \in Members(RdyQueue') => State'[Idle] \in {"READY", "SLEEPING"}
      <4>1. ASSUME Idle \in Members(RdyQueue')
            PROVE  State'[Idle] \in {"READY", "SLEEPING"}
        <5>1. Idle # hgh
          BY <1>1, <1>4, <2>2, <4>1
        <5>2. State'[Idle] = slept[Idle]
          BY <2>5, <5>1, TaskNumbers
        <5>3. CASE Idle = RunningTask
          BY <1>1, <1>2, <2>2, <2>3, <4>1, <5>2, <5>3
        <5>4. CASE Idle # RunningTask
          <6>1. Idle \in Members(RdyQueue)
            BY <1>1, <2>2, <4>1, <5>4
          <6> QED BY <2>3, <5>2, <5>4, <6>1, TaskNumbers DEF ReadyOnce
        <5> QED BY <5>3, <5>4
      <4> QED BY <4>1
    <3>4. RunningTask' \notin Members(RdyQueue')
      BY <1>1, <1>4, <2>1, <2>2
    <3> QED BY <3>1, <3>2, <3>3, <3>4 DEF ReadyOnce, boot
  <2>10. TaskNotLost'
    <3> SUFFICES ASSUME NEW t \in Users
                 PROVE  /\ State'[t] = "EXECUTING" => MrtkRunning' /\ RunningTask' = t
                        /\ State'[t] = "SUSPENDED" => Delay'[t] # 0
      BY DEF TaskNotLost
    <3>1. t \in Tasks
      BY TaskNumbers
    <3>2. ASSUME State'[t] = "EXECUTING", t # hgh PROVE FALSE
      <4>1. slept[t] = "EXECUTING" /\ state[t] = "EXECUTING" /\ t # RunningTask
        BY <2>3, <2>4, <2>5, <3>1, <3>2 DEF Preempted
      <4>2. State[t] = "EXECUTING"
        BY <3>1, <4>1
      <4> QED BY <4>1, <4>2 DEF TaskNotLost
    <3>3. State'[t] = "SUSPENDED" => Delay'[t] # 0
      BY <2>7, <3>1 DEF TaskNotLost
    <3> QED BY <2>1, <3>2, <3>3 DEF boot
  <2>11. RdyQueue' \in QueueType
    BY <2>2 DEF GoodQueue
  <2>12. ASSUME NEW t \in Users
         PROVE  /\ t \in Members(RdyQueue) => t \in Members(RdyQueue') \/ t = hgh
                /\ t = RunningTask /\ state[t] = "EXECUTING"
                      => t \in Members(RdyQueue')
    BY <1>1, <2>2, <2>4 DEF Preempted
  <2> QED BY <1>1, <1>4, <2>1, <2>5, <2>6, <2>7, <2>8, <2>9, <2>10, <2>11, <2>12
<1> QED BY <1>3, <1>4

(* The same of a mrtk_sched that nothing was deleted before.               *)
LEMMA SchedStep ==
    ASSUME TypeOK, QueueInv, ReadyOnce, TaskNotLost,
           MrtkRunning, toPlace = {}, Sched,
           UNCHANGED <<AbsoluteDeadline, Delay, boot>>
    PROVE  /\ State' \in [Tasks -> TaskStates]
           /\ RdyQueue' \in QueueType /\ RunningTask' \in Tasks
           /\ QueueInv' /\ ReadyOnce' /\ TaskNotLost'
           /\ \A t \in Tasks : State'[t] = "SUSPENDED" <=> State[t] = "SUSPENDED"
           /\ RunningTask' = RunningTask => RunningTask = Idle
           /\ RunningTask' # RunningTask /\ RunningTask' \in Users
                 => State'[RunningTask'] \in {"EXECUTING", "SLEEPING"}
           /\ \A t \in Users :
                 /\ t \in Members(RdyQueue)
                       => t \in Members(RdyQueue') \/ t = RunningTask'
                 /\ t = RunningTask /\ State[t] = "EXECUTING"
                       => t \in Members(RdyQueue')
<1>1. SchedFrom(State) /\ State \in [Tasks -> TaskStates]
  BY DEF Sched, TypeOK
<1> QED BY <1>1, SchedFromStep


-----------------------------------------------------------------------------
(* The invariant holds when the tasks have been created.                   *)
LEMMA InitIInv == Init => IInv
<1> SUFFICES ASSUME Init PROVE IInv
  OBVIOUS
<1> USE TaskNumbers, KernelAssumption, HeapAssumption DEF Init
<1>1. GoodQueue(RdyQueue) /\ Held(RdyQueue) = {} /\ Members(RdyQueue) = {}
      /\ Distinct(RdyQueue)
  BY InitIsGood, MembersHaveEntries DEF QueuesInit
<1>2. TypeOK
  <2>1. AbsoluteDeadline \in [Tasks -> 0..(U32 - 1)]
    BY DEF IdleDeadline, Tasks
  <2>2. RdyQueue \in QueueType
    BY <1>1 DEF GoodQueue
  <2>3. /\ MrtkTime \in 0..MaxTime /\ toPlace \subseteq Users
        /\ count \in 0..NotTicking /\ isrOwner \in Tasks \cup {NoOwner}
        /\ RunningTask = 0 /\ MrtkRunning = FALSE
    OBVIOUS
  <2>4. /\ State \in [Tasks -> TaskStates]
        /\ Delay \in [Tasks -> Nat] /\ due \in [Tasks -> Nat]
        /\ pc \in [Tasks -> {"new", "app", "wait"}]
    BY DEF TaskStates
  <2> QED BY <2>1, <2>2, <2>3, <2>4 DEF TypeOK
<1>3. QueueInv
  BY <1>1 DEF QueueInv, KeyMatchesTcb
<1>4. ReadyOnce /\ TaskNotLost
  BY <1>1 DEF ReadyOnce, TaskNotLost
<1>5. BootInv
  BY <1>1 DEF BootInv
<1>6. RunningInv /\ TickInv /\ WaitInv /\ DueInv
  BY DEF RunningInv, TickInv, Ticking, WaitInv, DueInv
<1>7. AcknowledgeComes
  BY DEF AcknowledgeComes
<1> QED BY <1>2, <1>3, <1>4, <1>5, <1>6, <1>7 DEF IInv

(* An insertion by mrtk_partitioned keeps the invariant.                   *)
LEMMA PlaceTaskIInv ==
    ASSUME IInv, NEW t \in Users, PlaceTask(t)
    PROVE  IInv'
<1> USE TaskNumbers DEF IInv
<1>1. /\ t \in toPlace /\ ~MrtkRunning /\ MrtkRunning' = MrtkRunning
      /\ RdyQueue' = InsertInQueue(RdyQueue, t, Deadline[t])
      /\ toPlace' = toPlace \ {t}
      /\ UNCHANGED <<State, Delay, AbsoluteDeadline, RunningTask, count, isrOwner,
                     MrtkTime, pc, due>>
  BY DEF PlaceTask, BootInv, tcb, isr
<1>2. /\ Members(RdyQueue) = Users \ toPlace
      /\ \A u \in Users : State[u] = "READY" /\ AbsoluteDeadline[u] = Deadline[u]
      /\ \A u \in Tasks : State[u] = "READY" /\ pc[u] = "new"
      /\ toPlace \subseteq Users
  BY <1>1 DEF BootInv, TypeOK
<1>3. Deadline[t] \in 0..(U32 - 1)
  BY KernelAssumption, HeapAssumption
<1>4. /\ GoodQueue(RdyQueue')
      /\ Members(RdyQueue') = Members(RdyQueue) \cup {t}
      /\ Held(RdyQueue') = Held(RdyQueue) \cup {Entry(t, Deadline[t])}
  <2>1. /\ GoodQueue(RdyQueue) /\ Members(RdyQueue) \subseteq Tasks
        /\ t \in Tasks /\ t \notin Members(RdyQueue)
    BY <1>1, <1>2 DEF QueueInv
  <2> QED BY ONLY <1>1, <1>3, <2>1, TaskInserted
<1>5. TypeOK'
  BY <1>1, <1>4 DEF TypeOK, GoodQueue
<1>6. QueueInv'
  <2>1. KeyMatchesTcb'
    BY <1>1, <1>2, <1>4 DEF QueueInv, KeyMatchesTcb, Entry
  <2> QED BY <1>4, <2>1 DEF QueueInv
<1>7. ReadyOnce'
  <2>1. Distinct(RdyQueue)'
    BY <1>4, MembersHaveEntries
  <2> QED BY <1>1, <1>2, <1>4, <2>1 DEF ReadyOnce
<1>8. TaskNotLost' /\ BootInv'
  BY <1>1, <1>2, <1>4 DEF TaskNotLost, BootInv
<1>9. RunningInv' /\ TickInv' /\ WaitInv' /\ DueInv'
  BY <1>1, <1>2 DEF RunningInv, TickInv, Ticking, WaitInv, DueInv
<1>10. AcknowledgeComes'
  BY <1>1 DEF BootInv, AcknowledgeComes
<1> QED BY <1>5, <1>6, <1>7, <1>8, <1>9, <1>10

(* mrtk_start takes the first task out of the ready queue: the invariant   *)
(* holds.                                                                  *)
LEMMA StartIInv == ASSUME IInv, Start PROVE IInv'
<1> USE TaskNumbers DEF IInv
<1> DEFINE hgh == GetTaskWithNearestDeadline(RdyQueue, Idle)
<1>1. /\ ~MrtkRunning /\ MrtkRunning' /\ toPlace = {} /\ toPlace' = {}
      /\ RunningTask' = hgh
      /\ State' = [State EXCEPT ![hgh] = "EXECUTING"]
      /\ UNCHANGED <<Delay, AbsoluteDeadline, count, isrOwner, MrtkTime, pc, due>>
  BY DEF Start, isr
<1>2. /\ GoodQueue(RdyQueue')
      /\ Members(RdyQueue') = Members(RdyQueue) \ {hgh}
      /\ Held(RdyQueue') \subseteq Held(RdyQueue)
      /\ hgh \in Tasks
  BY NearestLeaves DEF Start, QueueInv
<1> HIDE DEF hgh
<1>3. /\ Members(RdyQueue) = Users
      /\ count = NotTicking /\ isrOwner = NoOwner
      /\ \A u \in Tasks : State[u] = "READY" /\ pc[u] = "new"
  BY <1>1 DEF BootInv, TypeOK
<1>4. State' \in [Tasks -> TaskStates]
      /\ State'[hgh] = "EXECUTING"
      /\ \A u \in Tasks \ {hgh} : State'[u] = "READY"
  BY <1>1, <1>2, <1>3 DEF TypeOK, TaskStates
<1>5. TypeOK'
  BY <1>1, <1>2, <1>4 DEF TypeOK, GoodQueue
<1>6. QueueInv'
  BY <1>1, <1>2 DEF QueueInv, KeyMatchesTcb
<1>7. ReadyOnce'
  <2>1. Distinct(RdyQueue)'
    BY <1>2, MembersHaveEntries
  <2> QED BY <1>1, <1>2, <1>3, <1>4, <2>1 DEF ReadyOnce
<1>8. TaskNotLost' /\ BootInv' /\ RunningInv'
  BY <1>1, <1>2, <1>4 DEF TaskNotLost, BootInv, RunningInv
<1>9. TickInv' /\ WaitInv'
  BY <1>1, <1>3 DEF TickInv, Ticking, WaitInv
<1>10. DueInv'
  BY <1>1, <1>3, <1>4 DEF DueInv, Ticking
<1>11. AcknowledgeComes'
  BY <1>1, <1>3 DEF AcknowledgeComes
<1> QED BY <1>5, <1>6, <1>7, <1>8, <1>9, <1>10, <1>11

-----------------------------------------------------------------------------
(* A critical section that changes no table keeps the invariant.           *)
LEMMA KernelCallIInv ==
    ASSUME IInv, NEW t \in Tasks, KernelCall(t)
    PROVE  IInv'
<1> USE TaskNumbers DEF IInv
<1>1. /\ MrtkRunning /\ RunningTask = t /\ pc[t] \in {"new", "app"}
      /\ pc' = [pc EXCEPT ![t] = "app"]
      /\ UNCHANGED <<State, Delay, AbsoluteDeadline, RdyQueue, RunningTask,
                     MrtkRunning, toPlace, count, isrOwner, MrtkTime, due>>
  BY DEF KernelCall, InTask, tcb, sched, boot, isr
<1>2. pc' \in [Tasks -> {"new", "app", "wait"}]
      /\ \A u \in Tasks : pc'[u] = "wait" <=> pc[u] = "wait"
  BY <1>1 DEF TypeOK
<1>3. TypeOK'
  BY <1>1, <1>2 DEF TypeOK
<1>4. QueueInv' /\ ReadyOnce' /\ TaskNotLost'
  BY <1>1 DEF QueueInv, KeyMatchesTcb, ReadyOnce, TaskNotLost
<1>5. BootInv' /\ TickInv' /\ DueInv'
  BY <1>1 DEF BootInv, TickInv, DueInv, Ticking
<1>6. RunningInv' /\ WaitInv'
  BY <1>1, <1>2 DEF RunningInv, WaitInv, Ticking
<1>7. AcknowledgeComes'
  BY <1>1, <1>2 DEF AcknowledgeComes
<1> QED BY <1>3, <1>4, <1>5, <1>6, <1>7

(* A task that waits has no tick to acknowledge, so no tick is in progress. *)
LEMMA WaitBeginIInv ==
    ASSUME NoWaitOfOne, IInv, NEW t \in Users, NEW d \in WaitTimes, WaitBegin(t, d)
    PROVE  IInv'
<1> USE TaskNumbers DEF IInv
<1>1. /\ MrtkRunning /\ RunningTask = t /\ isrOwner # t
      /\ State' = [State EXCEPT ![t] = "SUSPENDED"]
      /\ Delay' = [Delay EXCEPT ![t] = d]
      /\ due' = [due EXCEPT ![t] = MrtkTime + d]
      /\ pc' = [pc EXCEPT ![t] = "wait"]
      /\ UNCHANGED <<AbsoluteDeadline, RdyQueue, RunningTask,
                     MrtkRunning, toPlace, count, isrOwner, MrtkTime>>
  BY DEF WaitBegin, InTask, sched, boot, isr
<1>2. d \in Nat /\ d >= 2 /\ t \in Tasks /\ MrtkTime \in Nat
  BY KernelAssumption DEF NoWaitOfOne, TypeOK
<1>3. ~Ticking /\ ~Ticking'
  BY <1>1 DEF TickInv, Ticking
<1>4. /\ State' \in [Tasks -> TaskStates]
      /\ Delay' \in [Tasks -> Nat]
      /\ due' \in [Tasks -> Nat]
      /\ pc' \in [Tasks -> {"new", "app", "wait"}]
      /\ State'[t] = "SUSPENDED" /\ Delay'[t] = d /\ due'[t] = MrtkTime + d
      /\ pc'[t] = "wait"
      /\ \A u \in Tasks \ {t} : /\ State'[u] = State[u] /\ Delay'[u] = Delay[u]
                                /\ due'[u] = due[u] /\ pc'[u] = pc[u]
  BY <1>1, <1>2 DEF TypeOK, TaskStates
<1>5. TypeOK'
  BY <1>1, <1>4 DEF TypeOK
<1>6. QueueInv'
  BY <1>1 DEF QueueInv, KeyMatchesTcb
<1>7. ReadyOnce'
  BY <1>1, <1>4 DEF ReadyOnce
<1>8. TaskNotLost'
  BY <1>1, <1>2, <1>4 DEF TaskNotLost
<1>9. BootInv' /\ RunningInv' /\ TickInv'
  BY <1>1, <1>3, <1>4 DEF BootInv, RunningInv, TickInv
<1>10. WaitInv'
  BY <1>1, <1>2, <1>3, <1>4 DEF WaitInv
<1>11. DueInv'
  BY <1>1, <1>2, <1>3, <1>4 DEF DueInv
<1>12. AcknowledgeComes'
  BY <1>1, <1>4 DEF AcknowledgeComes
<1> QED BY <1>5, <1>6, <1>7, <1>8, <1>9, <1>10, <1>11, <1>12

(* The mrtk_sched of mrtk_wait takes the CPU from a task that is           *)
(* suspended.                                                              *)
LEMMA WaitSchedIInv ==
    ASSUME IInv, NEW t \in Users, WaitSched(t)
    PROVE  IInv'
<1> USE TaskNumbers DEF IInv
<1>1. /\ MrtkRunning /\ RunningTask = t /\ isrOwner # t /\ pc[t] = "wait"
      /\ Sched /\ toPlace = {}
      /\ pc' = [pc EXCEPT ![t] = "app"]
      /\ UNCHANGED <<Delay, AbsoluteDeadline, MrtkRunning, toPlace,
                     count, isrOwner, MrtkTime, due>>
  BY DEF WaitSched, InTask, boot, isr, BootInv
<1>2. ~Ticking /\ ~Ticking'
  BY <1>1 DEF TickInv, Ticking
<1>3. /\ State' \in [Tasks -> TaskStates]
      /\ RdyQueue' \in QueueType /\ RunningTask' \in Tasks
      /\ QueueInv' /\ ReadyOnce' /\ TaskNotLost'
      /\ \A u \in Tasks : State'[u] = "SUSPENDED" <=> State[u] = "SUSPENDED"
      /\ RunningTask' # t
      /\ RunningTask' \in Users => State'[RunningTask'] \in {"EXECUTING", "SLEEPING"}
      /\ \A u \in Users : u \in Members(RdyQueue)
                              => u \in Members(RdyQueue') \/ u = RunningTask'
  BY <1>1, SchedStep DEF boot
<1>4. pc' \in [Tasks -> {"new", "app", "wait"}] /\ pc'[t] = "app"
      /\ \A u \in Tasks \ {t} : pc'[u] = pc[u]
  BY <1>1 DEF TypeOK
<1>5. TypeOK'
  BY <1>1, <1>3, <1>4 DEF TypeOK
<1>6. BootInv' /\ RunningInv' /\ TickInv'
  BY <1>1, <1>2, <1>3 DEF BootInv, RunningInv, TickInv
<1>7. WaitInv'
  <2> SUFFICES ASSUME NEW u \in Tasks, pc'[u] = "wait"
               PROVE  /\ u \in Users /\ State'[u] = "SUSPENDED"
                      /\ isrOwner = u /\ RunningTask' # u
    BY <1>1, <1>2 DEF WaitInv
  <2>1. u # t /\ pc[u] = "wait"
    BY <1>4
  <2> QED BY <1>1, <1>3, <2>1 DEF WaitInv
<1>8. DueInv'
  BY <1>1, <1>2, <1>3 DEF DueInv
<1>9. AcknowledgeComes'
  BY <1>1, <1>3, <1>4 DEF AcknowledgeComes
<1> QED BY <1>3, <1>5, <1>6, <1>7, <1>8, <1>9

-----------------------------------------------------------------------------
(* A tick that begins moves the time on before any delay is counted.       *)
LEMMA TickBeginIInv == ASSUME IInv, TickBegin PROVE IInv'
<1> USE TaskNumbers DEF IInv
<1>1. /\ MrtkRunning /\ isrOwner = NoOwner /\ isrOwner' = RunningTask
      /\ MrtkTime < MaxTime /\ MrtkTime' = MrtkTime + 1 /\ count' = 0
      /\ RunningTask \in Tasks
      /\ UNCHANGED <<State, Delay, AbsoluteDeadline, RdyQueue, RunningTask,
                     MrtkRunning, toPlace, pc, due>>
  BY DEF TickBegin, TickTaken, tcb, sched, boot, TypeOK
<1>2. ~Ticking /\ Ticking'
  BY <1>1 DEF TickInv, Ticking
<1>3. TypeOK'
  <2>1. MrtkTime' \in 0..MaxTime /\ count' \in 0..NotTicking
    BY <1>1, KernelAssumption DEF TypeOK
  <2> QED BY <1>1, <2>1 DEF TypeOK
<1>4. QueueInv' /\ ReadyOnce' /\ TaskNotLost'
  BY <1>1 DEF QueueInv, KeyMatchesTcb, ReadyOnce, TaskNotLost
<1>5. BootInv' /\ RunningInv' /\ TickInv'
  BY <1>1 DEF BootInv, RunningInv, TickInv
<1>6. WaitInv'
  BY <1>1, <1>2 DEF WaitInv
<1>7. DueInv'
  <2> SUFFICES ASSUME NEW t \in Users
               PROVE  IF State[t] = "SUSPENDED"
                      THEN due[t] = MrtkTime + 1 + Delay[t] - 1
                      ELSE MrtkTime + 1 >= due[t]
    BY <1>1, <1>2 DEF DueInv
  <2>1. MrtkTime \in Nat /\ Delay[t] \in Nat /\ due[t] \in Nat
    BY DEF TypeOK
  <2> QED BY <1>2, <2>1 DEF DueInv
<1>8. AcknowledgeComes'
  BY <1>1 DEF AcknowledgeComes
<1> QED BY <1>3, <1>4, <1>5, <1>6, <1>7, <1>8

(* A turn of the loop has passed the tasks below count.                    *)
LEMMA TickSkipIInv == ASSUME IInv, TickSkip PROVE IInv'
<1> USE TaskNumbers DEF IInv
<1>1. /\ count < UsersMax /\ count \in Nat /\ count' = count + 1 /\ ~Sleeps(count)
      /\ UNCHANGED <<State, Delay, AbsoluteDeadline, RdyQueue, RunningTask,
                     MrtkRunning, toPlace, isrOwner, MrtkTime, pc, due>>
  BY DEF TickSkip, tcb, sched, boot, TypeOK
<1>2. Ticking /\ Ticking' /\ count' \in 0..NotTicking
  BY <1>1 DEF Ticking
<1>3. TypeOK'
  BY <1>1, <1>2 DEF TypeOK
<1>4. QueueInv' /\ ReadyOnce' /\ TaskNotLost'
  BY <1>1 DEF QueueInv, KeyMatchesTcb, ReadyOnce, TaskNotLost
<1>5. BootInv' /\ RunningInv' /\ TickInv'
  BY <1>1, <1>2 DEF BootInv, RunningInv, TickInv
<1>6. WaitInv'
  BY <1>1, <1>2 DEF WaitInv
<1>7. DueInv'
  <2> SUFFICES ASSUME NEW t \in Users, State[t] = "SUSPENDED"
               PROVE  count <= t <=> count + 1 <= t
    BY <1>1, <1>2 DEF DueInv
  <2>1. t # count
    BY <1>1 DEF Sleeps, TaskNotLost
  <2> QED BY <1>1, <2>1
<1>8. AcknowledgeComes'
  BY <1>1 DEF AcknowledgeComes
<1> QED BY <1>3, <1>4, <1>5, <1>6, <1>7, <1>8

(* A turn of mrtk_tick that counts a delay down keeps the delay and the    *)
(* time of its end in step.                                                *)
LEMMA TickDelayIInv == ASSUME IInv, TickDelay PROVE IInv'
<1> USE TaskNumbers DEF IInv
<1>1. /\ count < UsersMax /\ count \in Users /\ count' = count + 1
      /\ State[count] = "SUSPENDED" /\ Delay[count] \in Nat /\ Delay[count] >= 2
      /\ Delay' = [Delay EXCEPT ![count] = @ - 1]
      /\ UNCHANGED <<State, AbsoluteDeadline, RdyQueue, RunningTask,
                     MrtkRunning, toPlace, isrOwner, MrtkTime, pc, due>>
  BY DEF TickDelay, Sleeps, sched, boot, TypeOK
<1>2. Ticking /\ Ticking' /\ count' \in 0..NotTicking
  BY <1>1 DEF Ticking
<1>3. /\ Delay' \in [Tasks -> Nat]
      /\ Delay'[count] = Delay[count] - 1
      /\ \A u \in Tasks \ {count} : Delay'[u] = Delay[u]
  BY <1>1 DEF TypeOK
<1>4. TypeOK'
  BY <1>1, <1>2, <1>3 DEF TypeOK
<1>5. QueueInv' /\ ReadyOnce'
  BY <1>1 DEF QueueInv, KeyMatchesTcb, ReadyOnce
<1>6. TaskNotLost'
  BY <1>1, <1>3 DEF TaskNotLost
<1>7. BootInv' /\ RunningInv' /\ TickInv'
  BY <1>1, <1>2 DEF BootInv, RunningInv, TickInv
<1>8. WaitInv'
  <2> SUFFICES ASSUME NEW t \in Tasks, pc[t] = "wait"
               PROVE  /\ t \in Users /\ State[t] = "SUSPENDED" /\ isrOwner = t
                      /\ count + 1 <= t => Delay'[t] >= 2
    BY <1>1, <1>2 DEF WaitInv
  <2>1. t \in Users /\ State[t] = "SUSPENDED" /\ isrOwner = t
    BY <1>2 DEF WaitInv, TickInv
  <2>2. ASSUME count + 1 <= t PROVE Delay'[t] >= 2
    BY <1>1, <1>2, <1>3, <2>1, <2>2 DEF WaitInv
  <2> QED BY <2>1, <2>2
<1>9. DueInv'
  <2> SUFFICES ASSUME NEW t \in Users, State[t] = "SUSPENDED"
               PROVE  due[t] = MrtkTime + Delay'[t] - (IF count + 1 <= t THEN 1 ELSE 0)
    BY <1>1, <1>2 DEF DueInv
  <2>1. MrtkTime \in Nat /\ Delay[t] \in Nat /\ due[t] \in Nat
    BY DEF TypeOK
  <2>2. due[t] = MrtkTime + Delay[t] - (IF count <= t THEN 1 ELSE 0)
    BY <1>2 DEF DueInv
  <2>3. CASE t = count
    BY <1>1, <1>3, <2>1, <2>2, <2>3
  <2>4. CASE t # count
    BY <1>1, <1>3, <2>1, <2>2, <2>4
  <2> QED BY <2>3, <2>4
<1>10. AcknowledgeComes'
  BY <1>1 DEF AcknowledgeComes
<1> QED BY <1>4, <1>5, <1>6, <1>7, <1>8, <1>9, <1>10

(* The task a tick wakes is not the one it has interrupted: that one, if it *)
(* is in mrtk_wait at all, has two ticks to go before the tick reaches it.  *)
LEMMA TickWakeIInv == ASSUME IInv, TickWake PROVE IInv'
<1> USE TaskNumbers DEF IInv
<1> DEFINE key == MrtkTime + Deadline[count]
<1>1. /\ count < UsersMax /\ count \in Users /\ count' = count + 1
      /\ State[count] = "SUSPENDED" /\ Delay[count] = 1
      /\ AbsoluteDeadline' = [AbsoluteDeadline EXCEPT ![count] = key]
      /\ RdyQueue' = InsertInQueue(RdyQueue, count, key)
      /\ Delay' = [Delay EXCEPT ![count] = 0]
      /\ State' = [State EXCEPT ![count] = "READY"]
      /\ UNCHANGED <<RunningTask, MrtkRunning, toPlace, isrOwner, MrtkTime, pc, due>>
  BY DEF TickWake, Sleeps, boot
<1>2. Ticking /\ Ticking' /\ count' \in 0..NotTicking
  BY <1>1 DEF Ticking
<1>3. /\ MrtkRunning /\ isrOwner = RunningTask /\ toPlace = {}
      /\ RunningTask \in Tasks
  BY <1>2 DEF TickInv, BootInv, TypeOK
<1>4. pc[count] # "wait" /\ RunningTask # count
  BY <1>1, <1>2, <1>3 DEF WaitInv, RunningInv
<1>5. key \in 0..(U32 - 1)
  BY <1>1, KernelAssumption, HeapAssumption DEF TypeOK
<1>6. /\ GoodQueue(RdyQueue) /\ Members(RdyQueue) \subseteq Tasks
      /\ count \in Tasks /\ count \notin Members(RdyQueue)
  BY <1>1, <1>3 DEF QueueInv, ReadyOnce
<1> HIDE DEF key
<1>7. /\ GoodQueue(RdyQueue')
      /\ Members(RdyQueue') = Members(RdyQueue) \cup {count}
      /\ Held(RdyQueue') = Held(RdyQueue) \cup {Entry(count, key)}
  BY ONLY <1>1, <1>5, <1>6, TaskInserted
<1>8. /\ State' \in [Tasks -> TaskStates]
      /\ Delay' \in [Tasks -> Nat]
      /\ AbsoluteDeadline' \in [Tasks -> 0..(U32 - 1)]
      /\ State'[count] = "READY" /\ Delay'[count] = 0 /\ AbsoluteDeadline'[count] = key
      /\ \A u \in Tasks \ {count} : /\ State'[u] = State[u] /\ Delay'[u] = Delay[u]
                                    /\ AbsoluteDeadline'[u] = AbsoluteDeadline[u]
  BY <1>1, <1>5 DEF TypeOK, TaskStates
<1>9. TypeOK'
  BY <1>1, <1>2, <1>7, <1>8 DEF TypeOK, GoodQueue
<1>10. QueueInv'
  <2>1. KeyMatchesTcb'
    <3> SUFFICES ASSUME NEW e \in Held(RdyQueue')
                 PROVE  e.Deadline = AbsoluteDeadline'[e.TaskId]
      BY DEF KeyMatchesTcb
    <3>1. CASE e \in Held(RdyQueue)
      <4>1. e.TaskId \in Members(RdyQueue)
        BY <1>6, <3>1, HeldAreMembers
      <4> QED BY <1>6, <1>8, <3>1, <4>1 DEF QueueInv, KeyMatchesTcb
    <3>2. CASE e = Entry(count, key)
      BY <1>8, <3>2 DEF Entry
    <3> QED BY <1>7, <3>1, <3>2
  <2> QED BY <1>6, <1>7, <2>1 DEF QueueInv
<1>11. ReadyOnce'
  <2>1. Distinct(RdyQueue)'
    BY <1>7, MembersHaveEntries
  <2> QED BY <1>1, <1>3, <1>4, <1>7, <1>8, <2>1 DEF ReadyOnce
<1>12. TaskNotLost'
  BY <1>1, <1>8 DEF TaskNotLost
<1>13. BootInv' /\ TickInv'
  BY <1>1, <1>2, <1>3 DEF BootInv, TickInv
<1>14. RunningInv'
  BY <1>1, <1>3, <1>4, <1>8 DEF RunningInv
<1>15. WaitInv'
  BY <1>1, <1>2, <1>4, <1>8 DEF WaitInv
<1>16. DueInv'
  <2> SUFFICES ASSUME NEW t \in Users
               PROVE  IF State'[t] = "SUSPENDED"
                      THEN due[t] = MrtkTime + Delay'[t] - (IF count + 1 <= t THEN 1 ELSE 0)
                      ELSE MrtkTime >= due[t]
    BY <1>1, <1>2 DEF DueInv
  <2>1. MrtkTime \in Nat /\ Delay[t] \in Nat /\ due[t] \in Nat
    BY DEF TypeOK
  <2>2. IF State[t] = "SUSPENDED"
        THEN due[t] = MrtkTime + Delay[t] - (IF count <= t THEN 1 ELSE 0)
        ELSE MrtkTime >= due[t]
    BY <1>2 DEF DueInv
  <2>3. CASE t = count
    BY <1>1, <1>8, <2>1, <2>2, <2>3
  <2>4. CASE t # count
    BY <1>1, <1>8, <2>1, <2>2, <2>4
  <2> QED BY <2>3, <2>4
<1>17. AcknowledgeComes'
  BY <1>1, <1>3 DEF AcknowledgeComes
<1> QED BY <1>9, <1>10, <1>11, <1>12, <1>13, <1>14, <1>15, <1>16, <1>17

(* The mrtk_sched at the end of a tick may preempt the task it             *)
(* interrupted, which goes back to the ready queue unless it waits.        *)
LEMMA TickSchedIInv == ASSUME IInv, HasStack, TickSched PROVE IInv'
<1> USE TaskNumbers DEF IInv
<1>1. /\ count = UsersMax /\ count' = NotTicking /\ Sched
      /\ UNCHANGED <<Delay, AbsoluteDeadline, MrtkRunning, toPlace,
                     isrOwner, MrtkTime, pc, due>>
  BY DEF TickSched, boot
<1>2. Ticking /\ ~Ticking' /\ \A t \in Users : ~(count <= t)
  BY <1>1 DEF Ticking
<1>3. MrtkRunning /\ toPlace = {} /\ isrOwner = RunningTask
  BY <1>2 DEF TickInv, BootInv
<1>4. /\ State' \in [Tasks -> TaskStates]
      /\ RdyQueue' \in QueueType /\ RunningTask' \in Tasks
      /\ QueueInv' /\ ReadyOnce' /\ TaskNotLost'
      /\ \A u \in Tasks : State'[u] = "SUSPENDED" <=> State[u] = "SUSPENDED"
      /\ RunningTask' = RunningTask => RunningTask = Idle
      /\ RunningTask' # RunningTask /\ RunningTask' \in Users
            => State'[RunningTask'] \in {"EXECUTING", "SLEEPING"}
      /\ RunningTask \in Users /\ State[RunningTask] = "EXECUTING"
            => RunningTask \in Members(RdyQueue')
  BY <1>1, <1>3, SchedStep DEF boot
<1>5. TypeOK'
  <2>1. count' \in 0..NotTicking
    BY <1>1
  <2> QED BY <1>1, <1>3, <1>4, <2>1 DEF TypeOK
<1>6. BootInv' /\ RunningInv' /\ TickInv'
  BY <1>1, <1>2, <1>3, <1>4 DEF BootInv, RunningInv, TickInv
<1>7. WaitInv'
  <2> SUFFICES ASSUME NEW u \in Tasks, pc[u] = "wait"
               PROVE  /\ u \in Users /\ State'[u] = "SUSPENDED"
                      /\ isrOwner = u /\ RunningTask' # u
    BY <1>1, <1>2 DEF WaitInv
  <2>1. u \in Users /\ State[u] = "SUSPENDED" /\ isrOwner = u
    BY <1>3 DEF WaitInv
  <2> QED BY <1>3, <1>4, <2>1
<1>8. DueInv'
  BY <1>1, <1>2, <1>4 DEF DueInv
<1>9. AcknowledgeComes'
  <2>1. RunningTask \in Users
           => \/ State[RunningTask] = "EXECUTING"
              \/ State[RunningTask] = "SUSPENDED" /\ pc[RunningTask] = "wait"
    BY <1>3 DEF RunningInv, HasStack
  <2> QED BY <1>1, <1>3, <1>4, <2>1 DEF AcknowledgeComes
<1> QED BY <1>4, <1>5, <1>6, <1>7, <1>8, <1>9

(* The acknowledge is written by the task that was interrupted, never by   *)
(* one that is in the window of mrtk_wait.                                 *)
LEMMA AckTickIInv == ASSUME IInv, AckTick PROVE IInv'
<1> USE TaskNumbers DEF IInv
<1>1. /\ ~Ticking /\ RunningTask = isrOwner /\ isrOwner' = NoOwner /\ isrOwner # NoOwner
      /\ UNCHANGED <<State, Delay, AbsoluteDeadline, RdyQueue, RunningTask,
                     MrtkRunning, toPlace, count, MrtkTime, pc, due>>
  BY DEF AckTick, tcb, sched, boot
<1>2. ~Ticking'
  BY <1>1 DEF Ticking
<1>3. TypeOK'
  BY <1>1 DEF TypeOK
<1>4. QueueInv' /\ ReadyOnce' /\ TaskNotLost'
  BY <1>1 DEF QueueInv, KeyMatchesTcb, ReadyOnce, TaskNotLost
<1>5. BootInv' /\ RunningInv' /\ TickInv' /\ DueInv'
  BY <1>1, <1>2 DEF BootInv, RunningInv, TickInv, DueInv
<1>6. WaitInv'
  BY <1>1 DEF WaitInv
<1>7. AcknowledgeComes'
  BY <1>1 DEF AcknowledgeComes
<1> QED BY <1>3, <1>4, <1>5, <1>6, <1>7

(* A deleted task keeps its entry, if it has one, and mrtk_sched hands the *)
(* CPU over as for any other task.                                         *)
LEMMA DeleteTaskIInv ==
    ASSUME IInv, NEW t \in Users, NEW u \in Tasks, DeleteTask(t, u)
    PROVE  IInv'
<1> USE TaskNumbers DEF IInv
<1> DEFINE state == [State EXCEPT ![u] = "SLEEPING"]
<1>1. /\ MrtkRunning /\ RunningTask = t /\ isrOwner # t /\ pc[t] \in {"new", "app"}
      /\ State[u] \in {"READY", "EXECUTING"} /\ SchedFrom(state) /\ toPlace = {}
      /\ pc' = [pc EXCEPT ![t] = "app"]
      /\ UNCHANGED <<Delay, AbsoluteDeadline, MrtkRunning, toPlace,
                     count, isrOwner, MrtkTime, due>>
  BY DEF DeleteTask, Deletable, InTask, boot, isr, BootInv
<1>2. ~Ticking /\ ~Ticking'
  BY <1>1 DEF TickInv, Ticking
<1>3. /\ state \in [Tasks -> TaskStates]
      /\ \A x \in Tasks : \/ state[x] = State[x]
                         \/ (State[x] # "SUSPENDED" /\ state[x] = "SLEEPING")
  BY <1>1 DEF TypeOK, TaskStates
<1> HIDE DEF state
<1>4. /\ State' \in [Tasks -> TaskStates]
      /\ RdyQueue' \in QueueType /\ RunningTask' \in Tasks
      /\ QueueInv' /\ ReadyOnce' /\ TaskNotLost'
      /\ \A x \in Tasks : State'[x] = "SUSPENDED" <=> State[x] = "SUSPENDED"
      /\ RunningTask' # t
      /\ RunningTask' \in Users => State'[RunningTask'] \in {"EXECUTING", "SLEEPING"}
      /\ \A x \in Users : x \in Members(RdyQueue)
                              => x \in Members(RdyQueue') \/ x = RunningTask'
  BY <1>1, <1>3, SchedFromStep DEF boot
<1>5. pc' \in [Tasks -> {"new", "app", "wait"}] /\ pc'[t] = "app"
      /\ \A x \in Tasks : pc'[x] = "wait" <=> pc[x] = "wait"
  BY <1>1 DEF TypeOK
<1>6. TypeOK'
  BY <1>1, <1>4, <1>5 DEF TypeOK
<1>7. BootInv' /\ RunningInv' /\ TickInv'
  BY <1>1, <1>2, <1>4 DEF BootInv, RunningInv, TickInv
<1>8. WaitInv'
  <2> SUFFICES ASSUME NEW x \in Tasks, pc[x] = "wait"
               PROVE  /\ x \in Users /\ State'[x] = "SUSPENDED"
                      /\ isrOwner = x /\ RunningTask' # x
    BY <1>1, <1>2, <1>5 DEF WaitInv
  <2>1. x \in Users /\ State[x] = "SUSPENDED" /\ isrOwner = x
    BY <1>1 DEF WaitInv
  <2> QED BY <1>4, <2>1
<1>9. DueInv'
  BY <1>1, <1>2, <1>4 DEF DueInv
<1>10. AcknowledgeComes'
  BY <1>1, <1>4, <1>5 DEF AcknowledgeComes
<1> QED BY <1>4, <1>6, <1>7, <1>8, <1>9, <1>10

-----------------------------------------------------------------------------
(* Every step of the kernel keeps the invariant.                           *)
LEMMA StepIInv ==
    ASSUME NoWaitOfOne, IInv, [TaskStep \/ StackLost]_vars
    PROVE  IInv'
<1>1. CASE UNCHANGED vars
  BY <1>1 DEF vars, tcb, sched, boot, isr, IInv, TypeOK, QueueInv, KeyMatchesTcb,
              ReadyOnce, TaskNotLost, BootInv, RunningInv, TickInv, WaitInv, DueInv,
              Ticking, AcknowledgeComes
<1>2. ASSUME NEW t \in Users, PlaceTask(t) PROVE IInv'
  BY <1>2, PlaceTaskIInv
<1>3. CASE Start
  BY <1>3, StartIInv
<1>4. CASE TaskNext
  <2>1. ASSUME NEW t \in Tasks, KernelCall(t) PROVE IInv'
    BY <2>1, KernelCallIInv
  <2>2. ASSUME NEW t \in Users, WaitSched(t) PROVE IInv'
    BY <2>2, WaitSchedIInv
  <2>3. ASSUME NEW t \in Users, NEW d \in WaitTimes, WaitBegin(t, d) PROVE IInv'
    BY <2>3, WaitBeginIInv
  <2> QED BY <1>4, <2>1, <2>2, <2>3 DEF TaskNext
<1>5. CASE HasStack /\ TickNext
  BY <1>5, TickBeginIInv, TickSkipIInv, TickDelayIInv, TickWakeIInv, TickSchedIInv,
     AckTickIInv DEF TickNext
<1>6. ASSUME NEW t \in Users, NEW u \in Tasks, DeleteTask(t, u) PROVE IInv'
  BY <1>6, DeleteTaskIInv
<1> QED BY <1>1, <1>2, <1>3, <1>4, <1>5, <1>6 DEF Next, TaskStep, StackLost

(* The inductive invariant holds throughout: boot, waits, ticks and        *)
(* switches of one CPU, whatever the number of tasks and their deadlines.  *)
THEOREM KernelInvariant == ASSUME NoWaitOfOne PROVE TaskSpec => []IInv
<1>1. Init => IInv
  BY InitIInv
<1>2. IInv /\ [TaskStep \/ StackLost]_vars => IInv'
  BY StepIInv
<1> QED BY <1>1, <1>2, PTL DEF TaskSpec

(* The table of tasks, the ready queue and the loop of mrtk_tick keep their *)
(* types; the number of entries of the ready queue never passes the row.   *)
THEOREM KernelTypes == ASSUME NoWaitOfOne PROVE TaskSpec => []TypeOK
<1>1. IInv => TypeOK
  BY DEF IInv
<1> QED BY <1>1, KernelInvariant, PTL

(* mrtk_wait, the tick and mrtk_sched hand a task over without losing or   *)
(* doubling it, for any number of tasks and any deadlines.                 *)
THEOREM KernelReadyOnce == ASSUME NoWaitOfOne PROVE TaskSpec => []ReadyOnce
<1>1. IInv => ReadyOnce
  BY DEF IInv
<1> QED BY <1>1, KernelInvariant, PTL

(* No task is left where neither the scheduler nor the tick looks for it.  *)
THEOREM KernelLosesNoTask == ASSUME NoWaitOfOne PROVE TaskSpec => []TaskNotLost
<1>1. IInv => TaskNotLost
  BY DEF IInv
<1> QED BY <1>1, KernelInvariant, PTL

(* The copy of a deadline that orders the queue is never stale.            *)
THEOREM KernelKeys == ASSUME NoWaitOfOne PROVE TaskSpec => []KeyMatchesTcb
<1>1. IInv => KeyMatchesTcb
  BY DEF IInv, QueueInv
<1> QED BY <1>1, KernelInvariant, PTL

(* A task that owes the acknowledge of a tick is ready to run again, unless *)
(* the tick came in the window of mrtk_wait: only then does the clock stop. *)
THEOREM KernelAcknowledges == ASSUME NoWaitOfOne PROVE TaskSpec => []AcknowledgeComes
<1>1. IInv => AcknowledgeComes
  BY DEF IInv
<1> QED BY <1>1, KernelInvariant, PTL

(* mrtk_wait(d), d > 1, is over after the d-th tick and not before it,     *)
(* whatever is interrupted and preempted meanwhile.                        *)
THEOREM KernelWakesOnTime == ASSUME NoWaitOfOne PROVE TaskSpec => []WakesOnTime
<1>1. IInv => WakesOnTime
  <2> SUFFICES ASSUME IInv, NEW t \in Users
               PROVE  /\ MrtkRunning /\ RunningTask = t /\ pc[t] = "app"
                            => MrtkTime >= due[t]
                      /\ State[t] = "SUSPENDED" /\ ~Ticking => MrtkTime < due[t]
    BY DEF WakesOnTime
  <2>1. t \in Tasks /\ MrtkTime \in Nat /\ Delay[t] \in Nat /\ due[t] \in Nat
    BY TaskNumbers DEF IInv, TypeOK
  <2>2. ASSUME MrtkRunning, RunningTask = t, pc[t] = "app" PROVE MrtkTime >= due[t]
    BY <2>2 DEF IInv, RunningInv, DueInv
  <2>3. ASSUME State[t] = "SUSPENDED", ~Ticking PROVE MrtkTime < due[t]
    <3>1. due[t] = MrtkTime + Delay[t] /\ Delay[t] # 0
      BY <2>1, <2>3 DEF IInv, DueInv, TaskNotLost
    <3> QED BY <2>1, <3>1
  <2> QED BY <2>2, <2>3
<1> QED BY <1>1, KernelInvariant, PTL

(***************************************************************************)
(* NEAREST DEADLINE.  A CPU with at most three user tasks switches to the  *)
(* task with the nearest deadline, whatever is waited for, woken and       *)
(* deleted: a queue of three entries has no third level, and there the     *)
(* head is the nearest.  With four entries the child that                  *)
(* mrtk_heap.c:227 does not look at may be nearer than the one that is     *)
(* lifted to the head.                                                     *)
(***************************************************************************)

\* NB_USERS_TASK_MAX of this CPU.
FewTasks == UsersMax <= 3

NearestHead(q) ==
    /\ q.last <= 3
    /\ \A i \in Slots(q) : q.tab[1].Deadline <= q.tab[i].Deadline

(* An insertion that leaves three entries or fewer leaves the nearest at   *)
(* the head.                                                               *)
LEMMA InsertNearest ==
    ASSUME NEW q, GoodQueue(q), NearestHead(q),
           NEW t \in Nat, t \notin Members(q), NEW d \in 0..(U32 - 1),
           InsertInQueue(q, t, d).last <= 3
    PROVE  NearestHead(InsertInQueue(q, t, d))
<1> DEFINE n    == q.last + 1
           tab0 == [q.tab EXCEPT ![n] = Entry(t, d)]
           h    == [tab |-> tab0, i |-> n]
           r    == InsertInQueue(q, t, d)
<1>1. q.last \in Nat /\ q.last < QueueSize - 1 /\ n \in {1, 2, 3}
  <2>1. q.last \in Nat /\ n <= 3
    BY QueueEntries DEF InsertInQueue
  <2> QED BY <2>1, HeapAssumption
<1>2. Moving(h, n)
  BY <1>1, InsertedMoves
<1>3. n \in Index /\ q.tab \in [Index -> HEAP] /\ 1 \in Index
  <2>1. QueueSize \in Nat /\ q.last + 1 \in 1..(QueueSize - 1) /\ 1 \in 1..(QueueSize - 1)
    BY <1>1, HeapAssumption
  <2>2. q.tab \in [Index -> HEAP]
    BY DEF GoodQueue, GoodTable
  <2> QED BY <2>1, <2>2 DEF Index
<1>4. \A k \in Index : k # n => tab0[k] = q.tab[k]
  BY <1>3
<1>5. h.tab = tab0 /\ h.i = n /\ r.tab = SiftUp(h).tab /\ r.last = n
  <2>1. InsertInQueue(q, t, d).tab = SiftUp([tab |-> [q.tab EXCEPT ![q.last + 1] = Entry(t, d)],
                                              i   |-> q.last + 1]).tab
    BY DEF InsertInQueue
  <2>2. InsertInQueue(q, t, d).last = q.last + 1
    BY DEF InsertInQueue
  <2>3. h.tab = tab0 /\ h.i = n
    OBVIOUS
  <2> QED BY ONLY <2>1, <2>2, <2>3
<1> HIDE DEF n, tab0, h, r
<1>6. \A k \in Index : h.tab[k].Deadline \in Nat
  BY <1>2, Keys
<1>7. 1..n \subseteq Index
  <2>1. QueueSize \in Nat
    BY HeapAssumption
  <2> QED BY <1>3, <2>1 DEF Index
<1>8. \A k \in 1..n : k # n => h.tab[1].Deadline <= h.tab[k].Deadline
  <2> SUFFICES ASSUME NEW k \in 1..n, k # n
               PROVE  h.tab[1].Deadline <= h.tab[k].Deadline
    OBVIOUS
  <2>1. k \in Slots(q) /\ 1 # n
    BY <1>1 DEF Slots, n
  <2>2. h.tab[k] = q.tab[k] /\ h.tab[1] = q.tab[1]
    BY <1>3, <1>4, <1>5, <1>7, <2>1
  <2> QED BY <2>1, <2>2 DEF NearestHead
<1>9. /\ Moving(Up[h], n) /\ Settled(Up[h])
      /\ \A k \in 1..n : Up[h].tab[1].Deadline <= Up[h].tab[k].Deadline
  <2>1. CASE Settled(h)
    <3>1. Up[h] = h
      BY <1>2, <2>1, LiftStep
    <3>2. h.tab[1].Deadline <= h.tab[n].Deadline
      <4>1. CASE n = 1
        BY <1>3, <1>6, <4>1
      <4>2. CASE n # 1
        <5>1. n \div 2 = 1
          BY <1>1, <4>2
        <5> QED BY <1>5, <2>1, <4>2, <5>1 DEF Settled
      <4> QED BY <4>1, <4>2
    <3> QED BY <1>2, <1>8, <2>1, <3>1, <3>2
  <2>2. CASE ~Settled(h)
    <3> DEFINE p == h.i \div 2
    <3>1. /\ Moving(Up[h], n) /\ p \in 1..n /\ p < h.i /\ Up[h].i = p
          /\ h.tab[h.i].Deadline < h.tab[p].Deadline
          /\ Up[h].tab[p] = h.tab[h.i] /\ Up[h].tab[h.i] = h.tab[p]
          /\ \A k \in Index : k # p /\ k # h.i => Up[h].tab[k] = h.tab[k]
      BY <1>2, <2>2, LiftStep
    <3>2. p = 1
      BY <1>1, <1>5, <3>1
    <3> HIDE DEF p
    <3>3. h.tab[n].Deadline <= h.tab[1].Deadline
      <4>1. h.tab[n].Deadline \in Nat /\ h.tab[1].Deadline \in Nat
        BY <1>3, <1>6
      <4>2. h.tab[n].Deadline < h.tab[1].Deadline
        BY <1>5, <3>1, <3>2
      <4> QED BY <4>1, <4>2
    <3>4. ASSUME NEW k \in 1..n
          PROVE  Up[h].tab[1].Deadline <= Up[h].tab[k].Deadline
      <4>1. Up[h].tab[1] = h.tab[n] /\ Up[h].tab[n] = h.tab[1]
        BY <1>5, <3>1, <3>2
      <4>2. CASE k = 1
        BY <1>3, <1>6, <4>1, <4>2
      <4>3. CASE k = n
        BY <3>3, <4>1, <4>3
      <4>4. CASE k # 1 /\ k # n
        <5>1. Up[h].tab[k] = h.tab[k]
          BY <1>5, <1>7, <3>1, <3>2, <4>4
        <5>2. h.tab[1].Deadline <= h.tab[k].Deadline
          BY <1>8, <4>4
        <5>3. /\ h.tab[1].Deadline \in Nat /\ h.tab[k].Deadline \in Nat
              /\ h.tab[n].Deadline \in Nat
          BY <1>3, <1>6, <1>7
        <5>4. h.tab[n].Deadline <= h.tab[k].Deadline
          BY <3>3, <5>2, <5>3
        <5> QED BY <4>1, <5>1, <5>4
      <4> QED BY <4>2, <4>3, <4>4
    <3>5. Settled(Up[h])
      BY <3>1, <3>2 DEF Settled
    <3> QED BY <3>1, <3>4, <3>5
  <2> QED BY <2>1, <2>2
<1>10. SiftUp(h) = Up[h]
  <2>1. Up[Up[h]] = Up[h]
    BY <1>9, LiftStep
  <2> QED BY <2>1 DEF SiftUp
<1> QED BY <1>1, <1>5, <1>9, <1>10 DEF NearestHead, Slots, r

(* A removal of the head of three entries or fewer lifts the nearest.      *)
LEMMA RemoveNearest ==
    ASSUME NEW q, GoodQueue(q), NearestHead(q), q.last # 0
    PROVE  NearestHead(RemoveFirstElementInQueue(q))
<1> DEFINE r == RemoveFirstElementInQueue(q)
           n == q.last - 1
<1>1. q.last \in {1, 2, 3} /\ r.last = n /\ GoodQueue(r)
  <2>1. q.last \in Nat
    BY QueueEntries
  <2>2. q.last \in {1, 2, 3}
    BY <2>1 DEF NearestHead
  <2> QED BY <2>2, RemoveFirstTakesRoot
<1> HIDE DEF r
<1>2. \A k \in 1..n : r.tab[k].Deadline \in Nat
  <2>1. \A e \in Held(r) : e.Deadline \in Nat
    BY <1>1, QueueEntries
  <2> QED BY <1>1, <2>1 DEF Held, Slots
<1>3. CASE n \in {0, 1}
  BY <1>1, <1>2, <1>3 DEF NearestHead, Slots, r
<1>4. CASE n = 2
  <2> DEFINE tab0 == [q.tab EXCEPT ![1] = q.tab[q.last], ![q.last] = Blank]
             h    == [tab |-> tab0, i |-> 1]
  <2>1. Moving(h, 2)
    BY <1>1, <1>4, ReplacedMoves
  <2>2. r.tab = SiftDown(h).tab
    BY <1>1, <1>4 DEF RemoveFirstElementInQueue, ReplaceByLast, r
  <2>3. h.i = 1
    OBVIOUS
  <2> HIDE DEF tab0, h
  <2>4. /\ 1 \in Index /\ 2 \in Index /\ 4 \in Index /\ 4 * h.i < QueueSize
        /\ \A k \in Index : h.tab[k].Deadline \in Nat
    BY <2>1, <2>3, Keys, HeapAssumption DEF Index
  <2>5. Moving(Down[h], 2)
    BY <2>1, LowerStep
  <2>6. Sunk(Down[h]) /\ Down[h].tab[1].Deadline <= Down[h].tab[2].Deadline
    <3>1. CASE Sunk(h)
      <4>1. Down[h] = h
        BY <2>1, <3>1, LowerStep
      <4>2. h.tab[1].Deadline <= h.tab[MinChild(h.tab, 1)].Deadline
        BY <2>3, <2>4, <3>1 DEF Sunk
      <4>3. MinChild(h.tab, 1) = IF h.tab[2].Deadline < h.tab[4].Deadline THEN 2 ELSE 4
        BY DEF MinChild
      <4>4. /\ h.tab[1].Deadline \in Nat /\ h.tab[2].Deadline \in Nat
            /\ h.tab[4].Deadline \in Nat
        BY <2>4
      <4>5. h.tab[1].Deadline <= h.tab[2].Deadline
        BY <4>2, <4>3, <4>4
      <4> QED BY <3>1, <4>1, <4>5
    <3>2. CASE ~Sunk(h)
      <4> DEFINE c == MinChild(h.tab, h.i)
      <4>1. /\ c \in 1..2 /\ c # h.i /\ Down[h].i = c
            /\ h.tab[c].Deadline < h.tab[h.i].Deadline
            /\ Down[h].tab[c] = h.tab[h.i] /\ Down[h].tab[h.i] = h.tab[c]
        BY <2>1, <3>2, LowerStep
      <4> HIDE DEF c
      <4>2. c = 2
        BY <2>3, <4>1
      <4>3. h.tab[2].Deadline <= h.tab[1].Deadline
        <5>1. h.tab[1].Deadline \in Nat /\ h.tab[2].Deadline \in Nat
          BY <2>4
        <5>2. h.tab[2].Deadline < h.tab[1].Deadline
          BY <2>3, <4>1, <4>2
        <5> QED BY <5>1, <5>2
      <4>4. Sunk(Down[h])
        <5>1. MinChild(Down[h].tab, 2) \in {4, 8}
          BY DEF MinChild
        <5> QED BY <2>5, <4>1, <4>2, <5>1, LowerStep
      <4> QED BY <2>3, <4>1, <4>2, <4>3, <4>4
    <3> QED BY <3>1, <3>2
  <2>7. SiftDown(h) = Down[h]
    <3>1. Down[Down[h]] = Down[h]
      BY <2>5, <2>6, LowerStep
    <3> QED BY <3>1 DEF SiftDown
  <2>8. r.tab[1].Deadline <= r.tab[2].Deadline /\ r.tab[1].Deadline <= r.tab[1].Deadline
    BY <1>2, <1>4, <2>2, <2>6, <2>7
  <2>9. Slots(r) = {1, 2} /\ r.last <= 3
    BY <1>1, <1>4 DEF Slots
  <2> QED BY <2>8, <2>9 DEF NearestHead, r
<1> QED BY <1>1, <1>3, <1>4

-----------------------------------------------------------------------------
(* The ready queue never holds more entries than there are user tasks: the *)
(* running task is not in it, nor is the idle task before the start.       *)
LEMMA QueueFits == IInv => RdyQueue.last <= UsersMax
<1> SUFFICES ASSUME IInv PROVE RdyQueue.last <= UsersMax
  OBVIOUS
<1>1. GoodQueue(RdyQueue) /\ Members(RdyQueue) \subseteq Tasks
  BY DEF IInv, QueueInv
<1>2. CASE MrtkRunning
  <2>1. RunningTask \in Tasks /\ RunningTask \notin Members(RdyQueue)
    BY <1>2 DEF IInv, TypeOK, ReadyOnce
  <2>2. Members(RdyQueue) \subseteq Tasks \ {RunningTask}
    BY <1>1, <2>1
  <2> QED BY <1>1, <2>1, <2>2, RoomForTask
<1>3. CASE ~MrtkRunning
  <2>1. Members(RdyQueue) \subseteq Tasks \ {Idle} /\ Idle \in Tasks
    BY <1>1, <1>3, TaskNumbers DEF IInv, BootInv
  <2> QED BY <1>1, <2>1, RoomForTask
<1> QED BY <1>2, <1>3

LEMMA QueueFitsAfter == IInv' => (RdyQueue.last <= UsersMax)'
  BY QueueFits, PTL

(* With three user tasks at most, that is three entries.                   *)
LEMMA ThreeEntries ==
    ASSUME FewTasks, IInv'
    PROVE  GoodQueue(RdyQueue') /\ RdyQueue'.last <= 3
<1>1. GoodQueue(RdyQueue')
  BY DEF IInv, QueueInv
<1>2. RdyQueue'.last \in Nat /\ UsersMax \in Nat
  BY <1>1, QueueEntries, TaskNumbers
<1>3. RdyQueue'.last <= UsersMax
  BY QueueFitsAfter
<1> QED BY <1>1, <1>2, <1>3 DEF FewTasks

\* Where the head is the nearest it is the task that a switch goes to.
GoesNearest(run) ==
    \A e \in Held(RdyQueue) : AbsoluteDeadline[run] <= e.Deadline

(* The task that the ready queue gives is the nearest of it.               *)
LEMMA HeadIsNearest ==
    ASSUME IInv, NearestHead(RdyQueue)
    PROVE  GoesNearest(GetTaskWithNearestDeadline(RdyQueue, Idle))
<1>1. GoodQueue(RdyQueue) /\ KeyMatchesTcb
  BY DEF IInv, QueueInv
<1>2. CASE RdyQueue.last = 0
  <2>1. Held(RdyQueue) = {}
    BY <1>2 DEF Held, Slots
  <2> QED BY <2>1 DEF GoesNearest
<1>3. CASE RdyQueue.last # 0
  <2>1. RdyQueue.tab[1] \in Held(RdyQueue)
    BY <1>1, <1>3, MembersHaveEntries
  <2>2. RdyQueue.tab[1].Deadline = AbsoluteDeadline[RdyQueue.tab[1].TaskId]
    BY <1>1, <2>1 DEF KeyMatchesTcb
  <2>3. \A e \in Held(RdyQueue) : RdyQueue.tab[1].Deadline <= e.Deadline
    BY DEF NearestHead, Held
  <2> QED BY <1>3, <2>2, <2>3 DEF GoesNearest, GetTaskWithNearestDeadline
<1> QED BY <1>2, <1>3

(* mrtk_sched goes to the nearest and leaves the nearest at the head.      *)
LEMMA SchedNearest ==
    ASSUME FewTasks, IInv, IInv', NearestHead(RdyQueue), MrtkRunning,
           NEW state, SchedFrom(state)
    PROVE  /\ NearestHead(RdyQueue)'
           /\ RunningTask' # RunningTask => GoesNearest(RunningTask')
<1> DEFINE hgh    == GetTaskWithNearestDeadline(RdyQueue, Idle)
           popped == RemoveFirstElementInQueue(RdyQueue)
<1>1. GoesNearest(hgh)
  BY HeadIsNearest
<1>2. /\ GoodQueue(popped) /\ Members(popped) \subseteq Members(RdyQueue)
      /\ RunningTask \in Tasks /\ RunningTask \notin Members(RdyQueue)
      /\ AbsoluteDeadline[RunningTask] \in 0..(U32 - 1)
  <2>1. GoodQueue(RdyQueue) /\ Members(RdyQueue) \subseteq Tasks
    BY DEF IInv, QueueInv
  <2>2. GoodQueue(popped) /\ Members(popped) = Members(RdyQueue) \ {hgh}
    BY <2>1, NearestLeaves
  <2>3. /\ RunningTask \in Tasks /\ RunningTask \notin Members(RdyQueue)
        /\ AbsoluteDeadline[RunningTask] \in 0..(U32 - 1)
    BY DEF IInv, TypeOK, ReadyOnce
  <2> HIDE DEF popped, hgh
  <2> QED BY <2>2, <2>3
<1>3. NearestHead(popped)
  <2>1. CASE RdyQueue.last = 0
    BY <2>1 DEF RemoveFirstElementInQueue
  <2>2. CASE RdyQueue.last # 0
    BY <2>2, RemoveNearest DEF IInv, QueueInv
  <2> QED BY <2>1, <2>2
<1>4. CASE hgh = RunningTask
  BY <1>4 DEF SchedFrom, NearestHead, Slots
<1>5. CASE hgh # RunningTask
  <2>1. /\ RunningTask' = hgh
        /\ RdyQueue' = IF Preempted(state, RunningTask)
                       THEN InsertInQueue(popped, RunningTask, AbsoluteDeadline[RunningTask])
                       ELSE popped
    BY <1>5 DEF SchedFrom, Switch
  <2> HIDE DEF popped, hgh
  <2>2. RdyQueue'.last <= 3
    BY ThreeEntries
  <2>3. NearestHead(RdyQueue')
    <3>1. CASE Preempted(state, RunningTask)
      <4>1. RunningTask \in Nat /\ RunningTask \notin Members(popped)
        BY <1>2, TaskNumbers
      <4> QED BY <1>2, <1>3, <2>1, <2>2, <3>1, <4>1, InsertNearest
    <3>2. CASE ~Preempted(state, RunningTask)
      BY <1>3, <2>1, <3>2
    <3> QED BY <3>1, <3>2
  <2>4. NearestHead(RdyQueue)' <=> NearestHead(RdyQueue')
    BY DEF NearestHead, Slots
  <2> QED BY <1>1, <2>1, <2>3, <2>4
<1> QED BY <1>4, <1>5

-----------------------------------------------------------------------------
NInv == IInv /\ NearestHead(RdyQueue)

\* What a step does to NInv, and where it goes.
NearestStep ==
    /\ NearestHead(RdyQueue')
    /\ RunningTask' # RunningTask => GoesNearest(RunningTask')

(* mrtk_partitioned and the tick insert one task.                          *)
LEMMA InsertionNearest ==
    ASSUME FewTasks, NInv, IInv', NEW t \in Tasks, t \notin Members(RdyQueue),
           NEW d \in 0..(U32 - 1), RdyQueue' = InsertInQueue(RdyQueue, t, d),
           RunningTask' = RunningTask
    PROVE  NearestStep
<1>1. t \in Nat /\ GoodQueue(RdyQueue) /\ NearestHead(RdyQueue)
  BY TaskNumbers DEF NInv, IInv, QueueInv
<1>2. InsertInQueue(RdyQueue, t, d).last <= 3
  BY ThreeEntries
<1>3. NearestHead(InsertInQueue(RdyQueue, t, d))
  BY <1>1, <1>2, InsertNearest
<1> QED BY <1>3 DEF NearestStep

(* mrtk_start goes to the nearest.                                         *)
LEMMA StartNearest == ASSUME NInv, Start PROVE NearestStep
<1> DEFINE popped == RemoveFirstElementInQueue(RdyQueue)
<1>1. GoodQueue(RdyQueue) /\ NearestHead(RdyQueue) /\ IInv
  BY DEF NInv, IInv, QueueInv
<1>2. /\ RunningTask' = GetTaskWithNearestDeadline(RdyQueue, Idle)
      /\ RdyQueue' = popped
  BY DEF Start
<1>3. NearestHead(popped)
  <2>1. CASE RdyQueue.last = 0
    BY <1>1, <2>1 DEF RemoveFirstElementInQueue
  <2>2. CASE RdyQueue.last # 0
    BY <1>1, <2>2, RemoveNearest
  <2> QED BY <2>1, <2>2
<1>4. GoesNearest(GetTaskWithNearestDeadline(RdyQueue, Idle))
  BY <1>1, HeadIsNearest
<1> QED BY <1>2, <1>3, <1>4 DEF NearestStep

LEMMA StepNearest ==
    ASSUME FewTasks, NInv, IInv', [TaskStep \/ StackLost]_vars
    PROVE  NearestStep
<1>1. IInv /\ NearestHead(RdyQueue)
  BY DEF NInv
<1>2. ASSUME UNCHANGED sched PROVE NearestStep
  BY <1>1, <1>2 DEF NearestStep, sched
<1>3. CASE UNCHANGED vars
  BY <1>2, <1>3 DEF vars
<1>4. ASSUME NEW t \in Users, PlaceTask(t) PROVE NearestStep
  <2>1. t \in Tasks /\ t \notin Members(RdyQueue)
    BY <1>1, <1>4, TaskNumbers DEF PlaceTask, IInv, BootInv
  <2>2. Deadline[t] \in 0..(U32 - 1)
    BY KernelAssumption, HeapAssumption
  <2> QED BY <1>4, <2>1, <2>2, InsertionNearest DEF PlaceTask
<1>5. CASE Start
  BY <1>5, StartNearest
<1>6. ASSUME NEW state, MrtkRunning, SchedFrom(state) PROVE NearestStep
  BY <1>1, <1>6, SchedNearest DEF NearestStep
<1>7. CASE TaskNext
  <2>1. ASSUME NEW t \in Tasks, KernelCall(t) PROVE NearestStep
    BY <1>2, <2>1 DEF KernelCall
  <2>2. ASSUME NEW t \in Users, WaitSched(t) PROVE NearestStep
    BY <1>6, <2>2 DEF WaitSched, Sched, InTask
  <2>3. ASSUME NEW t \in Users, NEW d \in WaitTimes, WaitBegin(t, d) PROVE NearestStep
    BY <1>2, <2>3 DEF WaitBegin
  <2> QED BY <1>7, <2>1, <2>2, <2>3 DEF TaskNext
<1>8. CASE TickNext
  <2>1. ASSUME TickBegin \/ TickSkip \/ TickDelay \/ AckTick PROVE NearestStep
    BY <1>2, <2>1 DEF TickBegin, TickTaken, TickSkip, TickDelay, AckTick
  <2>2. CASE TickWake
    <3>1. /\ count \in Users /\ State[count] = "SUSPENDED" /\ count < UsersMax
          /\ RdyQueue' = InsertInQueue(RdyQueue, count, MrtkTime + Deadline[count])
          /\ RunningTask' = RunningTask
      BY <2>2 DEF TickWake, Sleeps
    <3>2. MrtkTime + Deadline[count] \in 0..(U32 - 1)
      BY <1>1, <3>1, KernelAssumption, HeapAssumption DEF IInv, TypeOK
    <3>3. count \in Tasks /\ count \notin Members(RdyQueue)
      <4>1. Ticking
        BY <3>1, TaskNumbers DEF Ticking
      <4> QED BY <1>1, <3>1, <4>1, TaskNumbers DEF IInv, TickInv, BootInv, ReadyOnce
    <3> QED BY <3>1, <3>2, <3>3, InsertionNearest
  <2>3. CASE TickSched
    <3>1. MrtkRunning
      BY <1>1, <2>3, TaskNumbers DEF TickSched, IInv, TickInv, Ticking
    <3> QED BY <1>6, <2>3, <3>1 DEF TickSched, Sched
  <2> QED BY <1>8, <2>1, <2>2, <2>3 DEF TickNext
<1>9. ASSUME NEW t \in Users, NEW u \in Tasks, DeleteTask(t, u) PROVE NearestStep
  BY <1>6, <1>9 DEF DeleteTask, InTask
<1> QED BY <1>3, <1>4, <1>5, <1>7, <1>8, <1>9 DEF Next, TaskStep, StackLost

(* MRTK "will always schedule on each core the task with the nearest       *)
(* deadline" (README.md:7) is true of every switch on a CPU that has three *)
(* user tasks or fewer, whatever their deadlines and waits, and whichever  *)
(* are deleted; queue_nearest and kernel_edf show what a fourth does.      *)
THEOREM KernelSwitchesToNearest ==
    ASSUME NoWaitOfOne, FewTasks PROVE TaskSpec => SwitchPicksNearest
<1>1. Init => NInv
  <2>1. Init => NearestHead(RdyQueue)
    BY DEF Init, QueuesInit, NearestHead, Slots
  <2> QED BY <2>1, InitIInv DEF NInv
<1>2. NInv /\ [TaskStep \/ StackLost]_vars => NInv' /\ NearestStep
  <2> SUFFICES ASSUME NInv, [TaskStep \/ StackLost]_vars PROVE NInv' /\ NearestStep
    OBVIOUS
  <2>1. IInv'
    BY StepIInv DEF NInv
  <2>2. NearestStep
    BY <2>1, StepNearest
  <2>3. NearestHead(RdyQueue)'
    BY <2>2 DEF NearestStep, NearestHead, Slots
  <2> QED BY <2>1, <2>2, <2>3 DEF NInv
<1>3. NearestStep => [RunningTask' # RunningTask
                         => \A e \in Held(RdyQueue) :
                               AbsoluteDeadline[RunningTask'] <= e.Deadline]_vars
  BY DEF NearestStep, GoesNearest
<1> QED BY <1>1, <1>2, <1>3, PTL DEF TaskSpec, SwitchPicksNearest

-----------------------------------------------------------------------------
\* The idle task that a tick has interrupted owes its acknowledge until it
\* runs again, and it is left by nothing but a tick.
FirstIdleInv ==
    /\ MrtkTime \in Nat
    /\ MrtkTime = 0 => isrOwner = NoOwner
    /\ MrtkTime # 0 => MrtkRunning /\ (isrOwner = Idle \/ RunningTask = Idle)
    /\ Ticking => isrOwner = Idle

(* A step that takes and acknowledges no tick leaves the CPU to another    *)
(* task in mrtk_exitinterrupt, or by a call of a user task.                *)
LEMMA NoTickKeeps ==
    ASSUME FirstIdleInv, UNCHANGED <<MrtkRunning, MrtkTime, isrOwner>>, Ticking' => Ticking,
           RunningTask' = RunningTask \/ Ticking \/ RunningTask # Idle
    PROVE  FirstIdleInv'
  BY DEF FirstIdleInv

(* Every step keeps that debt, and a tick finds the idle task.             *)
LEMMA TickFindsIdle ==
    ASSUME FirstIdleInv, TickBegin, FirstTickFindsIdle
    PROVE  RunningTask = Idle /\ FirstIdleInv'
<1>1. RunningTask = Idle
  BY TaskNumbers DEF FirstIdleInv, FirstTickFindsIdle, TickBegin
<1>2. /\ MrtkRunning' /\ MrtkTime' = MrtkTime + 1 /\ isrOwner' = Idle /\ MrtkTime \in Nat
  BY <1>1 DEF TickBegin, TickTaken, boot, FirstIdleInv
<1> QED BY <1>1, <1>2 DEF FirstIdleInv

LEMMA NextKeepsDebt ==
    ASSUME FirstIdleInv, Next, FirstTickFindsIdle
    PROVE  FirstIdleInv'
<1>1. ASSUME NEW t \in Users, PlaceTask(t) PROVE FirstIdleInv'
  BY <1>1, NoTickKeeps DEF PlaceTask, isr, Ticking
<1>2. CASE Start
  BY <1>2 DEF Start, FirstIdleInv, isr, Ticking
<1>3. ASSUME NEW t \in Tasks, KernelCall(t) PROVE FirstIdleInv'
  BY <1>3, NoTickKeeps DEF KernelCall, sched, boot, isr, Ticking
<1>4. ASSUME NEW t \in Users, WaitSched(t) PROVE FirstIdleInv'
  BY <1>4, NoTickKeeps, TaskNumbers DEF WaitSched, InTask, boot, isr, Ticking
<1>5. ASSUME NEW t \in Users, NEW d \in WaitTimes, WaitBegin(t, d) PROVE FirstIdleInv'
  BY <1>5, NoTickKeeps DEF WaitBegin, sched, boot, isr, Ticking
<1>6. CASE TickBegin
  BY <1>6, TickFindsIdle
<1>7. CASE TickSkip \/ TickDelay \/ TickWake
  BY <1>7, NoTickKeeps, TaskNumbers DEF TickSkip, TickDelay, TickWake, sched, boot, Ticking
<1>8. CASE TickSched
  BY <1>8, NoTickKeeps, TaskNumbers DEF TickSched, boot, Ticking
<1>9. CASE AckTick
  BY <1>9, TaskNumbers DEF AckTick, FirstIdleInv, sched, boot, Ticking
<1> QED BY <1>1, <1>2, <1>3, <1>4, <1>5, <1>6, <1>7, <1>8, <1>9 DEF Next, TaskNext, TickNext

(* Where the first tick finds the idle task, every later tick finds it     *)
(* too: while any other task runs the idle task owes an acknowledge        *)
(* (mrtk_port_timer.c:62), and the hardware holds the tick back.           *)
THEOREM EveryTickFindsIdle ==
    TaskSpec /\ [][FirstTickFindsIdle]_vars => [][TickBegin => RunningTask = Idle]_vars
<1>1. Init => FirstIdleInv
  BY DEF Init, FirstIdleInv, Ticking
<1>2. FirstIdleInv /\ [TaskStep \/ StackLost]_vars /\ [FirstTickFindsIdle]_vars
         => FirstIdleInv'
  <2> SUFFICES ASSUME FirstIdleInv, [TaskStep \/ StackLost]_vars, [FirstTickFindsIdle]_vars
               PROVE  FirstIdleInv'
    OBVIOUS
  <2>1. CASE UNCHANGED vars
    BY <2>1, NoTickKeeps DEF vars, sched, boot, isr, Ticking
  <2>2. ASSUME NEW t \in Users, NEW u \in Tasks, DeleteTask(t, u) PROVE FirstIdleInv'
    BY <2>2, NoTickKeeps, TaskNumbers DEF DeleteTask, InTask, boot, isr, Ticking
  <2>3. CASE Next /\ ~UNCHANGED vars
    BY <2>3, NextKeepsDebt
  <2> QED BY <2>1, <2>2, <2>3 DEF TaskStep, StackLost
<1>3. FirstIdleInv /\ [FirstTickFindsIdle]_vars => [TickBegin => RunningTask = Idle]_vars
  BY TickFindsIdle
<1> QED BY <1>1, <1>2, <1>3, PTL DEF TaskSpec
=============================================================================
