---------------------------- MODULE MrtkSemProofs ----------------------------
(***************************************************************************)
(* The semaphores put no task in two queues, for any number of tasks,      *)
(* semaphores and counters, where no pend has a timeout and no wait is of  *)
(* one tick.  Where there is one semaphore, its tokens are neither lost    *)
(* nor made.  Where there are three user tasks at most, a post releases    *)
(* the nearest.                                                            *)
(*                                                                         *)
(* PlacesInv is the kernel's part of the inductive invariant: a task of    *)
(* the waiting queue is in State WAITING, in its pend and not ready; a     *)
(* suspended one is not ready; the running one is not ready, and is in     *)
(* State SUSPENDED or in the waiting queue only while it is about to be    *)
(* switched out.  That a released task is in some queue is not claimed:    *)
(* the code loses it.  TokenInv is the semaphore's part.                   *)
(***************************************************************************)
EXTENDS MrtkSem, MrtkKernelProofs

\* A pend with a timeout may lose the post that comes between its end and
\* the moment that its task runs.
NoTimeouts == Timeouts \subseteq {0}

\* The waiting queue does not say which semaphore a task waits for.
OneSemaphore == NbEventMax = 1

SemStates == {"READY", "EXECUTING", "SUSPENDED", "WAITING"}

PCs == {"new", "app", "wait", "pend", "woken", "post"}

KernelPart ==
    /\ State \in [Tasks -> SemStates]
    /\ Delay \in [Tasks -> Nat]
    /\ AbsoluteDeadline \in [Tasks -> 0..(U32 - 1)]
    /\ RunningTask \in IF MrtkRunning THEN Tasks ELSE {0}
    /\ MrtkRunning \in BOOLEAN
    /\ MrtkTime \in 0..MaxTime
    /\ toPlace \subseteq Users
    /\ count \in 0..NotTicking
    /\ isrOwner \in Tasks \cup {NoOwner}
    /\ pc \in [Tasks -> PCs]

QueuesInv ==
    /\ GoodQueue(RdyQueue) /\ Members(RdyQueue) \subseteq Tasks
    /\ GoodQueue(WaitingQueue) /\ Members(WaitingQueue) \subseteq Users

StartInv ==
    /\ ~MrtkRunning => /\ count = NotTicking /\ isrOwner = NoOwner
                       /\ Members(RdyQueue) = Users \ toPlace
                       /\ WaitingQueue.last = 0
                       /\ \A t \in Tasks : State[t] = "READY" /\ pc[t] = "new"
    /\ MrtkRunning => toPlace = {}

\* Where a user task is not: what its State and the queues say of each other.
Placed(t) ==
    /\ State[t] = "SUSPENDED" => t \notin Members(RdyQueue)
    /\ t \in Members(WaitingQueue) => /\ State[t] = "WAITING"
                                      /\ pc[t] \in {"pend", "woken"}
                                      /\ t \notin Members(RdyQueue)
    /\ MrtkRunning /\ RunningTask = t
          => /\ t \in Members(WaitingQueue) => pc[t] = "pend"
             /\ State[t] = "SUSPENDED" => pc[t] = "wait"

PlaceInv ==
    /\ MrtkRunning => RunningTask \notin Members(RdyQueue)
    /\ \A t \in Users : Placed(t)

PlacesInv ==
    KernelPart /\ QueuesInv /\ StartInv /\ PlaceInv /\ TickInv /\ WaitInv

-----------------------------------------------------------------------------
(* mrtk_sched takes the CPU from every task but the idle one, gives it to  *)
(* a task of the ready queue or to the idle task, and wakes nobody.        *)
LEMMA SchedHandsOver ==
    ASSUME KernelPart, QueuesInv, PlaceInv, MrtkRunning, Sched,
           UNCHANGED <<AbsoluteDeadline, WaitingQueue>>
    PROVE  /\ State' \in [Tasks -> SemStates]
           /\ RunningTask' \in Tasks
           /\ QueuesInv'
           /\ RunningTask' \notin Members(RdyQueue')
           /\ RunningTask' \in Users => RunningTask' \in Members(RdyQueue)
           /\ RunningTask' = RunningTask => RunningTask = Idle
           /\ \A t \in Tasks : /\ State'[t] = "SUSPENDED" <=> State[t] = "SUSPENDED"
                               /\ State'[t] = "WAITING" <=> State[t] = "WAITING"
           /\ \A t \in Members(RdyQueue') :
                 \/ t \in Members(RdyQueue)
                 \/ t = RunningTask /\ State[t] = "EXECUTING"
<1> DEFINE hgh    == GetTaskWithNearestDeadline(RdyQueue, Idle)
           popped == RemoveFirstElementInQueue(RdyQueue)
           slept  == IF Preempted(State, RunningTask)
                     THEN [State EXCEPT ![RunningTask] = "READY"] ELSE State
<1>1. /\ GoodQueue(popped)
      /\ Members(popped) = Members(RdyQueue) \ {hgh}
      /\ hgh \in Tasks
      /\ hgh \in Users => hgh \in Members(RdyQueue)
  BY NearestLeaves DEF QueuesInv
<1>2. /\ RunningTask \in Tasks /\ RunningTask \notin Members(RdyQueue)
      /\ Members(RdyQueue) \subseteq Tasks
      /\ GoodQueue(WaitingQueue') /\ Members(WaitingQueue') \subseteq Users
      /\ State \in [Tasks -> SemStates] /\ {"READY", "EXECUTING"} \subseteq SemStates
      /\ AbsoluteDeadline[RunningTask] \in 0..(U32 - 1)
  BY DEF KernelPart, QueuesInv, PlaceInv, SemStates
<1>3. CASE hgh = RunningTask
  <2>1. UNCHANGED <<State, RdyQueue, RunningTask>>
    BY <1>3 DEF Sched, SchedFrom
  <2>2. RunningTask = Idle
    BY <1>1, <1>2, <1>3 DEF Tasks
  <2>3. QueuesInv'
    BY <2>1 DEF QueuesInv
  <2> QED BY <1>2, <2>1, <2>2, <2>3, TaskNumbers
<1>4. CASE hgh # RunningTask
  <2>1. /\ RdyQueue' = IF Preempted(State, RunningTask)
                       THEN InsertInQueue(popped, RunningTask, AbsoluteDeadline[RunningTask])
                       ELSE popped
        /\ State' = IF Schedulable(hgh) /\ slept[hgh] = "READY"
                    THEN [slept EXCEPT ![hgh] = "EXECUTING"] ELSE slept
        /\ RunningTask' = hgh
    BY <1>4 DEF Sched, SchedFrom, Switch
  <2>2. /\ GoodQueue(RdyQueue')
        /\ Members(RdyQueue') = Members(popped)
              \cup (IF Preempted(State, RunningTask) THEN {RunningTask} ELSE {})
    <3>1. Members(popped) \subseteq Tasks /\ RunningTask \notin Members(popped)
      BY <1>1, <1>2
    <3> HIDE DEF popped
    <3>2. CASE Preempted(State, RunningTask)
      BY <1>1, <1>2, <2>1, <3>1, <3>2, TaskInserted
    <3>3. CASE ~Preempted(State, RunningTask)
      BY <1>1, <2>1, <3>3
    <3> QED BY <3>2, <3>3
  <2>3. /\ slept \in [Tasks -> SemStates]
        /\ \A t \in Tasks : \/ slept[t] = State[t]
                            \/ State[t] = "EXECUTING" /\ slept[t] = "READY"
        /\ Preempted(State, RunningTask) => State[RunningTask] = "EXECUTING"
    BY <1>2 DEF Preempted
  <2> HIDE DEF hgh, popped, slept
  <2>4. /\ State' \in [Tasks -> SemStates]
        /\ \A t \in Tasks : \/ State'[t] = slept[t]
                            \/ slept[t] = "READY" /\ State'[t] = "EXECUTING"
    BY <1>1, <1>2, <2>1, <2>3
  <2>5. \A t \in Tasks : /\ State'[t] = "SUSPENDED" <=> State[t] = "SUSPENDED"
                         /\ State'[t] = "WAITING" <=> State[t] = "WAITING"
    BY <2>3, <2>4
  <2>6. QueuesInv'
    BY <1>1, <1>2, <2>2 DEF QueuesInv
  <2>7. \A t \in Members(RdyQueue') :
            \/ t \in Members(RdyQueue)
            \/ t = RunningTask /\ State[t] = "EXECUTING"
    BY <1>1, <2>2, <2>3
  <2>8. RunningTask' \notin Members(RdyQueue')
    BY <1>1, <1>4, <2>1, <2>2
  <2> QED BY <1>1, <1>4, <2>1, <2>4, <2>5, <2>6, <2>7, <2>8
<1> QED BY <1>3, <1>4

(* A switch keeps each task in its place, if what the program counters     *)
(* become is right for the tasks that wait for a semaphore.                *)
LEMMA SchedPlaces ==
    ASSUME KernelPart, QueuesInv, PlaceInv, MrtkRunning, MrtkRunning', Sched,
           UNCHANGED <<AbsoluteDeadline, WaitingQueue>>,
           \A t \in Members(WaitingQueue) : pc'[t] \in {"pend", "woken"}
    PROVE  PlaceInv'
<1>1. /\ RunningTask' \notin Members(RdyQueue')
      /\ RunningTask' \in Users => RunningTask' \in Members(RdyQueue)
      /\ \A t \in Tasks : /\ State'[t] = "SUSPENDED" <=> State[t] = "SUSPENDED"
                          /\ State'[t] = "WAITING" <=> State[t] = "WAITING"
      /\ \A t \in Members(RdyQueue') :
            \/ t \in Members(RdyQueue)
            \/ t = RunningTask /\ State[t] = "EXECUTING"
  BY SchedHandsOver
<1>2. ASSUME NEW t \in Users PROVE Placed(t)'
  <2>1. t \in Tasks /\ Placed(t)
    BY TaskNumbers DEF PlaceInv
  <2>2. State'[t] = "SUSPENDED" => t \notin Members(RdyQueue')
    BY <1>1, <2>1 DEF Placed
  <2>3. t \in Members(WaitingQueue') => /\ State'[t] = "WAITING"
                                        /\ pc'[t] \in {"pend", "woken"}
                                        /\ t \notin Members(RdyQueue')
    BY <1>1, <2>1 DEF Placed
  <2>4. RunningTask' = t => t \notin Members(WaitingQueue') /\ State'[t] # "SUSPENDED"
    BY <1>1, <2>1 DEF Placed
  <2> QED BY <2>2, <2>3, <2>4 DEF Placed
<1> QED BY <1>1, <1>2 DEF PlaceInv
-----------------------------------------------------------------------------
(* A call of a task that changes neither the TCBs nor the queues.          *)
LEMMA CallPlaces ==
    ASSUME PlacesInv, NEW t \in Tasks, InTask(t), pc[t] \in {"new", "app", "woken"},
           pc' = [pc EXCEPT ![t] = "app"],
           UNCHANGED <<tcb, sched, boot, isr, MrtkTime, WaitingQueue>>
    PROVE  PlacesInv'
<1> USE TaskNumbers DEF PlacesInv
<1>1. /\ MrtkRunning /\ RunningTask = t
      /\ UNCHANGED <<State, Delay, AbsoluteDeadline, RdyQueue, RunningTask,
                     MrtkRunning, toPlace, count, isrOwner, MrtkTime, WaitingQueue>>
  BY DEF InTask, tcb, sched, boot, isr
<1>2. /\ pc' \in [Tasks -> PCs] /\ pc'[t] = "app"
      /\ \A u \in Tasks \ {t} : pc'[u] = pc[u]
  BY DEF KernelPart, PCs
<1>3. KernelPart'
  BY <1>1, <1>2 DEF KernelPart
<1>4. QueuesInv' /\ StartInv' /\ TickInv'
  BY <1>1 DEF QueuesInv, StartInv, TickInv, Ticking
<1>5. PlaceInv'
  <2>1. ASSUME NEW u \in Users PROVE Placed(u)'
    <3>1. u \in Tasks /\ Placed(u)
      BY DEF PlaceInv
    <3>2. CASE u = t
      <4>1. u \notin Members(WaitingQueue) /\ State[u] # "SUSPENDED"
        BY <1>1, <3>1, <3>2 DEF Placed
      <4> QED BY <1>1, <4>1 DEF Placed
    <3>3. CASE u # t
      <4>1. pc'[u] = pc[u]
        BY <1>2, <3>1, <3>3
      <4> QED BY <1>1, <3>1, <4>1 DEF Placed
    <3> QED BY <3>2, <3>3
  <2> QED BY <1>1, <2>1 DEF PlaceInv
<1>6. WaitInv'
  <2>1. \A u \in Tasks : pc'[u] = "wait" => pc[u] = "wait"
    BY <1>2
  <2> QED BY <1>1, <2>1 DEF WaitInv, Ticking
<1> QED BY <1>3, <1>4, <1>5, <1>6

(* The mrtk_sched that a task calls in mrtk_wait, in a pend or in a post.  *)
LEMMA CallSchedPlaces ==
    ASSUME PlacesInv, NEW t \in Users, InTask(t), Sched, NEW where,
           \/ pc[t] \in {"wait", "post"} /\ where = "app"
           \/ pc[t] = "pend" /\ where = "woken",
           pc' = [pc EXCEPT ![t] = where],
           UNCHANGED <<Delay, AbsoluteDeadline, boot, isr, MrtkTime, WaitingQueue>>
    PROVE  PlacesInv'
<1> USE TaskNumbers DEF PlacesInv
<1>1. /\ MrtkRunning /\ RunningTask = t /\ isrOwner # t /\ toPlace = {}
      /\ UNCHANGED <<Delay, AbsoluteDeadline, MrtkRunning, toPlace,
                     count, isrOwner, MrtkTime, WaitingQueue>>
  BY DEF InTask, boot, isr, StartInv
<1>2. /\ pc' \in [Tasks -> PCs] /\ pc'[t] = where
      /\ \A u \in Tasks \ {t} : pc'[u] = pc[u]
  BY DEF KernelPart, PCs
<1>3. ~Ticking /\ ~Ticking'
  BY <1>1 DEF TickInv, Ticking
<1>4. /\ State' \in [Tasks -> SemStates] /\ RunningTask' \in Tasks
      /\ QueuesInv'
      /\ RunningTask' # t
      /\ RunningTask' \in Users => RunningTask' \in Members(RdyQueue)
      /\ \A u \in Tasks : State'[u] = "SUSPENDED" <=> State[u] = "SUSPENDED"
  BY <1>1, SchedHandsOver
<1>5. KernelPart'
  BY <1>1, <1>2, <1>4 DEF KernelPart
<1>6. PlaceInv'
  <2>1. ASSUME NEW u \in Members(WaitingQueue) PROVE pc'[u] \in {"pend", "woken"}
    <3>1. u \in Users /\ pc[u] \in {"pend", "woken"}
      BY DEF QueuesInv, PlaceInv, Placed
    <3> QED BY <1>2, <3>1
  <2> QED BY <1>1, <2>1, SchedPlaces
<1>7. StartInv' /\ TickInv'
  BY <1>1, <1>3 DEF StartInv, TickInv
<1>8. WaitInv'
  <2> SUFFICES ASSUME NEW u \in Tasks, pc'[u] = "wait"
               PROVE  /\ u \in Users /\ State'[u] = "SUSPENDED"
                      /\ isrOwner = u /\ RunningTask' # u
    BY <1>1, <1>3 DEF WaitInv
  <2>1. u # t /\ pc[u] = "wait"
    BY <1>2
  <2>2. u \in Users /\ State[u] = "SUSPENDED" /\ isrOwner = u
    BY <1>1, <2>1 DEF WaitInv
  <2>3. RunningTask' # u
    BY <1>4, <2>2 DEF PlaceInv, Placed
  <2> QED BY <1>4, <2>2, <2>3
<1> QED BY <1>4, <1>5, <1>6, <1>7, <1>8

-----------------------------------------------------------------------------
(* Before the boot both queues are empty.                                  *)
LEMMA InitPlaces == SemInit => PlacesInv
<1> SUFFICES ASSUME SemInit PROVE PlacesInv
  OBVIOUS
<1> USE TaskNumbers, KernelAssumption, HeapAssumption DEF SemInit, Init
<1>1. /\ GoodQueue(RdyQueue) /\ Members(RdyQueue) = {}
      /\ GoodQueue(WaitingQueue) /\ Members(WaitingQueue) = {}
      /\ WaitingQueue.last = 0
  BY InitIsGood, MembersHaveEntries DEF QueuesInit
<1>2. KernelPart
  <2>1. AbsoluteDeadline \in [Tasks -> 0..(U32 - 1)]
    BY DEF IdleDeadline, Tasks
  <2>2. State \in [Tasks -> SemStates] /\ pc \in [Tasks -> PCs]
    BY DEF SemStates, PCs
  <2>3. /\ Delay \in [Tasks -> Nat] /\ RunningTask = 0 /\ MrtkRunning = FALSE
        /\ MrtkTime \in 0..MaxTime /\ toPlace \subseteq Users
        /\ count \in 0..NotTicking /\ isrOwner \in Tasks \cup {NoOwner}
    OBVIOUS
  <2> QED BY ONLY <2>1, <2>2, <2>3 DEF KernelPart
<1>3. QueuesInv /\ StartInv
  BY <1>1 DEF QueuesInv, StartInv
<1>4. PlaceInv /\ TickInv /\ WaitInv
  BY <1>1 DEF PlaceInv, Placed, TickInv, Ticking, WaitInv
<1> QED BY <1>2, <1>3, <1>4 DEF PlacesInv

(* mrtk_partitioned puts each task in the ready queue, once.               *)
LEMMA PlaceTaskPlaces ==
    ASSUME PlacesInv, NEW t \in Users, PlaceTask(t), UNCHANGED WaitingQueue
    PROVE  PlacesInv'
<1> USE TaskNumbers DEF PlacesInv
<1>1. /\ t \in toPlace /\ ~MrtkRunning /\ MrtkRunning' = MrtkRunning
      /\ RdyQueue' = InsertInQueue(RdyQueue, t, Deadline[t])
      /\ toPlace' = toPlace \ {t}
      /\ UNCHANGED <<State, Delay, AbsoluteDeadline, RunningTask, count, isrOwner,
                     MrtkTime, pc, WaitingQueue>>
  BY DEF PlaceTask, StartInv, tcb, isr
<1>2. /\ Members(RdyQueue) = Users \ toPlace
      /\ \A u \in Tasks : State[u] = "READY" /\ pc[u] = "new"
      /\ toPlace \subseteq Users
  BY <1>1 DEF StartInv, KernelPart
<1>3. Deadline[t] \in 0..(U32 - 1)
  BY KernelAssumption, HeapAssumption
<1>4. GoodQueue(RdyQueue') /\ Members(RdyQueue') = Members(RdyQueue) \cup {t}
  <2>1. /\ GoodQueue(RdyQueue) /\ Members(RdyQueue) \subseteq Tasks
        /\ t \in Tasks /\ t \notin Members(RdyQueue)
    BY <1>1, <1>2 DEF QueuesInv
  <2> QED BY ONLY <1>1, <1>3, <2>1, TaskInserted
<1>5. KernelPart' /\ QueuesInv'
  BY <1>1, <1>4 DEF KernelPart, QueuesInv
<1>6. StartInv' /\ TickInv' /\ WaitInv'
  BY <1>1, <1>2, <1>4 DEF StartInv, TickInv, Ticking, WaitInv
<1>7. PlaceInv'
  BY <1>1, <1>2 DEF PlaceInv, Placed
<1> QED BY <1>5, <1>6, <1>7

(* mrtk_start takes the first task out of the ready queue.                 *)
LEMMA StartPlaces == ASSUME PlacesInv, Start, UNCHANGED WaitingQueue PROVE PlacesInv'
<1> USE TaskNumbers DEF PlacesInv
<1> DEFINE hgh == GetTaskWithNearestDeadline(RdyQueue, Idle)
<1>1. /\ ~MrtkRunning /\ MrtkRunning' /\ MrtkRunning' \in BOOLEAN
      /\ toPlace = {} /\ toPlace' = {}
      /\ RunningTask' = hgh
      /\ State' = [State EXCEPT ![hgh] = "EXECUTING"]
      /\ UNCHANGED <<Delay, AbsoluteDeadline, count, isrOwner, MrtkTime, pc, WaitingQueue>>
  BY DEF Start, isr
<1>2. /\ GoodQueue(RdyQueue')
      /\ Members(RdyQueue') = Members(RdyQueue) \ {hgh}
      /\ hgh \in Tasks
  BY NearestLeaves DEF Start, QueuesInv
<1> HIDE DEF hgh
<1>3. /\ Members(WaitingQueue) = {}
      /\ count = NotTicking /\ isrOwner = NoOwner
      /\ \A u \in Tasks : State[u] = "READY" /\ pc[u] = "new"
  BY <1>1, MembersHaveEntries DEF StartInv, QueuesInv
<1>4. /\ State' \in [Tasks -> SemStates]
      /\ \A u \in Tasks : State'[u] \in {"READY", "EXECUTING"}
  BY <1>1, <1>2, <1>3 DEF KernelPart, SemStates
<1>5. KernelPart' /\ QueuesInv'
  BY <1>1, <1>2, <1>4 DEF KernelPart, QueuesInv
<1>6. StartInv' /\ TickInv' /\ WaitInv'
  BY <1>1, <1>3 DEF StartInv, TickInv, Ticking, WaitInv
<1>7. PlaceInv'
  BY <1>1, <1>2, <1>3, <1>4 DEF PlaceInv, Placed
<1> QED BY <1>5, <1>6, <1>7
-----------------------------------------------------------------------------
(* A task that begins to wait leaves every queue, and has two ticks to go. *)
LEMMA WaitBeginPlaces ==
    ASSUME NoWaitOfOne, PlacesInv, NEW t \in Users, NEW d \in WaitTimes,
           WaitBegin(t, d), UNCHANGED WaitingQueue
    PROVE  PlacesInv'
<1> USE TaskNumbers DEF PlacesInv
<1>1. /\ MrtkRunning /\ RunningTask = t /\ isrOwner # t /\ pc[t] \in {"new", "app"}
      /\ State' = [State EXCEPT ![t] = "SUSPENDED"]
      /\ Delay' = [Delay EXCEPT ![t] = d]
      /\ pc' = [pc EXCEPT ![t] = "wait"]
      /\ UNCHANGED <<AbsoluteDeadline, RdyQueue, RunningTask, MrtkRunning, toPlace,
                     count, isrOwner, MrtkTime, WaitingQueue>>
  BY DEF WaitBegin, InTask, sched, boot, isr
<1>2. d \in Nat /\ d >= 2 /\ t \in Tasks
  BY KernelAssumption DEF NoWaitOfOne
<1>3. ~Ticking /\ ~Ticking'
  BY <1>1 DEF TickInv, Ticking
<1>4. /\ State' \in [Tasks -> SemStates]
      /\ Delay' \in [Tasks -> Nat]
      /\ pc' \in [Tasks -> PCs]
      /\ State'[t] = "SUSPENDED" /\ Delay'[t] = d /\ pc'[t] = "wait"
      /\ \A u \in Tasks \ {t} : /\ State'[u] = State[u] /\ Delay'[u] = Delay[u]
                                /\ pc'[u] = pc[u]
  BY <1>1, <1>2 DEF KernelPart, SemStates, PCs
<1>5. KernelPart' /\ QueuesInv'
  BY <1>1, <1>4 DEF KernelPart, QueuesInv
<1>6. StartInv' /\ TickInv'
  BY <1>1, <1>3 DEF StartInv, TickInv
<1>7. PlaceInv'
  <2>1. ASSUME NEW u \in Users PROVE Placed(u)'
    <3>1. u \in Tasks /\ Placed(u)
      BY DEF PlaceInv
    <3>2. CASE u = t
      <4>1. u \notin Members(WaitingQueue) /\ u \notin Members(RdyQueue)
        BY <1>1, <3>1, <3>2 DEF PlaceInv, Placed
      <4> QED BY <1>1, <1>4, <3>2, <4>1 DEF Placed
    <3>3. CASE u # t
      BY <1>1, <1>4, <3>1, <3>3 DEF Placed
    <3> QED BY <3>2, <3>3
  <2> QED BY <1>1, <2>1 DEF PlaceInv
<1>8. WaitInv'
  BY <1>1, <1>2, <1>3, <1>4 DEF WaitInv
<1> QED BY <1>5, <1>6, <1>7, <1>8

-----------------------------------------------------------------------------
(* A tick begins, with every delay still to be counted.                    *)
LEMMA TickBeginPlaces ==
    ASSUME PlacesInv, TickBegin, UNCHANGED WaitingQueue PROVE PlacesInv'
<1> USE TaskNumbers DEF PlacesInv
<1>1. /\ MrtkRunning /\ isrOwner = NoOwner /\ isrOwner' = RunningTask
      /\ MrtkTime < MaxTime /\ MrtkTime' = MrtkTime + 1 /\ count' = 0
      /\ RunningTask \in Tasks
      /\ UNCHANGED <<State, Delay, AbsoluteDeadline, RdyQueue, RunningTask,
                     MrtkRunning, toPlace, pc, WaitingQueue>>
  BY DEF TickBegin, TickTaken, tcb, sched, boot, KernelPart
<1>2. ~Ticking /\ Ticking'
  BY <1>1 DEF TickInv, Ticking
<1>3. KernelPart'
  <2>1. MrtkTime' \in 0..MaxTime /\ count' \in 0..NotTicking
    BY <1>1, KernelAssumption DEF KernelPart
  <2> QED BY <1>1, <2>1 DEF KernelPart
<1>4. QueuesInv' /\ StartInv' /\ PlaceInv' /\ TickInv'
  BY <1>1 DEF QueuesInv, StartInv, PlaceInv, Placed, TickInv
<1>5. WaitInv'
  BY <1>1, <1>2 DEF WaitInv
<1> QED BY <1>3, <1>4, <1>5

(* A turn of mrtk_tick that finds nothing to do.                           *)
LEMMA TickSkipPlaces ==
    ASSUME PlacesInv, TickSkip, UNCHANGED WaitingQueue PROVE PlacesInv'
<1> USE TaskNumbers DEF PlacesInv
<1>1. /\ count < UsersMax /\ count \in Nat /\ count' = count + 1
      /\ UNCHANGED <<State, Delay, AbsoluteDeadline, RdyQueue, RunningTask,
                     MrtkRunning, toPlace, isrOwner, MrtkTime, pc, WaitingQueue>>
  BY DEF TickSkip, tcb, sched, boot, KernelPart
<1>2. Ticking /\ Ticking' /\ count' \in 0..NotTicking
  BY <1>1 DEF Ticking
<1>3. KernelPart' /\ QueuesInv'
  BY <1>1, <1>2 DEF KernelPart, QueuesInv
<1>4. StartInv' /\ PlaceInv' /\ TickInv'
  BY <1>1, <1>2 DEF StartInv, PlaceInv, Placed, TickInv
<1>5. WaitInv'
  BY <1>1, <1>2 DEF WaitInv
<1> QED BY <1>3, <1>4, <1>5

(* A turn of mrtk_tick that counts a delay down.                           *)
LEMMA TickDelayPlaces ==
    ASSUME PlacesInv, TickDelay, UNCHANGED WaitingQueue PROVE PlacesInv'
<1> USE TaskNumbers DEF PlacesInv
<1>1. /\ count < UsersMax /\ count \in Users /\ count' = count + 1
      /\ Delay[count] \in Nat /\ Delay[count] >= 2
      /\ Delay' = [Delay EXCEPT ![count] = @ - 1]
      /\ UNCHANGED <<State, AbsoluteDeadline, RdyQueue, RunningTask,
                     MrtkRunning, toPlace, isrOwner, MrtkTime, pc, WaitingQueue>>
  BY DEF TickDelay, Sleeps, sched, boot, KernelPart
<1>2. Ticking /\ Ticking' /\ count' \in 0..NotTicking
  BY <1>1 DEF Ticking
<1>3. /\ Delay' \in [Tasks -> Nat]
      /\ \A u \in Tasks \ {count} : Delay'[u] = Delay[u]
  BY <1>1 DEF KernelPart
<1>4. KernelPart' /\ QueuesInv'
  BY <1>1, <1>2, <1>3 DEF KernelPart, QueuesInv
<1>5. StartInv' /\ PlaceInv' /\ TickInv'
  BY <1>1, <1>2 DEF StartInv, PlaceInv, Placed, TickInv
<1>6. WaitInv'
  <2> SUFFICES ASSUME NEW t \in Tasks, pc[t] = "wait"
               PROVE  /\ t \in Users /\ State[t] = "SUSPENDED" /\ isrOwner = t
                      /\ count + 1 <= t => Delay'[t] >= 2
    BY <1>1, <1>2 DEF WaitInv
  <2>1. t \in Users /\ State[t] = "SUSPENDED" /\ isrOwner = t
    BY <1>2 DEF WaitInv, TickInv
  <2>2. ASSUME count + 1 <= t PROVE Delay'[t] >= 2
    BY <1>1, <1>2, <1>3, <2>1, <2>2 DEF WaitInv
  <2> QED BY <2>1, <2>2
<1> QED BY <1>4, <1>5, <1>6

(* The task a tick wakes is in no queue, and is not the one it interrupted. *)
LEMMA TickWakePlaces ==
    ASSUME PlacesInv, TickWake, UNCHANGED WaitingQueue PROVE PlacesInv'
<1> USE TaskNumbers DEF PlacesInv
<1> DEFINE key == MrtkTime + Deadline[count]
<1>1. /\ count < UsersMax /\ count \in Users /\ count' = count + 1
      /\ State[count] = "SUSPENDED" /\ Delay[count] = 1
      /\ AbsoluteDeadline' = [AbsoluteDeadline EXCEPT ![count] = key]
      /\ RdyQueue' = InsertInQueue(RdyQueue, count, key)
      /\ Delay' = [Delay EXCEPT ![count] = 0]
      /\ State' = [State EXCEPT ![count] = "READY"]
      /\ UNCHANGED <<RunningTask, MrtkRunning, toPlace, isrOwner, MrtkTime, pc,
                     WaitingQueue>>
  BY DEF TickWake, Sleeps, boot
<1>2. Ticking /\ Ticking' /\ count' \in 0..NotTicking
  BY <1>1 DEF Ticking
<1>3. /\ MrtkRunning /\ isrOwner = RunningTask /\ toPlace = {}
      /\ RunningTask \in Tasks
  BY <1>2 DEF TickInv, StartInv, KernelPart
<1>4. /\ count \notin Members(RdyQueue) /\ count \notin Members(WaitingQueue)
      /\ RunningTask = count => pc[count] = "wait"
  BY <1>1, <1>3 DEF PlaceInv, Placed
<1>5. pc[count] # "wait" /\ RunningTask # count
  BY <1>1, <1>2, <1>3, <1>4 DEF WaitInv
<1>6. key \in 0..(U32 - 1)
  BY <1>1, KernelAssumption, HeapAssumption DEF KernelPart
<1> HIDE DEF key
<1>7. GoodQueue(RdyQueue') /\ Members(RdyQueue') = Members(RdyQueue) \cup {count}
  <2>1. GoodQueue(RdyQueue) /\ Members(RdyQueue) \subseteq Tasks /\ count \in Tasks
    BY <1>1 DEF QueuesInv
  <2> QED BY ONLY <1>1, <1>4, <1>6, <2>1, TaskInserted
<1>8. /\ State' \in [Tasks -> SemStates]
      /\ Delay' \in [Tasks -> Nat]
      /\ AbsoluteDeadline' \in [Tasks -> 0..(U32 - 1)]
      /\ State'[count] = "READY"
      /\ \A u \in Tasks \ {count} : State'[u] = State[u] /\ Delay'[u] = Delay[u]
  BY <1>1, <1>6 DEF KernelPart, SemStates
<1>9. KernelPart' /\ QueuesInv'
  BY <1>1, <1>2, <1>7, <1>8 DEF KernelPart, QueuesInv
<1>10. StartInv' /\ TickInv'
  BY <1>1, <1>2, <1>3 DEF StartInv, TickInv
<1>11. PlaceInv'
  <2>1. ASSUME NEW u \in Users PROVE Placed(u)'
    <3>1. u \in Tasks /\ Placed(u)
      BY DEF PlaceInv
    <3>2. CASE u = count
      BY <1>1, <1>4, <1>5, <1>8, <3>2 DEF Placed
    <3>3. CASE u # count
      BY <1>1, <1>7, <1>8, <3>1, <3>3 DEF Placed
    <3> QED BY <3>2, <3>3
  <2>2. RunningTask' \notin Members(RdyQueue')
    BY <1>1, <1>3, <1>5, <1>7 DEF PlaceInv
  <2> QED BY <2>1, <2>2 DEF PlaceInv
<1>12. WaitInv'
  BY <1>1, <1>2, <1>5, <1>8 DEF WaitInv
<1> QED BY <1>9, <1>10, <1>11, <1>12

(* A tick in the window of a pend takes the CPU from a task that waits.    *)
LEMMA TickSchedPlaces ==
    ASSUME PlacesInv, TickSched, UNCHANGED WaitingQueue PROVE PlacesInv'
<1> USE TaskNumbers DEF PlacesInv
<1>1. /\ count = UsersMax /\ count' = NotTicking /\ Sched
      /\ UNCHANGED <<Delay, AbsoluteDeadline, MrtkRunning, toPlace,
                     isrOwner, MrtkTime, pc, WaitingQueue>>
  BY DEF TickSched, boot
<1>2. Ticking /\ ~Ticking'
  BY <1>1 DEF Ticking
<1>3. MrtkRunning /\ toPlace = {} /\ isrOwner = RunningTask
  BY <1>2 DEF TickInv, StartInv
<1>4. /\ State' \in [Tasks -> SemStates] /\ RunningTask' \in Tasks
      /\ QueuesInv'
      /\ RunningTask' = RunningTask => RunningTask = Idle
      /\ \A u \in Tasks : State'[u] = "SUSPENDED" <=> State[u] = "SUSPENDED"
  BY <1>1, <1>3, SchedHandsOver
<1>5. KernelPart'
  <2>1. count' \in 0..NotTicking
    BY <1>1
  <2> QED BY <1>1, <1>3, <1>4, <2>1 DEF KernelPart
<1>6. PlaceInv'
  <2>1. \A u \in Members(WaitingQueue) : pc'[u] \in {"pend", "woken"}
    BY <1>1 DEF QueuesInv, PlaceInv, Placed
  <2> QED BY <1>1, <1>3, <2>1, SchedPlaces
<1>7. StartInv' /\ TickInv'
  BY <1>1, <1>2, <1>3 DEF StartInv, TickInv
<1>8. WaitInv'
  <2> SUFFICES ASSUME NEW u \in Tasks, pc[u] = "wait"
               PROVE  /\ u \in Users /\ State'[u] = "SUSPENDED"
                      /\ isrOwner = u /\ RunningTask' # u
    BY <1>1, <1>2 DEF WaitInv
  <2>1. u \in Users /\ State[u] = "SUSPENDED" /\ isrOwner = u
    BY <1>3 DEF WaitInv
  <2> QED BY <1>3, <1>4, <2>1
<1> QED BY <1>4, <1>5, <1>6, <1>7, <1>8

(* The acknowledge changes no place.                                       *)
LEMMA AckTickPlaces ==
    ASSUME PlacesInv, AckTick, UNCHANGED WaitingQueue PROVE PlacesInv'
<1> USE TaskNumbers DEF PlacesInv
<1>1. /\ ~Ticking /\ RunningTask = isrOwner /\ isrOwner' = NoOwner /\ isrOwner # NoOwner
      /\ UNCHANGED <<State, Delay, AbsoluteDeadline, RdyQueue, RunningTask,
                     MrtkRunning, toPlace, count, MrtkTime, pc, WaitingQueue>>
  BY DEF AckTick, tcb, sched, boot
<1>2. ~Ticking'
  BY <1>1 DEF Ticking
<1>3. KernelPart' /\ QueuesInv' /\ StartInv'
  BY <1>1 DEF KernelPart, QueuesInv, StartInv
<1>4. PlaceInv' /\ TickInv' /\ WaitInv'
  BY <1>1, <1>2 DEF PlaceInv, Placed, TickInv, WaitInv
<1> QED BY <1>3, <1>4
-----------------------------------------------------------------------------
\* What the semaphores' variables are, and what a task in a pend waits for.
EventsInv ==
    /\ EventTblFreeEntry \in 0..NbEventMax
    /\ EventCounter \in [Events -> 0..MaxCount]
    /\ IsTimeoutEnable = [e \in Events |-> FALSE]
    /\ pevent \in [Users -> Events \cup {NULL}]
    /\ error \in [Users -> {"NO_ERROR", "EVENT_TIMEOUT", "ERROR_SEM_OVERFLOW"}]
    /\ holds \in [Users -> SUBSET Events]
    /\ tokens \in [Events -> Int]
    /\ \A t \in Users :
          /\ holds[t] \subseteq Created
          /\ pc[t] \in {"pend", "woken"} => pevent[t] \in Created \ holds[t]

SemIInv == PlacesInv /\ EventsInv

(* A task that calls a semaphore is in neither queue.                      *)
LEMMA CallerPlaced ==
    ASSUME PlacesInv, NEW t \in Users, NEW e, Calls(t, e)
    PROVE  /\ InTask(t) /\ MrtkRunning /\ RunningTask = t /\ ~Ticking
           /\ pc[t] \in {"new", "app"} /\ e \in Created /\ Created \subseteq Events
           /\ t \in Tasks /\ t \notin Members(RdyQueue) /\ t \notin Members(WaitingQueue)
  BY TaskNumbers DEF Calls, InTask, Created, PlacesInv, PlaceInv, Placed, TickInv

(* A pend puts its task in the waiting queue, which has room for it.       *)
LEMMA SemBlockPlaces ==
    ASSUME PlacesInv, NEW t \in Users, NEW e \in Events, SemBlock(t, e, 0)
    PROVE  PlacesInv' /\ Members(WaitingQueue') = Members(WaitingQueue) \cup {t}
<1> USE TaskNumbers DEF PlacesInv
<1> DEFINE key == MrtkTime + Deadline[t]
<1>1. /\ State' = [State EXCEPT ![t] = "WAITING"]
      /\ AbsoluteDeadline' = [AbsoluteDeadline EXCEPT ![t] = key]
      /\ WaitingQueue' = InsertInQueue(WaitingQueue, t, key)
      /\ pc' = [pc EXCEPT ![t] = "pend"]
      /\ UNCHANGED <<Delay, RdyQueue, RunningTask, MrtkRunning, toPlace,
                     count, isrOwner, MrtkTime>>
  BY DEF SemBlock, sched, boot, isr
<1>2. /\ MrtkRunning /\ RunningTask = t /\ ~Ticking /\ pc[t] \in {"new", "app"}
      /\ t \in Tasks /\ t \notin Members(RdyQueue) /\ t \notin Members(WaitingQueue)
  BY CallerPlaced DEF SemBlock
<1>3. key \in 0..(U32 - 1)
  BY KernelAssumption, HeapAssumption DEF KernelPart
<1> HIDE DEF key
<1>4. GoodQueue(WaitingQueue') /\ Members(WaitingQueue') = Members(WaitingQueue) \cup {t}
  <2>1. GoodQueue(WaitingQueue) /\ Members(WaitingQueue) \subseteq Tasks
    BY DEF QueuesInv
  <2> QED BY ONLY <1>1, <1>2, <1>3, <2>1, TaskInserted
<1>5. /\ State' \in [Tasks -> SemStates]
      /\ AbsoluteDeadline' \in [Tasks -> 0..(U32 - 1)]
      /\ pc' \in [Tasks -> PCs]
      /\ State'[t] = "WAITING" /\ pc'[t] = "pend"
      /\ \A u \in Tasks \ {t} : State'[u] = State[u] /\ pc'[u] = pc[u]
  BY <1>1, <1>3 DEF KernelPart, SemStates, PCs
<1>6. KernelPart' /\ QueuesInv'
  BY <1>1, <1>4, <1>5 DEF KernelPart, QueuesInv
<1>7. StartInv' /\ TickInv'
  BY <1>1, <1>2 DEF StartInv, TickInv, Ticking
<1>8. PlaceInv'
  <2>1. ASSUME NEW u \in Users PROVE Placed(u)'
    <3>1. u \in Tasks /\ Placed(u)
      BY DEF PlaceInv
    <3>2. CASE u = t
      BY <1>1, <1>2, <1>5, <3>2 DEF Placed
    <3>3. CASE u # t
      BY <1>1, <1>4, <1>5, <3>1, <3>3 DEF Placed
    <3> QED BY <3>2, <3>3
  <2> QED BY <1>1, <1>2, <2>1 DEF PlaceInv
<1>9. WaitInv'
  <2>1. ~Ticking'
    BY <1>1, <1>2 DEF Ticking
  <2> QED BY <1>1, <1>2, <1>5, <2>1 DEF WaitInv
<1> QED BY <1>4, <1>6, <1>7, <1>8, <1>9

(* The waiting queue answers with one of its tasks, or with the idle task, *)
(* which is not a user task, where it is empty.                            *)
LEMMA WaiterWaits ==
    ASSUME PlacesInv
    PROVE  /\ Awaited => Waiter \in Members(WaitingQueue) /\ Waiter \in Users
           /\ ~Awaited => WaitingQueue.last = 0
<1>1. /\ GoodQueue(WaitingQueue) /\ Members(WaitingQueue) \subseteq Users
      /\ Waiter = IF WaitingQueue.last = 0 THEN Idle ELSE WaitingQueue.tab[1].TaskId
  BY DEF PlacesInv, QueuesInv, Waiter, GetTaskWithNearestDeadline
<1>2. WaitingQueue.last # 0 => Waiter \in Members(WaitingQueue)
  BY <1>1, MembersHaveEntries
<1>3. ~(Idle < UsersMax) /\ \A t \in Users : t < UsersMax
  BY KernelAssumption DEF Idle
<1> QED BY <1>1, <1>2, <1>3 DEF Awaited

(* A post moves one task from the waiting queue to the ready queue.        *)
LEMMA SemReleasePlaces ==
    ASSUME PlacesInv, NEW t \in Users, NEW e \in Events, SemRelease(t, e)
    PROVE  /\ PlacesInv'
           /\ Waiter \in Users /\ Waiter \in Members(WaitingQueue) /\ Waiter # t
           /\ Members(WaitingQueue') = Members(WaitingQueue) \ {Waiter}
<1> USE TaskNumbers DEF PlacesInv
<1> DEFINE key == MrtkTime + Deadline[Waiter]
<1>1. /\ AbsoluteDeadline' = [AbsoluteDeadline EXCEPT ![Waiter] = key]
      /\ RdyQueue' = InsertInQueue(RdyQueue, Waiter, key)
      /\ WaitingQueue' = RemoveFirstElementInQueue(WaitingQueue)
      /\ pc' = [pc EXCEPT ![t] = "post"]
      /\ UNCHANGED <<State, Delay, RunningTask, MrtkRunning, toPlace,
                     count, isrOwner, MrtkTime>>
  BY DEF SemRelease, WaiterRemoved, boot, isr
<1>2. /\ MrtkRunning /\ RunningTask = t /\ ~Ticking /\ pc[t] \in {"new", "app"}
      /\ t \in Tasks /\ t \notin Members(RdyQueue) /\ t \notin Members(WaitingQueue)
  BY CallerPlaced DEF SemRelease, Posts
<1>3. Waiter \in Users /\ Waiter \in Members(WaitingQueue)
  BY WaiterWaits DEF SemRelease
<1>4. /\ State[Waiter] = "WAITING" /\ Waiter \notin Members(RdyQueue)
      /\ Waiter # t
  BY <1>2, <1>3 DEF PlaceInv, Placed
<1>5. key \in 0..(U32 - 1)
  BY <1>3, KernelAssumption, HeapAssumption DEF KernelPart
<1>6. GoodQueue(WaitingQueue') /\ Members(WaitingQueue') = Members(WaitingQueue) \ {Waiter}
  <2>1. GoodQueue(WaitingQueue) /\ Members(WaitingQueue) \subseteq Tasks
    BY DEF QueuesInv
  <2> QED BY ONLY <1>1, <2>1, NearestLeaves DEF Waiter
<1> HIDE DEF key
<1>7. GoodQueue(RdyQueue') /\ Members(RdyQueue') = Members(RdyQueue) \cup {Waiter}
  <2>1. GoodQueue(RdyQueue) /\ Members(RdyQueue) \subseteq Tasks /\ Waiter \in Tasks
    BY <1>3 DEF QueuesInv
  <2> QED BY ONLY <1>1, <1>4, <1>5, <2>1, TaskInserted
<1>8. /\ AbsoluteDeadline' \in [Tasks -> 0..(U32 - 1)]
      /\ pc' \in [Tasks -> PCs]
      /\ \A u \in Tasks \ {t} : pc'[u] = pc[u]
  BY <1>1, <1>5 DEF KernelPart, PCs
<1>9. KernelPart' /\ QueuesInv'
  BY <1>1, <1>3, <1>6, <1>7, <1>8 DEF KernelPart, QueuesInv
<1>10. StartInv' /\ TickInv'
  BY <1>1, <1>2 DEF StartInv, TickInv, Ticking
<1>11. PlaceInv'
  <2>1. ASSUME NEW u \in Users PROVE Placed(u)'
    <3>1. u \in Tasks /\ Placed(u)
      BY DEF PlaceInv
    <3>2. CASE u = t
      BY <1>1, <1>2, <1>4, <1>6, <1>7, <3>1, <3>2 DEF Placed
    <3>3. CASE u = Waiter
      BY <1>1, <1>2, <1>4, <1>6, <3>3 DEF Placed
    <3>4. CASE u # t /\ u # Waiter
      BY <1>1, <1>2, <1>6, <1>7, <1>8, <3>1, <3>4 DEF Placed
    <3> QED BY <3>2, <3>3, <3>4
  <2> QED BY <1>1, <1>2, <1>4, <1>7, <2>1 DEF PlaceInv
<1>12. WaitInv'
  <2>1. ~Ticking' /\ pc'[t] # "wait"
    BY <1>1, <1>2 DEF Ticking, KernelPart
  <2> QED BY <1>1, <1>2, <1>8, <2>1 DEF WaitInv
<1> QED BY <1>3, <1>4, <1>6, <1>9, <1>10, <1>11, <1>12
-----------------------------------------------------------------------------
(* The kernel's own steps keep every task in its place.                    *)
LEMMA KernelPlaces ==
    ASSUME NoWaitOfOne, PlacesInv, Next, UNCHANGED WaitingQueue
    PROVE  PlacesInv'
<1>1. ASSUME NEW t \in Users, PlaceTask(t) PROVE PlacesInv'
  BY <1>1, PlaceTaskPlaces
<1>2. CASE Start
  BY <1>2, StartPlaces
<1>3. ASSUME NEW t \in Tasks, KernelCall(t) PROVE PlacesInv'
  BY <1>3, CallPlaces DEF KernelCall
<1>4. ASSUME NEW t \in Users, WaitSched(t) PROVE PlacesInv'
  BY <1>4, CallSchedPlaces DEF WaitSched
<1>5. ASSUME NEW t \in Users, NEW d \in WaitTimes, WaitBegin(t, d) PROVE PlacesInv'
  BY <1>5, WaitBeginPlaces
<1>6. CASE TickNext
  BY <1>6, TickBeginPlaces, TickSkipPlaces, TickDelayPlaces, TickWakePlaces,
     TickSchedPlaces, AckTickPlaces DEF TickNext
<1> QED BY <1>1, <1>2, <1>3, <1>4, <1>5, <1>6 DEF Next, TaskNext

(* They bring no task into a pend, and none out of it.                     *)
LEMMA KernelLeavesPends ==
    ASSUME PlacesInv, Next
    PROVE  \A u \in Users : pc'[u] \in {"pend", "woken"} <=> pc[u] \in {"pend", "woken"}
<1> USE TaskNumbers DEF PlacesInv, KernelPart
<1>1. ASSUME NEW t \in Users, PlaceTask(t) PROVE pc' = pc
  BY <1>1 DEF PlaceTask
<1>2. CASE Start
  BY <1>2 DEF Start
<1>3. ASSUME NEW t \in Tasks, KernelCall(t)
      PROVE  \A u \in Users : pc'[u] \in {"pend", "woken"} <=> pc[u] \in {"pend", "woken"}
  BY <1>3 DEF KernelCall
<1>4. ASSUME NEW t \in Users, \/ WaitSched(t)
                              \/ \E d \in WaitTimes : WaitBegin(t, d)
      PROVE  \A u \in Users : pc'[u] \in {"pend", "woken"} <=> pc[u] \in {"pend", "woken"}
  BY <1>4 DEF WaitSched, WaitBegin
<1>5. CASE TickNext
  BY <1>5 DEF TickNext, TickBegin, TickTaken, TickSkip, TickDelay, TickWake, TickSched,
              AckTick
<1> QED BY <1>1, <1>2, <1>3, <1>4, <1>5 DEF Next, TaskNext

(* The kernel's steps do not touch the semaphores.                         *)
LEMMA KernelSemIInv ==
    ASSUME NoWaitOfOne, SemIInv, Next, UNCHANGED semVars
    PROVE  SemIInv'
<1>1. UNCHANGED <<WaitingQueue, EventTblFreeEntry, EventCounter, IsTimeoutEnable,
                  pevent, error, holds, tokens>>
  BY DEF semVars, events, calls
<1>2. PlacesInv'
  BY <1>1, KernelPlaces DEF SemIInv
<1>3. EventsInv'
  BY <1>1, KernelLeavesPends DEF SemIInv, EventsInv, Created
<1> QED BY <1>2, <1>3 DEF SemIInv

(* A semaphore that is created is a new one.                               *)
LEMMA SemCreateIInv ==
    ASSUME SemIInv, NEW counter \in Counters, SemCreate(counter)
    PROVE  SemIInv'
<1> DEFINE e == EventTblFreeEntry
<1>1. /\ e # NbEventMax /\ EventTblFreeEntry' = e + 1
      /\ EventCounter' = [EventCounter EXCEPT ![e] = counter]
      /\ tokens' = [tokens EXCEPT ![e] = counter]
      /\ UNCHANGED <<vars, WaitingQueue, IsTimeoutEnable, pevent, error, holds>>
  BY DEF SemCreate, calls
<1>2. e \in 0..NbEventMax /\ NbEventMax \in Nat /\ counter \in 0..MaxCount
      /\ counter \in Int
  BY SemAssumption DEF SemIInv, EventsInv
<1>3. e \in Events /\ e + 1 \in 0..NbEventMax /\ Created \subseteq Created'
  BY <1>1, <1>2 DEF Events, Created
<1>4. EventsInv'
  <2>1. pc' = pc /\ pevent' = pevent /\ holds' = holds
    BY <1>1 DEF vars
  <2>2. \A t \in Users :
            /\ holds'[t] \subseteq Created'
            /\ pc'[t] \in {"pend", "woken"} => pevent'[t] \in Created' \ holds'[t]
    BY <1>3, <2>1 DEF SemIInv, EventsInv
  <2> HIDE DEF e
  <2>3. /\ EventCounter' \in [Events -> 0..MaxCount] /\ tokens' \in [Events -> Int]
        /\ EventTblFreeEntry' \in 0..NbEventMax
    BY <1>1, <1>2, <1>3 DEF SemIInv, EventsInv
  <2> QED BY <1>1, <2>2, <2>3 DEF SemIInv, EventsInv
<1>5. PlacesInv'
  BY <1>1 DEF SemIInv, PlacesInv, KernelPart, QueuesInv, StartInv, PlaceInv, Placed,
              TickInv, WaitInv, Ticking, vars, tcb, sched, boot, isr
<1> QED BY <1>4, <1>5 DEF SemIInv

(* A pend that finds the semaphore available takes one of its tokens.      *)
LEMMA SemTakeIInv ==
    ASSUME SemIInv, NEW t \in Users, NEW e \in Events, SemTake(t, e)
    PROVE  SemIInv'
<1>1. /\ EventCounter' = [EventCounter EXCEPT ![e] = @ - 1] /\ EventCounter[e] > 0
      /\ error' = [error EXCEPT ![t] = "NO_ERROR"]
      /\ holds' = [holds EXCEPT ![t] = @ \cup {e}]
      /\ pc' = [pc EXCEPT ![t] = "app"]
      /\ UNCHANGED <<EventTblFreeEntry, IsTimeoutEnable, tokens, pevent>>
  BY DEF SemTake, Available
<1>2. InTask(t) /\ pc[t] \in {"new", "app"} /\ e \in Created /\ t \in Tasks
  BY CallerPlaced DEF SemTake, SemIInv
<1>3. PlacesInv'
  BY <1>2, CallPlaces DEF SemTake, SemIInv
<1>4. EventsInv'
  <2>1. Created' = Created
    BY <1>1 DEF Created
  <2>2. EventCounter' \in [Events -> 0..MaxCount]
    <3>1. EventCounter[e] \in 0..MaxCount /\ EventCounter[e] - 1 \in 0..MaxCount
      BY <1>1, SemAssumption DEF SemIInv, EventsInv
    <3> QED BY <1>1, <3>1 DEF SemIInv, EventsInv
  <2>3. /\ holds' \in [Users -> SUBSET Events]
        /\ error' \in [Users -> {"NO_ERROR", "EVENT_TIMEOUT", "ERROR_SEM_OVERFLOW"}]
    BY <1>1 DEF SemIInv, EventsInv
  <2>4. \A u \in Users :
            /\ holds'[u] \subseteq Created
            /\ pc'[u] \in {"pend", "woken"} => pevent[u] \in Created \ holds'[u]
    BY <1>1, <1>2, TaskNumbers DEF SemIInv, EventsInv, PlacesInv, KernelPart
  <2> QED BY <1>1, <2>1, <2>2, <2>3, <2>4 DEF SemIInv, EventsInv
<1> QED BY <1>3, <1>4 DEF SemIInv

(* A pend that finds nothing remembers what it waits for.                  *)
LEMMA SemBlockIInv ==
    ASSUME SemIInv, NEW t \in Users, NEW e \in Events, SemBlock(t, e, 0)
    PROVE  SemIInv'
<1>1. /\ IsTimeoutEnable' = [IsTimeoutEnable EXCEPT ![e] = FALSE]
      /\ pevent' = [pevent EXCEPT ![t] = e] /\ e \notin holds[t]
      /\ pc' = [pc EXCEPT ![t] = "pend"]
      /\ UNCHANGED <<EventTblFreeEntry, EventCounter, tokens, error, holds>>
  BY DEF SemBlock
<1>2. pc[t] \in {"new", "app"} /\ e \in Created /\ t \in Tasks
  BY CallerPlaced DEF SemBlock, SemIInv
<1>3. PlacesInv'
  BY SemBlockPlaces DEF SemIInv
<1>4. EventsInv'
  <2>1. Created' = Created
    BY <1>1 DEF Created
  <2>2. /\ pevent' \in [Users -> Events \cup {NULL}]
        /\ IsTimeoutEnable' = [x \in Events |-> FALSE]
    BY <1>1 DEF SemIInv, EventsInv
  <2>3. \A u \in Users :
            pc'[u] \in {"pend", "woken"} => pevent'[u] \in Created \ holds[u]
    BY <1>1, <1>2, TaskNumbers DEF SemIInv, EventsInv, PlacesInv, KernelPart
  <2> QED BY <1>1, <2>1, <2>2, <2>3 DEF SemIInv, EventsInv
<1> QED BY <1>3, <1>4 DEF SemIInv

(* The switch of a pend or of a post does not touch the semaphores.        *)
LEMMA SwitchSemIInv ==
    ASSUME SemIInv, NEW t \in Users, SemSched(t) \/ PostSched(t)
    PROVE  SemIInv'
<1>1. UNCHANGED <<WaitingQueue, EventTblFreeEntry, EventCounter, IsTimeoutEnable,
                  pevent, error, holds, tokens>>
  BY DEF SemSched, PostSched, semVars, events, calls
<1>2. PlacesInv'
  <2>1. CASE SemSched(t)
    BY <1>1, <2>1, CallSchedPlaces DEF SemSched, SemIInv
  <2>2. CASE PostSched(t)
    BY <1>1, <2>2, CallSchedPlaces DEF PostSched, SemIInv
  <2> QED BY <2>1, <2>2
<1>3. \A u \in Users : pc'[u] \in {"pend", "woken"} <=> pc[u] \in {"pend", "woken"}
  BY TaskNumbers DEF SemSched, PostSched, SemIInv, PlacesInv, KernelPart
<1>4. EventsInv'
  BY <1>1, <1>3 DEF SemIInv, EventsInv, Created
<1> QED BY <1>2, <1>4 DEF SemIInv
(* A pend without timeout that returns holds the semaphore: the task was   *)
(* released, as a task that waits does not run in there.                   *)
LEMMA ReturnTakes ==
    ASSUME SemIInv, NEW t \in Users, SemReturn(t)
    PROVE  /\ t \notin Members(WaitingQueue) /\ pc[t] = "woken" /\ pc'[t] = "app"
           /\ pevent[t] \in Created \ holds[t] /\ pevent[t] \in Events
           /\ error' = [error EXCEPT ![t] = "NO_ERROR"]
           /\ holds' = [holds EXCEPT ![t] = @ \cup {pevent[t]}]
           /\ \A u \in Users \ {t} : pc'[u] = pc[u]
           /\ UNCHANGED <<WaitingQueue, EventTblFreeEntry, EventCounter,
                          IsTimeoutEnable, pevent, tokens>>
<1>1. /\ MrtkRunning /\ RunningTask = t /\ pc[t] = "woken"
      /\ pc' = [pc EXCEPT ![t] = "app"] /\ t \in Tasks
  BY TaskNumbers DEF SemReturn, InTask
<1>2. t \notin Members(WaitingQueue)
  BY <1>1 DEF SemIInv, PlacesInv, PlaceInv, Placed
<1>3. pevent[t] \in Created \ holds[t] /\ pevent[t] \in Events
  BY <1>1 DEF SemIInv, EventsInv, Created
<1>4. ~IsTimeoutEnable[pevent[t]]
  BY <1>3 DEF SemIInv, EventsInv
<1>5. pc'[t] = "app" /\ \A u \in Users \ {t} : pc'[u] = pc[u]
  BY <1>1, TaskNumbers DEF SemIInv, PlacesInv, KernelPart
<1> QED BY <1>1, <1>2, <1>3, <1>4, <1>5 DEF SemReturn

(* A task that returns from a pend leaves the kernel's tables as they are. *)
LEMMA SemReturnIInv ==
    ASSUME SemIInv, NEW t \in Users, SemReturn(t)
    PROVE  SemIInv'
<1>1. /\ pc[t] = "woken" /\ pc'[t] = "app"
      /\ pevent[t] \in Created \ holds[t] /\ pevent[t] \in Events
      /\ error' = [error EXCEPT ![t] = "NO_ERROR"]
      /\ holds' = [holds EXCEPT ![t] = @ \cup {pevent[t]}]
      /\ \A u \in Users \ {t} : pc'[u] = pc[u]
      /\ UNCHANGED <<WaitingQueue, EventTblFreeEntry, EventCounter,
                     IsTimeoutEnable, pevent, tokens>>
  BY ReturnTakes
<1>2. PlacesInv'
  BY <1>1, CallPlaces, TaskNumbers DEF SemReturn, SemIInv
<1>3. EventsInv'
  <2>1. Created' = Created
    BY <1>1 DEF Created
  <2>2. /\ holds' \in [Users -> SUBSET Events]
        /\ error' \in [Users -> {"NO_ERROR", "EVENT_TIMEOUT", "ERROR_SEM_OVERFLOW"}]
    BY <1>1 DEF SemIInv, EventsInv
  <2>3. \A u \in Users :
            /\ holds'[u] \subseteq Created
            /\ pc'[u] \in {"pend", "woken"} => pevent[u] \in Created \ holds'[u]
    BY <1>1 DEF SemIInv, EventsInv
  <2> QED BY <1>1, <2>1, <2>2, <2>3 DEF SemIInv, EventsInv
<1> QED BY <1>2, <1>3 DEF SemIInv

(* A post takes the semaphore from its task, if that holds it.             *)
LEMMA PostsTypes ==
    ASSUME SemIInv, NEW t \in Users, NEW e \in Events, Posts(t, e)
    PROVE  /\ holds' \in [Users -> SUBSET Events] /\ tokens' \in [Events -> Int]
           /\ \A u \in Users : holds'[u] \subseteq holds[u]
<1>1. holds \in [Users -> SUBSET Events] /\ tokens \in [Events -> Int]
  BY DEF SemIInv, EventsInv
<1>2. CASE /\ holds' = [holds EXCEPT ![t] = @ \ {e}]
           /\ tokens' = [tokens EXCEPT ![e] = IF Refused(e) THEN @ - 1 ELSE @]
  BY <1>1, <1>2
<1>3. CASE /\ UNCHANGED holds
           /\ tokens' = [tokens EXCEPT ![e] = IF Refused(e) THEN @ ELSE @ + 1]
  BY <1>1, <1>3
<1> QED BY <1>2, <1>3 DEF Posts

(* Whatever a post does, the semaphores keep their types.                  *)
LEMMA PostIInv ==
    ASSUME SemIInv, NEW t \in Users, NEW e \in Events,
           SemRelease(t, e) \/ SemCount(t, e) \/ SemOverflow(t, e)
    PROVE  SemIInv'
<1>1. Posts(t, e) /\ UNCHANGED <<EventTblFreeEntry, IsTimeoutEnable, pevent>>
  BY DEF SemRelease, SemCount, SemOverflow, events
<1>2. InTask(t) /\ pc[t] \in {"new", "app"} /\ t \in Tasks
  BY <1>1, CallerPlaced DEF Posts, SemIInv
<1>3. /\ \A u \in Users : pc'[u] \in {"pend", "woken"} => pc[u] \in {"pend", "woken"}
  BY <1>2, TaskNumbers DEF SemRelease, SemCount, SemOverflow, SemIInv, PlacesInv, KernelPart
<1>4. PlacesInv'
  <2>1. CASE SemRelease(t, e)
    BY <2>1, SemReleasePlaces DEF SemIInv
  <2>2. CASE SemCount(t, e) \/ SemOverflow(t, e)
    BY <1>2, <2>2, CallPlaces DEF SemCount, SemOverflow, SemIInv
  <2> QED BY <2>1, <2>2
<1>5. EventCounter' \in [Events -> 0..MaxCount]
  <2>1. EventCounter \in [Events -> 0..MaxCount] /\ MaxCount \in Nat
    BY SemAssumption DEF SemIInv, EventsInv
  <2>2. CASE SemCount(t, e)
    BY <2>1, <2>2 DEF SemCount, Full
  <2> QED BY <2>1, <2>2 DEF SemRelease, SemOverflow, events
<1>6. error' \in [Users -> {"NO_ERROR", "EVENT_TIMEOUT", "ERROR_SEM_OVERFLOW"}]
  BY DEF SemRelease, SemCount, SemOverflow, SemIInv, EventsInv
<1>7. EventsInv'
  <2>1. Created' = Created
    BY <1>1 DEF Created
  <2>2. /\ holds' \in [Users -> SUBSET Events] /\ tokens' \in [Events -> Int]
        /\ \A u \in Users : holds'[u] \subseteq holds[u]
    BY <1>1, PostsTypes
  <2>3. \A u \in Users :
            /\ holds'[u] \subseteq Created
            /\ pc'[u] \in {"pend", "woken"} => pevent[u] \in Created \ holds'[u]
    BY <1>3, <2>2 DEF SemIInv, EventsInv
  <2> QED BY <1>1, <1>5, <1>6, <2>1, <2>2, <2>3 DEF SemIInv, EventsInv
<1> QED BY <1>4, <1>7 DEF SemIInv

-----------------------------------------------------------------------------
(* No semaphore exists and no task has called one before the boot.         *)
LEMMA InitSemIInv == SemInit => SemIInv
<1> SUFFICES ASSUME SemInit PROVE SemIInv
  OBVIOUS
<1>1. EventsInv
  BY SemAssumption, TaskNumbers DEF SemInit, Init, EventsInv, Created, NULL
<1> QED BY <1>1, InitPlaces DEF SemIInv

(* Every step of the kernel and of the semaphores keeps the invariant.     *)
LEMMA StepSemIInv ==
    ASSUME NoWaitOfOne, NoTimeouts, SemIInv, [SemNext]_allVars
    PROVE  SemIInv'
<1>1. CASE UNCHANGED allVars
  BY <1>1 DEF allVars, semVars, vars, tcb, sched, boot, isr, events, calls, SemIInv,
              PlacesInv, KernelPart, QueuesInv, StartInv, PlaceInv, Placed, TickInv,
              WaitInv, Ticking, EventsInv, Created
<1>2. CASE Next /\ UNCHANGED semVars
  BY <1>2, KernelSemIInv
<1>3. ASSUME NEW counter \in Counters, SemCreate(counter) PROVE SemIInv'
  BY <1>3, SemCreateIInv
<1>4. ASSUME NEW t \in Users, SemSched(t) \/ SemReturn(t) \/ PostSched(t) PROVE SemIInv'
  BY <1>4, SwitchSemIInv, SemReturnIInv
<1>5. ASSUME NEW t \in Users, NEW e \in Events,
             SemTake(t, e) \/ SemRelease(t, e) \/ SemCount(t, e) \/ SemOverflow(t, e)
      PROVE  SemIInv'
  BY <1>5, SemTakeIInv, PostIInv
<1>6. ASSUME NEW t \in Users, NEW e \in Events, NEW timeout \in Timeouts,
             SemBlock(t, e, timeout)
      PROVE  SemIInv'
  BY <1>6, SemBlockIInv DEF NoTimeouts
<1> QED BY <1>1, <1>2, <1>3, <1>4, <1>5, <1>6 DEF SemNext

(* The inductive invariant of the kernel with semaphores.                  *)
THEOREM SemInvariant == ASSUME NoWaitOfOne, NoTimeouts PROVE SemSpec => []SemIInv
<1>1. SemInit => SemIInv
  BY InitSemIInv
<1>2. SemIInv /\ [SemNext]_allVars => SemIInv'
  BY StepSemIInv
<1> QED BY <1>1, <1>2, PTL DEF SemSpec

(* The tables, both queues and the counters keep their types: no queue     *)
(* passes its row and no counter its maximum, for any number of each.      *)
THEOREM SemTypes == ASSUME NoWaitOfOne, NoTimeouts PROVE SemSpec => []SemTypeOK
<1>1. SemIInv => SemTypeOK
  BY DEF SemIInv, PlacesInv, KernelPart, QueuesInv, EventsInv, GoodQueue, SemTypeOK,
         SemStates, PCs
<1> QED BY <1>1, SemInvariant, PTL

(* A task is in one queue at a time, whatever the semaphores it uses, and  *)
(* however ticks and posts come between the two halves of its pend.        *)
THEOREM SemOneQueue == ASSUME NoWaitOfOne, NoTimeouts PROVE SemSpec => []OneQueue
<1>1. SemIInv => OneQueue
  <2> SUFFICES ASSUME SemIInv PROVE OneQueue
    OBVIOUS
  <2>1. Distinct(RdyQueue) /\ Distinct(WaitingQueue)
    BY MembersHaveEntries DEF SemIInv, PlacesInv, QueuesInv
  <2>2. \A t \in Members(WaitingQueue) :
            /\ t \notin Members(RdyQueue)
            /\ State[t] # "EXECUTING" /\ pc[t] \in {"pend", "woken"}
    BY DEF SemIInv, PlacesInv, QueuesInv, PlaceInv, Placed
  <2> QED BY <2>1, <2>2 DEF OneQueue
<1> QED BY <1>1, SemInvariant, PTL
-----------------------------------------------------------------------------
\* The tasks that took a semaphore and have not posted it.
Holders(e) == {t \in Users : e \in holds[t]}

Conserved(e) ==
    EventCounter[e] + Cardinality(Holders(e)) + Cardinality(Released(e)) = tokens[e]

TokenInv == \A e \in Events : Conserved(e)

(* Sets of user tasks are finite, and count as such.                       *)
LEMMA UsersCount ==
    ASSUME NEW S \in SUBSET Users
    PROVE  /\ IsFiniteSet(S) /\ Cardinality(S) \in Nat
           /\ \A t \in Users \ S : Cardinality(S \cup {t}) = Cardinality(S) + 1
           /\ \A t \in S : Cardinality(S \ {t}) = Cardinality(S) - 1
<1>1. IsFiniteSet(0..(UsersMax - 1))
  <2>1. 0 \in Int /\ UsersMax - 1 \in Int
    BY KernelAssumption
  <2> QED BY <2>1, FS_Interval, Zenon
<1>2. IsFiniteSet(S)
  <2>1. S \subseteq 0..(UsersMax - 1)
    BY KernelAssumption
  <2> QED BY <1>1, <2>1, FS_Subset
<1> QED BY <1>2, FS_CardinalityType, FS_AddElement, FS_RemoveElement

(* A step that changes neither who holds a semaphore nor who was released  *)
(* for it, nor its counter, conserves its tokens.                          *)
LEMMA NothingMoves ==
    ASSUME TokenInv, NEW e \in Events,
           UNCHANGED <<EventCounter[e], Holders(e), Released(e), tokens[e]>>
    PROVE  Conserved(e)'
  BY DEF TokenInv, Conserved

(* The released tasks, from what changed for each task.                    *)
LEMMA ReleasedSame ==
    ASSUME NEW e,
           \A u \in Users : (u \notin Members(WaitingQueue')
                                /\ pc'[u] \in {"pend", "woken"} /\ pevent'[u] = e)
                            <=> (u \notin Members(WaitingQueue)
                                /\ pc[u] \in {"pend", "woken"} /\ pevent[u] = e)
    PROVE  Released(e)' = Released(e)
  BY DEF Released

-----------------------------------------------------------------------------
(* The kernel's steps, and the switches, move no token.                    *)
LEMMA SwitchTokens ==
    ASSUME SemIInv, TokenInv,
           UNCHANGED <<WaitingQueue, EventCounter, pevent, holds, tokens>>,
           \A u \in Users : pc'[u] \in {"pend", "woken"} <=> pc[u] \in {"pend", "woken"}
    PROVE  TokenInv'
<1>1. ASSUME NEW e \in Events PROVE Conserved(e)'
  <2>1. Released(e)' = Released(e)
    BY ReleasedSame
  <2> QED BY <2>1, NothingMoves DEF Holders
<1> QED BY <1>1 DEF TokenInv

(* The counter of a new semaphore is all that was put in it.               *)
LEMMA CreateTokens ==
    ASSUME SemIInv, TokenInv, NEW counter \in Counters, SemCreate(counter)
    PROVE  TokenInv'
<1> DEFINE new == EventTblFreeEntry
<1>1. /\ ~MrtkRunning
      /\ EventCounter' = [EventCounter EXCEPT ![new] = counter]
      /\ tokens' = [tokens EXCEPT ![new] = counter]
      /\ UNCHANGED <<pc, WaitingQueue, pevent, holds>>
      /\ EventCounter \in [Events -> 0..MaxCount] /\ tokens \in [Events -> Int]
      /\ counter \in Nat
  BY SemAssumption DEF SemCreate, vars, calls, SemIInv, EventsInv
<1>2. WaitingQueue.last = 0 /\ \A u \in Users : pc[u] = "new"
  BY <1>1, TaskNumbers DEF SemIInv, PlacesInv, StartInv
<1>3. \A u \in Users : new \notin holds[u]
  <2>1. new \notin Created
    BY DEF SemIInv, EventsInv, Created
  <2> QED BY <2>1 DEF SemIInv, EventsInv
<1> HIDE DEF new
<1>4. ASSUME NEW e \in Events PROVE Conserved(e)'
  <2>1. Released(e)' = Released(e) /\ Holders(e)' = Holders(e)
    BY <1>1 DEF Released, Holders
  <2>2. CASE e = new
    <3>1. Holders(e) = {} /\ Released(e) = {} /\ Cardinality({}) = 0
      BY <1>2, <1>3, <2>2, FS_EmptySet DEF Holders, Released
    <3>2. EventCounter'[e] = counter /\ tokens'[e] = counter
      BY <1>1, <2>2
    <3> QED BY <1>1, <2>1, <3>1, <3>2 DEF Conserved
  <2>3. CASE e # new
    <3>1. EventCounter'[e] = EventCounter[e] /\ tokens'[e] = tokens[e]
      BY <1>1, <2>3
    <3> QED BY <2>1, <3>1, NothingMoves
  <2> QED BY <2>2, <2>3
<1> QED BY <1>4 DEF TokenInv

(* A token leaves the counter for the task that takes it.                  *)
LEMMA TakeTokens ==
    ASSUME SemIInv, TokenInv, NEW t \in Users, NEW e \in Events, SemTake(t, e)
    PROVE  TokenInv'
<1>1. /\ EventCounter' = [EventCounter EXCEPT ![e] = @ - 1] /\ EventCounter[e] > 0
      /\ holds' = [holds EXCEPT ![t] = @ \cup {e}] /\ e \notin holds[t]
      /\ pc' = [pc EXCEPT ![t] = "app"]
      /\ UNCHANGED <<WaitingQueue, tokens, pevent>>
      /\ EventCounter \in [Events -> 0..MaxCount] /\ holds \in [Users -> SUBSET Events]
      /\ tokens \in [Events -> Int] /\ MaxCount \in Nat
  BY SemAssumption DEF SemTake, Available, SemIInv, EventsInv
<1>2. pc[t] \in {"new", "app"} /\ t \in Tasks
  BY CallerPlaced DEF SemTake, SemIInv
<1>3. \A u \in Users : pc'[u] \in {"pend", "woken"} <=> pc[u] \in {"pend", "woken"}
  BY <1>1, <1>2, TaskNumbers DEF SemIInv, PlacesInv, KernelPart
<1>4. ASSUME NEW x \in Events PROVE Conserved(x)'
  <2>1. Released(x)' = Released(x)
    BY <1>1, <1>3, ReleasedSame
  <2>2. CASE x = e
    <3>1. Holders(x)' = Holders(x) \cup {t} /\ t \in Users \ Holders(x)
      BY <1>1, <2>2 DEF Holders
    <3>2. /\ Cardinality(Holders(x)') = Cardinality(Holders(x)) + 1
          /\ Cardinality(Holders(x)) \in Nat /\ Cardinality(Released(x)) \in Nat
      BY <3>1, UsersCount DEF Holders, Released
    <3>3. EventCounter'[x] = EventCounter[x] - 1 /\ EventCounter[x] \in Int
      BY <1>1, <2>2
    <3> QED BY <1>1, <2>1, <3>2, <3>3 DEF TokenInv, Conserved
  <2>3. CASE x # e
    <3>1. Holders(x)' = Holders(x) /\ EventCounter'[x] = EventCounter[x]
      BY <1>1, <2>3 DEF Holders
    <3> QED BY <1>1, <2>1, <3>1, NothingMoves
  <2> QED BY <2>2, <2>3
<1> QED BY <1>4 DEF TokenInv

(* A task that begins to wait is not released.                             *)
LEMMA BlockTokens ==
    ASSUME SemIInv, TokenInv, NEW t \in Users, NEW e \in Events,
           SemBlock(t, e, 0)
    PROVE  TokenInv'
<1>1. /\ ~(EventCounter[e] > 0)
      /\ pevent' = [pevent EXCEPT ![t] = e]
      /\ pc' = [pc EXCEPT ![t] = "pend"]
      /\ UNCHANGED <<EventCounter, tokens, holds>>
      /\ EventCounter \in [Events -> 0..MaxCount]
  BY DEF SemBlock, Available, SemIInv, EventsInv
<1>2. /\ pc[t] \in {"new", "app"} /\ t \in Tasks
      /\ Members(WaitingQueue') = Members(WaitingQueue) \cup {t}
  BY CallerPlaced, SemBlockPlaces DEF SemBlock, SemIInv
<1>3. ASSUME NEW x \in Events PROVE Conserved(x)'
  <2>1. Released(x)' = Released(x)
    BY <1>1, <1>2, TaskNumbers, ReleasedSame DEF SemIInv, PlacesInv, KernelPart, EventsInv
  <2> QED BY <1>1, <2>1, NothingMoves DEF Holders
<1> QED BY <1>3 DEF TokenInv

(* A task that returns was released, and holds what it was released for.   *)
LEMMA ReturnTokens ==
    ASSUME SemIInv, TokenInv, NEW t \in Users, SemReturn(t)
    PROVE  TokenInv'
<1>1. /\ t \notin Members(WaitingQueue) /\ pc[t] = "woken" /\ pc'[t] = "app"
      /\ pevent[t] \notin holds[t] /\ pevent[t] \in Events
      /\ holds' = [holds EXCEPT ![t] = @ \cup {pevent[t]}]
      /\ \A u \in Users \ {t} : pc'[u] = pc[u]
      /\ UNCHANGED <<WaitingQueue, EventCounter, pevent, tokens>>
      /\ EventCounter \in [Events -> 0..MaxCount] /\ holds \in [Users -> SUBSET Events]
      /\ tokens \in [Events -> Int] /\ MaxCount \in Nat
  BY ReturnTakes, SemAssumption DEF SemIInv, EventsInv
<1>2. ASSUME NEW x \in Events PROVE Conserved(x)'
  <2>1. CASE x = pevent[t]
    <3>1. /\ Holders(x)' = Holders(x) \cup {t} /\ t \in Users \ Holders(x)
          /\ Released(x)' = Released(x) \ {t} /\ t \in Released(x)
      BY <1>1, <2>1 DEF Holders, Released
    <3>2. /\ Cardinality(Holders(x)') = Cardinality(Holders(x)) + 1
          /\ Cardinality(Released(x)') = Cardinality(Released(x)) - 1
          /\ Cardinality(Holders(x)) \in Nat /\ Cardinality(Released(x)) \in Nat
      BY <3>1, UsersCount DEF Holders, Released
    <3>3. EventCounter[x] \in Int /\ Conserved(x)
      BY <1>1 DEF TokenInv
    <3> QED BY <1>1, <3>2, <3>3 DEF Conserved
  <2>2. CASE x # pevent[t]
    <3>1. Holders(x)' = Holders(x) /\ Released(x)' = Released(x)
      BY <1>1, <2>2 DEF Holders, Released
    <3> QED BY <1>1, <3>1, NothingMoves
  <2> QED BY <2>1, <2>2
<1> QED BY <1>2 DEF TokenInv
(* A post that is not refused has a token to give, taken from a task or new. *)
LEMMA PostGives ==
    ASSUME SemIInv, NEW t \in Users, NEW e \in Events, Posts(t, e)
    PROVE  /\ \A x \in Events \ {e} : Holders(x)' = Holders(x) /\ tokens'[x] = tokens[x]
           /\ tokens'[e] \in Int /\ Cardinality(Holders(e)') \in Nat
           /\ Cardinality(Holders(e)') - tokens'[e]
                 = Cardinality(Holders(e)) - tokens[e] - (IF Refused(e) THEN 0 ELSE 1)
<1>1. /\ holds \in [Users -> SUBSET Events] /\ tokens \in [Events -> Int]
      /\ tokens[e] \in Int
      /\ Cardinality(Holders(e)) \in Nat
  BY UsersCount DEF SemIInv, EventsInv, Holders
<1>2. CASE /\ e \in holds[t]
           /\ holds' = [holds EXCEPT ![t] = @ \ {e}]
           /\ tokens' = [tokens EXCEPT ![e] = IF Refused(e) THEN @ - 1 ELSE @]
  <2>1. Holders(e)' = Holders(e) \ {t} /\ t \in Holders(e)
    BY <1>1, <1>2 DEF Holders
  <2>2. Cardinality(Holders(e)') = Cardinality(Holders(e)) - 1
        /\ Cardinality(Holders(e)') \in Nat
    BY <2>1, UsersCount DEF Holders
  <2>3. \A x \in Events \ {e} : Holders(x)' = Holders(x) /\ tokens'[x] = tokens[x]
    BY <1>1, <1>2 DEF Holders
  <2>4. tokens'[e] = IF Refused(e) THEN tokens[e] - 1 ELSE tokens[e]
    BY <1>1, <1>2
  <2> QED BY <1>1, <2>2, <2>3, <2>4
<1>3. CASE /\ UNCHANGED holds
           /\ tokens' = [tokens EXCEPT ![e] = IF Refused(e) THEN @ ELSE @ + 1]
  <2>1. \A x \in Events : Holders(x)' = Holders(x)
    BY <1>3 DEF Holders
  <2>2. /\ tokens'[e] = IF Refused(e) THEN tokens[e] ELSE tokens[e] + 1
        /\ \A x \in Events \ {e} : tokens'[x] = tokens[x]
    BY <1>1, <1>3
  <2> QED BY <1>1, <2>1, <2>2
<1> QED BY <1>2, <1>3 DEF Posts

(* A token goes to the task that is released: with one semaphore, it is    *)
(* the semaphore that it waits for.                                        *)
LEMMA ReleaseTokens ==
    ASSUME OneSemaphore, SemIInv, TokenInv, NEW t \in Users, NEW e \in Events,
           SemRelease(t, e)
    PROVE  TokenInv'
<1>1. /\ Posts(t, e) /\ Awaited /\ ~Refused(e)
      /\ pc' = [pc EXCEPT ![t] = "post"]
      /\ UNCHANGED <<EventCounter, pevent>>
      /\ EventCounter \in [Events -> 0..MaxCount] /\ MaxCount \in Nat
  BY SemAssumption DEF SemRelease, events, Refused, SemIInv, EventsInv
<1>2. /\ Waiter \in Users /\ Waiter \in Members(WaitingQueue) /\ Waiter # t
      /\ Members(WaitingQueue') = Members(WaitingQueue) \ {Waiter}
      /\ pc[t] \in {"new", "app"} /\ t \in Tasks
  BY <1>1, SemReleasePlaces, CallerPlaced DEF Posts, SemIInv
<1>3. \A x \in Events : x = e
  BY DEF OneSemaphore, Events
<1>4. pc[Waiter] \in {"pend", "woken"} /\ pevent[Waiter] = e
  <2>1. pc[Waiter] \in {"pend", "woken"}
    BY <1>2 DEF SemIInv, PlacesInv, PlaceInv, Placed
  <2>2. pevent[Waiter] \in Events
    BY <1>2, <2>1 DEF SemIInv, EventsInv, Created
  <2> QED BY <1>3, <2>1, <2>2
<1>5. \A u \in Users : pc'[u] \in {"pend", "woken"} <=> pc[u] \in {"pend", "woken"}
  BY <1>1, <1>2, TaskNumbers DEF SemIInv, PlacesInv, KernelPart
<1>6. Released(e)' = Released(e) \cup {Waiter} /\ Waiter \in Users \ Released(e)
  BY <1>1, <1>2, <1>4, <1>5 DEF Released
<1>7. /\ Cardinality(Released(e)') = Cardinality(Released(e)) + 1
      /\ Cardinality(Released(e)) \in Nat /\ Cardinality(Holders(e)) \in Nat
  BY <1>6, UsersCount DEF Released, Holders
<1>8. Conserved(e)'
  <2>1. /\ tokens'[e] \in Int /\ Cardinality(Holders(e)') \in Nat
        /\ Cardinality(Holders(e)') - tokens'[e]
              = Cardinality(Holders(e)) - tokens[e] - 1
    BY <1>1, PostGives
  <2>2. Conserved(e) /\ EventCounter[e] \in Int /\ tokens[e] \in Int
        /\ EventCounter'[e] = EventCounter[e]
    BY <1>1 DEF TokenInv, SemIInv, EventsInv
  <2> QED BY <1>7, <2>1, <2>2 DEF Conserved
<1> QED BY <1>3, <1>8 DEF TokenInv

(* A token that nobody waits for goes to the counter, or nowhere.          *)
LEMMA CountTokens ==
    ASSUME SemIInv, TokenInv, NEW t \in Users, NEW e \in Events,
           SemCount(t, e) \/ SemOverflow(t, e)
    PROVE  TokenInv'
<1>1. /\ Posts(t, e) /\ ~Awaited
      /\ pc' = [pc EXCEPT ![t] = "app"]
      /\ UNCHANGED <<WaitingQueue, pevent>>
      /\ EventCounter' = [EventCounter EXCEPT ![e] = IF Refused(e) THEN @ ELSE @ + 1]
      /\ EventCounter \in [Events -> 0..MaxCount] /\ MaxCount \in Nat
  BY SemAssumption DEF SemCount, SemOverflow, events, Refused, SemIInv, EventsInv
<1>2. pc[t] \in {"new", "app"} /\ t \in Tasks
  BY <1>1, CallerPlaced DEF Posts, SemIInv
<1>3. \A u \in Users : pc'[u] \in {"pend", "woken"} <=> pc[u] \in {"pend", "woken"}
  BY <1>1, <1>2, TaskNumbers DEF SemIInv, PlacesInv, KernelPart
<1>4. ASSUME NEW x \in Events PROVE Conserved(x)'
  <2>1. Released(x)' = Released(x)
    BY <1>1, <1>3, ReleasedSame
  <2>2. CASE x = e
    <3>1. /\ tokens'[x] \in Int /\ Cardinality(Holders(x)') \in Nat
          /\ Cardinality(Holders(x)') - tokens'[x]
                = Cardinality(Holders(x)) - tokens[x] - (IF Refused(e) THEN 0 ELSE 1)
      BY <1>1, <2>2, PostGives
    <3>2. /\ Cardinality(Released(x)) \in Nat /\ Cardinality(Holders(x)) \in Nat
          /\ Conserved(x) /\ EventCounter[x] \in Int /\ tokens[x] \in Int
      BY <1>1, UsersCount DEF Released, Holders, TokenInv, SemIInv, EventsInv
    <3>3. EventCounter'[x] = IF Refused(e) THEN EventCounter[x] ELSE EventCounter[x] + 1
      BY <1>1, <2>2
    <3> QED BY <2>1, <3>1, <3>2, <3>3 DEF Conserved
  <2>3. CASE x # e
    <3>1. /\ Holders(x)' = Holders(x) /\ tokens'[x] = tokens[x]
          /\ EventCounter'[x] = EventCounter[x]
      BY <1>1, <2>3, PostGives
    <3> QED BY <2>1, <3>1, NothingMoves
  <2> QED BY <2>2, <2>3
<1> QED BY <1>4 DEF TokenInv

-----------------------------------------------------------------------------
(* Before any semaphore exists there is no token.                          *)
LEMMA InitTokens == SemInit => TokenInv
<1> SUFFICES ASSUME SemInit PROVE TokenInv
  OBVIOUS
<1>1. ASSUME NEW e \in Events PROVE Conserved(e)
  <2>1. Holders(e) = {} /\ Released(e) = {} /\ Cardinality({}) = 0
    BY TaskNumbers, FS_EmptySet DEF SemInit, Init, Holders, Released
  <2>2. EventCounter[e] = 0 /\ tokens[e] = 0
    BY DEF SemInit
  <2> QED BY <2>1, <2>2 DEF Conserved
<1> QED BY <1>1 DEF TokenInv

(* No step loses or makes a token.                                         *)
LEMMA StepTokens ==
    ASSUME OneSemaphore, NoTimeouts, SemIInv, TokenInv, [SemNext]_allVars
    PROVE  TokenInv'
<1>1. CASE UNCHANGED allVars
  BY <1>1, SwitchTokens DEF allVars, semVars, vars, events, calls
<1>2. CASE Next /\ UNCHANGED semVars
  BY <1>2, SwitchTokens, KernelLeavesPends DEF semVars, events, calls, SemIInv
<1>3. ASSUME NEW counter \in Counters, SemCreate(counter) PROVE TokenInv'
  BY <1>3, CreateTokens
<1>4. ASSUME NEW t \in Users, SemSched(t) \/ PostSched(t) PROVE TokenInv'
  <2>1. \A u \in Users : pc'[u] \in {"pend", "woken"} <=> pc[u] \in {"pend", "woken"}
    BY <1>4, TaskNumbers DEF SemSched, PostSched, SemIInv, PlacesInv, KernelPart
  <2>2. UNCHANGED <<WaitingQueue, EventCounter, pevent, holds, tokens>>
    BY <1>4 DEF SemSched, PostSched, semVars, events, calls
  <2> QED BY <2>1, <2>2, SwitchTokens
<1>5. ASSUME NEW t \in Users, SemReturn(t) PROVE TokenInv'
  BY <1>5, ReturnTokens
<1>6. ASSUME NEW t \in Users, NEW e \in Events,
             SemTake(t, e) \/ SemRelease(t, e) \/ SemCount(t, e) \/ SemOverflow(t, e)
      PROVE  TokenInv'
  BY <1>6, TakeTokens, ReleaseTokens, CountTokens
<1>7. ASSUME NEW t \in Users, NEW e \in Events, NEW timeout \in Timeouts,
             SemBlock(t, e, timeout)
      PROVE  TokenInv'
  BY <1>7, BlockTokens DEF NoTimeouts
<1> QED BY <1>1, <1>2, <1>3, <1>4, <1>5, <1>6, <1>7 DEF SemNext

(* The tokens of the one semaphore are accounted for in every state.       *)
THEOREM TokenInvariant ==
    ASSUME NoWaitOfOne, NoTimeouts, OneSemaphore
    PROVE  SemSpec => []TokenInv
<1>1. SemInit => TokenInv
  BY InitTokens
<1>2. SemIInv /\ TokenInv /\ [SemNext]_allVars => TokenInv'
  BY StepTokens
<1> QED BY <1>1, <1>2, SemInvariant, PTL DEF SemSpec

(* A post gives a semaphore once: to its counter, or to the one task that  *)
(* it releases, for any number of tasks and any interleaving of the two    *)
(* halves of their pends with ticks and with other posts.                  *)
THEOREM SemTokensConserved ==
    ASSUME NoWaitOfOne, NoTimeouts, OneSemaphore
    PROVE  SemSpec => []TokensConserved
<1>1. TokenInv => TokensConserved
  BY DEF TokenInv, Conserved, Holders, TokensConserved
<1> QED BY <1>1, TokenInvariant, PTL

-----------------------------------------------------------------------------
(* The waiting queue holds each task under its absolute deadline, and with *)
(* three user tasks at most its head is the nearest.                       *)
WaitersInv ==
    /\ NearestHead(WaitingQueue)
    /\ \A e \in Held(WaitingQueue) : e.Deadline = AbsoluteDeadline[e.TaskId]

\* What a step releases is no later than what goes on waiting.
NearestReleased ==
    \A t \in Members(WaitingQueue) \ Members(WaitingQueue') :
        \A u \in Members(WaitingQueue') : AbsoluteDeadline[t] <= AbsoluteDeadline[u]

(* Only user tasks wait, so three of them at most.                         *)
LEMMA WaitersFit ==
    ASSUME FewTasks, NEW q, GoodQueue(q), Members(q) \subseteq Users
    PROVE  q.last <= 3
<1>1. Members(q) \subseteq Tasks \ {Idle} /\ Idle \in Tasks
  BY TaskNumbers
<1>2. q.last <= UsersMax
  BY <1>1, RoomForTask
<1>3. q.last \in Nat /\ UsersMax \in Nat
  BY QueueEntries, TaskNumbers
<1> QED BY <1>2, <1>3 DEF FewTasks

(* A step that leaves the waiting queue and the deadlines in it.           *)
LEMMA WaitersKept ==
    ASSUME PlacesInv, WaitersInv, UNCHANGED WaitingQueue,
           \A u \in Members(WaitingQueue) : AbsoluteDeadline'[u] = AbsoluteDeadline[u]
    PROVE  WaitersInv' /\ NearestReleased
<1>1. \A e \in Held(WaitingQueue) : e.TaskId \in Members(WaitingQueue)
  BY HeldAreMembers DEF PlacesInv, QueuesInv
<1>2. \A e \in Held(WaitingQueue') : e.Deadline = AbsoluteDeadline'[e.TaskId]
  BY <1>1 DEF WaitersInv
<1> QED BY <1>2 DEF WaitersInv, NearestReleased, NearestHead, Slots, Held

(* The kernel's own steps: a tick gives a new deadline to a task that is   *)
(* suspended, and such a task does not wait for a semaphore.               *)
LEMMA KernelKeepsDeadlines ==
    ASSUME PlacesInv, Next
    PROVE  \A u \in Members(WaitingQueue) : AbsoluteDeadline'[u] = AbsoluteDeadline[u]
<1>1. ASSUME UNCHANGED AbsoluteDeadline
      PROVE  \A u \in Members(WaitingQueue) : AbsoluteDeadline'[u] = AbsoluteDeadline[u]
  BY <1>1
<1>2. CASE TickWake
  <2>1. /\ count \in Users /\ State[count] = "SUSPENDED"
        /\ AbsoluteDeadline' = [AbsoluteDeadline EXCEPT
                                   ![count] = MrtkTime + Deadline[count]]
    BY <1>2 DEF TickWake, Sleeps
  <2>2. count \notin Members(WaitingQueue)
    BY <2>1 DEF PlacesInv, PlaceInv, Placed
  <2>3. Members(WaitingQueue) \subseteq Tasks /\ AbsoluteDeadline \in [Tasks -> 0..(U32 - 1)]
    BY TaskNumbers DEF PlacesInv, QueuesInv, KernelPart
  <2> QED BY <2>1, <2>2, <2>3
<1>3. CASE TickNext /\ ~TickWake
  BY <1>1, <1>3 DEF TickNext, TickBegin, TickTaken, TickSkip, TickDelay, TickSched, AckTick,
                    tcb
<1>4. CASE TaskNext
  BY <1>1, <1>4 DEF TaskNext, KernelCall, WaitSched, WaitBegin, tcb
<1>5. CASE Start \/ \E t \in Users : PlaceTask(t)
  BY <1>1, <1>5 DEF Start, PlaceTask, tcb
<1> QED BY <1>2, <1>3, <1>4, <1>5 DEF Next

(* A pend puts its task in the queue with a deadline of its own.           *)
LEMMA BlockNearest ==
    ASSUME FewTasks, PlacesInv, WaitersInv, NEW t \in Users, NEW e \in Events,
           SemBlock(t, e, 0)
    PROVE  WaitersInv' /\ NearestReleased
<1> DEFINE key == MrtkTime + Deadline[t]
<1>1. /\ AbsoluteDeadline' = [AbsoluteDeadline EXCEPT ![t] = key]
      /\ WaitingQueue' = InsertInQueue(WaitingQueue, t, key)
  BY DEF SemBlock
<1>2. /\ t \in Tasks /\ t \in Nat /\ t \notin Members(WaitingQueue)
      /\ key \in 0..(U32 - 1)
      /\ GoodQueue(WaitingQueue) /\ Members(WaitingQueue) \subseteq Tasks
      /\ NearestHead(WaitingQueue)
  <2>1. t \in Tasks /\ t \notin Members(WaitingQueue)
    BY CallerPlaced DEF SemBlock
  <2>2. key \in 0..(U32 - 1)
    BY KernelAssumption, HeapAssumption DEF PlacesInv, KernelPart
  <2> HIDE DEF key
  <2> QED BY <2>1, <2>2, TaskNumbers DEF PlacesInv, QueuesInv, WaitersInv
<1>3. AbsoluteDeadline'[t] = key /\ \A u \in Tasks \ {t} : AbsoluteDeadline'[u] = AbsoluteDeadline[u]
  <2>1. AbsoluteDeadline \in [Tasks -> 0..(U32 - 1)]
    BY DEF PlacesInv, KernelPart
  <2> HIDE DEF key
  <2> QED BY <1>1, <1>2, <2>1
<1> HIDE DEF key
<1>4. /\ GoodQueue(WaitingQueue')
      /\ Members(WaitingQueue') = Members(WaitingQueue) \cup {t}
      /\ Held(WaitingQueue') = Held(WaitingQueue) \cup {Entry(t, key)}
  BY ONLY <1>1, <1>2, TaskInserted
<1>5. WaitingQueue'.last <= 3
  <2>1. Members(WaitingQueue') \subseteq Users
    BY <1>4 DEF PlacesInv, QueuesInv
  <2> QED BY <1>4, <2>1, WaitersFit
<1>6. NearestHead(WaitingQueue')
  BY <1>1, <1>2, <1>5, InsertNearest
<1>7. \A x \in Held(WaitingQueue') : x.Deadline = AbsoluteDeadline'[x.TaskId]
  <2> SUFFICES ASSUME NEW x \in Held(WaitingQueue')
               PROVE  x.Deadline = AbsoluteDeadline'[x.TaskId]
    OBVIOUS
  <2>1. CASE x \in Held(WaitingQueue)
    <3>1. x.TaskId \in Members(WaitingQueue)
      BY <1>2, <2>1, HeldAreMembers
    <3>2. x.TaskId \in Tasks \ {t}
      BY <1>2, <3>1
    <3> QED BY <1>3, <2>1, <3>2 DEF WaitersInv
  <2>2. CASE x = Entry(t, key)
    BY <1>3, <2>2 DEF Entry
  <2> QED BY <1>4, <2>1, <2>2
<1>8. NearestReleased
  BY <1>4 DEF NearestReleased
<1> QED BY <1>6, <1>7, <1>8 DEF WaitersInv, NearestHead, Slots, Held

(* A post releases the head of the queue.                                  *)
LEMMA ReleaseNearest ==
    ASSUME PlacesInv, WaitersInv, NEW t \in Users, NEW e \in Events, SemRelease(t, e)
    PROVE  WaitersInv' /\ NearestReleased
<1> DEFINE popped == RemoveFirstElementInQueue(WaitingQueue)
           key    == MrtkTime + Deadline[Waiter]
<1>1. /\ WaitingQueue' = popped
      /\ AbsoluteDeadline' = [AbsoluteDeadline EXCEPT ![Waiter] = key]
  BY DEF SemRelease, WaiterRemoved
<1>2. Waiter \in Users /\ Waiter \in Members(WaitingQueue)
  BY WaiterWaits DEF SemRelease
<1>3. /\ GoodQueue(WaitingQueue) /\ Members(WaitingQueue) \subseteq Tasks
      /\ NearestHead(WaitingQueue) /\ WaitingQueue.last # 0
      /\ AbsoluteDeadline \in [Tasks -> 0..(U32 - 1)]
  <2>1. GoodQueue(WaitingQueue) /\ Members(WaitingQueue) \subseteq Tasks
    BY TaskNumbers DEF PlacesInv, QueuesInv
  <2> QED BY <1>2, <2>1, MembersHaveEntries DEF PlacesInv, KernelPart, WaitersInv
<1>4. /\ Waiter = WaitingQueue.tab[1].TaskId
      /\ AbsoluteDeadline[Waiter] = WaitingQueue.tab[1].Deadline
  BY <1>3, MembersHaveEntries DEF Waiter, GetTaskWithNearestDeadline, WaitersInv
<1>5. /\ GoodQueue(popped) /\ Members(popped) = Members(WaitingQueue) \ {Waiter}
      /\ Held(popped) \subseteq Held(WaitingQueue) /\ NearestHead(popped)
  <2>1. /\ GoodQueue(popped) /\ Members(popped) = Members(WaitingQueue) \ {Waiter}
        /\ Held(popped) \subseteq Held(WaitingQueue)
    BY ONLY <1>3, NearestLeaves DEF Waiter
  <2>2. NearestHead(popped)
    BY <1>3, RemoveNearest
  <2> HIDE DEF popped
  <2> QED BY <2>1, <2>2
<1> HIDE DEF popped, key
<1>6. \A x \in Held(popped) : /\ x.Deadline = AbsoluteDeadline[x.TaskId]
                              /\ x.Deadline = AbsoluteDeadline'[x.TaskId]
                              /\ AbsoluteDeadline[Waiter] <= x.Deadline
  <2> SUFFICES ASSUME NEW x \in Held(popped)
               PROVE  /\ x.Deadline = AbsoluteDeadline[x.TaskId]
                      /\ x.Deadline = AbsoluteDeadline'[x.TaskId]
                      /\ AbsoluteDeadline[Waiter] <= x.Deadline
    OBVIOUS
  <2>1. x \in Held(WaitingQueue) /\ x.TaskId \in Tasks \ {Waiter}
    <3>1. x.TaskId \in Members(popped)
      BY <1>5, HeldAreMembers
    <3> QED BY <1>3, <1>5, <3>1
  <2>2. x.Deadline = AbsoluteDeadline[x.TaskId]
    BY <2>1 DEF WaitersInv
  <2>3. WaitingQueue.tab[1].Deadline <= x.Deadline
    BY <1>3, <2>1 DEF NearestHead, Held
  <2> QED BY <1>1, <1>3, <1>4, <2>1, <2>2, <2>3
<1>7. NearestReleased
  <2> SUFFICES ASSUME NEW u \in Members(popped)
               PROVE  AbsoluteDeadline[Waiter] <= AbsoluteDeadline[u]
    BY <1>1, <1>5 DEF NearestReleased
  <2>1. PICK x \in Held(popped) : u = x.TaskId
    BY <1>5, QueueEntries
  <2> QED BY <1>6, <2>1
<1>8. NearestHead(WaitingQueue)' <=> NearestHead(WaitingQueue')
  BY DEF NearestHead, Slots
<1> QED BY <1>1, <1>5, <1>6, <1>7, <1>8 DEF WaitersInv, Slots, Held

(* Every step.                                                             *)
LEMMA StepWaiters ==
    ASSUME NoTimeouts, FewTasks, SemIInv, WaitersInv, [SemNext]_allVars
    PROVE  WaitersInv' /\ NearestReleased
<1> USE DEF SemIInv
<1>1. ASSUME UNCHANGED <<WaitingQueue, AbsoluteDeadline>>
      PROVE  WaitersInv' /\ NearestReleased
  BY <1>1, WaitersKept
<1>2. CASE UNCHANGED allVars
  BY <1>1, <1>2 DEF allVars, semVars, vars, tcb
<1>3. CASE Next /\ UNCHANGED semVars
  <2>1. UNCHANGED WaitingQueue
    BY <1>3 DEF semVars
  <2> QED BY <1>3, <2>1, KernelKeepsDeadlines, WaitersKept
<1>4. ASSUME NEW counter \in Counters, SemCreate(counter)
      PROVE  WaitersInv' /\ NearestReleased
  BY <1>1, <1>4 DEF SemCreate, vars, tcb
<1>5. ASSUME NEW t \in Users, SemSched(t) \/ PostSched(t)
      PROVE  WaitersInv' /\ NearestReleased
  BY <1>1, <1>5 DEF SemSched, PostSched, semVars
<1>6. ASSUME NEW t \in Users, SemReturn(t)
      PROVE  WaitersInv' /\ NearestReleased
  <2>1. UNCHANGED WaitingQueue
    BY <1>6, ReturnTakes
  <2> QED BY <1>1, <1>6, <2>1 DEF SemReturn, tcb
<1>7. ASSUME NEW t \in Users, NEW e \in Events,
             SemTake(t, e) \/ SemCount(t, e) \/ SemOverflow(t, e)
      PROVE  WaitersInv' /\ NearestReleased
  BY <1>1, <1>7 DEF SemTake, SemCount, SemOverflow, tcb
<1>8. ASSUME NEW t \in Users, NEW e \in Events, SemRelease(t, e)
      PROVE  WaitersInv' /\ NearestReleased
  BY <1>8, ReleaseNearest
<1>9. ASSUME NEW t \in Users, NEW e \in Events, NEW timeout \in Timeouts,
             SemBlock(t, e, timeout)
      PROVE  WaitersInv' /\ NearestReleased
  BY <1>9, BlockNearest DEF NoTimeouts
<1> QED BY <1>2, <1>3, <1>4, <1>5, <1>6, <1>7, <1>8, <1>9 DEF SemNext

(* A post releases the waiting task with the nearest deadline              *)
(* (mrtk_sem.c:134) on a CPU with at most three user tasks, whatever the   *)
(* number of semaphores.                                                   *)
THEOREM SemReleasesNearest ==
    ASSUME NoWaitOfOne, NoTimeouts, FewTasks PROVE SemSpec => ReleasesNearest
<1>1. SemInit => SemIInv /\ WaitersInv
  <2>1. SemInit => WaitersInv
    BY DEF SemInit, QueuesInit, WaitersInv, NearestHead, Held, Slots
  <2> QED BY <2>1, InitSemIInv
<1>2. SemIInv /\ WaitersInv /\ [SemNext]_allVars
         => SemIInv' /\ WaitersInv' /\ NearestReleased
  BY StepSemIInv, StepWaiters
<1>3. NearestReleased
         => [\A t \in Members(WaitingQueue) \ Members(WaitingQueue') :
                \A u \in Members(WaitingQueue') :
                    AbsoluteDeadline[t] <= AbsoluteDeadline[u]]_allVars
  BY DEF NearestReleased
<1> QED BY <1>1, <1>2, <1>3, PTL DEF SemSpec, ReleasesNearest
=============================================================================
