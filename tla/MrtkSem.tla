------------------------------ MODULE MrtkSem ------------------------------
(***************************************************************************)
(* The semaphores of kernel/src/mrtk_sem.c, used by the tasks of one CPU   *)
(* on top of the kernel of MrtkKernel.  There is one waiting queue per     *)
(* CPU: it does not say which semaphore a task waits for.                  *)
(*                                                                         *)
(* A step is a critical section, as in MrtkKernel: mrtk_SemPend is two of  *)
(* them around mrtk_sched, mrtk_SemPost one before mrtk_sched.  The tests  *)
(* for a NULL event, an event of another type and a call from an interrupt *)
(* reject the call and change nothing; they are left out.                  *)
(***************************************************************************)
EXTENDS MrtkKernel, FiniteSets

CONSTANTS NbEventMax,   \* NB_EVENT_MAX
          Counters,     \* the counters that semaphores are created with
          Timeouts,     \* the timeouts of mrtk_SemPend, 0 for none
          MaxCount,     \* the largest counter, 0xFFFF
          Signallers,   \* the tasks that post what they have not taken
          MaxTokens     \* bound: they do it while a semaphore has fewer tokens

ASSUME SemAssumption ==
    /\ NbEventMax \in Nat
    /\ Counters \subseteq 0..255
    /\ Timeouts \subseteq Nat
    /\ MaxCount \in Nat
    /\ Signallers \subseteq Users
    /\ MaxTokens \in Nat
    /\ \A c \in Counters : c <= MaxCount

Events == 0..(NbEventMax - 1)

\* The value of pevent of a task that has not called mrtk_SemPend.
NULL == NbEventMax

VARIABLES
    WaitingQueue,       \* WaitingQueue[CpuId]
    EventTblFreeEntry,
    EventCounter,
    IsTimeoutEnable,
    pevent,             \* argument of the last mrtk_SemPend of a task
    error,              \* what the last call of a task answered
    holds,              \* history: the semaphores a task took and has not posted
    tokens              \* history: what was put in a semaphore, see Refused

events == <<EventTblFreeEntry, EventCounter, IsTimeoutEnable>>
calls == <<pevent, error, holds>>
semVars == <<WaitingQueue, events, calls, tokens>>
allVars == <<vars, semVars>>

Created == {e \in Events : e < EventTblFreeEntry}

-----------------------------------------------------------------------------
SemInit ==
    /\ Init
    /\ WaitingQueue = QueuesInit
    /\ EventTblFreeEntry = 0
    /\ EventCounter = [e \in Events |-> 0]
    /\ IsTimeoutEnable = [e \in Events |-> FALSE]
    /\ pevent = [t \in Users |-> NULL]
    /\ error = [t \in Users |-> "NO_ERROR"]
    /\ holds = [t \in Users |-> {}]
    /\ tokens = [e \in Events |-> 0]

\* Called by main, between mrtk_Init and mrtk_start.
SemCreate(counter) ==
    /\ ~MrtkRunning
    /\ counter # 0
    /\ EventTblFreeEntry # NbEventMax
    /\ EventTblFreeEntry' = EventTblFreeEntry + 1
    /\ EventCounter' = [EventCounter EXCEPT ![EventTblFreeEntry] = counter]
    /\ tokens' = [tokens EXCEPT ![EventTblFreeEntry] = counter]
    /\ UNCHANGED <<vars, WaitingQueue, IsTimeoutEnable, calls>>

-----------------------------------------------------------------------------
\* A task calls a semaphore from code of its own.
Calls(t, e) == InTask(t) /\ pc[t] \in {"new", "app"} /\ e \in Created

Available(e) == EventCounter[e] > 0

\* mrtk_SemPend takes the semaphore at once.  A task takes it once (holds is
\* a set), as a second pend of a binary semaphore would block on itself.
SemTake(t, e) ==
    /\ Calls(t, e)
    /\ e \notin holds[t]
    /\ Available(e)
    /\ EventCounter' = [EventCounter EXCEPT ![e] = @ - 1]
    /\ error' = [error EXCEPT ![t] = "NO_ERROR"]
    /\ holds' = [holds EXCEPT ![t] = @ \cup {e}]
    /\ pc' = [pc EXCEPT ![t] = "app"]
    /\ UNCHANGED <<tcb, sched, boot, isr, MrtkTime, due, WaitingQueue,
                   EventTblFreeEntry, IsTimeoutEnable, tokens, pevent>>

\* mrtk_SemPend puts the task in the waiting queue.
SemBlock(t, e, timeout) ==
    /\ Calls(t, e)
    /\ e \notin holds[t]
    /\ ~Available(e)
    /\ IF timeout = 0
       THEN /\ State' = [State EXCEPT ![t] = "WAITING"]
            /\ UNCHANGED Delay
       ELSE /\ State' = [State EXCEPT ![t] = "SUSPENDED"]
            /\ Delay' = [Delay EXCEPT ![t] = timeout]
    /\ IsTimeoutEnable' = [IsTimeoutEnable EXCEPT ![e] = timeout # 0]
    /\ LET key == MrtkTime + Deadline[t]
       IN  /\ AbsoluteDeadline' = [AbsoluteDeadline EXCEPT ![t] = key]
           /\ WaitingQueue' = InsertInQueue(WaitingQueue, t, key)
    /\ pevent' = [pevent EXCEPT ![t] = e]
    /\ pc' = [pc EXCEPT ![t] = "pend"]
    /\ UNCHANGED <<sched, boot, isr, MrtkTime, due, EventTblFreeEntry,
                   EventCounter, tokens, error, holds>>

SemSched(t) ==
    /\ InTask(t)
    /\ pc[t] = "pend"
    /\ Sched
    /\ pc' = [pc EXCEPT ![t] = "woken"]
    /\ UNCHANGED <<Delay, AbsoluteDeadline, boot, isr, MrtkTime, due, semVars>>

\* The second critical section of mrtk_SemPend.
SemReturn(t) ==
    /\ InTask(t)
    /\ pc[t] = "woken"
    /\ IF IsTimeoutEnable[pevent[t]] /\ Delay[t] = 0
       THEN /\ WaitingQueue' = RemoveElementInQueue(WaitingQueue, t)
            /\ IsTimeoutEnable' = [IsTimeoutEnable EXCEPT ![pevent[t]] = FALSE]
            /\ error' = [error EXCEPT ![t] = "EVENT_TIMEOUT"]
            /\ UNCHANGED holds
       ELSE /\ error' = [error EXCEPT ![t] = "NO_ERROR"]
            /\ holds' = [holds EXCEPT ![t] = @ \cup {pevent[t]}]
            /\ UNCHANGED <<WaitingQueue, IsTimeoutEnable>>
    /\ pc' = [pc EXCEPT ![t] = "app"]
    /\ UNCHANGED <<tcb, sched, boot, isr, MrtkTime, due, EventTblFreeEntry,
                   EventCounter, tokens, pevent>>

-----------------------------------------------------------------------------
FullLate(e) == EventCounter[e] > MaxCount

Full(e) == EventCounter[e] >= MaxCount

Waiter == GetTaskWithNearestDeadline(WaitingQueue, Idle)

\* The test is `taskid < NB_USERS_TASK_MAX`.
Awaited == Waiter < UsersMax

\* A post that answers ERROR_SEM_OVERFLOW and puts nothing in the semaphore.
Refused(e) == ~Awaited /\ Full(e)

(* A task posts what it has taken, as sem_test_demo.c does, or signals.    *)
Posts(t, e) ==
    /\ Calls(t, e)
    /\ \/ /\ e \in holds[t]
          /\ holds' = [holds EXCEPT ![t] = @ \ {e}]
          /\ tokens' = [tokens EXCEPT ![e] = IF Refused(e) THEN @ - 1 ELSE @]
       \/ /\ e \notin holds[t] /\ t \in Signallers /\ tokens[e] < MaxTokens
          /\ tokens' = [tokens EXCEPT ![e] = IF Refused(e) THEN @ ELSE @ + 1]
          /\ UNCHANGED holds

WaiterKept == WaitingQueue

WaiterRemoved == RemoveFirstElementInQueue(WaitingQueue)

(* mrtk_SemPost makes a waiting task ready, whichever semaphore it waits   *)
(* for.  Its State stays what mrtk_SemPend made it.                        *)
SemRelease(t, e) ==
    /\ Posts(t, e)
    /\ Awaited
    /\ WaitingQueue' = WaiterRemoved
    /\ LET key == MrtkTime + Deadline[Waiter]
       IN  /\ AbsoluteDeadline' = [AbsoluteDeadline EXCEPT ![Waiter] = key]
           /\ RdyQueue' = InsertInQueue(RdyQueue, Waiter, key)
    /\ error' = [error EXCEPT ![t] = "NO_ERROR"]
    /\ pc' = [pc EXCEPT ![t] = "post"]
    /\ UNCHANGED <<State, Delay, RunningTask, boot, isr, MrtkTime, due,
                   events, pevent>>

\* mrtk_SemPost finds nobody waiting.
SemCount(t, e) ==
    /\ Posts(t, e)
    /\ ~Awaited
    /\ ~Full(e)
    /\ EventCounter' = [EventCounter EXCEPT ![e] = @ + 1]
    /\ error' = [error EXCEPT ![t] = "NO_ERROR"]
    /\ pc' = [pc EXCEPT ![t] = "app"]
    /\ UNCHANGED <<tcb, sched, boot, isr, MrtkTime, due, WaitingQueue,
                   EventTblFreeEntry, IsTimeoutEnable, pevent>>

SemOverflow(t, e) ==
    /\ Posts(t, e)
    /\ Refused(e)
    /\ error' = [error EXCEPT ![t] = "ERROR_SEM_OVERFLOW"]
    /\ pc' = [pc EXCEPT ![t] = "app"]
    /\ UNCHANGED <<tcb, sched, boot, isr, MrtkTime, due, WaitingQueue, events,
                   pevent>>

PostSched(t) ==
    /\ InTask(t)
    /\ pc[t] = "post"
    /\ Sched
    /\ pc' = [pc EXCEPT ![t] = "app"]
    /\ UNCHANGED <<Delay, AbsoluteDeadline, boot, isr, MrtkTime, due, semVars>>

-----------------------------------------------------------------------------
SemNext ==
    \/ Next /\ UNCHANGED semVars
    \/ \E counter \in Counters : SemCreate(counter)
    \/ \E t \in Users :
          \/ SemSched(t) \/ SemReturn(t) \/ PostSched(t)
          \/ \E e \in Events :
                \/ SemTake(t, e) \/ SemRelease(t, e)
                \/ SemCount(t, e) \/ SemOverflow(t, e)
                \/ \E timeout \in Timeouts : SemBlock(t, e, timeout)

SemSpec == SemInit /\ [][SemNext]_allVars

-----------------------------------------------------------------------------
SemTypeOK ==
    /\ State \in [Tasks -> {"READY", "EXECUTING", "SUSPENDED", "WAITING"}]
    /\ Delay \in [Tasks -> Nat]
    /\ AbsoluteDeadline \in [Tasks -> 0..(U32 - 1)]
    /\ RdyQueue \in QueueType
    /\ WaitingQueue \in QueueType
    /\ RunningTask \in IF MrtkRunning THEN Tasks ELSE {0}
    /\ EventTblFreeEntry \in 0..NbEventMax
    /\ EventCounter \in [Events -> 0..MaxCount]
    /\ IsTimeoutEnable \in [Events -> BOOLEAN]
    /\ pevent \in [Users -> Events \cup {NULL}]
    /\ error \in [Users -> {"NO_ERROR", "EVENT_TIMEOUT", "ERROR_SEM_OVERFLOW"}]
    /\ holds \in [Users -> SUBSET Events]
    \* "pend", "woken": in mrtk_SemPend, before and after mrtk_sched
    \* "post": in mrtk_SemPost, before mrtk_sched
    /\ pc \in [Tasks -> {"new", "app", "wait", "pend", "woken", "post"}]

\* The tasks that a post has released and that have not returned yet.
Released(e) ==
    {t \in Users \ Members(WaitingQueue) :
        pc[t] \in {"pend", "woken"} /\ pevent[t] = e}

(* What was put in a semaphore is in its counter, with a task that took it, *)
(* or on its way to a task that a post released: a post gives it once,      *)
(* however the two critical sections of a pend and those of ticks and of    *)
(* other tasks interleave.                                                  *)
TokensConserved ==
    \A e \in Events :
        EventCounter[e] + Cardinality({t \in Users : e \in holds[t]})
                        + Cardinality(Released(e)) = tokens[e]

(* A task is in one queue at a time: waiting for a semaphore, released and  *)
(* ready, or running.                                                       *)
OneQueue ==
    /\ Distinct(RdyQueue) /\ Distinct(WaitingQueue)
    /\ Members(WaitingQueue) \cap Members(RdyQueue) = {}
    /\ \A t \in Members(WaitingQueue) :
          State[t] # "EXECUTING" /\ pc[t] \in {"pend", "woken"}

(* A post releases the waiting task with the nearest deadline               *)
(* (mrtk_sem.c:134), the one computed when it started to wait.              *)
ReleasesNearest ==
    [][\A t \in Members(WaitingQueue) \ Members(WaitingQueue') :
          \A u \in Members(WaitingQueue') :
              AbsoluteDeadline[t] <= AbsoluteDeadline[u]]_allVars

(* A task that is switched out while it has work to do is "re-inserted in   *)
(* ready queue, if it is an unsollicited preemption" (mrtk_sched.c:198).    *)
ReleasedNotLost ==
    \A t \in Users :
        pc[t] = "app" /\ State[t] = "WAITING" /\ RunningTask # t
            => t \in Members(RdyQueue)
=============================================================================
