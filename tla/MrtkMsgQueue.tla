---------------------------- MODULE MrtkMsgQueue ----------------------------
(***************************************************************************)
(* One message queue of kernel/src/mrtk_msgqueue.c, used by the tasks of   *)
(* one CPU on top of the kernel of MrtkKernel.  The event remembers the    *)
(* last task that blocked on it, and nothing ever forgets it.              *)
(*                                                                         *)
(* A step is a critical section, as in MrtkKernel: mrtk_Qpend is two of    *)
(* them around mrtk_sched, mrtk_Qpost one before mrtk_sched.  mrtk_Qcreate *)
(* was called by main before mrtk_start.  The tests for a NULL event, an   *)
(* event of another type and a call from an interrupt reject the call and  *)
(* change nothing; they are left out.                                      *)
(***************************************************************************)
EXTENDS MrtkKernel, Sequences

CONSTANTS QSize,        \* the size given to mrtk_Qcreate
          Messages,     \* the messages posted
          Unset,        \* what the caller's array holds before the first message
          Receivers,    \* the tasks that call mrtk_Qpend
          Senders,      \* the tasks that call mrtk_Qpost
          Timeouts,     \* the timeouts of mrtk_Qpend, 0 for none
          U16           \* 2^16, the range of QEntries

ASSUME MsgQueueAssumption ==
    /\ QSize \in 1..(U16 - 1)
    /\ U16 \in Nat
    /\ Unset \notin Messages
    /\ Receivers \subseteq Users
    /\ Senders \subseteq Users
    /\ Timeouts \subseteq Nat

Cells == 0..(QSize - 1)

VARIABLES
    storage, QIn, QOut, QEntries,   \* MQueueControlBlock, indices for pointers
    TaskId, IsTimeoutEnable,        \* EVENT
    error,                          \* what the last call of a task answered
    msg,                            \* the message that mrtk_Qpend returned
    posted                          \* history: due when a task last posted

ring == <<storage, QIn, QOut, QEntries>>
event == <<TaskId, IsTimeoutEnable>>
calls == <<error, msg>>
msgVars == <<ring, event, calls, posted>>
allVars == <<vars, msgVars>>

-----------------------------------------------------------------------------
Qcreate ==
    /\ storage = [i \in Cells |-> Unset]
    /\ QIn = 0
    /\ QOut = 0
    /\ QEntries = 0
    /\ TaskId = 0
    /\ IsTimeoutEnable = FALSE

MsgInit ==
    /\ Init
    /\ Qcreate
    /\ error = [t \in Users |-> "NO_ERROR"]
    /\ msg = [t \in Users |-> Unset]
    /\ posted = [t \in Users |-> 0]

\* A task calls the queue from code of its own.
Calls(t) == InTask(t) /\ pc[t] \in {"new", "app"}

NextCellUnwrapped(i) == IF i = QSize - 1 THEN i ELSE i + 1

NextCell(i) == IF i = QSize - 1 THEN 0 ELSE i + 1

\* mrtk_Qpend returns the message at QOut, whatever QEntries says.
PickMsg(t) ==
    /\ msg' = [msg EXCEPT ![t] = storage[QOut]]
    /\ QOut' = NextCell(QOut)
    /\ QEntries' = (QEntries + U16 - 1) % U16
    /\ error' = [error EXCEPT ![t] = "NO_ERROR"]
    /\ pc' = [pc EXCEPT ![t] = "app"]
    /\ UNCHANGED <<storage, QIn>>

QpendPick(t) ==
    /\ Calls(t)
    /\ QEntries > 0
    /\ PickMsg(t)
    /\ UNCHANGED <<tcb, sched, boot, isr, MrtkTime, due, event, posted>>

ForgetReceiver(t) == UNCHANGED TaskId

RememberReceiver(t) == TaskId' = t

QpendBlock(t, timeout) ==
    /\ Calls(t)
    /\ QEntries = 0
    /\ RememberReceiver(t)
    /\ IF timeout = 0
       THEN /\ State' = [State EXCEPT ![t] = "WAITING"]
            /\ UNCHANGED <<Delay, due>>
       ELSE /\ State' = [State EXCEPT ![t] = "SUSPENDED"]
            /\ Delay' = [Delay EXCEPT ![t] = timeout]
            /\ due' = [due EXCEPT ![t] = MrtkTime + timeout]
    /\ IsTimeoutEnable' = (timeout # 0)
    /\ pc' = [pc EXCEPT ![t] = "pend"]
    /\ UNCHANGED <<AbsoluteDeadline, sched, boot, isr, MrtkTime, ring, calls,
                   posted>>

QpendSched(t) ==
    /\ InTask(t)
    /\ pc[t] = "pend"
    /\ Sched
    /\ pc' = [pc EXCEPT ![t] = "woken"]
    /\ UNCHANGED <<Delay, AbsoluteDeadline, boot, isr, MrtkTime, due, msgVars>>

TimedOutNever(t) == FALSE

\* The tests of the second critical section of mrtk_Qpend.
TimedOut(t) == IsTimeoutEnable /\ Delay[t] = 0

QpendReturn(t) ==
    /\ InTask(t)
    /\ pc[t] = "woken"
    /\ ~TimedOut(t)
    /\ PickMsg(t)
    /\ UNCHANGED <<tcb, sched, boot, isr, MrtkTime, due, event, posted>>

QpendTimeout(t) ==
    /\ InTask(t)
    /\ pc[t] = "woken"
    /\ TimedOut(t)
    /\ IsTimeoutEnable' = FALSE
    /\ error' = [error EXCEPT ![t] = "EVENT_TIMEOUT"]
    /\ pc' = [pc EXCEPT ![t] = "app"]
    /\ UNCHANGED <<tcb, sched, boot, isr, MrtkTime, due, ring, TaskId, msg, posted>>

-----------------------------------------------------------------------------
FullLate == QEntries > QSize

Full == QEntries >= QSize

QpostFull(t) ==
    /\ Calls(t)
    /\ Full
    /\ error' = [error EXCEPT ![t] = "ERROR_QUEUE_FULL"]
    /\ pc' = [pc EXCEPT ![t] = "app"]
    /\ posted' = [posted EXCEPT ![t] = due[t]]
    /\ UNCHANGED <<tcb, sched, boot, isr, MrtkTime, due, ring, event, msg>>

Push(m) ==
    /\ storage' = [storage EXCEPT ![QIn] = m]
    /\ QIn' = NextCell(QIn)
    /\ QEntries' = QEntries + 1
    /\ UNCHANGED QOut

StateKept == State

StateReady == [State EXCEPT ![TaskId] = "READY"]

\* Whatever the last task that blocked is doing, it is made ready.
WakeReceiver ==
    IF TaskId > 0
    THEN LET key == MrtkTime + Deadline[TaskId]
         IN  /\ State' = StateReady
             /\ AbsoluteDeadline' = [AbsoluteDeadline EXCEPT ![TaskId] = key]
             /\ RdyQueue' = InsertInQueue(RdyQueue, TaskId, key)
    ELSE UNCHANGED <<State, AbsoluteDeadline, RdyQueue>>

Qpost(t, m) ==
    /\ Calls(t)
    /\ ~Full
    /\ Push(m)
    /\ WakeReceiver
    /\ error' = [error EXCEPT ![t] = "NO_ERROR"]
    /\ pc' = [pc EXCEPT ![t] = "post"]
    /\ posted' = [posted EXCEPT ![t] = due[t]]
    /\ UNCHANGED <<Delay, RunningTask, boot, isr, MrtkTime, due, event, msg>>

QpostSched(t) ==
    /\ InTask(t)
    /\ pc[t] = "post"
    /\ Sched
    /\ pc' = [pc EXCEPT ![t] = "app"]
    /\ UNCHANGED <<Delay, AbsoluteDeadline, boot, isr, MrtkTime, due, msgVars>>

-----------------------------------------------------------------------------
Qpend(t) ==
    \/ QpendPick(t)
    \/ \E timeout \in Timeouts : QpendBlock(t, timeout)

QpendEnd(t) == QpendSched(t) \/ QpendReturn(t) \/ QpendTimeout(t)

AnyQpost(t) == QpostFull(t) \/ \E m \in Messages : Qpost(t, m)

MsgNext ==
    \/ Next /\ UNCHANGED msgVars
    \/ \E t \in Receivers : Qpend(t) \/ QpendEnd(t)
    \/ \E t \in Senders : AnyQpost(t) \/ QpostSched(t)

(* The calls of four_tasks_demo.c, tasks 3 and 4: a sender waits before    *)
(* each post, and a receiver does not wait once it has blocked on the      *)
(* queue.                                                                  *)
DemoCalls ==
    /\ \A t \in Senders : AnyQpost(t) => posted[t] < due[t]
    /\ \A t \in Receivers : pc'[t] = "wait" => pc[t] = "wait" \/ TaskId # t

DemoSpec == MsgInit /\ [][MsgNext /\ DemoCalls]_allVars

(* As DemoSpec, and the tasks have made their first calls when the first   *)
(* tick comes.  Every later tick finds the idle task too: the one that it  *)
(* interrupted owes the acknowledge until it runs again.                   *)
DemoIdleSpec == MsgInit /\ [][MsgNext /\ DemoCalls /\ FirstTickFindsIdle]_allVars

\* The task that a post makes ready is in mrtk_Qpend, asleep or about to be.
FindsSleeper ==
    TaskId # 0 => /\ State[TaskId] \in {"SUSPENDED", "WAITING"}
                  /\ pc[TaskId] \in {"pend", "woken"}

PostsToSleepers == \A t \in Senders, m \in Messages : Qpost(t, m) => FindsSleeper

\* A wait or a timeout of one tick may end before its task has gone to sleep.
LongSleeps ==
    \A t \in Users :
        State'[t] = "SUSPENDED" /\ State[t] # "SUSPENDED" => Delay'[t] # 1

KeepsUp == PostsToSleepers /\ LongSleeps

\* Ticks and calls at any time, as long as the receiver keeps up.
KeepsUpSpec == MsgInit /\ [][MsgNext /\ KeepsUp]_allVars

-----------------------------------------------------------------------------
MsgTypeOK ==
    /\ State \in [Tasks -> {"READY", "EXECUTING", "SUSPENDED", "WAITING"}]
    /\ RdyQueue \in QueueType
    /\ RunningTask \in IF MrtkRunning THEN Tasks ELSE {0}
    /\ storage \in [Cells -> Messages \cup {Unset}]
    /\ QIn \in Cells
    /\ QOut \in Cells
    /\ QEntries \in 0..QSize
    /\ TaskId \in Users \cup {0}
    /\ IsTimeoutEnable \in BOOLEAN
    /\ error \in [Users -> {"NO_ERROR", "EVENT_TIMEOUT", "ERROR_QUEUE_FULL"}]
    /\ msg \in [Users -> Messages \cup {Unset}]
    \* "pend", "woken": in mrtk_Qpend, before and after mrtk_sched
    \* "post": in mrtk_Qpost, before mrtk_sched
    /\ pc \in [Tasks -> {"new", "app", "wait", "pend", "woken", "post"}]

(* A task that is blocked on the queue has no message to take, or is on its *)
(* way to it: no message arrives between the test of QEntries and the       *)
(* switch, when a tick has let a sender run, or while the task is asleep,   *)
(* without making the task ready.                                           *)
NoMissedMessage ==
    \A t \in Receivers :
        /\ pc[t] \in {"pend", "woken"}
        /\ t \notin Members(RdyQueue)
        /\ RunningTask # t
        => QEntries = 0

(* mrtk_Qpost looks at no State (mrtk_msgqueue.c:199): in the demo, where a *)
(* sender waits between two posts, the receiver has always had the time to *)
(* take the last message, or to time out, and to come back to mrtk_Qpend.  *)
PostsFindSleeper == [][PostsToSleepers]_allVars

\* The messages between QOut and QIn.
channel == [i \in 1..QEntries |-> storage[(QOut + i - 1) % QSize]]

Channel == INSTANCE MessageChannel WITH Capacity <- QSize

(* The ring, its two indices and its count are a bounded first-in first-out *)
(* channel: messages are delivered once and in order across the wrap of the *)
(* indices, whichever of the two ends of mrtk_Qpend takes them.             *)
ImplementsChannel == Channel!Spec

-----------------------------------------------------------------------------
(* When mrtk_Qpend comes back from mrtk_sched and has not timed out, "there *)
(* is msg, we pick one" (mrtk_msgqueue.c:143).                              *)
ThereIsMsg ==
    \A t \in Receivers :
        InTask(t) /\ pc[t] = "woken" /\ ~TimedOut(t) => QEntries > 0
=============================================================================
