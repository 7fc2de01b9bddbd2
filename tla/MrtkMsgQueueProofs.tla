------------------------- MODULE MrtkMsgQueueProofs -------------------------
(***************************************************************************)
(* The ring of a message queue of any size is a first-in first-out         *)
(* channel, for any tasks, messages, timeouts and ticks, as long as the    *)
(* comment of mrtk_msgqueue.c:143 is true: a task that comes back from     *)
(* mrtk_sched and has not timed out finds a message.  That comment is the  *)
(* only thing the channel rests on; without it QEntries wraps below 0.     *)
(*                                                                         *)
(* The second part proves the comment, and with it the channel, where the  *)
(* queue is used as in four_tasks_demo.c (DemoRegime): the calls and ticks *)
(* of DemoIdleSpec, one sender and one receiver.                           *)
(*                                                                         *)
(* The third part proves it for any number of senders and for ticks at any *)
(* time, inside mrtk_Qpend too, as long as the receiver keeps up           *)
(* (UpRegime, KeepsUpSpec).                                                *)
(***************************************************************************)
EXTENDS MrtkMsgQueue, MrtkKernelProofs, SequenceTheorems

\* The cell k after the cell i.
At(i, k) == (i + k) % QSize

RingInv ==
    /\ storage \in [Cells -> Messages \cup {Unset}]
    /\ QIn \in Cells
    /\ QOut \in Cells
    /\ QEntries \in 0..QSize
    /\ QIn = At(QOut, QEntries)

(* A whole turn of a ring leads back.                                      *)
LEMMA OneTurn == ASSUME NEW n \in Nat \ {0}, NEW y \in 0..(n - 1) PROVE (y + n) % n = y
  BY SMT

(* An index is less than twice the size of the ring.                       *)
LEMMA AtValue ==
    ASSUME NEW i \in Cells, NEW k \in 0..QSize
    PROVE  At(i, k) = IF i + k < QSize THEN i + k ELSE i + k - QSize
<1>1. QSize \in Nat \ {0}
  BY MsgQueueAssumption
<1>2. i + k \in 0..(2 * QSize - 1)
  BY <1>1 DEF Cells
<1>3. ASSUME NEW n \in Nat \ {0}, NEW x \in n..(2 * n - 1) PROVE x % n = x - n
  <2>1. PICK y \in 0..(n - 1) : x = y + n
    <3>1. x - n \in 0..(n - 1) /\ x = (x - n) + n
      OBVIOUS
    <3> QED BY <3>1
  <2>2. x % n = y
    BY <2>1, OneTurn
  <2> QED BY <2>1, <2>2
<1>4. CASE i + k < QSize
  BY <1>1, <1>2, <1>4 DEF At
<1>5. CASE ~(i + k < QSize)
  <2>1. i + k \in QSize..(2 * QSize - 1)
    BY <1>1, <1>2, <1>5
  <2> DEFINE z == i + k
  <2> HIDE DEF z
  <2>2. z % QSize = z - QSize
    <3>1. QSize \in Nat \ {0} /\ z \in QSize..(2 * QSize - 1)
      BY <1>1, <2>1 DEF z
    <3> QED BY ONLY <1>3, <3>1
  <2> QED BY <1>1, <1>2, <1>5, <2>2 DEF At, z, Cells
<1> QED BY <1>4, <1>5

(* The cell after a cell is the one after it in the ring.                  *)
LEMMA NextIsAt ==
    ASSUME NEW i \in Cells
    PROVE  /\ NextCell(i) \in Cells /\ NextCell(i) = At(i, 1)
           /\ \A k \in 0..(QSize - 1) : At(NextCell(i), k) = At(i, k + 1)
<1>1. QSize \in Nat \ {0} /\ 1 \in 0..QSize
  BY MsgQueueAssumption
<1>2. NextCell(i) \in Cells /\ NextCell(i) = At(i, 1)
  BY <1>1, AtValue DEF NextCell, Cells
<1>3. ASSUME NEW k \in 0..(QSize - 1) PROVE At(NextCell(i), k) = At(i, k + 1)
  <2>1. k \in 0..QSize /\ k + 1 \in 0..QSize
    BY <1>1
  <2>2. At(i, k + 1) = IF i + (k + 1) < QSize THEN i + (k + 1) ELSE i + (k + 1) - QSize
    BY <2>1, AtValue
  <2>3. At(NextCell(i), k) = IF NextCell(i) + k < QSize THEN NextCell(i) + k
                                                      ELSE NextCell(i) + k - QSize
    BY <1>2, <2>1, AtValue
  <2> QED BY <1>1, <2>2, <2>3 DEF NextCell, Cells
<1> QED BY <1>2, <1>3

\* The k messages from the cell out on.
From(s, out, k) == [i \in 1..k |-> s[(out + i - 1) % QSize]]

(* The messages in a ring are a sequence.                                  *)
LEMMA FromIsSeq ==
    ASSUME NEW s \in [Cells -> Messages \cup {Unset}], NEW out \in Cells,
           NEW k \in 0..QSize
    PROVE  /\ From(s, out, k) \in Seq(Messages \cup {Unset})
           /\ Len(From(s, out, k)) = k
           /\ \A i \in 1..k : From(s, out, k)[i] = s[At(out, i - 1)]
<1>1. QSize \in Nat \ {0} /\ k \in Nat /\ out \in Int
  BY MsgQueueAssumption DEF Cells
<1>2. ASSUME NEW i \in 1..k
      PROVE  /\ (out + i - 1) % QSize = At(out, i - 1)
             /\ s[At(out, i - 1)] \in Messages \cup {Unset}
  <2>1. out + i - 1 = out + (i - 1)
    BY <1>1
  <2>2. At(out, i - 1) \in Cells
    <3>1. i - 1 \in 0..QSize
      BY <1>1
    <3> QED BY <1>1, <3>1, AtValue DEF Cells
  <2> QED BY <2>1, <2>2 DEF At
<1> DEFINE S == Messages \cup {Unset}
<1>3. From(s, out, k) \in [1..k -> S]
  <2>1. \A i \in 1..k : s[(out + i - 1) % QSize] \in S
    BY <1>2
  <2> HIDE DEF S
  <2> QED BY <2>1 DEF From
<1> HIDE DEF S
<1>4. From(s, out, k) \in Seq(S)
  BY <1>1, <1>3, SeqDef
<1>5. Len(From(s, out, k)) = k
  BY <1>1, <1>3, <1>4, LenProperties
<1>6. \A i \in 1..k : From(s, out, k)[i] = s[At(out, i - 1)]
  BY <1>2 DEF From
<1> QED BY <1>4, <1>5, <1>6 DEF S

(* The channel is what is in the ring, before and after a step.            *)
LEMMA ChannelIsFrom ==
    /\ channel = From(storage, QOut, QEntries)
    /\ channel' = From(storage', QOut', QEntries')
BY DEF channel, From

(* mrtk_Qcreate makes an empty channel.                                    *)
LEMMA QcreateEmpty == MsgInit => RingInv /\ channel = <<>>
<1> SUFFICES ASSUME MsgInit PROVE RingInv /\ channel = <<>>
  OBVIOUS
<1>1. QSize \in Nat \ {0}
  BY MsgQueueAssumption
<1>2. 0 \in Cells /\ At(0, 0) = 0
  BY <1>1, AtValue DEF Cells
<1>3. RingInv
  BY <1>1, <1>2 DEF MsgInit, Qcreate, RingInv
<1>4. Len(channel) = 0 /\ channel \in Seq(Messages \cup {Unset})
  BY <1>3, ChannelIsFrom, FromIsSeq DEF MsgInit, Qcreate, RingInv
<1> QED BY <1>3, <1>4, EmptySeq

(* A step that leaves the ring alone leaves the channel alone.             *)
LEMMA RingKept ==
    ASSUME RingInv, UNCHANGED ring
    PROVE  RingInv' /\ UNCHANGED channel
BY DEF RingInv, ring, channel

(* A message that is taken is the first of the channel.                    *)
LEMMA PickReceives ==
    ASSUME RingInv, QEntries > 0, NEW t \in Users, PickMsg(t)
    PROVE  RingInv' /\ Channel!Receive
<1>1. /\ QSize \in Nat \ {0} /\ QSize < U16 /\ U16 \in Nat
      /\ QEntries \in 1..QSize /\ QOut \in Cells
  BY MsgQueueAssumption DEF RingInv
<1>2. QEntries' = QEntries - 1
  <2>1. \A n \in Nat : \A x \in 1..(n - 1) : (x + n - 1) % n = x - 1
    <3> SUFFICES ASSUME NEW n \in Nat, NEW x \in 1..(n - 1)
                 PROVE  (x + n - 1) % n = x - 1
      OBVIOUS
    <3>1. n \in Nat \ {0} /\ x + n - 1 \in n..(2 * n - 1)
      OBVIOUS
    <3> QED BY <3>1, SMT
  <2> QED BY <1>1, <2>1 DEF PickMsg
<1>3. QOut' = NextCell(QOut) /\ storage' = storage /\ QIn' = QIn
  BY DEF PickMsg
<1>4. RingInv'
  <2>1. QEntries - 1 \in 0..(QSize - 1)
    BY <1>1
  <2>2. At(NextCell(QOut), QEntries - 1) = At(QOut, QEntries)
    <3>1. (QEntries - 1) + 1 = QEntries
      BY <1>1
    <3> QED BY <1>1, <2>1, <3>1, NextIsAt
  <2>3. NextCell(QOut) \in Cells
    BY <1>1, NextIsAt
  <2> QED BY <1>1, <1>2, <1>3, <2>1, <2>2, <2>3 DEF RingInv, At
<1> DEFINE S == Messages \cup {Unset}
<1>5. /\ channel \in Seq(S) /\ Len(channel) = QEntries
      /\ \A i \in 1..QEntries : channel[i] = storage[At(QOut, i - 1)]
  BY ChannelIsFrom, FromIsSeq DEF RingInv
<1>6. /\ channel' \in Seq(S) /\ Len(channel') = QEntries - 1
      /\ \A i \in 1..(QEntries - 1) : channel'[i] = storage[At(NextCell(QOut), i - 1)]
  <2>1. /\ channel' \in Seq(S) /\ Len(channel') = QEntries'
        /\ \A i \in 1..QEntries' : channel'[i] = storage'[At(QOut', i - 1)]
    BY <1>4, ChannelIsFrom, FromIsSeq DEF RingInv
  <2> QED BY <1>2, <1>3, <2>1
<1>7. channel # <<>>
  BY <1>1, <1>5, EmptySeq
<1>8. /\ Tail(channel) \in Seq(S) /\ Len(Tail(channel)) = QEntries - 1
      /\ \A i \in 1..(QEntries - 1) : Tail(channel)[i] = channel[i + 1]
  BY <1>1, <1>5, <1>7, HeadTailProperties
<1>9. ASSUME NEW i \in 1..(QEntries - 1) PROVE channel'[i] = Tail(channel)[i]
  <2>1. i - 1 \in 0..(QSize - 1) /\ (i - 1) + 1 = i /\ (i + 1) - 1 = i /\ i + 1 \in 1..QEntries
    BY <1>1
  <2>2. At(NextCell(QOut), i - 1) = At(QOut, i)
    BY <1>1, <2>1, NextIsAt
  <2>3. channel[i + 1] = storage[At(QOut, i)]
    BY <1>5, <2>1
  <2> QED BY <1>6, <1>8, <2>2, <2>3
<1>10. channel' = Tail(channel)
  <2> HIDE DEF S
  <2> QED BY <1>6, <1>8, <1>9, SeqEqual
<1> QED BY <1>4, <1>7, <1>10 DEF Channel!Receive

(* A message that is posted to a queue that is not full is the last of the *)
(* channel.                                                                *)
LEMMA PushSends ==
    ASSUME RingInv, ~Full, NEW m \in Messages, Push(m)
    PROVE  RingInv' /\ Channel!Send(m)
<1>1. /\ QSize \in Nat \ {0} /\ QEntries \in 0..(QSize - 1)
      /\ QOut \in Cells /\ QIn \in Cells /\ QIn = At(QOut, QEntries)
  BY MsgQueueAssumption DEF RingInv, Full
<1>2. /\ QEntries' = QEntries + 1 /\ QOut' = QOut /\ QIn' = NextCell(QIn)
      /\ storage' = [storage EXCEPT ![QIn] = m]
  BY DEF Push
<1>3. RingInv'
  <2>1. At(QOut, QEntries + 1) = NextCell(QIn)
    <3>1. /\ QEntries \in 0..QSize /\ QEntries + 1 \in 0..QSize
          /\ QOut \in 0..(QSize - 1) /\ QIn \in 0..(QSize - 1)
      BY <1>1 DEF Cells
    <3>2. /\ QIn = IF QOut + QEntries < QSize THEN QOut + QEntries
                   ELSE QOut + QEntries - QSize
          /\ At(QOut, QEntries + 1) = IF QOut + (QEntries + 1) < QSize
                                      THEN QOut + (QEntries + 1)
                                      ELSE QOut + (QEntries + 1) - QSize
      BY <1>1, <3>1, AtValue
    <3> QED BY <1>1, <3>1, <3>2 DEF NextCell
  <2>2. NextCell(QIn) \in Cells
    BY <1>1, NextIsAt
  <2> QED BY <1>1, <1>2, <2>1, <2>2 DEF RingInv, At
<1> DEFINE S == Messages \cup {Unset}
<1>4. /\ channel \in Seq(S) /\ Len(channel) = QEntries
      /\ \A i \in 1..QEntries : channel[i] = storage[At(QOut, i - 1)]
  BY ChannelIsFrom, FromIsSeq DEF RingInv
<1>5. /\ channel' \in Seq(S) /\ Len(channel') = QEntries + 1
      /\ \A i \in 1..(QEntries + 1) : channel'[i] = storage'[At(QOut, i - 1)]
  <2>1. /\ channel' \in Seq(S) /\ Len(channel') = QEntries'
        /\ \A i \in 1..QEntries' : channel'[i] = storage'[At(QOut', i - 1)]
    BY <1>3, ChannelIsFrom, FromIsSeq DEF RingInv
  <2> QED BY <1>2, <2>1
<1>6. /\ Append(channel, m) \in Seq(S) /\ Len(Append(channel, m)) = QEntries + 1
      /\ \A i \in 1..QEntries : Append(channel, m)[i] = channel[i]
      /\ Append(channel, m)[QEntries + 1] = m
  BY <1>1, <1>4, AppendProperties
<1>7. ASSUME NEW i \in 1..(QEntries + 1) PROVE channel'[i] = Append(channel, m)[i]
  <2>1. i - 1 \in 0..QSize /\ QEntries \in 0..QSize /\ i \in Nat
    BY <1>1
  <2>2. At(QOut, i - 1) \in Cells
    BY <1>1, <2>1, AtValue DEF Cells
  <2>3. channel'[i] = IF At(QOut, i - 1) = QIn THEN m ELSE storage[At(QOut, i - 1)]
    BY <1>1, <1>2, <1>5, <2>2 DEF RingInv
  <2>4. At(QOut, i - 1) = QIn <=> i = QEntries + 1
    <3>1. /\ At(QOut, i - 1) = IF QOut + (i - 1) < QSize THEN QOut + (i - 1)
                               ELSE QOut + (i - 1) - QSize
          /\ QIn = IF QOut + QEntries < QSize THEN QOut + QEntries
                   ELSE QOut + QEntries - QSize
      BY <1>1, <2>1, AtValue
    <3> QED BY <1>1, <2>1, <3>1 DEF Cells
  <2>5. CASE i = QEntries + 1
    BY <1>6, <2>3, <2>4, <2>5
  <2>6. CASE i # QEntries + 1
    <3>1. i \in 1..QEntries
      BY <1>1, <2>6
    <3> QED BY <1>4, <1>6, <2>3, <2>4, <2>6, <3>1
  <2> QED BY <2>5, <2>6
<1>8. channel' = Append(channel, m)
  <2> HIDE DEF S
  <2> QED BY <1>5, <1>6, <1>7, SeqEqual
<1> QED BY <1>1, <1>3, <1>4, <1>8 DEF Channel!Send

(* Each step of the tasks is a step of the channel or leaves it alone.     *)
LEMMA MsgStep ==
    ASSUME RingInv, ThereIsMsg, [MsgNext]_allVars
    PROVE  RingInv' /\ [Channel!Next]_channel
<1>1. ASSUME UNCHANGED ring PROVE RingInv' /\ [Channel!Next]_channel
  BY <1>1, RingKept
<1>2. ASSUME NEW t \in Users, PickMsg(t), QEntries > 0
      PROVE  RingInv' /\ [Channel!Next]_channel
  BY <1>2, PickReceives DEF Channel!Next
<1>3. CASE UNCHANGED allVars
  BY <1>1, <1>3 DEF allVars, msgVars
<1>4. CASE Next /\ UNCHANGED msgVars
  BY <1>1, <1>4 DEF msgVars
<1>5. ASSUME NEW t \in Receivers, Qpend(t)
      PROVE  RingInv' /\ [Channel!Next]_channel
  <2>1. CASE QpendPick(t)
    BY <1>2, <2>1, MsgQueueAssumption DEF QpendPick
  <2>2. ASSUME NEW timeout \in Timeouts, QpendBlock(t, timeout)
        PROVE  UNCHANGED ring
    BY <2>2 DEF QpendBlock
  <2> QED BY <1>1, <1>5, <2>1, <2>2 DEF Qpend
<1>6. ASSUME NEW t \in Receivers, QpendEnd(t)
      PROVE  RingInv' /\ [Channel!Next]_channel
  <2>1. CASE QpendSched(t)
    BY <1>1, <2>1 DEF QpendSched, msgVars
  <2>2. CASE QpendReturn(t)
    BY <1>2, <2>2, MsgQueueAssumption DEF QpendReturn, ThereIsMsg
  <2>3. CASE QpendTimeout(t)
    BY <1>1, <2>3 DEF QpendTimeout
  <2> QED BY <1>6, <2>1, <2>2, <2>3 DEF QpendEnd
<1>7. ASSUME NEW t \in Senders, AnyQpost(t)
      PROVE  RingInv' /\ [Channel!Next]_channel
  <2>1. CASE QpostFull(t)
    BY <1>1, <2>1 DEF QpostFull
  <2>2. ASSUME NEW m \in Messages, Qpost(t, m)
        PROVE  RingInv' /\ [Channel!Next]_channel
    BY <2>2, PushSends DEF Qpost, Channel!Next
  <2> QED BY <1>7, <2>1, <2>2 DEF AnyQpost
<1>8. ASSUME NEW t \in Senders, QpostSched(t)
      PROVE  RingInv' /\ [Channel!Next]_channel
  BY <1>1, <1>8 DEF QpostSched, msgVars
<1> QED BY <1>3, <1>4, <1>5, <1>6, <1>7, <1>8 DEF MsgNext

(* Messages are delivered once and in order, under every interleaving of   *)
(* tasks and ticks in which no pend comes back to an empty queue.          *)
THEOREM QueueImplementsChannel ==
    MsgInit /\ [][MsgNext]_allVars /\ []ThereIsMsg => ImplementsChannel
<1>1. MsgInit => RingInv /\ Channel!Init
  BY QcreateEmpty DEF Channel!Init
<1>2. RingInv /\ ThereIsMsg /\ [MsgNext]_allVars => RingInv' /\ [Channel!Next]_channel
  BY MsgStep
<1> QED BY <1>1, <1>2, PTL DEF ImplementsChannel, Channel!Spec

-----------------------------------------------------------------------------
(* The regime of four_tasks_demo.c.  One task receives and another sends;  *)
(* the event cannot name task 0; no key is as far as that of the idle task.*)
(* Either no pend has a timeout, or the receiver is nearer than all others:*)
(* then a tick that ends its pend wakes it before any task that could post.*)
Receiver == CHOOSE t \in Receivers : TRUE

Sender == CHOOSE t \in Senders : TRUE

OneToOne ==
    /\ Receivers = {Receiver} /\ Senders = {Sender}
    /\ Receiver \notin {0, Sender}

IdleIsLast == \A t \in Users : MaxTime + Deadline[t] < IdleDeadline

NoPendTimeout == Timeouts \subseteq {0}

ReceiverIsNearest == \A t \in Users \ {Receiver} : Deadline[Receiver] < Deadline[t]

DemoRegime == OneToOne /\ IdleIsLast /\ (NoPendTimeout \/ ReceiverIsNearest)

-----------------------------------------------------------------------------
Runs(t) == MrtkRunning /\ RunningTask = t

MsgStates == {"READY", "EXECUTING", "SUSPENDED", "WAITING"}

MsgPCs == {"new", "app", "wait", "pend", "woken", "post"}

TypesInv ==
    /\ State \in [Tasks -> MsgStates]
    /\ Delay \in [Tasks -> Nat]
    /\ AbsoluteDeadline \in [Tasks -> 0..(U32 - 1)]
    /\ RunningTask \in IF MrtkRunning THEN Tasks ELSE {0}
    /\ MrtkRunning \in BOOLEAN
    /\ MrtkTime \in 0..MaxTime
    /\ toPlace \subseteq Users
    /\ count \in 0..NotTicking
    /\ isrOwner \in Tasks \cup {NoOwner}
    /\ due \in [Tasks -> Nat]
    /\ pc \in [Tasks -> MsgPCs]

CallTypes ==
    /\ IsTimeoutEnable \in BOOLEAN
    /\ error \in [Users -> {"NO_ERROR", "EVENT_TIMEOUT", "ERROR_QUEUE_FULL"}]
    /\ msg \in [Users -> Messages \cup {Unset}]
    /\ posted \in [Users -> Nat]

\* The idle task is behind every other task of a queue.
IdleBehind(q) == q.last > 1 => q.tab[1].TaskId # Idle

KeyInv ==
    /\ AbsoluteDeadline[Idle] = IdleDeadline
    /\ \A t \in Users : AbsoluteDeadline[t] <= MrtkTime + Deadline[t]

ReadyInv == QueueInv /\ KeyInv /\ IdleBehind(RdyQueue) /\ ReadyOnce

StartInv ==
    /\ ~MrtkRunning => /\ count = NotTicking /\ isrOwner = NoOwner /\ TaskId = 0
                       /\ Members(RdyQueue) = Users \ toPlace
                       /\ \A t \in Tasks : State[t] = "READY" /\ pc[t] = "new"
                       /\ \A t \in Users : AbsoluteDeadline[t] = Deadline[t]
    /\ MrtkRunning => toPlace = {}

\* Ticks come while the idle task runs, and it runs when no user task is
\* ready, but for a sender that has just preempted itself.
IdleInv ==
    /\ isrOwner \in {NoOwner, Idle}
    /\ Ticking => Runs(Idle) /\ isrOwner = Idle
    /\ Runs(Idle) /\ ~Ticking
          => \/ Members(RdyQueue) = {}
             \/ TaskId = 0 /\ Members(RdyQueue) = {Sender}

\* Where a user task is: nothing interrupts it inside a call.
Place(t) ==
    /\ Runs(t) => CASE pc[t] = "wait" -> State[t] = "SUSPENDED"
                    [] pc[t] = "pend" -> State[t] \in {"SUSPENDED", "WAITING"}
                    [] OTHER          -> State[t] = "EXECUTING"
    /\ ~Runs(t) => pc[t] \in {"new", "app", "woken"}
    /\ pc[t] = "post" => t = Sender /\ (TaskId = Receiver => Receiver \in Members(RdyQueue))
    /\ pc[t] \in {"pend", "woken"} => t = Receiver

PlaceInv == \A t \in Users : Place(t)

CanRun(t) == t \in Members(RdyQueue) \/ Runs(t)

\* What the receiver will find when it comes back from mrtk_sched.
PendInv ==
    /\ TaskId \in {0, Receiver}
    /\ pc[Receiver] = "wait" => TaskId = 0
    /\ pc[Receiver] \in {"pend", "woken"} => TaskId = Receiver
    /\ TaskId = Receiver /\ ~Runs(Receiver) => pc[Receiver] = "woken"
    /\ pc[Receiver] = "pend" => QEntries = 0
    /\ pc[Receiver] = "woken" => IF CanRun(Receiver)
                                 THEN QEntries > 0 \/ TimedOut(Receiver)
                                 ELSE QEntries = 0
    /\ pc[Receiver] \in {"pend", "woken"} /\ State[Receiver] = "SUSPENDED"
          => IsTimeoutEnable
    /\ IsTimeoutEnable => ~NoPendTimeout

ReceiverReady == TaskId = Receiver /\ Receiver \in Members(RdyQueue)

\* While a receiver that the event names is ready, the sender does not post:
\* it must wait first, or a tick is in progress that elects the receiver.
SendInv ==
    /\ ReceiverReady /\ ~Ticking
          => posted[Sender] >= due[Sender] \/ State[Sender] = "SUSPENDED"
    /\ ReceiverReady /\ Ticking
          => ReceiverIsNearest /\ RdyQueue.tab[1].TaskId = Receiver
    /\ Ticking /\ TaskId = Receiver
          => \A t \in Users \cap Members(RdyQueue) :
                AbsoluteDeadline[t] = MrtkTime + Deadline[t]

TasksInv ==
    /\ TypesInv /\ CallTypes /\ ReadyInv /\ StartInv /\ IdleInv
    /\ PlaceInv /\ PendInv /\ SendInv

MsgInv == TasksInv /\ RingInv

-----------------------------------------------------------------------------
(* The receiver and the sender are user tasks, and differ.                 *)
LEMMA TheTasks ==
    ASSUME OneToOne
    PROVE  /\ Receiver \in Users /\ Sender \in Users
           /\ Receiver \in Tasks /\ Sender \in Tasks
           /\ Receiver # Sender /\ Receiver # 0 /\ Receiver \in Nat
           /\ Receiver # Idle /\ Sender # Idle
  BY MsgQueueAssumption, TaskNumbers DEF OneToOne

(* The key of the idle task is the farthest of a queue.                    *)
LEMMA KeysOfQueue ==
    ASSUME IdleIsLast, TypesInv, QueueInv, KeyInv
    PROVE  \A e \in Held(RdyQueue) :
              /\ e.TaskId \in Tasks /\ e.Deadline \in Nat
              /\ e.TaskId = Idle => e.Deadline = IdleDeadline
              /\ e.TaskId # Idle => e.Deadline < IdleDeadline
<1> SUFFICES ASSUME NEW e \in Held(RdyQueue)
             PROVE  /\ e.TaskId \in Tasks /\ e.Deadline \in Nat
                    /\ e.TaskId = Idle => e.Deadline = IdleDeadline
                    /\ e.TaskId # Idle => e.Deadline < IdleDeadline
  OBVIOUS
<1>1. e.TaskId \in Tasks /\ e.Deadline \in Nat /\ e.Deadline = AbsoluteDeadline[e.TaskId]
  BY QueueEntries, HeapAssumption DEF QueueInv, KeyMatchesTcb
<1>2. e.TaskId = Idle => e.Deadline = IdleDeadline
  BY <1>1 DEF KeyInv
<1>3. ASSUME e.TaskId # Idle PROVE e.Deadline < IdleDeadline
  <2>1. e.TaskId \in Users
    BY <1>1, <1>3 DEF Tasks
  <2>2. /\ AbsoluteDeadline[e.TaskId] <= MrtkTime + Deadline[e.TaskId]
        /\ MaxTime + Deadline[e.TaskId] < IdleDeadline
    BY <2>1 DEF KeyInv, IdleIsLast
  <2>3. /\ Deadline[e.TaskId] \in Nat /\ MrtkTime \in 0..MaxTime /\ MaxTime \in Nat
    BY <2>1, KernelAssumption DEF TypesInv
  <2>4. IdleDeadline \in Int
    BY HeapAssumption DEF IdleDeadline
  <2> QED BY <1>1, <2>2, <2>3, <2>4
<1> QED BY <1>1, <1>2, <1>3

(* The idle task stays behind when the head of a queue leaves.             *)
LEMMA RemoveKeepsIdleBehind ==
    ASSUME NEW q, GoodQueue(q),
           \A e \in Held(q) : /\ e.Deadline \in Nat
                              /\ e.TaskId = Idle => e.Deadline = IdleDeadline
                              /\ e.TaskId # Idle => e.Deadline < IdleDeadline
    PROVE  IdleBehind(RemoveFirstElementInQueue(q))
<1> DEFINE r == RemoveFirstElementInQueue(q)
<1>1. q.last \in Nat
  BY QueueEntries
<1>2. CASE q.last < 3
  <2>1. r.last < 2
    BY <1>1, <1>2 DEF RemoveFirstElementInQueue
  <2>2. r.last \in Int
    BY <1>1 DEF RemoveFirstElementInQueue
  <2> HIDE DEF r
  <2>3. IdleBehind(r)
    BY <2>1, <2>2 DEF IdleBehind
  <2> QED BY <2>3 DEF r
<1>3. CASE q.last > 2
  <2>1. /\ GoodQueue(r) /\ Held(r) \subseteq Held(q) /\ r.last # 0
        /\ \E e \in Held(r) : e # r.tab[1] /\ r.tab[1].Deadline <= e.Deadline
    <3>1. q.last # 0 /\ q.last - 1 # 0
      BY <1>1, <1>3
    <3>2. /\ GoodQueue(r) /\ Held(r) = Held(q) \ {q.tab[1]}
          /\ r.last = q.last - 1
      BY <3>1, RemoveFirstTakesRoot
    <3>3. \E e \in Held(r) : e # r.tab[1] /\ r.tab[1].Deadline <= e.Deadline
      BY <1>3, NewHeadPrecedesAnother
    <3> QED BY <3>1, <3>2, <3>3
  <2> HIDE DEF r
  <2>2. PICK e \in Held(r) : e # r.tab[1] /\ r.tab[1].Deadline <= e.Deadline
    BY <2>1
  <2>3. r.tab[1] \in Held(r) /\ e.TaskId # r.tab[1].TaskId
    <3>1. 1 \in Slots(r)
      BY <2>1, QueueEntries DEF Slots
    <3> QED BY <2>1, <2>2, <3>1, MembersHaveEntries DEF Held, Distinct
  <2>4. r.tab[1].TaskId # Idle
    <3>1. ASSUME r.tab[1].TaskId = Idle PROVE FALSE
      <4>1. r.tab[1].Deadline = IdleDeadline /\ e.Deadline < IdleDeadline
        BY <2>1, <2>3, <3>1
      <4>2. r.tab[1].Deadline \in Nat /\ e.Deadline \in Nat
        BY <2>1, <2>3
      <4> QED BY <2>2, <4>1, <4>2
    <3> QED BY <3>1
  <2> QED BY <2>4 DEF IdleBehind, r
<1> QED BY <1>1, <1>2, <1>3

(* And when a task joins a queue.                                          *)
LEMMA InsertKeepsIdleBehind ==
    ASSUME NEW q, GoodQueue(q), Members(q) \subseteq Tasks, IdleBehind(q),
           \A e \in Held(q) : /\ e.Deadline \in Nat
                              /\ e.TaskId = Idle => e.Deadline = IdleDeadline
                              /\ e.TaskId # Idle => e.Deadline < IdleDeadline,
           NEW t \in Tasks, t \notin Members(q), NEW d \in 0..(U32 - 1),
           IF t = Idle THEN d = IdleDeadline ELSE d < IdleDeadline
    PROVE  IdleBehind(InsertInQueue(q, t, d))
<1> DEFINE r == InsertInQueue(q, t, d)
<1>1. q.last < QueueSize - 1 /\ q.last \in Nat /\ t \in Nat
  <2>1. Members(q) \subseteq Tasks \ {t}
    OBVIOUS
  <2> QED BY <2>1, RoomForTask, QueueEntries, TaskNumbers
<1>2. r.last = q.last + 1
  BY <1>1, InsertAddsEntry
<1>3. CASE q.last = 0
  BY <1>2, <1>3 DEF IdleBehind
<1>4. CASE q.last # 0
  <2>1. q.tab[1] \in Held(q) /\ q.tab[1].TaskId # t
    BY <1>4, MembersHaveEntries
  <2>2. /\ q.tab[1].Deadline \in Nat /\ d \in Nat /\ IdleDeadline \in Int
        /\ q.tab[1].TaskId = Idle => q.tab[1].Deadline = IdleDeadline
        /\ q.tab[1].TaskId # Idle => q.tab[1].Deadline < IdleDeadline
    BY <2>1, HeapAssumption DEF IdleDeadline
  <2>3. \/ r.tab[1] = q.tab[1]
        \/ r.tab[1] = Entry(t, d) /\ d < q.tab[1].Deadline
    BY <1>1, <1>4, HeadGivesWayToNearer
  <2>4. CASE r.tab[1] = Entry(t, d) /\ d < q.tab[1].Deadline
    <3>1. t # Idle
      BY <2>2, <2>4
    <3> HIDE DEF r
    <3>2. IdleBehind(r)
      BY <2>4, <3>1 DEF IdleBehind, Entry
    <3> QED BY <3>2 DEF r
  <2>5. CASE r.tab[1] = q.tab[1] /\ q.tab[1].TaskId # Idle
    BY <2>5 DEF IdleBehind
  <2>6. CASE r.tab[1] = q.tab[1] /\ q.tab[1].TaskId = Idle
    <3>1. q.last = 1 /\ t # Idle
      BY <1>1, <1>4, <2>1, <2>6 DEF IdleBehind
    <3>2. \A e \in Held(q) : d < e.Deadline
      <4>1. Held(q) = {q.tab[1]}
        BY <3>1 DEF Held, Slots
      <4> QED BY <2>2, <2>6, <3>1, <4>1
    <3>3. r.tab[1] = Entry(t, d)
      BY <1>1, <3>2, NearestGoesFirst
    <3> QED BY <2>1, <2>6, <3>3 DEF Entry
  <2> QED BY <2>3, <2>4, <2>5, <2>6
<1> QED BY <1>3, <1>4

-----------------------------------------------------------------------------
\* What mrtk_sched does for its caller.
HandsOver ==
    /\ State' \in [Tasks -> MsgStates]
    /\ RunningTask' \in Tasks
    /\ ReadyInv'
    /\ RunningTask' = RunningTask => RunningTask = Idle
    /\ RunningTask' = Idle => Members(RdyQueue) \subseteq {Idle}
    /\ RunningTask' # Idle => /\ RunningTask' = RdyQueue.tab[1].TaskId
                              /\ RunningTask' \in Members(RdyQueue)
                              /\ State'[RunningTask'] = "EXECUTING"
    /\ \A t \in Users : /\ State'[t] = "SUSPENDED" <=> State[t] = "SUSPENDED"
                        /\ State'[t] = "WAITING" <=> State[t] = "WAITING"
    /\ \A t \in Users : t \in Members(RdyQueue') <=>
          \/ t \in Members(RdyQueue) /\ t # RunningTask'
          \/ t = RunningTask /\ State[t] = "EXECUTING"

(* mrtk_sched takes the CPU from every task but the idle one, gives it to  *)
(* the head of the ready queue, and wakes nobody; the idle task gets it    *)
(* only where no user task was ready.                                      *)
LEMMA SchedHandsOver ==
    ASSUME IdleIsLast, TypesInv, ReadyInv, MrtkRunning, toPlace = {}, Sched,
           UNCHANGED <<AbsoluteDeadline, MrtkTime, boot>>
    PROVE  HandsOver
<1> DEFINE hgh    == GetTaskWithNearestDeadline(RdyQueue, Idle)
           popped == RemoveFirstElementInQueue(RdyQueue)
           slept  == IF Preempted(State, RunningTask)
                     THEN [State EXCEPT ![RunningTask] = "READY"] ELSE State
<1>1. /\ GoodQueue(popped)
      /\ Members(popped) = Members(RdyQueue) \ {hgh}
      /\ Held(popped) \subseteq Held(RdyQueue)
      /\ hgh \in Tasks
      /\ hgh \in Users => hgh \in Members(RdyQueue)
  BY NearestLeaves DEF ReadyInv, QueueInv
<1>2. /\ RunningTask \in Tasks /\ RunningTask \notin Members(RdyQueue)
      /\ Members(RdyQueue) \subseteq Tasks /\ GoodQueue(RdyQueue)
      /\ State \in [Tasks -> MsgStates] /\ {"READY", "EXECUTING"} \subseteq MsgStates
      /\ AbsoluteDeadline[RunningTask] \in 0..(U32 - 1)
  BY DEF TypesInv, ReadyInv, QueueInv, ReadyOnce, MsgStates
<1>3. hgh # Idle => hgh = RdyQueue.tab[1].TaskId /\ hgh \in Users
  BY <1>1 DEF GetTaskWithNearestDeadline, Tasks
<1>4. hgh = Idle => Members(RdyQueue) \subseteq {Idle}
  <2>1. CASE RdyQueue.last = 0
    BY <1>2, <2>1, MembersHaveEntries
  <2>2. CASE RdyQueue.last # 0 /\ hgh = Idle
    <3>1. RdyQueue.tab[1].TaskId = Idle
      BY <2>2 DEF GetTaskWithNearestDeadline
    <3>2. RdyQueue.last = 1
      BY <1>2, <2>2, <3>1, QueueEntries DEF ReadyInv, IdleBehind
    <3> QED BY <3>1, <3>2 DEF Members, Slots
  <2> QED BY <2>1, <2>2
<1>5. \A e \in Held(RdyQueue) : /\ e.Deadline \in Nat
                                /\ e.TaskId = Idle => e.Deadline = IdleDeadline
                                /\ e.TaskId # Idle => e.Deadline < IdleDeadline
  BY KeysOfQueue DEF ReadyInv
<1>6. KeyInv'
  BY DEF ReadyInv, KeyInv
<1>7. CASE hgh = RunningTask
  <2>1. UNCHANGED <<State, RdyQueue, RunningTask>>
    BY <1>7 DEF Sched, SchedFrom
  <2>2. RunningTask = Idle
    BY <1>1, <1>2, <1>7 DEF Tasks
  <2>3. ReadyInv'
    BY <1>6, <2>1 DEF ReadyInv, QueueInv, KeyMatchesTcb, IdleBehind, ReadyOnce, boot
  <2> HIDE DEF hgh
  <2> QED BY <1>2, <1>4, <1>7, <2>1, <2>2, <2>3, TaskNumbers DEF HandsOver
<1>8. CASE hgh # RunningTask
  <2>1. /\ RdyQueue' = IF Preempted(State, RunningTask)
                       THEN InsertInQueue(popped, RunningTask, AbsoluteDeadline[RunningTask])
                       ELSE popped
        /\ State' = IF Schedulable(hgh) /\ slept[hgh] = "READY"
                    THEN [slept EXCEPT ![hgh] = "EXECUTING"] ELSE slept
        /\ RunningTask' = hgh
    BY <1>8 DEF Sched, SchedFrom, Switch
  <2>2. IdleBehind(popped) /\ Members(popped) \subseteq Tasks
        /\ RunningTask \notin Members(popped)
    BY <1>1, <1>2, <1>5, RemoveKeepsIdleBehind
  <2> HIDE DEF popped, hgh
  <2>3. /\ GoodQueue(RdyQueue')
        /\ Members(RdyQueue') = Members(popped)
              \cup (IF Preempted(State, RunningTask) THEN {RunningTask} ELSE {})
        /\ Held(RdyQueue') \subseteq Held(RdyQueue)
              \cup {Entry(RunningTask, AbsoluteDeadline[RunningTask])}
    <3>2. CASE Preempted(State, RunningTask)
      BY <1>1, <1>2, <2>1, <2>2, <3>2, TaskInserted
    <3>3. CASE ~Preempted(State, RunningTask)
      BY <1>1, <2>1, <3>3
    <3> QED BY <3>2, <3>3
  <2>4. IdleBehind(RdyQueue')
    <3>1. CASE Preempted(State, RunningTask)
      <4>1. IF RunningTask = Idle THEN AbsoluteDeadline[RunningTask] = IdleDeadline
                                  ELSE AbsoluteDeadline[RunningTask] < IdleDeadline
        <5>1. CASE RunningTask = Idle
          BY <5>1 DEF ReadyInv, KeyInv
        <5>2. CASE RunningTask # Idle
          <6>1. RunningTask \in Users
            BY <1>2, <5>2 DEF Tasks
          <6>2. /\ AbsoluteDeadline[RunningTask] <= MrtkTime + Deadline[RunningTask]
                /\ MaxTime + Deadline[RunningTask] < IdleDeadline
            BY <6>1 DEF ReadyInv, KeyInv, IdleIsLast
          <6>3. /\ Deadline[RunningTask] \in Nat /\ MrtkTime \in 0..MaxTime /\ MaxTime \in Nat
            BY <6>1, KernelAssumption DEF TypesInv
          <6>4. IdleDeadline \in Int /\ AbsoluteDeadline[RunningTask] \in Int
            BY <1>2, HeapAssumption DEF IdleDeadline
          <6> QED BY <5>2, <6>2, <6>3, <6>4
        <5> QED BY <5>1, <5>2
      <4>2. \A e \in Held(popped) : /\ e.Deadline \in Nat
                                    /\ e.TaskId = Idle => e.Deadline = IdleDeadline
                                    /\ e.TaskId # Idle => e.Deadline < IdleDeadline
        BY <1>1, <1>5
      <4>3. IdleBehind(InsertInQueue(popped, RunningTask, AbsoluteDeadline[RunningTask]))
        BY <1>1, <1>2, <2>2, <4>1, <4>2, InsertKeepsIdleBehind
      <4> QED BY <2>1, <3>1, <4>3
    <3>2. CASE ~Preempted(State, RunningTask)
      BY <2>1, <2>2, <3>2
    <3> QED BY <3>1, <3>2
  <2>5. /\ slept \in [Tasks -> MsgStates]
        /\ \A t \in Tasks : t # RunningTask => slept[t] = State[t]
        /\ Preempted(State, RunningTask) => /\ State[RunningTask] = "EXECUTING"
                                            /\ slept[RunningTask] = "READY"
        /\ ~Preempted(State, RunningTask) => slept = State
    BY <1>2 DEF Preempted
  <2>6. \A t \in Users : Schedulable(t)
    BY TaskNumbers DEF Schedulable
  <2> HIDE DEF slept
  <2>7. /\ State' \in [Tasks -> MsgStates]
        /\ \A t \in Tasks : t # hgh => State'[t] = slept[t]
    BY <1>1, <1>2, <2>1, <2>5
  <2>8. hgh \in Users => State[hgh] = "READY" /\ State'[hgh] = "EXECUTING"
    <3>1. ASSUME hgh \in Users PROVE State[hgh] = "READY"
      <4>1. hgh \in Members(RdyQueue) /\ State[hgh] # "SLEEPING"
        BY <1>1, <1>2, <3>1 DEF MsgStates
      <4> QED BY <3>1, <4>1 DEF ReadyInv, ReadyOnce
    <3> QED BY <1>1, <1>8, <2>1, <2>5, <2>6, <3>1
  <2>9. ASSUME NEW t \in Users
        PROVE  /\ State'[t] = "SUSPENDED" <=> State[t] = "SUSPENDED"
               /\ State'[t] = "WAITING" <=> State[t] = "WAITING"
               /\ t \in Members(RdyQueue') <=>
                     \/ t \in Members(RdyQueue) /\ t # RunningTask'
                     \/ t = RunningTask /\ State[t] = "EXECUTING"
               /\ t \in Members(RdyQueue') <=> State'[t] = "READY"
    <3>1. /\ t \in Tasks /\ State[t] # "SLEEPING"
          /\ t \in Members(RdyQueue) <=> State[t] = "READY"
      BY <1>2, TaskNumbers DEF ReadyInv, ReadyOnce, MsgStates
    <3>2. Preempted(State, RunningTask) <=>
             Schedulable(RunningTask) /\ State[RunningTask] = "EXECUTING"
      BY DEF Preempted
    <3>3. CASE t = hgh
      BY <1>1, <1>8, <2>1, <2>3, <2>8, <3>3
    <3>4. CASE t # hgh /\ t = RunningTask
      BY <1>1, <1>2, <2>3, <2>5, <2>6, <2>7, <3>1, <3>2, <3>4
    <3>5. CASE t # hgh /\ t # RunningTask
      BY <1>1, <2>1, <2>3, <2>5, <2>7, <3>1, <3>5
    <3> QED BY <3>3, <3>4, <3>5
  <2>10. Idle \in Members(RdyQueue') => State'[Idle] \in {"READY", "SLEEPING"}
    <3>1. ASSUME Idle \in Members(RdyQueue')
          PROVE  State'[Idle] \in {"READY", "SLEEPING"}
      <4>1. Idle # hgh
        BY <1>1, <1>8, <2>3, <3>1
      <4>2. State'[Idle] = slept[Idle]
        BY <2>7, <4>1, TaskNumbers
      <4>3. CASE Idle = RunningTask
        BY <1>1, <1>2, <2>3, <2>5, <3>1, <4>2, <4>3
      <4>4. CASE Idle # RunningTask
        <5>1. Idle \in Members(RdyQueue)
          BY <1>1, <2>3, <3>1, <4>4
        <5> QED BY <2>5, <4>2, <4>4, <5>1, TaskNumbers DEF ReadyInv, ReadyOnce
      <4> QED BY <4>3, <4>4
    <3> QED BY <3>1
  <2>11. ReadyOnce'
    <3>1. Distinct(RdyQueue)' /\ RunningTask' \notin Members(RdyQueue')
      BY <1>1, <1>8, <2>1, <2>3, MembersHaveEntries
    <3> QED BY <2>9, <2>10, <3>1 DEF ReadyOnce
  <2>12. QueueInv'
    <3>1. Members(RdyQueue') \subseteq Tasks
      BY <1>1, <1>2, <2>3
    <3>2. KeyMatchesTcb'
      <4> SUFFICES ASSUME NEW e \in Held(RdyQueue')
                   PROVE  e.Deadline = AbsoluteDeadline[e.TaskId]
        BY DEF KeyMatchesTcb
      <4>1. CASE e \in Held(RdyQueue)
        BY <4>1 DEF ReadyInv, QueueInv, KeyMatchesTcb
      <4>2. CASE e = Entry(RunningTask, AbsoluteDeadline[RunningTask])
        BY <4>2 DEF Entry
      <4> QED BY <2>3, <4>1, <4>2
    <3> QED BY <2>3, <3>1, <3>2 DEF QueueInv
  <2>13. ReadyInv'
    <3>1. IdleBehind(RdyQueue)'
      BY <2>4 DEF IdleBehind
    <3> QED BY <1>6, <2>11, <2>12, <3>1 DEF ReadyInv
  <2> QED BY <1>1, <1>3, <1>4, <1>8, <2>1, <2>7, <2>8, <2>9, <2>13 DEF HandsOver
<1> QED BY <1>7, <1>8

-----------------------------------------------------------------------------
(* Before the boot the queue of messages and the ready queue are empty.    *)
LEMMA InitMsgInv == OneToOne /\ MsgInit => MsgInv
<1> SUFFICES ASSUME OneToOne, MsgInit PROVE MsgInv
  OBVIOUS
<1> USE TaskNumbers, KernelAssumption, HeapAssumption DEF MsgInit, Init
<1>1. /\ GoodQueue(RdyQueue) /\ Members(RdyQueue) = {} /\ Held(RdyQueue) = {}
      /\ RdyQueue.last = 0 /\ Distinct(RdyQueue)
  BY InitIsGood, MembersHaveEntries DEF QueuesInit
<1>2. TypesInv
  <2>1. AbsoluteDeadline \in [Tasks -> 0..(U32 - 1)]
    BY DEF IdleDeadline, Tasks
  <2>2. State \in [Tasks -> MsgStates] /\ pc \in [Tasks -> MsgPCs]
    BY DEF MsgStates, MsgPCs
  <2>3. /\ Delay \in [Tasks -> Nat] /\ RunningTask = 0 /\ MrtkRunning = FALSE
        /\ MrtkTime \in 0..MaxTime /\ toPlace \subseteq Users /\ due \in [Tasks -> Nat]
        /\ count \in 0..NotTicking /\ isrOwner \in Tasks \cup {NoOwner}
    OBVIOUS
  <2> QED BY ONLY <2>1, <2>2, <2>3 DEF TypesInv
<1>3. CallTypes /\ ~IsTimeoutEnable /\ TaskId = 0
  BY DEF CallTypes, Qcreate
<1>4. ReadyInv
  <2>1. KeyInv
    BY DEF KeyInv
  <2>2. QueueInv /\ IdleBehind(RdyQueue)
    BY <1>1 DEF QueueInv, KeyMatchesTcb, IdleBehind
  <2>3. ReadyOnce
    BY <1>1 DEF ReadyOnce
  <2> QED BY <2>1, <2>2, <2>3 DEF ReadyInv
<1>5. StartInv /\ IdleInv /\ ~Ticking
  BY <1>1, <1>3 DEF StartInv, IdleInv, Ticking, Runs
<1>6. \A t \in Tasks : pc[t] = "new" /\ ~Runs(t)
  BY DEF Runs
<1>7. PlaceInv /\ PendInv /\ SendInv
  BY <1>3, <1>5, <1>6, TheTasks DEF PlaceInv, Place, PendInv, SendInv, ReceiverReady
<1>8. RingInv
  BY QcreateEmpty
<1> QED BY <1>2, <1>3, <1>4, <1>5, <1>7, <1>8 DEF MsgInv, TasksInv

(* A call that neither blocks nor wakes anyone.                            *)
LEMMA CallKeeps ==
    ASSUME OneToOne, MsgInv, NEW t \in Tasks, InTask(t),
           pc[t] \in {"new", "app", "woken"}, pc' = [pc EXCEPT ![t] = "app"],
           UNCHANGED <<tcb, sched, boot, isr, MrtkTime, due, TaskId>>,
           CallTypes', IsTimeoutEnable' => IsTimeoutEnable,
           t # Receiver => UNCHANGED <<QEntries, IsTimeoutEnable>>,
           posted'[Sender] \in {posted[Sender], due[Sender]}
    PROVE  TasksInv'
<1> USE TheTasks, TaskNumbers DEF MsgInv, TasksInv
<1>1. /\ MrtkRunning /\ Runs(t) /\ Runs(t)'
      /\ UNCHANGED <<State, Delay, AbsoluteDeadline, RdyQueue, RunningTask,
                     MrtkRunning, toPlace, count, isrOwner, MrtkTime, due, TaskId>>
  BY DEF InTask, Runs, tcb, sched, boot, isr
<1>2. /\ pc' \in [Tasks -> MsgPCs] /\ pc'[t] = "app"
      /\ \A u \in Tasks \ {t} : pc'[u] = pc[u]
      /\ \A u \in Tasks : Runs(u)' <=> Runs(u)
      /\ \A u \in Tasks : Runs(u) <=> u = t
  BY <1>1 DEF TypesInv, MsgPCs, Runs
<1>3. TypesInv' /\ ReadyInv'
  BY <1>1, <1>2 DEF TypesInv, ReadyInv, QueueInv, KeyMatchesTcb, KeyInv, IdleBehind,
                    ReadyOnce
<1>4. StartInv' /\ IdleInv'
  BY <1>1, <1>2 DEF StartInv, IdleInv, Ticking
<1>5. PlaceInv'
  <2> SUFFICES ASSUME NEW u \in Users PROVE Place(u)'
    BY DEF PlaceInv
  <2>1. u \in Tasks /\ Place(u)
    BY DEF PlaceInv
  <2>2. CASE u = t
    <3>1. State[u] = "EXECUTING" /\ pc'[u] = "app"
      BY <1>2, <2>1, <2>2 DEF Place
    <3> QED BY <1>1, <1>2, <2>2, <3>1 DEF Place
  <2>3. CASE u # t
    <3>1. pc'[u] = pc[u] /\ (Runs(u)' <=> Runs(u))
      BY <1>2, <2>1, <2>3
    <3> QED BY <1>1, <2>1, <3>1 DEF Place
  <2> QED BY <2>2, <2>3
<1>6. PendInv'
  <2>1. CASE t = Receiver
    BY <1>1, <1>2, <2>1 DEF PendInv
  <2>2. CASE t # Receiver
    <3>1. pc'[Receiver] = pc[Receiver] /\ (CanRun(Receiver)' <=> CanRun(Receiver))
      BY <1>1, <1>2, <2>2 DEF CanRun
    <3>2. (TimedOut(Receiver)' <=> TimedOut(Receiver)) /\ QEntries' = QEntries
      BY <1>1, <2>2 DEF TimedOut
    <3> QED BY <1>1, <1>2, <2>2, <3>1, <3>2 DEF PendInv
  <2> QED BY <2>1, <2>2
<1>7. SendInv'
  <2>1. due[Sender] \in Nat
    <3>1. due \in [Tasks -> Nat] /\ Sender \in Tasks
      BY DEF TypesInv
    <3> QED BY ONLY <3>1
  <2>2. posted[Sender] >= due[Sender] => posted'[Sender] >= due[Sender]
    BY <2>1
  <2> QED BY <1>1, <2>2 DEF SendInv, ReceiverReady, Ticking
<1> QED BY <1>3, <1>4, <1>5, <1>6, <1>7

(* The mrtk_sched that a task calls in mrtk_wait, in a pend or in a post.  *)
LEMMA CallSchedKeeps ==
    ASSUME OneToOne, IdleIsLast, MsgInv, NEW t \in Users, InTask(t), Sched, NEW where,
           \/ pc[t] \in {"wait", "post"} /\ where = "app"
           \/ pc[t] = "pend" /\ where = "woken",
           pc' = [pc EXCEPT ![t] = where],
           UNCHANGED <<Delay, AbsoluteDeadline, boot, isr, MrtkTime, due, msgVars>>
    PROVE  TasksInv'
<1> USE TheTasks, TaskNumbers DEF MsgInv, TasksInv
<1>1. /\ MrtkRunning /\ RunningTask = t /\ toPlace = {} /\ t # Idle
      /\ UNCHANGED <<Delay, AbsoluteDeadline, MrtkRunning, toPlace, count, isrOwner,
                     MrtkTime, due, QEntries, TaskId, IsTimeoutEnable, error, msg, posted>>
  BY DEF InTask, boot, isr, StartInv, msgVars, ring, event, calls
<1>2. /\ pc' \in [Tasks -> MsgPCs] /\ pc'[t] = where
      /\ \A u \in Tasks \ {t} : pc'[u] = pc[u]
      /\ \A u \in Tasks : Runs(u) <=> u = t
      /\ \A u \in Tasks : Runs(u)' <=> u = RunningTask'
  BY <1>1 DEF TypesInv, MsgPCs, Runs
<1>3. ~Ticking /\ ~Ticking'
  BY <1>1, <1>2 DEF IdleInv, Ticking
<1>4. HandsOver
  BY <1>1, SchedHandsOver
<1>5. /\ State' \in [Tasks -> MsgStates] /\ RunningTask' \in Tasks /\ ReadyInv'
      /\ RunningTask' # t
      /\ RunningTask' = Idle => Members(RdyQueue) \subseteq {Idle}
      /\ RunningTask' # Idle => /\ RunningTask' \in Members(RdyQueue)
                                /\ State'[RunningTask'] = "EXECUTING"
      /\ \A u \in Users : /\ State'[u] = "SUSPENDED" <=> State[u] = "SUSPENDED"
                          /\ State'[u] = "WAITING" <=> State[u] = "WAITING"
      /\ \A u \in Users : u \in Members(RdyQueue') <=>
            \/ u \in Members(RdyQueue) /\ u # RunningTask'
            \/ u = t /\ State[u] = "EXECUTING"
  BY <1>1, <1>4 DEF HandsOver
<1>6. TypesInv' /\ CallTypes' /\ StartInv'
  BY <1>1, <1>2, <1>5 DEF TypesInv, CallTypes, StartInv
<1>7. /\ pc[t] = "post" => t = Sender /\ (TaskId = Receiver => Receiver \in Members(RdyQueue))
      /\ pc[t] = "pend" => t = Receiver
      /\ State[t] = "EXECUTING" <=> pc[t] = "post"
  BY <1>2 DEF PlaceInv, Place
<1>8. IdleInv'
  <2> SUFFICES ASSUME RunningTask' = Idle
               PROVE  \/ Members(RdyQueue') = {}
                      \/ TaskId = 0 /\ Members(RdyQueue') = {Sender}
    BY <1>1, <1>2, <1>3 DEF IdleInv
  <2>1. Members(RdyQueue') \subseteq Users
    <3>1. Members(RdyQueue') \subseteq Tasks /\ Idle \notin Members(RdyQueue')
      BY <1>1, <1>5 DEF ReadyInv, QueueInv, ReadyOnce
    <3> QED BY <3>1 DEF Tasks
  <2>2. \A u \in Users : u \in Members(RdyQueue') <=> u = t /\ pc[t] = "post"
    BY <1>5, <1>7
  <2>3. CASE pc[t] = "post"
    <3>1. t = Sender /\ TaskId # Receiver
      BY <1>5, <1>7, <2>3
    <3>2. TaskId = 0
      BY <3>1 DEF PendInv
    <3> QED BY <2>1, <2>2, <2>3, <3>1, <3>2
  <2>4. CASE pc[t] # "post"
    BY <2>1, <2>2, <2>4
  <2> QED BY <2>3, <2>4
<1>9. PlaceInv'
  <2> SUFFICES ASSUME NEW u \in Users PROVE Place(u)'
    BY DEF PlaceInv
  <2>1. u \in Tasks /\ Place(u)
    BY DEF PlaceInv
  <2>2. CASE u = t
    <3>1. ~Runs(u)' /\ pc'[u] = where
      BY <1>2, <1>5, <2>1, <2>2
    <3> QED BY <1>7, <2>2, <3>1 DEF Place
  <2>3. CASE u # t
    <3>1. pc'[u] = pc[u] /\ pc[u] \in {"new", "app", "woken"}
      BY <1>2, <2>1, <2>3 DEF Place
    <3>2. Runs(u)' => State'[u] = "EXECUTING"
      BY <1>2, <1>5, <2>1
    <3> QED BY <2>1, <3>1, <3>2 DEF Place
  <2> QED BY <2>2, <2>3
<1>10. PendInv'
  <2>1. CASE t = Receiver
    <3>1. ~Runs(t)' /\ pc'[t] = where
      BY <1>2, <1>5
    <3>2. pc[t] = "post" => FALSE
      BY <1>7, <2>1
    <3>3. t \notin Members(RdyQueue')
      <4>1. t \notin Members(RdyQueue)
        BY <1>1 DEF ReadyInv, ReadyOnce
      <4> QED BY <1>5, <1>7, <3>2, <4>1
    <3>4. CASE pc[t] = "wait"
      BY <1>1, <2>1, <3>1, <3>4 DEF PendInv
    <3>5. CASE pc[t] = "pend"
      BY <1>1, <1>5, <2>1, <3>1, <3>3, <3>5 DEF PendInv, CanRun
    <3> QED BY <3>2, <3>4, <3>5
  <2>2. CASE t # Receiver
    <3>1. pc'[Receiver] = pc[Receiver] /\ ~Runs(Receiver)
      BY <1>2, <2>2
    <3>2. CanRun(Receiver)' <=> CanRun(Receiver)
      BY <1>2, <1>5, <2>2, <3>1 DEF CanRun
    <3>3. TimedOut(Receiver)' <=> TimedOut(Receiver)
      BY <1>1 DEF TimedOut
    <3> QED BY <1>1, <1>5, <3>1, <3>2, <3>3 DEF PendInv
  <2> QED BY <2>1, <2>2
<1>11. SendInv'
  <2>1. ReceiverReady' => ReceiverReady
    <3>1. Receiver = t => pc[t] # "post"
      BY <1>7
    <3> QED BY <1>1, <1>5, <1>7, <3>1 DEF ReceiverReady
  <2> QED BY <1>1, <1>3, <1>5, <2>1 DEF SendInv
<1> QED BY <1>5, <1>6, <1>8, <1>9, <1>10, <1>11

-----------------------------------------------------------------------------
(* A running task that blocks is in no queue.                              *)
LEMMA BlockReady ==
    ASSUME TypesInv, ReadyInv, MrtkRunning, NEW t \in Users, RunningTask = t,
           NEW s \in {"SUSPENDED", "WAITING"}, State' = [State EXCEPT ![t] = s],
           UNCHANGED <<AbsoluteDeadline, RdyQueue, RunningTask, MrtkRunning, toPlace, MrtkTime>>
    PROVE  ReadyInv'
<1> USE TaskNumbers
<1>1. QueueInv' /\ KeyInv' /\ IdleBehind(RdyQueue)'
  BY DEF ReadyInv, QueueInv, KeyMatchesTcb, KeyInv, IdleBehind
<1>2. /\ t \in Tasks /\ State'[t] = s /\ \A u \in Tasks \ {t} : State'[u] = State[u]
      /\ t \notin Members(RdyQueue)
  BY DEF TypesInv, ReadyInv, ReadyOnce
<1>3. ReadyOnce'
  <2>1. Distinct(RdyQueue)' /\ RunningTask' \notin Members(RdyQueue')
    BY <1>2 DEF ReadyInv, ReadyOnce, Distinct
  <2>2. ASSUME NEW u \in Users \ toPlace', State'[u] # "SLEEPING"
        PROVE  u \in Members(RdyQueue') <=> State'[u] = "READY"
    <3>1. CASE u = t
      BY <1>2, <3>1
    <3>2. CASE u # t
      BY <1>2, <2>2, <3>2 DEF ReadyInv, ReadyOnce
    <3> QED BY <3>1, <3>2
  <2>3. Idle \in Members(RdyQueue') => State'[Idle] \in {"READY", "SLEEPING"}
    BY <1>2 DEF ReadyInv, ReadyOnce
  <2> QED BY <2>1, <2>2, <2>3 DEF ReadyOnce
<1> QED BY <1>1, <1>3 DEF ReadyInv

(* A task that blocks, in mrtk_wait or in a pend, is in no queue.          *)
LEMMA BlockKeeps ==
    ASSUME OneToOne, MsgInv, NEW t \in Users, InTask(t), pc[t] \in {"new", "app"},
           NEW s, NEW where,
           \/ s = "SUSPENDED" /\ where = "wait"
           \/ s \in {"SUSPENDED", "WAITING"} /\ where = "pend" /\ t = Receiver,
           State' = [State EXCEPT ![t] = s], pc' = [pc EXCEPT ![t] = where],
           Delay' \in [Tasks -> Nat], due' \in [Tasks -> Nat],
           UNCHANGED <<AbsoluteDeadline, sched, boot, isr, MrtkTime>>
    PROVE  /\ TypesInv' /\ ReadyInv' /\ StartInv' /\ IdleInv' /\ PlaceInv'
           /\ ~Ticking /\ ~Ticking'
           /\ State'[t] = s /\ pc'[t] = where
           /\ \A u \in Tasks \ {t} : State'[u] = State[u] /\ pc'[u] = pc[u]
           /\ t \notin Members(RdyQueue)
           /\ \A u \in Tasks : (Runs(u) <=> u = t) /\ (Runs(u)' <=> u = t)
           /\ RdyQueue' = RdyQueue
<1> USE TheTasks, TaskNumbers DEF MsgInv, TasksInv
<1>1. /\ MrtkRunning /\ RunningTask = t /\ toPlace = {} /\ t # Idle /\ t \in Tasks
      /\ UNCHANGED <<AbsoluteDeadline, RdyQueue, RunningTask, MrtkRunning, toPlace, count,
                     isrOwner, MrtkTime>>
  BY DEF InTask, sched, boot, isr, StartInv
<1>2. /\ State' \in [Tasks -> MsgStates] /\ pc' \in [Tasks -> MsgPCs]
      /\ State'[t] = s /\ pc'[t] = where
      /\ \A u \in Tasks \ {t} : State'[u] = State[u] /\ pc'[u] = pc[u]
      /\ \A u \in Tasks : (Runs(u) <=> u = t) /\ (Runs(u)' <=> u = t)
  BY <1>1 DEF TypesInv, MsgStates, MsgPCs, Runs
<1>3. ~Ticking /\ ~Ticking'
  BY <1>1, <1>2 DEF IdleInv, Ticking
<1>4. t \notin Members(RdyQueue) /\ s # "READY"
  BY <1>1 DEF ReadyInv, ReadyOnce
<1>5. TypesInv'
  BY <1>1, <1>2 DEF TypesInv
<1>6. ReadyInv'
  BY <1>1, BlockReady
<1>7. StartInv' /\ IdleInv'
  BY <1>1, <1>2, <1>3 DEF StartInv, IdleInv
<1>8. PlaceInv'
  <2> SUFFICES ASSUME NEW u \in Users PROVE Place(u)'
    BY DEF PlaceInv
  <2>1. u \in Tasks /\ Place(u)
    BY DEF PlaceInv
  <2>2. CASE u = t
    BY <1>2, <2>2 DEF Place
  <2>3. CASE u # t
    <3>1. pc'[u] = pc[u] /\ pc[u] \in {"new", "app", "woken"} /\ ~Runs(u)'
      BY <1>2, <2>1, <2>3 DEF Place
    <3> QED BY <2>1, <3>1 DEF Place
  <2> QED BY <2>2, <2>3
<1> QED BY <1>1, <1>2, <1>3, <1>4, <1>5, <1>6, <1>7, <1>8

(* A receiver does not call mrtk_wait once the event names it.             *)
LEMMA WaitBeginKeeps ==
    ASSUME OneToOne, MsgInv, NEW t \in Users, NEW d \in WaitTimes, WaitBegin(t, d),
           UNCHANGED msgVars, t = Receiver => TaskId # t
    PROVE  TasksInv'
<1> USE TheTasks, TaskNumbers DEF MsgInv, TasksInv
<1>1. /\ InTask(t) /\ pc[t] \in {"new", "app"}
      /\ State' = [State EXCEPT ![t] = "SUSPENDED"] /\ pc' = [pc EXCEPT ![t] = "wait"]
      /\ Delay' = [Delay EXCEPT ![t] = d]
      /\ due' = [due EXCEPT ![t] = MrtkTime + d]
      /\ UNCHANGED <<AbsoluteDeadline, sched, boot, isr, MrtkTime>>
  BY DEF WaitBegin
<1>2. Delay' \in [Tasks -> Nat] /\ due' \in [Tasks -> Nat]
  <2>1. d \in Nat /\ MrtkTime \in Nat /\ MrtkTime + d \in Nat
    BY KernelAssumption DEF TypesInv
  <2> QED BY <1>1, <2>1 DEF TypesInv
<1> DEFINE s == "SUSPENDED" where == "wait"
<1>3. /\ TypesInv' /\ ReadyInv' /\ StartInv' /\ IdleInv' /\ PlaceInv'
      /\ ~Ticking /\ ~Ticking'
      /\ State'[t] = s /\ pc'[t] = where
      /\ \A u \in Tasks \ {t} : State'[u] = State[u] /\ pc'[u] = pc[u]
      /\ t \notin Members(RdyQueue)
      /\ \A u \in Tasks : (Runs(u) <=> u = t) /\ (Runs(u)' <=> u = t)
      /\ RdyQueue' = RdyQueue
  <2>1. \/ s = "SUSPENDED" /\ where = "wait"
        \/ s \in {"SUSPENDED", "WAITING"} /\ where = "pend" /\ t = Receiver
    OBVIOUS
  <2>2. State' = [State EXCEPT ![t] = s] /\ pc' = [pc EXCEPT ![t] = where]
    BY <1>1
  <2>3. /\ InTask(t) /\ pc[t] \in {"new", "app"}
        /\ UNCHANGED <<AbsoluteDeadline, sched, boot, isr, MrtkTime>>
    BY <1>1
  <2>4. OneToOne /\ MsgInv /\ t \in Users
    OBVIOUS
  <2> HIDE DEF s, where, MsgInv
  <2> QED BY ONLY <1>2, <2>1, <2>2, <2>3, <2>4, BlockKeeps
<1>4. UNCHANGED <<QEntries, TaskId, IsTimeoutEnable, error, msg, posted>>
  BY DEF msgVars, ring, event, calls
<1>5. CallTypes'
  BY <1>4 DEF CallTypes
<1>6. PendInv'
  <2>1. CASE t = Receiver
    <3>1. TaskId = 0
      BY <2>1 DEF PendInv
    <3> QED BY <1>3, <1>4, <2>1, <3>1 DEF PendInv
  <2>2. CASE t # Receiver
    <3>1. /\ pc'[Receiver] = pc[Receiver] /\ State'[Receiver] = State[Receiver]
          /\ Runs(Receiver)' <=> Runs(Receiver)
          /\ CanRun(Receiver)' <=> CanRun(Receiver)
      BY <1>3, <2>2 DEF CanRun
    <3>2. TimedOut(Receiver)' <=> TimedOut(Receiver)
      <4>1. Delay'[Receiver] = Delay[Receiver]
        BY <1>1, <2>2 DEF TypesInv
      <4> QED BY <1>4, <4>1 DEF TimedOut
    <3> QED BY <1>4, <3>1, <3>2 DEF PendInv
  <2> QED BY <2>1, <2>2
<1>7. SendInv'
  <2>1. CASE t = Sender
    BY <1>3, <2>1 DEF SendInv
  <2>2. CASE t # Sender
    <3>1. State'[Sender] = State[Sender] /\ due'[Sender] = due[Sender]
      BY <1>1, <1>3, <2>2 DEF TypesInv
    <3> QED BY <1>3, <1>4, <3>1 DEF SendInv, ReceiverReady
  <2> QED BY <2>1, <2>2
<1> QED BY <1>3, <1>5, <1>6, <1>7

(* The receiver blocks on an empty queue.                                  *)
LEMMA QpendBlockKeeps ==
    ASSUME OneToOne, MsgInv, NEW timeout \in Timeouts, QpendBlock(Receiver, timeout)
    PROVE  TasksInv'
<1> USE TheTasks, TaskNumbers DEF MsgInv, TasksInv
<1> DEFINE s == IF timeout = 0 THEN "WAITING" ELSE "SUSPENDED"
           where == "pend"
<1>1. /\ InTask(Receiver) /\ pc[Receiver] \in {"new", "app"} /\ QEntries = 0
      /\ TaskId' = Receiver
      /\ State' = [State EXCEPT ![Receiver] = s] /\ pc' = [pc EXCEPT ![Receiver] = where]
      /\ Delay' = Delay \/ Delay' = [Delay EXCEPT ![Receiver] = timeout]
      /\ due' = due \/ due' = [due EXCEPT ![Receiver] = MrtkTime + timeout]
      /\ IsTimeoutEnable' = (timeout # 0)
      /\ UNCHANGED <<AbsoluteDeadline, sched, boot, isr, MrtkTime>>
      /\ UNCHANGED <<QEntries, error, msg, posted>>
  BY DEF QpendBlock, Calls, RememberReceiver, ring, calls
<1>2. timeout \in Nat
  BY MsgQueueAssumption
<1>3. Delay' \in [Tasks -> Nat] /\ due' \in [Tasks -> Nat]
  <2>1. MrtkTime \in Nat /\ MrtkTime + timeout \in Nat
    BY <1>2, KernelAssumption DEF TypesInv
  <2> QED BY <1>1, <1>2, <2>1 DEF TypesInv
<1>4. /\ TypesInv' /\ ReadyInv' /\ StartInv' /\ IdleInv' /\ PlaceInv'
      /\ ~Ticking /\ ~Ticking'
      /\ State'[Receiver] = s /\ pc'[Receiver] = where
      /\ Receiver \notin Members(RdyQueue)
      /\ Runs(Receiver)' /\ RdyQueue' = RdyQueue
  <2>1. s \in {"SUSPENDED", "WAITING"} /\ where = "pend"
    OBVIOUS
  <2>2. InTask(Receiver) /\ pc[Receiver] \in {"new", "app"}
    BY <1>1
  <2>3. State' = [State EXCEPT ![Receiver] = s] /\ pc' = [pc EXCEPT ![Receiver] = where]
    BY <1>1
  <2>4. UNCHANGED <<AbsoluteDeadline, sched, boot, isr, MrtkTime>>
    BY <1>1
  <2> HIDE DEF s, where
  <2> QED BY <1>3, <2>1, <2>2, <2>3, <2>4, BlockKeeps
<1>5. IsTimeoutEnable' = (timeout # 0) /\ (s = "SUSPENDED" <=> timeout # 0)
  BY <1>1
<1>6. CallTypes'
  BY <1>1, <1>5 DEF CallTypes
<1>7. PendInv'
  <2>1. IsTimeoutEnable' => ~NoPendTimeout
    BY <1>5 DEF NoPendTimeout
  <2> QED BY <1>1, <1>4, <1>5, <2>1 DEF PendInv
<1>8. SendInv'
  BY <1>4 DEF SendInv, ReceiverReady
<1> QED BY <1>4, <1>6, <1>7, <1>8

-----------------------------------------------------------------------------
(* A user task joins the ready queue, once, no later than its deadline     *)
(* from now.                                                               *)
LEMMA JoinKeeps ==
    ASSUME IdleIsLast, TypesInv, ReadyInv, NEW t \in Users, t \notin Members(RdyQueue),
           MrtkRunning => RunningTask # t,
           NEW d \in 0..(U32 - 1), d <= MrtkTime + Deadline[t],
           RdyQueue' = InsertInQueue(RdyQueue, t, d),
           AbsoluteDeadline'[t] = d,
           \A u \in Tasks \ {t} : AbsoluteDeadline'[u] = AbsoluteDeadline[u],
           State'[t] = "READY",
           \A u \in Tasks \ {t} : State'[u] = State[u],
           toPlace \subseteq toPlace' \cup {t},
           UNCHANGED <<RunningTask, MrtkRunning, MrtkTime>>
    PROVE  ReadyInv' /\ Members(RdyQueue') = Members(RdyQueue) \cup {t}
<1> USE TaskNumbers
<1>1. /\ GoodQueue(RdyQueue) /\ Members(RdyQueue) \subseteq Tasks /\ t \in Tasks /\ t # Idle
  BY DEF ReadyInv, QueueInv
<1>2. /\ GoodQueue(RdyQueue')
      /\ Members(RdyQueue') = Members(RdyQueue) \cup {t}
      /\ Held(RdyQueue') = Held(RdyQueue) \cup {Entry(t, d)}
  BY <1>1, TaskInserted
<1>3. d < IdleDeadline
  <2>1. MaxTime + Deadline[t] < IdleDeadline
    BY DEF IdleIsLast
  <2>2. Deadline[t] \in Nat /\ MrtkTime \in 0..MaxTime /\ MaxTime \in Nat
    BY KernelAssumption DEF TypesInv
  <2>3. IdleDeadline \in Int /\ d \in Int
    BY HeapAssumption DEF IdleDeadline
  <2> QED BY <2>1, <2>2, <2>3
<1>4. IdleBehind(RdyQueue')
  <2>1. \A e \in Held(RdyQueue) : /\ e.Deadline \in Nat
                                  /\ e.TaskId = Idle => e.Deadline = IdleDeadline
                                  /\ e.TaskId # Idle => e.Deadline < IdleDeadline
    BY KeysOfQueue DEF ReadyInv
  <2>2. IdleBehind(RdyQueue)
    BY DEF ReadyInv
  <2> QED BY <1>1, <1>3, <2>1, <2>2, InsertKeepsIdleBehind
<1>5. KeyInv'
  BY <1>1 DEF ReadyInv, KeyInv
<1>6. QueueInv'
  <2>1. Members(RdyQueue') \subseteq Tasks
    BY <1>1, <1>2
  <2>2. KeyMatchesTcb'
    <3> SUFFICES ASSUME NEW e \in Held(RdyQueue')
                 PROVE  e.Deadline = AbsoluteDeadline'[e.TaskId]
      BY DEF KeyMatchesTcb
    <3>1. CASE e \in Held(RdyQueue)
      <4>1. e.TaskId \in Tasks \ {t}
        BY <1>1, <3>1, HeldAreMembers
      <4> QED BY <3>1, <4>1 DEF ReadyInv, QueueInv, KeyMatchesTcb
    <3>2. CASE e = Entry(t, d)
      BY <3>2 DEF Entry
    <3> QED BY <1>2, <3>1, <3>2
  <2> QED BY <1>2, <2>1, <2>2 DEF QueueInv
<1>7. ReadyOnce'
  <2>1. Distinct(RdyQueue)'
    BY <1>2, MembersHaveEntries
  <2>2. ASSUME NEW u \in Users \ toPlace', State'[u] # "SLEEPING"
        PROVE  u \in Members(RdyQueue') <=> State'[u] = "READY"
    <3>1. CASE u = t
      BY <1>2, <3>1
    <3>2. CASE u # t
      <4>1. u \in Users \ toPlace /\ u \in Tasks
        BY <2>2, <3>2
      <4> QED BY <1>2, <2>2, <3>2, <4>1 DEF ReadyInv, ReadyOnce
    <3> QED BY <3>1, <3>2
  <2>3. Idle \in Members(RdyQueue') => State'[Idle] \in {"READY", "SLEEPING"}
    BY <1>1, <1>2 DEF ReadyInv, ReadyOnce
  <2>4. MrtkRunning' => RunningTask' \notin Members(RdyQueue')
    BY <1>2 DEF ReadyInv, ReadyOnce
  <2> QED BY <2>1, <2>2, <2>3, <2>4 DEF ReadyOnce
<1>8. IdleBehind(RdyQueue)'
  BY <1>4 DEF IdleBehind
<1> QED BY <1>2, <1>5, <1>6, <1>7, <1>8 DEF ReadyInv

-----------------------------------------------------------------------------
(* Nothing is pending before the boot.                                     *)
LEMMA BootKeepsCalls ==
    ASSUME OneToOne, MsgInv, TaskId = 0, TaskId' = TaskId,
           \A t \in Tasks : pc[t] = "new" /\ State'[t] \in {"READY", "EXECUTING"},
           RunningTask' \in Users /\ MrtkRunning' => State'[RunningTask'] = "EXECUTING",
           UNCHANGED <<pc, QEntries, IsTimeoutEnable, count>>
    PROVE  PlaceInv' /\ PendInv' /\ (count = NotTicking => SendInv')
<1> USE TheTasks, TaskNumbers DEF MsgInv, TasksInv
<1>1. PlaceInv'
  BY DEF PlaceInv, Place, Runs
<1>2. PendInv'
  BY DEF PendInv
<1>3. count = NotTicking => SendInv'
  BY DEF SendInv, ReceiverReady, Ticking
<1> QED BY <1>1, <1>2, <1>3

(* mrtk_partitioned puts each task in the ready queue, once.               *)
LEMMA PlaceReady ==
    ASSUME IdleIsLast, TypesInv, ReadyInv, StartInv, NEW t \in Users, PlaceTask(t)
    PROVE  TypesInv' /\ ReadyInv' /\ Members(RdyQueue') = Members(RdyQueue) \cup {t}
<1> USE TaskNumbers
<1> DEFINE d == Deadline[t]
<1>1. /\ t \in toPlace /\ ~MrtkRunning
      /\ RdyQueue' = InsertInQueue(RdyQueue, t, d)
      /\ toPlace' = toPlace \ {t}
      /\ UNCHANGED <<State, Delay, AbsoluteDeadline, RunningTask, MrtkRunning, count,
                     isrOwner, MrtkTime, pc, due>>
  BY DEF PlaceTask, StartInv, tcb, isr
<1>2. d \in 0..(U32 - 1) /\ d <= MrtkTime + Deadline[t]
  <2>1. d \in Nat /\ MrtkTime \in Nat /\ MaxTime + d < U32 /\ MaxTime \in Nat
    BY KernelAssumption DEF TypesInv
  <2> QED BY <2>1, HeapAssumption
<1>3. /\ AbsoluteDeadline'[t] = d
      /\ \A u \in Tasks \ {t} : AbsoluteDeadline'[u] = AbsoluteDeadline[u]
      /\ State'[t] = "READY" /\ \A u \in Tasks \ {t} : State'[u] = State[u]
      /\ toPlace \subseteq toPlace' \cup {t}
      /\ t \notin Members(RdyQueue) /\ (MrtkRunning => RunningTask # t)
  BY <1>1 DEF StartInv
<1>4. TypesInv'
  BY <1>1 DEF TypesInv
<1> HIDE DEF d
<1> QED BY <1>1, <1>2, <1>3, <1>4, JoinKeeps

LEMMA PlaceTaskKeeps ==
    ASSUME OneToOne, IdleIsLast, MsgInv, NEW t \in Users, PlaceTask(t), UNCHANGED msgVars
    PROVE  TasksInv'
<1> USE TheTasks, TaskNumbers DEF MsgInv, TasksInv
<1>1. /\ t \in toPlace /\ ~MrtkRunning /\ MrtkRunning' = MrtkRunning
      /\ RdyQueue' = InsertInQueue(RdyQueue, t, Deadline[t])
      /\ toPlace' = toPlace \ {t}
      /\ UNCHANGED <<State, Delay, AbsoluteDeadline, RunningTask, count, isrOwner,
                     MrtkTime, pc, due, QEntries, TaskId, IsTimeoutEnable, error, msg,
                     posted>>
  BY DEF PlaceTask, StartInv, tcb, isr, msgVars, ring, event, calls
<1>2. /\ Members(RdyQueue) = Users \ toPlace /\ TaskId = 0 /\ count = NotTicking
      /\ isrOwner = NoOwner
      /\ \A u \in Tasks : State[u] = "READY" /\ pc[u] = "new"
      /\ \A u \in Users : AbsoluteDeadline[u] = Deadline[u]
      /\ toPlace \subseteq Users
  BY <1>1 DEF StartInv, TypesInv
<1>3. TypesInv' /\ ReadyInv' /\ Members(RdyQueue') = Members(RdyQueue) \cup {t}
  BY PlaceReady
<1>4. CallTypes'
  BY <1>1 DEF CallTypes
<1>5. StartInv' /\ IdleInv'
  BY <1>1, <1>2, <1>3 DEF StartInv, IdleInv, Ticking, Runs
<1>6. PlaceInv' /\ PendInv' /\ SendInv'
  BY <1>1, <1>2, BootKeepsCalls
<1> QED BY <1>3, <1>4, <1>5, <1>6

(* mrtk_start takes the first task out of the ready queue.                 *)
LEMMA StartReady ==
    ASSUME IdleIsLast, TypesInv, ReadyInv, StartInv, Start
    PROVE  /\ TypesInv' /\ ReadyInv'
           /\ RunningTask' \in Tasks /\ State'[RunningTask'] = "EXECUTING"
           /\ \A u \in Tasks : State'[u] \in {"READY", "EXECUTING"}
           /\ RunningTask' = Idle => Members(RdyQueue') = {}
<1> USE TaskNumbers
<1> DEFINE hgh == GetTaskWithNearestDeadline(RdyQueue, Idle)
<1>1. /\ ~MrtkRunning /\ MrtkRunning' /\ MrtkRunning' \in BOOLEAN
      /\ toPlace = {} /\ toPlace' = {}
      /\ RunningTask' = hgh
      /\ State' = [State EXCEPT ![hgh] = "EXECUTING"]
      /\ RdyQueue' = RemoveFirstElementInQueue(RdyQueue)
      /\ UNCHANGED <<Delay, AbsoluteDeadline, count, isrOwner, MrtkTime, pc, due>>
  BY DEF Start, isr
<1>2. /\ GoodQueue(RdyQueue')
      /\ Members(RdyQueue') = Members(RdyQueue) \ {hgh}
      /\ Held(RdyQueue') \subseteq Held(RdyQueue)
      /\ hgh \in Tasks
      /\ hgh \in Users => hgh \in Members(RdyQueue)
  BY <1>1, NearestLeaves DEF ReadyInv, QueueInv
<1> HIDE DEF hgh
<1>3. Members(RdyQueue) = Users /\ \A u \in Tasks : State[u] = "READY"
  BY <1>1 DEF StartInv
<1>4. /\ State' \in [Tasks -> MsgStates] /\ State'[hgh] = "EXECUTING"
      /\ \A u \in Tasks \ {hgh} : State'[u] = "READY"
  BY <1>1, <1>2, <1>3 DEF TypesInv, MsgStates
<1>5. TypesInv'
  BY <1>1, <1>2, <1>4 DEF TypesInv
<1>6. ReadyInv'
  <2>1. KeyInv'
    BY <1>1 DEF ReadyInv, KeyInv
  <2>2. QueueInv'
    <3>1. KeyMatchesTcb'
      BY <1>1, <1>2 DEF ReadyInv, QueueInv, KeyMatchesTcb
    <3> QED BY <1>2, <1>3, <3>1 DEF QueueInv
  <2>3. IdleBehind(RdyQueue)'
    <3>1. \A e \in Held(RdyQueue) : /\ e.Deadline \in Nat
                                    /\ e.TaskId = Idle => e.Deadline = IdleDeadline
                                    /\ e.TaskId # Idle => e.Deadline < IdleDeadline
      BY KeysOfQueue DEF ReadyInv
    <3>2. IdleBehind(RemoveFirstElementInQueue(RdyQueue))
      BY <3>1, RemoveKeepsIdleBehind DEF ReadyInv, QueueInv
    <3> QED BY <1>1, <3>2 DEF IdleBehind
  <2>4. ReadyOnce'
    <3>1. Distinct(RdyQueue)' /\ RunningTask' \notin Members(RdyQueue')
      BY <1>1, <1>2, MembersHaveEntries
    <3>2. \A u \in Users : u \in Members(RdyQueue') <=> State'[u] = "READY"
      BY <1>2, <1>3, <1>4
    <3> QED BY <1>2, <1>3, <3>1, <3>2 DEF ReadyOnce
  <2> QED BY <2>1, <2>2, <2>3, <2>4 DEF ReadyInv
<1>7. hgh = Idle => Members(RdyQueue') = {}
  <2>1. ASSUME hgh = Idle, NEW u \in Members(RdyQueue) PROVE FALSE
    <3>1. RdyQueue.last # 0
      BY <2>1, MembersHaveEntries DEF ReadyInv, QueueInv
    <3>2. hgh \in Members(RdyQueue)
      BY <3>1, MembersHaveEntries DEF ReadyInv, QueueInv, GetTaskWithNearestDeadline, hgh
    <3> QED BY <1>3, <2>1, <3>2
  <2> QED BY <1>2, <2>1
<1> QED BY <1>1, <1>2, <1>4, <1>5, <1>6, <1>7

LEMMA StartKeeps ==
    ASSUME OneToOne, IdleIsLast, MsgInv, Start, UNCHANGED msgVars
    PROVE  TasksInv'
<1> USE TheTasks, TaskNumbers DEF MsgInv, TasksInv
<1>1. /\ ~MrtkRunning /\ MrtkRunning' /\ toPlace' = {}
      /\ UNCHANGED <<count, isrOwner, pc, QEntries, TaskId, IsTimeoutEnable, error, msg,
                     posted>>
  BY DEF Start, isr, boot, msgVars, ring, event, calls
<1>2. /\ TaskId = 0 /\ count = NotTicking /\ isrOwner = NoOwner
      /\ \A u \in Tasks : pc[u] = "new"
  BY <1>1 DEF StartInv
<1>3. /\ TypesInv' /\ ReadyInv'
      /\ RunningTask' \in Tasks /\ State'[RunningTask'] = "EXECUTING"
      /\ \A u \in Tasks : State'[u] \in {"READY", "EXECUTING"}
      /\ RunningTask' = Idle => Members(RdyQueue') = {}
  BY StartReady
<1>4. CallTypes'
  BY <1>1 DEF CallTypes
<1>5. StartInv' /\ IdleInv'
  BY <1>1, <1>2, <1>3 DEF StartInv, IdleInv, Ticking, Runs
<1>6. PlaceInv' /\ PendInv' /\ SendInv'
  BY <1>1, <1>2, <1>3, BootKeepsCalls
<1> QED BY <1>3, <1>4, <1>5, <1>6

-----------------------------------------------------------------------------
(* Keys only grow older.                                                   *)
LEMMA ClockKeepsKeys ==
    ASSUME TypesInv, KeyInv, MrtkTime' = MrtkTime + 1, UNCHANGED AbsoluteDeadline
    PROVE  KeyInv'
<1> SUFFICES ASSUME NEW u \in Users
             PROVE  AbsoluteDeadline[u] <= MrtkTime + 1 + Deadline[u]
  BY DEF KeyInv
<1>1. AbsoluteDeadline[u] <= MrtkTime + Deadline[u]
  BY DEF KeyInv
<1>2. AbsoluteDeadline[u] \in Int
  <2>1. AbsoluteDeadline \in [Tasks -> 0..(U32 - 1)] /\ u \in Tasks
    BY TaskNumbers DEF TypesInv
  <2> QED BY <2>1, HeapAssumption
<1>3. Deadline[u] \in Nat /\ MrtkTime \in Nat
  BY KernelAssumption DEF TypesInv
<1> QED BY <1>1, <1>2, <1>3

(* A tick begins while the idle task runs, with nobody of the queue ready. *)
LEMMA TickBeginKeeps ==
    ASSUME OneToOne, MsgInv, TickBegin, RunningTask = Idle, UNCHANGED msgVars
    PROVE  TasksInv'
<1> USE TheTasks, TaskNumbers DEF MsgInv, TasksInv
<1>1. /\ MrtkRunning /\ isrOwner = NoOwner /\ isrOwner' = Idle
      /\ MrtkTime < MaxTime /\ MrtkTime' = MrtkTime + 1 /\ count' = 0
      /\ UNCHANGED <<State, Delay, AbsoluteDeadline, RdyQueue, RunningTask, MrtkRunning,
                     toPlace, pc, due, QEntries, TaskId, IsTimeoutEnable, error, msg, posted>>
  BY DEF TickBegin, TickTaken, tcb, sched, boot, msgVars, ring, event, calls
<1>2. ~Ticking /\ Ticking' /\ \A u \in Tasks : (Runs(u) <=> u = Idle) /\ (Runs(u)' <=> u = Idle)
  BY <1>1 DEF IdleInv, Ticking, Runs
<1>3. MrtkTime \in Nat /\ MrtkTime' \in 0..MaxTime /\ count' \in 0..NotTicking
  BY <1>1, KernelAssumption DEF TypesInv
<1>4. TypesInv' /\ CallTypes'
  BY <1>1, <1>3 DEF TypesInv, CallTypes
<1>5. ReadyInv'
  <2>1. KeyInv'
    BY <1>1, ClockKeepsKeys DEF ReadyInv
  <2> QED BY <1>1, <2>1 DEF ReadyInv, QueueInv, KeyMatchesTcb, IdleBehind, ReadyOnce
<1>6. StartInv' /\ IdleInv'
  BY <1>1, <1>2 DEF StartInv, IdleInv
<1>7. PlaceInv'
  BY <1>1, <1>2 DEF PlaceInv, Place
<1>8. PendInv'
  <2>1. (CanRun(Receiver)' <=> CanRun(Receiver)) /\ (TimedOut(Receiver)' <=> TimedOut(Receiver))
    BY <1>1, <1>2 DEF CanRun, TimedOut
  <2> QED BY <1>1, <1>2, <2>1 DEF PendInv
<1>9. SendInv'
  <2>1. TaskId = Receiver => Members(RdyQueue) = {}
    BY <1>2 DEF IdleInv
  <2> QED BY <1>1, <1>2, <2>1 DEF SendInv, ReceiverReady
<1> QED BY <1>4, <1>5, <1>6, <1>7, <1>8, <1>9

(* A turn of mrtk_tick that finds nothing to do, or counts a delay down.   *)
LEMMA TickTurnKeeps ==
    ASSUME OneToOne, MsgInv, TickSkip \/ TickDelay, UNCHANGED msgVars
    PROVE  TasksInv'
<1> USE TheTasks, TaskNumbers DEF MsgInv, TasksInv
<1>1. /\ count < UsersMax /\ count \in Nat /\ count' = count + 1
      /\ \/ Delay' = Delay
         \/ /\ count \in Users /\ State[count] = "SUSPENDED" /\ Delay[count] # 0
            /\ Delay' = [Delay EXCEPT ![count] = @ - 1]
      /\ UNCHANGED <<State, AbsoluteDeadline, RdyQueue, RunningTask, MrtkRunning, toPlace,
                     isrOwner, MrtkTime, pc, due, QEntries, TaskId, IsTimeoutEnable,
                     error, msg, posted>>
  BY DEF TickSkip, TickDelay, Sleeps, tcb, sched, boot, TypesInv, msgVars, ring, event,
         calls
<1>2. Ticking /\ Ticking' /\ count' \in 0..NotTicking
  BY <1>1 DEF Ticking
<1>3. /\ Delay' \in [Tasks -> Nat]
      /\ \A u \in Tasks : Delay'[u] = Delay[u] \/ State[u] = "SUSPENDED"
  <2>1. Delay \in [Tasks -> Nat]
    BY DEF TypesInv
  <2>2. CASE Delay' = Delay
    BY <2>1, <2>2
  <2>3. CASE /\ count \in Users /\ State[count] = "SUSPENDED" /\ Delay[count] # 0
             /\ Delay' = [Delay EXCEPT ![count] = @ - 1]
    <3>1. Delay[count] - 1 \in Nat
      BY <2>1, <2>3
    <3> QED BY <2>1, <2>3, <3>1
  <2> QED BY <1>1, <2>2, <2>3
<1>4. \A u \in Tasks : Runs(u)' <=> Runs(u)
  BY <1>1 DEF Runs
<1>5. TypesInv' /\ CallTypes'
  BY <1>1, <1>2, <1>3 DEF TypesInv, CallTypes
<1>6. ReadyInv'
  BY <1>1 DEF ReadyInv, QueueInv, KeyInv, KeyMatchesTcb, IdleBehind, ReadyOnce
<1>7. StartInv' /\ IdleInv'
  BY <1>1, <1>2, <1>4 DEF StartInv, IdleInv, Ticking
<1>8. PlaceInv'
  BY <1>1, <1>4 DEF PlaceInv, Place
<1>9. PendInv'
  <2>1. CanRun(Receiver)' <=> CanRun(Receiver)
    BY <1>1, <1>4 DEF CanRun
  <2>2. CanRun(Receiver) /\ pc[Receiver] = "woken" => State[Receiver] # "SUSPENDED"
    <3>1. Receiver \in Members(RdyQueue) => State[Receiver] # "SUSPENDED"
      <4>1. MrtkRunning /\ toPlace = {}
        BY <1>2 DEF IdleInv, StartInv, Runs
      <4>2. State[Receiver] # "SLEEPING"
        BY DEF TypesInv, MsgStates
      <4> QED BY <4>1, <4>2 DEF ReadyInv, ReadyOnce
    <3>2. Runs(Receiver) => FALSE
      BY <1>2 DEF IdleInv, Runs
    <3> QED BY <3>1, <3>2 DEF CanRun
  <2>3. CanRun(Receiver) /\ pc[Receiver] = "woken"
           => (TimedOut(Receiver)' <=> TimedOut(Receiver))
    BY <1>1, <1>3, <2>2 DEF TimedOut
  <2> QED BY <1>1, <1>4, <2>1, <2>3 DEF PendInv
<1>10. SendInv'
  BY <1>1, <1>2 DEF SendInv, ReceiverReady
<1> QED BY <1>5, <1>6, <1>7, <1>8, <1>9, <1>10

(* A task whose delay ends joins the ready queue.                          *)
LEMMA WakeReady ==
    ASSUME IdleIsLast, TypesInv, ReadyInv, TickWake, MrtkRunning, toPlace = {},
           RunningTask # count
    PROVE  /\ TypesInv' /\ ReadyInv'
           /\ count \in Users /\ count \notin Members(RdyQueue)
           /\ Members(RdyQueue') = Members(RdyQueue) \cup {count}
           /\ State[count] = "SUSPENDED"
           /\ State'[count] = "READY" /\ Delay'[count] = 0
           /\ AbsoluteDeadline'[count] = MrtkTime + Deadline[count]
           /\ \A u \in Tasks \ {count} : /\ State'[u] = State[u] /\ Delay'[u] = Delay[u]
                                         /\ AbsoluteDeadline'[u] = AbsoluteDeadline[u]
<1> USE TaskNumbers
<1> DEFINE key == MrtkTime + Deadline[count]
<1>1. /\ count < UsersMax /\ count \in Users /\ count' = count + 1
      /\ State[count] = "SUSPENDED"
      /\ AbsoluteDeadline' = [AbsoluteDeadline EXCEPT ![count] = key]
      /\ RdyQueue' = InsertInQueue(RdyQueue, count, key)
      /\ Delay' = [Delay EXCEPT ![count] = 0]
      /\ State' = [State EXCEPT ![count] = "READY"]
      /\ UNCHANGED <<RunningTask, MrtkRunning, toPlace, isrOwner, MrtkTime, pc, due>>
  BY DEF TickWake, Sleeps, boot
<1>2. key \in 0..(U32 - 1) /\ key <= MrtkTime + Deadline[count]
  <2>1. Deadline[count] \in Nat /\ MrtkTime \in 0..MaxTime /\ MaxTime \in Nat
        /\ MaxTime + Deadline[count] < U32
    BY <1>1, KernelAssumption DEF TypesInv
  <2> QED BY <2>1, HeapAssumption
<1>3. /\ State' \in [Tasks -> MsgStates] /\ Delay' \in [Tasks -> Nat]
      /\ AbsoluteDeadline' \in [Tasks -> 0..(U32 - 1)]
      /\ State'[count] = "READY" /\ Delay'[count] = 0 /\ AbsoluteDeadline'[count] = key
      /\ \A u \in Tasks \ {count} : /\ State'[u] = State[u] /\ Delay'[u] = Delay[u]
                                    /\ AbsoluteDeadline'[u] = AbsoluteDeadline[u]
  <2> HIDE DEF key
  <2> QED BY <1>1, <1>2 DEF TypesInv, MsgStates
<1>4. TypesInv' /\ count \notin Members(RdyQueue)
  BY <1>1, <1>3 DEF TypesInv, ReadyInv, ReadyOnce
<1>5. ReadyInv' /\ Members(RdyQueue') = Members(RdyQueue) \cup {count}
  <2>1. /\ count \in Users /\ RdyQueue' = InsertInQueue(RdyQueue, count, key)
        /\ UNCHANGED <<RunningTask, MrtkRunning, MrtkTime>>
        /\ toPlace \subseteq toPlace' \cup {count}
    BY <1>1
  <2> HIDE DEF key
  <2> QED BY <1>2, <1>3, <1>4, <2>1, JoinKeeps
<1> QED BY <1>1, <1>3, <1>4, <1>5

(* A tick that ends a pend puts the receiver at the head of the queue.     *)
LEMMA TickWakeKeeps ==
    ASSUME DemoRegime, MsgInv, TickWake, UNCHANGED msgVars
    PROVE  TasksInv'
<1> USE TheTasks, TaskNumbers DEF MsgInv, TasksInv, DemoRegime
<1> DEFINE key == MrtkTime + Deadline[count]
<1>1. /\ count < UsersMax /\ count \in Users /\ count' = count + 1
      /\ State[count] = "SUSPENDED"
      /\ AbsoluteDeadline' = [AbsoluteDeadline EXCEPT ![count] = key]
      /\ RdyQueue' = InsertInQueue(RdyQueue, count, key)
      /\ Delay' = [Delay EXCEPT ![count] = 0]
      /\ State' = [State EXCEPT ![count] = "READY"]
      /\ UNCHANGED <<RunningTask, MrtkRunning, toPlace, isrOwner, MrtkTime, pc, due,
                     QEntries, TaskId, IsTimeoutEnable, error, msg, posted>>
  BY DEF TickWake, Sleeps, boot, msgVars, ring, event, calls
<1>2. Ticking /\ Ticking' /\ count' \in 0..NotTicking
  BY <1>1 DEF Ticking
<1>3. /\ MrtkRunning /\ RunningTask = Idle /\ toPlace = {} /\ isrOwner = Idle
      /\ count # Idle
      /\ \A u \in Tasks : (Runs(u) <=> u = Idle) /\ (Runs(u)' <=> u = Idle)
  BY <1>1, <1>2 DEF IdleInv, StartInv, Runs
<1>4. count \notin Members(RdyQueue) /\ Idle \notin Members(RdyQueue)
  BY <1>1, <1>3 DEF ReadyInv, ReadyOnce
<1>5. key \in 0..(U32 - 1)
  <2>1. Deadline[count] \in Nat /\ MrtkTime \in 0..MaxTime /\ MaxTime \in Nat
        /\ MaxTime + Deadline[count] < U32
    BY <1>1, KernelAssumption DEF TypesInv
  <2> QED BY <2>1, HeapAssumption
<1>6. /\ State'[count] = "READY" /\ Delay'[count] = 0 /\ AbsoluteDeadline'[count] = key
      /\ \A u \in Tasks \ {count} : /\ State'[u] = State[u] /\ Delay'[u] = Delay[u]
                                    /\ AbsoluteDeadline'[u] = AbsoluteDeadline[u]
  BY <1>3, WakeReady
<1>7. TypesInv' /\ ReadyInv' /\ Members(RdyQueue') = Members(RdyQueue) \cup {count}
  BY <1>3, WakeReady
<1>8. CallTypes'
  BY <1>1 DEF CallTypes
<1>9. StartInv' /\ IdleInv'
  BY <1>1, <1>2, <1>3 DEF StartInv, IdleInv
<1>10. PlaceInv'
  <2> SUFFICES ASSUME NEW u \in Users PROVE Place(u)'
    BY DEF PlaceInv
  <2>1. Place(u) /\ ~Runs(u) /\ ~Runs(u)'
    BY <1>3 DEF PlaceInv
  <2> QED BY <1>1, <2>1 DEF Place
<1>11. PendInv'
  <2>1. CASE count = Receiver
    <3>1. CanRun(Receiver)' /\ ~CanRun(Receiver)
      BY <1>3, <1>4, <1>7, <2>1 DEF CanRun
    <3>2. pc[Receiver] = "woken" => TimedOut(Receiver)'
      BY <1>1, <1>6, <2>1 DEF PendInv, TimedOut
    <3> QED BY <1>1, <1>3, <1>6, <2>1, <3>1, <3>2 DEF PendInv
  <2>2. CASE count # Receiver
    <3>1. CanRun(Receiver)' <=> CanRun(Receiver)
      BY <1>3, <1>7, <2>2 DEF CanRun
    <3>2. (TimedOut(Receiver)' <=> TimedOut(Receiver)) /\ State'[Receiver] = State[Receiver]
      BY <1>1, <1>6, <2>2 DEF TimedOut
    <3> QED BY <1>1, <1>3, <3>1, <3>2 DEF PendInv
  <2> QED BY <2>1, <2>2
<1>12. SendInv'
  <2> SUFFICES ASSUME TaskId = Receiver
               PROVE  /\ Receiver \in Members(RdyQueue')
                            => ReceiverIsNearest /\ RdyQueue'.tab[1].TaskId = Receiver
                      /\ \A t \in Users \cap Members(RdyQueue') :
                            AbsoluteDeadline'[t] = MrtkTime + Deadline[t]
    BY <1>1, <1>2 DEF SendInv, ReceiverReady
  <2>1. ASSUME NEW t \in Users \cap Members(RdyQueue)
        PROVE  AbsoluteDeadline[t] = MrtkTime + Deadline[t]
    BY <1>2 DEF SendInv
  <2>2. \A t \in Users \cap Members(RdyQueue') : AbsoluteDeadline'[t] = MrtkTime + Deadline[t]
    BY <1>4, <1>6, <1>7, <2>1
  <2>3. \A e \in Held(RdyQueue) : /\ e.TaskId \in Users /\ e.TaskId \in Members(RdyQueue)
                                  /\ e.Deadline = MrtkTime + Deadline[e.TaskId]
    <3> SUFFICES ASSUME NEW e \in Held(RdyQueue)
                 PROVE  /\ e.TaskId \in Users /\ e.TaskId \in Members(RdyQueue)
                        /\ e.Deadline = MrtkTime + Deadline[e.TaskId]
      OBVIOUS
    <3>1. e.TaskId \in Members(RdyQueue) /\ e.TaskId \in Tasks
      BY HeldAreMembers DEF ReadyInv, QueueInv
    <3>2. e.TaskId \in Users
      BY <1>4, <3>1 DEF Tasks
    <3>3. e.Deadline = AbsoluteDeadline[e.TaskId]
      BY DEF ReadyInv, QueueInv, KeyMatchesTcb
    <3> QED BY <2>1, <3>1, <3>2, <3>3
  <2>4. /\ GoodQueue(RdyQueue) /\ RdyQueue.last < QueueSize - 1 /\ count \in Nat
        /\ MrtkTime \in Nat /\ \A t \in Users : Deadline[t] \in Nat
    <3>1. GoodQueue(RdyQueue) /\ Members(RdyQueue) \subseteq Tasks \ {count}
      BY <1>4 DEF ReadyInv, QueueInv
    <3> QED BY <1>1, <3>1, RoomForTask, KernelAssumption DEF TypesInv
  <2>5. CASE count = Receiver
    <3>1. ReceiverIsNearest
      <4>1. pc[Receiver] = "woken" /\ IsTimeoutEnable
        BY <1>1, <1>3, <2>5 DEF PendInv
      <4> QED BY <4>1 DEF PendInv
    <3>2. \A e \in Held(RdyQueue) : key < e.Deadline
      <4> SUFFICES ASSUME NEW e \in Held(RdyQueue) PROVE key < e.Deadline
        OBVIOUS
      <4>1. e.TaskId \in Users \ {Receiver}
        BY <1>4, <2>3, <2>5
      <4>2. Deadline[Receiver] < Deadline[e.TaskId]
        BY <3>1, <4>1 DEF ReceiverIsNearest
      <4>3. Deadline[Receiver] \in Nat /\ Deadline[e.TaskId] \in Nat
        BY <2>4, <4>1
      <4> QED BY <2>3, <2>4, <2>5, <4>2, <4>3
    <3>3. RdyQueue'.tab[1] = Entry(count, key)
      <4> HIDE DEF key
      <4> QED BY <1>1, <1>4, <1>5, <2>4, <3>2, NearestGoesFirst
    <3> QED BY <2>2, <2>5, <3>1, <3>3 DEF Entry
  <2>6. CASE count # Receiver
    <3> SUFFICES ASSUME Receiver \in Members(RdyQueue)
                 PROVE  ReceiverIsNearest /\ RdyQueue'.tab[1].TaskId = Receiver
      BY <1>7, <2>2, <2>6
    <3>1. ReceiverIsNearest /\ RdyQueue.tab[1].TaskId = Receiver
      BY <1>2 DEF SendInv, ReceiverReady
    <3>2. RdyQueue.last # 0
      BY <2>4, MembersHaveEntries
    <3>3. RdyQueue.tab[1].Deadline = MrtkTime + Deadline[Receiver]
      BY <2>3, <2>4, <3>1, <3>2, MembersHaveEntries
    <3>4. ~(key < RdyQueue.tab[1].Deadline)
      <4>1. Deadline[Receiver] < Deadline[count]
        BY <1>1, <2>6, <3>1 DEF ReceiverIsNearest
      <4>2. Deadline[Receiver] \in Nat /\ Deadline[count] \in Nat
        BY <1>1, <2>4
      <4> QED BY <2>4, <3>3, <4>1, <4>2
    <3>5. RdyQueue'.tab[1] = RdyQueue.tab[1]
      <4> HIDE DEF key
      <4> QED BY <1>1, <1>4, <1>5, <2>4, <3>2, <3>4, HeadGivesWayToNearer
    <3> QED BY <3>1, <3>5
  <2> QED BY <2>5, <2>6
<1> QED BY <1>7, <1>8, <1>9, <1>10, <1>11, <1>12

(* The mrtk_sched at the end of a tick elects the receiver, if it woke it. *)
LEMMA TickSchedKeeps ==
    ASSUME OneToOne, IdleIsLast, MsgInv, TickSched, UNCHANGED msgVars
    PROVE  TasksInv'
<1> USE TheTasks, TaskNumbers DEF MsgInv, TasksInv
<1>1. /\ count = UsersMax /\ count' = NotTicking /\ Sched
      /\ UNCHANGED <<Delay, AbsoluteDeadline, MrtkRunning, toPlace, isrOwner, MrtkTime,
                     pc, due, QEntries, TaskId, IsTimeoutEnable, error, msg, posted>>
      /\ UNCHANGED boot
  BY DEF TickSched, boot, msgVars, ring, event, calls
<1>2. Ticking /\ ~Ticking'
  BY <1>1 DEF Ticking
<1>3. /\ MrtkRunning /\ RunningTask = Idle /\ toPlace = {}
      /\ \A u \in Tasks : (Runs(u) <=> u = Idle) /\ (Runs(u)' <=> u = RunningTask')
  BY <1>1, <1>2 DEF IdleInv, StartInv, Runs
<1>4. HandsOver
  BY <1>1, <1>3, SchedHandsOver
<1>5. /\ State' \in [Tasks -> MsgStates] /\ RunningTask' \in Tasks /\ ReadyInv'
      /\ RunningTask' = Idle => Members(RdyQueue) \subseteq {Idle}
      /\ RunningTask' # Idle => /\ RunningTask' = RdyQueue.tab[1].TaskId
                                /\ RunningTask' \in Members(RdyQueue)
                                /\ State'[RunningTask'] = "EXECUTING"
      /\ \A u \in Users : /\ State'[u] = "SUSPENDED" <=> State[u] = "SUSPENDED"
                          /\ State'[u] = "WAITING" <=> State[u] = "WAITING"
      /\ \A u \in Users : u \in Members(RdyQueue') <=>
            u \in Members(RdyQueue) /\ u # RunningTask'
  BY <1>3, <1>4 DEF HandsOver
<1>6. TypesInv' /\ CallTypes' /\ StartInv'
  BY <1>1, <1>3, <1>5 DEF TypesInv, CallTypes, StartInv
<1>7. IdleInv'
  <2> SUFFICES ASSUME RunningTask' = Idle PROVE Members(RdyQueue') = {}
    BY <1>1, <1>2, <1>3 DEF IdleInv
  <2>1. Members(RdyQueue') \subseteq Users
    <3>1. Members(RdyQueue') \subseteq Tasks /\ Idle \notin Members(RdyQueue')
      BY <1>1, <1>3, <1>5 DEF ReadyInv, QueueInv, ReadyOnce
    <3> QED BY <3>1 DEF Tasks
  <2> QED BY <1>5, <2>1
<1>8. PlaceInv'
  <2> SUFFICES ASSUME NEW u \in Users PROVE Place(u)'
    BY DEF PlaceInv
  <2>1. u \in Tasks /\ Place(u) /\ ~Runs(u)
    BY <1>3 DEF PlaceInv
  <2>2. Runs(u)' => State'[u] = "EXECUTING"
    BY <1>3, <1>5, <2>1
  <2> QED BY <1>1, <2>1, <2>2 DEF Place
<1>9. PendInv'
  <2>1. ~Runs(Receiver) /\ (Runs(Receiver)' => Receiver \in Members(RdyQueue))
    BY <1>3, <1>5
  <2>2. CanRun(Receiver)' <=> CanRun(Receiver)
    BY <1>3, <1>5, <2>1 DEF CanRun
  <2>3. TimedOut(Receiver)' <=> TimedOut(Receiver)
    BY <1>1 DEF TimedOut
  <2> QED BY <1>1, <1>5, <2>1, <2>2, <2>3 DEF PendInv
<1>10. SendInv'
  <2>1. ~ReceiverReady'
    <3>1. ASSUME ReceiverReady' PROVE FALSE
      <4>1. ReceiverReady /\ Receiver # RunningTask'
        BY <1>1, <1>5, <3>1 DEF ReceiverReady
      <4>2. RdyQueue.tab[1].TaskId = Receiver
        BY <1>2, <4>1 DEF SendInv
      <4> QED BY <1>5, <4>1, <4>2 DEF ReceiverReady
    <3> QED BY <3>1
  <2> QED BY <1>2, <2>1 DEF SendInv
<1> QED BY <1>5, <1>6, <1>7, <1>8, <1>9, <1>10

(* The acknowledge of a tick.                                              *)
LEMMA AckTickKeeps ==
    ASSUME OneToOne, MsgInv, AckTick, UNCHANGED msgVars
    PROVE  TasksInv'
<1> USE TheTasks, TaskNumbers DEF MsgInv, TasksInv
<1>1. /\ ~Ticking /\ isrOwner' = NoOwner
      /\ UNCHANGED <<State, Delay, AbsoluteDeadline, RdyQueue, RunningTask, MrtkRunning,
                     toPlace, count, MrtkTime, pc, due, QEntries, TaskId,
                     IsTimeoutEnable, error, msg, posted>>
  BY DEF AckTick, tcb, sched, boot, msgVars, ring, event, calls
<1>2. TypesInv' /\ CallTypes'
  BY <1>1 DEF TypesInv, CallTypes
<1>3. ReadyInv'
  BY <1>1 DEF ReadyInv, QueueInv, KeyInv, KeyMatchesTcb, IdleBehind, ReadyOnce
<1>4. StartInv' /\ IdleInv'
  BY <1>1 DEF StartInv, IdleInv, Ticking, Runs
<1>5. PlaceInv' /\ PendInv' /\ SendInv'
  BY <1>1 DEF PlaceInv, Place, PendInv, CanRun, TimedOut, SendInv, ReceiverReady, Runs, Ticking
<1> QED BY <1>2, <1>3, <1>4, <1>5

-----------------------------------------------------------------------------
(* While the sender runs and has not posted since its last wait, the       *)
(* receiver is not ready: its pend is still to be ended, by this post.     *)
LEMMA PostFindsReceiverAsleep ==
    ASSUME OneToOne, MsgInv, Runs(Sender), pc[Sender] \in {"new", "app"},
           posted[Sender] < due[Sender]
    PROVE  /\ ~Ticking /\ State[Sender] = "EXECUTING"
           /\ TaskId = Receiver => Receiver \notin Members(RdyQueue)
<1> USE TheTasks DEF MsgInv, TasksInv
<1>1. ~Ticking
  BY DEF IdleInv, Runs
<1>2. State[Sender] = "EXECUTING"
  BY DEF PlaceInv, Place
<1>3. ASSUME TaskId = Receiver, Receiver \in Members(RdyQueue) PROVE FALSE
  <2>1. posted[Sender] >= due[Sender]
    BY <1>1, <1>2, <1>3 DEF SendInv, ReceiverReady
  <2>2. posted[Sender] \in Nat /\ due[Sender] \in Nat
    <3>1. posted \in [Users -> Nat] /\ due \in [Tasks -> Nat]
      BY DEF TypesInv, CallTypes
    <3>2. Sender \in Users /\ Sender \in Tasks
      OBVIOUS
    <3> QED BY ONLY <3>1, <3>2
  <2> QED BY <2>1, <2>2
<1> QED BY <1>1, <1>2, <1>3

(* A post makes the receiver of the event ready, if it names one, and      *)
(* leaves the tables in order where that receiver is in no queue.          *)
LEMMA PostReady ==
    ASSUME IdleIsLast, TypesInv, ReadyInv, MrtkRunning, toPlace = {},
           Receiver \in Users, Receiver # 0, TaskId \in {0, Receiver},
           TaskId = Receiver => Receiver \notin Members(RdyQueue) /\ RunningTask # Receiver,
           WakeReceiver,
           UNCHANGED <<RunningTask, MrtkRunning, toPlace, MrtkTime>>
    PROVE  /\ State' \in [Tasks -> MsgStates]
           /\ AbsoluteDeadline' \in [Tasks -> 0..(U32 - 1)]
           /\ ReadyInv'
           /\ \A u \in Tasks \ {Receiver} : State'[u] = State[u]
           /\ TaskId = Receiver => Receiver \in Members(RdyQueue') /\ State'[Receiver] = "READY"
           /\ TaskId = 0 => State' = State
<1> USE TaskNumbers
<1>1. CASE TaskId = 0
  <2>1. UNCHANGED <<State, AbsoluteDeadline, RdyQueue>>
    BY <1>1 DEF WakeReceiver
  <2>2. ReadyInv'
    BY <2>1 DEF ReadyInv, QueueInv, KeyMatchesTcb, KeyInv, IdleBehind, ReadyOnce
  <2> QED BY <1>1, <2>1, <2>2 DEF TypesInv
<1>2. CASE TaskId = Receiver
  <2> DEFINE key == MrtkTime + Deadline[Receiver]
  <2>1. /\ State' = [State EXCEPT ![Receiver] = "READY"]
        /\ AbsoluteDeadline' = [AbsoluteDeadline EXCEPT ![Receiver] = key]
        /\ RdyQueue' = InsertInQueue(RdyQueue, Receiver, key)
    <3>1. Receiver > 0
      OBVIOUS
    <3> QED BY <1>2, <3>1 DEF WakeReceiver, StateReady
  <2>2. key \in 0..(U32 - 1) /\ key <= MrtkTime + Deadline[Receiver]
    <3>1. /\ Deadline[Receiver] \in Nat /\ MrtkTime \in 0..MaxTime /\ MaxTime \in Nat
          /\ MaxTime + Deadline[Receiver] < U32
      BY KernelAssumption DEF TypesInv
    <3> QED BY <3>1, HeapAssumption
  <2>3. /\ State' \in [Tasks -> MsgStates]
        /\ AbsoluteDeadline' \in [Tasks -> 0..(U32 - 1)]
        /\ State'[Receiver] = "READY" /\ AbsoluteDeadline'[Receiver] = key
        /\ \A u \in Tasks \ {Receiver} : /\ State'[u] = State[u]
                                         /\ AbsoluteDeadline'[u] = AbsoluteDeadline[u]
    <3> HIDE DEF key
    <3> QED BY <2>1, <2>2 DEF TypesInv, MsgStates
  <2>4. ReadyInv' /\ Members(RdyQueue') = Members(RdyQueue) \cup {Receiver}
    <3>1. /\ Receiver \notin Members(RdyQueue)
          /\ MrtkRunning => RunningTask # Receiver
          /\ toPlace \subseteq toPlace' \cup {Receiver}
      BY <1>2
    <3> HIDE DEF key
    <3> QED BY <2>1, <2>2, <2>3, <3>1, JoinKeeps
  <2> QED BY <1>2, <2>3, <2>4
<1> QED BY <1>1, <1>2

(* The sender posts to a queue that is not full, and wakes the receiver.   *)
LEMMA QpostKeeps ==
    ASSUME OneToOne, IdleIsLast, MsgInv, NEW m \in Messages, Qpost(Sender, m),
           posted[Sender] < due[Sender]
    PROVE  TasksInv'
<1> USE TheTasks, TaskNumbers DEF MsgInv, TasksInv
<1>1. /\ Runs(Sender) /\ pc[Sender] \in {"new", "app"} /\ RunningTask = Sender
      /\ MrtkRunning /\ QEntries' = QEntries + 1 /\ WakeReceiver
      /\ error' = [error EXCEPT ![Sender] = "NO_ERROR"]
      /\ pc' = [pc EXCEPT ![Sender] = "post"]
      /\ posted' = [posted EXCEPT ![Sender] = due[Sender]]
      /\ UNCHANGED <<Delay, RunningTask, MrtkRunning, toPlace, count, isrOwner,
                     MrtkTime, due, TaskId, IsTimeoutEnable, msg>>
      /\ UNCHANGED boot
  BY DEF Qpost, Calls, InTask, Runs, Push, boot, isr, event
<1>2. /\ ~Ticking /\ ~Ticking' /\ toPlace = {} /\ State[Sender] = "EXECUTING"
      /\ TaskId = Receiver => Receiver \notin Members(RdyQueue)
  BY <1>1, PostFindsReceiverAsleep DEF StartInv, Ticking
<1>3. \A u \in Tasks : (Runs(u) <=> u = Sender) /\ (Runs(u)' <=> u = Sender)
  BY <1>1 DEF Runs
<1>4. /\ pc' \in [Tasks -> MsgPCs] /\ pc'[Sender] = "post"
      /\ \A u \in Tasks \ {Sender} : pc'[u] = pc[u]
  BY <1>1 DEF TypesInv, MsgPCs
<1>5. /\ State' \in [Tasks -> MsgStates] /\ AbsoluteDeadline' \in [Tasks -> 0..(U32 - 1)]
      /\ ReadyInv'
      /\ \A u \in Tasks \ {Receiver} : State'[u] = State[u]
      /\ TaskId = Receiver => Receiver \in Members(RdyQueue') /\ State'[Receiver] = "READY"
  <2>1. TaskId \in {0, Receiver}
    BY DEF PendInv
  <2> QED BY <1>1, <1>2, <2>1, PostReady
<1>6. TypesInv'
  BY <1>1, <1>4, <1>5 DEF TypesInv
<1>7. CallTypes' /\ posted'[Sender] = due[Sender] /\ due'[Sender] >= due[Sender]
  <2>1. due[Sender] \in Nat
    <3>1. due \in [Tasks -> Nat]
      BY DEF TypesInv
    <3> QED BY <3>1
  <2> QED BY <1>1, <2>1 DEF CallTypes
<1>8. StartInv' /\ IdleInv'
  BY <1>1, <1>2, <1>3 DEF StartInv, IdleInv
<1>9. PlaceInv'
  <2> SUFFICES ASSUME NEW u \in Users PROVE Place(u)'
    BY DEF PlaceInv
  <2>1. u \in Tasks /\ Place(u)
    BY DEF PlaceInv
  <2>2. CASE u = Sender
    <3>1. State'[u] = "EXECUTING" /\ pc'[u] = "post"
      BY <1>2, <1>4, <1>5, <2>1, <2>2
    <3> QED BY <1>1, <1>3, <1>5, <2>1, <2>2, <3>1 DEF Place
  <2>3. CASE u # Sender
    <3>1. pc'[u] = pc[u] /\ pc[u] \in {"new", "app", "woken"} /\ ~Runs(u)'
      BY <1>3, <1>4, <2>1, <2>3 DEF Place
    <3> QED BY <2>1, <3>1 DEF Place
  <2> QED BY <2>2, <2>3
<1>10. PendInv'
  <2>1. pc'[Receiver] = pc[Receiver] /\ ~Runs(Receiver) /\ ~Runs(Receiver)'
    BY <1>3, <1>4
  <2>2. CASE TaskId = Receiver
    <3>1. pc'[Receiver] = "woken"
      BY <2>1, <2>2 DEF PendInv
    <3>2. QEntries' > 0
      <4>1. QEntries \in Nat
        BY MsgQueueAssumption DEF RingInv
      <4> QED BY <1>1, <4>1
    <3> QED BY <1>1, <1>5, <2>1, <2>2, <3>1, <3>2 DEF PendInv, CanRun
  <2>3. CASE TaskId = 0
    BY <1>1, <2>1, <2>3 DEF PendInv
  <2> QED BY <2>2, <2>3 DEF PendInv
<1>11. SendInv'
  BY <1>1, <1>2, <1>7 DEF SendInv
<1> QED BY <1>5, <1>6, <1>7, <1>8, <1>9, <1>10, <1>11

-----------------------------------------------------------------------------
(* The comment of mrtk_msgqueue.c:143 is true.                             *)
LEMMA WokenFindsMessage == OneToOne /\ MsgInv => ThereIsMsg
<1> SUFFICES ASSUME OneToOne, MsgInv, InTask(Receiver), pc[Receiver] = "woken",
                    ~TimedOut(Receiver)
             PROVE  QEntries > 0
  BY DEF ThereIsMsg, OneToOne
<1> QED BY DEF MsgInv, TasksInv, PendInv, CanRun, InTask, Runs

(* A pend that returns a message.                                          *)
LEMMA PickKeeps ==
    ASSUME OneToOne, MsgInv, InTask(Receiver), pc[Receiver] \in {"new", "app", "woken"},
           PickMsg(Receiver),
           UNCHANGED <<tcb, sched, boot, isr, MrtkTime, due, event, posted>>
    PROVE  TasksInv'
<1> USE TheTasks
<1>1. /\ msg' = [msg EXCEPT ![Receiver] = storage[QOut]]
      /\ error' = [error EXCEPT ![Receiver] = "NO_ERROR"]
      /\ pc' = [pc EXCEPT ![Receiver] = "app"]
      /\ UNCHANGED <<IsTimeoutEnable, TaskId, posted>>
  BY DEF PickMsg, event
<1>2. CallTypes'
  <2>1. storage[QOut] \in Messages \cup {Unset}
    BY DEF MsgInv, RingInv
  <2> QED BY <1>1, <2>1 DEF MsgInv, TasksInv, CallTypes
<1>3. UNCHANGED <<tcb, sched, boot, isr, MrtkTime, due, TaskId>>
  BY <1>1
<1>4. /\ IsTimeoutEnable' => IsTimeoutEnable
      /\ Receiver # Receiver => UNCHANGED <<QEntries, IsTimeoutEnable>>
      /\ posted'[Sender] \in {posted[Sender], due[Sender]}
  BY <1>1
<1>5. InTask(Receiver) /\ pc[Receiver] \in {"new", "app", "woken"} /\ Receiver \in Tasks
  OBVIOUS
<1> QED BY ONLY OneToOne, MsgInv, <1>1, <1>2, <1>3, <1>4, <1>5, CallKeeps

(* A pend that times out.                                                  *)
LEMMA QpendTimeoutKeeps ==
    ASSUME OneToOne, MsgInv, QpendTimeout(Receiver)
    PROVE  TasksInv'
<1> USE TheTasks
<1>1. /\ InTask(Receiver) /\ pc[Receiver] \in {"new", "app", "woken"} /\ Receiver \in Tasks
      /\ IsTimeoutEnable' = FALSE
      /\ error' = [error EXCEPT ![Receiver] = "EVENT_TIMEOUT"]
      /\ pc' = [pc EXCEPT ![Receiver] = "app"]
      /\ UNCHANGED <<tcb, sched, boot, isr, MrtkTime, due, TaskId>>
      /\ UNCHANGED <<msg, posted>>
  BY DEF QpendTimeout
<1>2. CallTypes'
  BY <1>1 DEF MsgInv, TasksInv, CallTypes
<1>3. /\ IsTimeoutEnable' => IsTimeoutEnable
      /\ Receiver # Receiver => UNCHANGED <<QEntries, IsTimeoutEnable>>
      /\ posted'[Sender] \in {posted[Sender], due[Sender]}
  BY <1>1
<1> QED BY ONLY OneToOne, MsgInv, <1>1, <1>2, <1>3, CallKeeps

(* A post that is refused because the queue is full.                       *)
LEMMA QpostFullKeeps ==
    ASSUME OneToOne, MsgInv, QpostFull(Sender)
    PROVE  TasksInv'
<1> USE TheTasks
<1>1. /\ InTask(Sender) /\ pc[Sender] \in {"new", "app", "woken"} /\ Sender \in Tasks
      /\ error' = [error EXCEPT ![Sender] = "ERROR_QUEUE_FULL"]
      /\ pc' = [pc EXCEPT ![Sender] = "app"]
      /\ posted' = [posted EXCEPT ![Sender] = due[Sender]]
      /\ UNCHANGED <<tcb, sched, boot, isr, MrtkTime, due, TaskId>>
      /\ UNCHANGED <<QEntries, IsTimeoutEnable>>
      /\ UNCHANGED msg
  BY DEF QpostFull, Calls, ring, event
<1>2. due[Sender] \in Nat /\ posted'[Sender] = due[Sender]
  <2>1. due \in [Tasks -> Nat] /\ posted \in [Users -> Nat]
    BY DEF MsgInv, TasksInv, TypesInv, CallTypes
  <2> QED BY <1>1, <2>1
<1>3. CallTypes'
  BY <1>1, <1>2 DEF MsgInv, TasksInv, CallTypes
<1>4. /\ IsTimeoutEnable' => IsTimeoutEnable
      /\ Sender # Receiver => UNCHANGED <<QEntries, IsTimeoutEnable>>
      /\ posted'[Sender] \in {posted[Sender], due[Sender]}
  BY <1>1, <1>2
<1> QED BY ONLY OneToOne, MsgInv, <1>1, <1>3, <1>4, CallKeeps

(* A call of the kernel that does nothing to the tasks.                    *)
LEMMA KernelCallKeeps ==
    ASSUME OneToOne, MsgInv, NEW t \in Tasks, KernelCall(t), UNCHANGED msgVars
    PROVE  TasksInv'
<1>1. /\ InTask(t) /\ pc[t] \in {"new", "app", "woken"}
      /\ pc' = [pc EXCEPT ![t] = "app"]
      /\ UNCHANGED <<tcb, sched, boot, isr, MrtkTime, due, TaskId>>
      /\ UNCHANGED <<QEntries, IsTimeoutEnable, error, msg, posted>>
  BY DEF KernelCall, msgVars, ring, event, calls
<1>2. CallTypes'
  BY <1>1 DEF MsgInv, TasksInv, CallTypes
<1>3. /\ IsTimeoutEnable' => IsTimeoutEnable
      /\ t # Receiver => UNCHANGED <<QEntries, IsTimeoutEnable>>
      /\ posted'[Sender] \in {posted[Sender], due[Sender]}
  BY <1>1
<1> QED BY ONLY OneToOne, MsgInv, t \in Tasks, <1>1, <1>2, <1>3, CallKeeps

DemoStep == MsgNext /\ DemoCalls /\ (TickBegin => RunningTask = Idle)

(* Each step of the demo keeps the invariant.                              *)
LEMMA DemoStepKeeps ==
    ASSUME DemoRegime, MsgInv, [DemoStep]_allVars
    PROVE  MsgInv'
<1> USE TheTasks DEF DemoRegime
<1>1. RingInv'
  <2>1. RingInv /\ ThereIsMsg /\ [MsgNext]_allVars
    BY WokenFindsMessage DEF MsgInv, DemoStep
  <2> QED BY <2>1, MsgStep
<1>2. CASE UNCHANGED allVars
  <2>1. UNCHANGED <<State, Delay, AbsoluteDeadline, RdyQueue, RunningTask, MrtkRunning,
                    toPlace, count, isrOwner, MrtkTime, pc, due, QEntries, TaskId,
                    IsTimeoutEnable, error, msg, posted>>
    BY <1>2 DEF allVars, vars, tcb, sched, boot, isr, msgVars, ring, event, calls
  <2>2. TypesInv' /\ CallTypes' /\ StartInv' /\ IdleInv'
    BY <2>1 DEF MsgInv, TasksInv, TypesInv, CallTypes, StartInv, IdleInv, Ticking, Runs
  <2>3. ReadyInv'
    BY <2>1 DEF MsgInv, TasksInv, ReadyInv, QueueInv, KeyInv, KeyMatchesTcb, IdleBehind,
                ReadyOnce
  <2>4. PlaceInv' /\ PendInv' /\ SendInv'
    BY <2>1 DEF MsgInv, TasksInv, PlaceInv, Place, PendInv, CanRun, TimedOut, SendInv,
                ReceiverReady, Runs, Ticking
  <2> QED BY <1>1, <2>2, <2>3, <2>4 DEF MsgInv, TasksInv
<1>3. ASSUME DemoStep PROVE TasksInv'
  <2>1. CASE Next /\ UNCHANGED msgVars
    <3>1. ASSUME NEW t \in Users, PlaceTask(t) PROVE TasksInv'
      BY <2>1, <3>1, PlaceTaskKeeps
    <3>2. CASE Start
      BY <2>1, <3>2, StartKeeps
    <3>3. ASSUME NEW t \in Tasks, KernelCall(t) PROVE TasksInv'
      BY <2>1, <3>3, KernelCallKeeps
    <3>4. ASSUME NEW t \in Users, WaitSched(t) PROVE TasksInv'
      <4> DEFINE where == "app"
      <4>1. /\ InTask(t) /\ Sched /\ pc' = [pc EXCEPT ![t] = where]
            /\ \/ pc[t] \in {"wait", "post"} /\ where = "app"
               \/ pc[t] = "pend" /\ where = "woken"
            /\ UNCHANGED <<Delay, AbsoluteDeadline, boot, isr, MrtkTime, due, msgVars>>
        BY <2>1, <3>4 DEF WaitSched
      <4> HIDE DEF where
      <4> QED BY ONLY OneToOne, IdleIsLast, MsgInv, t \in Users, <4>1, CallSchedKeeps
    <3>5. ASSUME NEW t \in Users, NEW d \in WaitTimes, WaitBegin(t, d) PROVE TasksInv'
      <4>1. t = Receiver => TaskId # t
        <5>1. pc[t] # "wait" /\ pc'[t] = "wait"
          <6>1. pc \in [Tasks -> MsgPCs] /\ t \in Tasks
            BY TaskNumbers DEF MsgInv, TasksInv, TypesInv
          <6> QED BY <3>5, <6>1 DEF WaitBegin
        <5> QED BY <1>3, <5>1 DEF DemoStep, DemoCalls, OneToOne
      <4> QED BY <2>1, <3>5, <4>1, WaitBeginKeeps
    <3>6. CASE TickBegin
      BY <1>3, <2>1, <3>6, TickBeginKeeps DEF DemoStep
    <3>7. CASE TickSkip \/ TickDelay
      BY <2>1, <3>7, TickTurnKeeps
    <3>8. CASE TickWake
      BY <2>1, <3>8, TickWakeKeeps
    <3>9. CASE TickSched
      BY <2>1, <3>9, TickSchedKeeps
    <3>10. CASE AckTick
      BY <2>1, <3>10, AckTickKeeps
    <3> QED BY <2>1, <3>1, <3>2, <3>3, <3>4, <3>5, <3>6, <3>7, <3>8, <3>9, <3>10
            DEF Next, TaskNext, TickNext
  <2>2. CASE QpendPick(Receiver) \/ QpendReturn(Receiver)
    <3>1. /\ InTask(Receiver) /\ pc[Receiver] \in {"new", "app", "woken"}
          /\ PickMsg(Receiver)
          /\ UNCHANGED <<tcb, sched, boot, isr, MrtkTime, due, event, posted>>
      BY <2>2 DEF QpendPick, QpendReturn, Calls
    <3> QED BY <3>1, PickKeeps
  <2>3. ASSUME NEW timeout \in Timeouts, QpendBlock(Receiver, timeout) PROVE TasksInv'
    BY <2>3, QpendBlockKeeps
  <2>4. CASE QpendSched(Receiver)
    <3> DEFINE where == "woken"
    <3>1. /\ InTask(Receiver) /\ Sched /\ pc' = [pc EXCEPT ![Receiver] = where]
          /\ \/ pc[Receiver] \in {"wait", "post"} /\ where = "app"
             \/ pc[Receiver] = "pend" /\ where = "woken"
          /\ UNCHANGED <<Delay, AbsoluteDeadline, boot, isr, MrtkTime, due, msgVars>>
      BY <2>4 DEF QpendSched
    <3>2. OneToOne /\ IdleIsLast /\ Receiver \in Users
      OBVIOUS
    <3> HIDE DEF where
    <3> QED BY ONLY MsgInv, <3>1, <3>2, CallSchedKeeps
  <2>5. CASE QpendTimeout(Receiver)
    BY <2>5, QpendTimeoutKeeps
  <2>6. CASE QpostFull(Sender)
    BY <2>6, QpostFullKeeps
  <2>7. ASSUME NEW m \in Messages, Qpost(Sender, m) PROVE TasksInv'
    <3>1. posted[Sender] < due[Sender]
      BY <1>3, <2>7 DEF DemoStep, DemoCalls, OneToOne, AnyQpost
    <3> QED BY <2>7, <3>1, QpostKeeps
  <2>8. CASE QpostSched(Sender)
    <3> DEFINE where == "app"
    <3>1. /\ InTask(Sender) /\ Sched /\ pc' = [pc EXCEPT ![Sender] = where]
          /\ \/ pc[Sender] \in {"wait", "post"} /\ where = "app"
             \/ pc[Sender] = "pend" /\ where = "woken"
          /\ UNCHANGED <<Delay, AbsoluteDeadline, boot, isr, MrtkTime, due, msgVars>>
      BY <2>8 DEF QpostSched
    <3>2. OneToOne /\ IdleIsLast /\ Sender \in Users
      OBVIOUS
    <3> HIDE DEF where
    <3> QED BY ONLY MsgInv, <3>1, <3>2, CallSchedKeeps
  <2>9. \/ Next /\ UNCHANGED msgVars
        \/ Qpend(Receiver) \/ QpendEnd(Receiver)
        \/ AnyQpost(Sender) \/ QpostSched(Sender)
    BY <1>3 DEF DemoStep, MsgNext, OneToOne
  <2> QED BY <2>1, <2>2, <2>3, <2>4, <2>5, <2>6, <2>7, <2>8, <2>9
          DEF Qpend, QpendEnd, AnyQpost
<1> QED BY <1>1, <1>2, <1>3 DEF MsgInv

(* The invariant says what the runs check.                                 *)
LEMMA MsgInvSuffices ==
    OneToOne /\ MsgInv => MsgTypeOK /\ ReadyOnce /\ NoMissedMessage
<1> SUFFICES ASSUME OneToOne, MsgInv PROVE MsgTypeOK /\ ReadyOnce /\ NoMissedMessage
  OBVIOUS
<1> USE TheTasks DEF MsgInv, TasksInv
<1>1. RdyQueue \in QueueType
  BY DEF ReadyInv, QueueInv, GoodQueue
<1>2. TaskId \in Users \cup {0}
  BY DEF PendInv
<1>3. MsgTypeOK
  BY <1>1, <1>2 DEF MsgTypeOK, TypesInv, CallTypes, RingInv, MsgStates, MsgPCs
<1>4. ReadyOnce
  BY DEF ReadyInv
<1>5. NoMissedMessage
  <2> SUFFICES ASSUME pc[Receiver] \in {"pend", "woken"}, Receiver \notin Members(RdyQueue),
                      RunningTask # Receiver
               PROVE  QEntries = 0
    BY DEF NoMissedMessage, OneToOne
  <2> QED BY DEF PendInv, CanRun, Runs
<1> QED BY <1>3, <1>4, <1>5

(* The calls of the queue take and acknowledge no tick: EveryTickFindsIdle *)
(* holds with them too.                                                    *)
LEMMA CallsKeepDebt ==
    ASSUME OneToOne, FirstIdleInv, [MsgNext /\ FirstTickFindsIdle]_allVars
    PROVE  FirstIdleInv'
<1> USE TheTasks, TaskNumbers DEF OneToOne
<1>1. CASE UNCHANGED allVars
  BY <1>1, NoTickKeeps DEF allVars, vars, sched, boot, isr, Ticking
<1>2. CASE Next /\ FirstTickFindsIdle
  BY <1>2, NextKeepsDebt
<1>3. CASE Qpend(Receiver)
  BY <1>3, NoTickKeeps
     DEF Qpend, QpendPick, QpendBlock, sched, boot, isr, Ticking
<1>4. CASE QpendEnd(Receiver)
  BY <1>4, NoTickKeeps
     DEF QpendEnd, QpendSched, QpendReturn, QpendTimeout, InTask, sched, boot, isr, Ticking
<1>5. CASE AnyQpost(Sender)
  BY <1>5, NoTickKeeps DEF AnyQpost, QpostFull, Qpost, sched, boot, isr, Ticking
<1>6. CASE QpostSched(Sender)
  BY <1>6, NoTickKeeps DEF QpostSched, InTask, boot, isr, Ticking
<1> QED BY <1>1, <1>2, <1>3, <1>4, <1>5, <1>6 DEF MsgNext

\* A task executes only while it is the one of the CPU.
ExecInv == \A t \in Users : State[t] = "EXECUTING" => Runs(t)

(* mrtk_sched makes the task that it takes from the CPU ready.             *)
LEMMA SchedExecutes ==
    ASSUME TypesInv, ExecInv, MrtkRunning, MrtkRunning' = MrtkRunning, Sched
    PROVE  ExecInv'
<1> DEFINE hgh   == GetTaskWithNearestDeadline(RdyQueue, Idle)
           slept == IF Preempted(State, RunningTask)
                    THEN [State EXCEPT ![RunningTask] = "READY"] ELSE State
<1>1. CASE hgh = RunningTask
  BY <1>1 DEF Sched, SchedFrom, ExecInv, Runs
<1>2. CASE hgh # RunningTask
  <2> SUFFICES ASSUME NEW t \in Users, State'[t] = "EXECUTING", t # hgh PROVE FALSE
    BY <1>2 DEF Sched, SchedFrom, Switch, ExecInv, Runs
  <2>1. State'[t] = slept[t] /\ t \in Tasks /\ Schedulable(t) /\ t \in DOMAIN State
    <3>1. /\ State \in [Tasks -> MsgStates] /\ t \in Tasks
          /\ State' = IF Schedulable(hgh) /\ slept[hgh] = "READY"
                      THEN [slept EXCEPT ![hgh] = "EXECUTING"] ELSE slept
      BY <1>2, TaskNumbers DEF Sched, SchedFrom, Switch, TypesInv
    <3>2. Schedulable(t)
      BY TaskNumbers DEF Schedulable
    <3>3. slept \in [Tasks -> MsgStates]
      BY <3>1 DEF MsgStates
    <3> HIDE DEF slept, hgh
    <3> QED BY <3>1, <3>2, <3>3
  <2>2. CASE t = RunningTask
    BY <2>1, <2>2 DEF Preempted
  <2>3. CASE t # RunningTask
    BY <2>1, <2>3 DEF ExecInv, Runs
  <2> QED BY <2>2, <2>3
<1> QED BY <1>1, <1>2

(* Every other step makes a task ready, or lets it sleep.                  *)
LEMMA StepExecutes ==
    ASSUME TypesInv, StartInv, ExecInv, [MsgNext]_allVars
    PROVE  ExecInv'
<1> USE TaskNumbers, MsgQueueAssumption
<1>1. ASSUME UNCHANGED <<State, RunningTask, MrtkRunning>> PROVE ExecInv'
  BY <1>1 DEF ExecInv, Runs
<1>2. ASSUME NEW t, NEW s \in {"READY", "SUSPENDED", "WAITING"},
             State' = [State EXCEPT ![t] = s], UNCHANGED <<RunningTask, MrtkRunning>>
      PROVE  ExecInv'
  BY <1>2 DEF ExecInv, Runs, TypesInv
<1>3. ASSUME Sched, MrtkRunning, UNCHANGED boot PROVE ExecInv'
  BY <1>3, SchedExecutes DEF boot
<1>4. CASE UNCHANGED allVars
  BY <1>1, <1>4 DEF allVars, vars, tcb, sched, boot
<1>5. CASE Next
  <2>1. ASSUME NEW t \in Users, PlaceTask(t) PROVE ExecInv'
    BY <1>1, <2>1 DEF PlaceTask, tcb
  <2>2. CASE Start
    BY <2>2 DEF Start, ExecInv, Runs, StartInv, TypesInv
  <2>3. ASSUME NEW t \in Tasks, KernelCall(t) PROVE ExecInv'
    BY <1>1, <2>3 DEF KernelCall, tcb, sched, boot
  <2>4. ASSUME NEW t \in Users, WaitSched(t) PROVE ExecInv'
    BY <1>3, <2>4 DEF WaitSched, InTask
  <2>5. ASSUME NEW t \in Users, NEW d \in WaitTimes, WaitBegin(t, d) PROVE ExecInv'
    BY <1>2, <2>5 DEF WaitBegin, sched, boot
  <2>6. CASE TickBegin \/ TickSkip \/ TickDelay \/ AckTick
    BY <1>1, <2>6 DEF TickBegin, TickTaken, TickSkip, TickDelay, AckTick, tcb, sched, boot
  <2>7. CASE TickWake
    BY <1>2, <2>7 DEF TickWake, boot
  <2>8. CASE TickSched
    <3>1. CASE MrtkRunning
      BY <1>3, <2>8, <3>1 DEF TickSched
    <3>2. CASE ~MrtkRunning
      BY <2>8, <3>2 DEF TickSched, StartInv
    <3> QED BY <3>1, <3>2
  <2> QED BY <1>5, <2>1, <2>2, <2>3, <2>4, <2>5, <2>6, <2>7, <2>8
          DEF Next, TaskNext, TickNext
<1>6. ASSUME NEW t \in Users, Qpend(t) PROVE ExecInv'
  <2>1. CASE QpendPick(t)
    BY <1>1, <2>1 DEF QpendPick, tcb, sched, boot
  <2>2. ASSUME NEW timeout \in Timeouts, QpendBlock(t, timeout) PROVE ExecInv'
    BY <1>2, <2>2 DEF QpendBlock, sched, boot
  <2> QED BY <1>6, <2>1, <2>2 DEF Qpend
<1>7. ASSUME NEW t \in Users, QpendEnd(t) PROVE ExecInv'
  <2>1. CASE QpendSched(t)
    BY <1>3, <2>1 DEF QpendSched, InTask
  <2>2. CASE QpendReturn(t) \/ QpendTimeout(t)
    BY <1>1, <2>2 DEF QpendReturn, QpendTimeout, tcb, sched, boot
  <2> QED BY <1>7, <2>1, <2>2 DEF QpendEnd
<1>8. ASSUME NEW t \in Users, AnyQpost(t) PROVE ExecInv'
  <2>1. CASE QpostFull(t)
    BY <1>1, <2>1 DEF QpostFull, tcb, sched, boot
  <2>2. ASSUME NEW m \in Messages, Qpost(t, m) PROVE ExecInv'
    BY <1>1, <1>2, <2>2 DEF Qpost, WakeReceiver, StateReady, boot
  <2> QED BY <1>8, <2>1, <2>2 DEF AnyQpost
<1>9. ASSUME NEW t \in Users, QpostSched(t) PROVE ExecInv'
  BY <1>3, <1>9 DEF QpostSched, InTask
<1> QED BY <1>4, <1>5, <1>6, <1>7, <1>8, <1>9 DEF MsgNext

(* A post of the demo finds a receiver that is out of mrtk_sched and of    *)
(* the ready queue: it is suspended or waits.                              *)
LEMMA DemoStepFindsSleeper ==
    ASSUME DemoRegime, MsgInv, ExecInv, DemoCalls
    PROVE  PostsToSleepers
<1> USE TheTasks DEF DemoRegime, MsgInv, TasksInv
<1> SUFFICES ASSUME NEW m \in Messages, Qpost(Sender, m), TaskId # 0 PROVE FindsSleeper
  BY DEF PostsToSleepers, FindsSleeper, OneToOne
<1>1. Runs(Sender) /\ pc[Sender] \in {"new", "app"} /\ posted[Sender] < due[Sender]
  BY DEF DemoCalls, OneToOne, AnyQpost, Qpost, Calls, InTask, Runs
<1>2. TaskId = Receiver /\ ~Runs(Receiver)
  BY <1>1 DEF PendInv, Runs
<1>3. pc[Receiver] = "woken"
  BY <1>2 DEF PendInv
<1>4. Receiver \notin Members(RdyQueue)
  BY <1>1, <1>2, PostFindsReceiverAsleep
<1>5. State[Receiver] \in MsgStates /\ State[Receiver] \notin {"READY", "EXECUTING"}
  <2>1. MrtkRunning /\ toPlace = {} /\ State[Receiver] \in MsgStates
    BY <1>1 DEF StartInv, TypesInv, Runs
  <2>2. State[Receiver] # "SLEEPING"
    BY <2>1 DEF MsgStates
  <2> QED BY <1>2, <1>4, <2>1, <2>2 DEF ReadyInv, ReadyOnce, ExecInv
<1> QED BY <1>2, <1>3, <1>5 DEF FindsSleeper, MsgStates

(* The invariant holds throughout, and with it the comment of              *)
(* mrtk_msgqueue.c:143.                                                    *)
LEMMA DemoInvariant ==
    ASSUME DemoRegime
    PROVE  DemoIdleSpec => [](MsgInv /\ ExecInv /\ ThereIsMsg)
<1>1. MsgInit => MsgInv /\ ExecInv /\ FirstIdleInv
  BY InitMsgInv, TaskNumbers DEF DemoRegime, MsgInit, Init, ExecInv, FirstIdleInv, Ticking
<1>2. MsgInv /\ ExecInv /\ FirstIdleInv
         /\ [MsgNext /\ DemoCalls /\ FirstTickFindsIdle]_allVars
         => MsgInv' /\ ExecInv' /\ FirstIdleInv'
  <2> SUFFICES ASSUME MsgInv, ExecInv, FirstIdleInv,
                      [MsgNext /\ DemoCalls /\ FirstTickFindsIdle]_allVars
               PROVE  MsgInv' /\ ExecInv' /\ FirstIdleInv'
    OBVIOUS
  <2>1. FirstIdleInv'
    BY CallsKeepDebt DEF DemoRegime
  <2>2. FirstTickFindsIdle => (TickBegin => RunningTask = Idle)
    BY TickFindsIdle
  <2>3. ExecInv'
    BY StepExecutes DEF MsgInv, TasksInv
  <2> QED BY <2>1, <2>2, <2>3, DemoStepKeeps DEF DemoStep
<1>3. MsgInv => ThereIsMsg
  BY WokenFindsMessage DEF DemoRegime
<1> QED BY <1>1, <1>2, <1>3, PTL DEF DemoIdleSpec

(* The tables, the ring and the event keep their types: QEntries stays     *)
(* between 0 and the size of the queue, and never wraps below 0.           *)
THEOREM MsgTypes ==
    ASSUME DemoRegime
    PROVE  DemoIdleSpec => []MsgTypeOK
<1>1. MsgInv => MsgTypeOK
  BY MsgInvSuffices DEF DemoRegime
<1> QED BY <1>1, DemoInvariant, PTL

(* A receiver that pends, is woken by a post or by a timeout, and waits    *)
(* again is in the ready queue exactly while it is READY, and once.        *)
THEOREM MsgReadyOnce ==
    ASSUME DemoRegime
    PROVE  DemoIdleSpec => []ReadyOnce
<1>1. MsgInv => ReadyOnce
  BY MsgInvSuffices DEF DemoRegime
<1> QED BY <1>1, DemoInvariant, PTL

(* mrtk_Qpost makes the task of the event ready without looking at its     *)
(* State (mrtk_msgqueue.c:199): where the sender waits before each post,   *)
(* that task is always asleep in mrtk_Qpend, and in no queue.              *)
THEOREM DemoPostsFindSleeper ==
    ASSUME DemoRegime
    PROVE  DemoIdleSpec => PostsFindSleeper
<1>1. MsgInv /\ ExecInv /\ [MsgNext /\ DemoCalls /\ FirstTickFindsIdle]_allVars
         => [PostsToSleepers]_allVars
  BY DemoStepFindsSleeper
<1> QED BY <1>1, DemoInvariant, PTL DEF DemoIdleSpec, PostsFindSleeper

(* A pend that comes back from mrtk_sched and has not timed out finds a    *)
(* message, as mrtk_msgqueue.c:143 says.                                   *)
THEOREM PendFindsMessage ==
    ASSUME DemoRegime
    PROVE  DemoIdleSpec => []ThereIsMsg
<1> QED BY DemoInvariant, PTL

(* So the queue of the demo is a first-in first-out channel: every message *)
(* is delivered once and in order.                                         *)
THEOREM DemoQueueImplementsChannel ==
    ASSUME DemoRegime
    PROVE  DemoIdleSpec => ImplementsChannel
<1>1. MsgInit /\ [][MsgNext]_allVars /\ []ThereIsMsg => ImplementsChannel
  BY QueueImplementsChannel
<1> QED BY <1>1, DemoInvariant, PTL DEF DemoIdleSpec

-----------------------------------------------------------------------------
(* The other regime: tasks call and ticks come at any time, and the        *)
(* receiver keeps up (KeepsUpSpec).  There may be any number of senders.   *)
(*                                                                         *)
(* What the demo's invariant has of ticks that find the idle task gives    *)
(* way to the windows: where a task that has blocked is interrupted before *)
(* its mrtk_sched, and where another may post before it comes back.        *)
OneReceiver == Receivers = {Receiver} /\ Receiver # 0

UpRegime == OneReceiver /\ IdleIsLast

Asleep(t) == State[t] \in {"SUSPENDED", "WAITING"}

\* A task that runs although it sleeps is in a window, and no tick ends its
\* delay there: it has two ticks to go, or the one in progress has passed it.
WindowInv ==
    \A t \in Users : Runs(t) /\ Asleep(t) =>
        /\ pc[t] \in {"wait", "pend"}
        /\ State[t] = "SUSPENDED" /\ (Ticking => count <= t) => Delay[t] >= 2

InPend(t) == pc[t] \in {"pend", "woken"}

\* From the test of QEntries on, a receiver sleeps as long as the queue is
\* empty, and no longer.
BlockedInv ==
    /\ TaskId \in {0, Receiver}
    /\ \A t \in Users : InPend(t) => t = Receiver
    /\ InPend(Receiver) =>
          /\ TaskId = Receiver
          /\ IF Asleep(Receiver) THEN QEntries = 0
                                 ELSE QEntries > 0 \/ TimedOut(Receiver)
          /\ State[Receiver] = "SUSPENDED" => IsTimeoutEnable

UpTasksInv ==
    /\ TypesInv /\ CallTypes /\ ReadyInv /\ StartInv
    /\ TickInv /\ WindowInv /\ BlockedInv

UpInv == UpTasksInv /\ ExecInv /\ RingInv

LEMMA TheReceiver ==
    ASSUME OneReceiver
    PROVE  /\ Receiver \in Users /\ Receiver \in Tasks /\ Receiver # 0
           /\ Receiver \in Nat /\ Receiver # Idle
  BY MsgQueueAssumption, TaskNumbers DEF OneReceiver

LEMMA InitUpInv == OneReceiver /\ MsgInit => UpInv
<1> SUFFICES ASSUME OneReceiver, MsgInit PROVE UpInv
  OBVIOUS
<1> USE TaskNumbers, KernelAssumption, HeapAssumption, TheReceiver DEF MsgInit, Init
<1>1. /\ GoodQueue(RdyQueue) /\ Members(RdyQueue) = {} /\ Held(RdyQueue) = {}
      /\ RdyQueue.last = 0 /\ Distinct(RdyQueue)
  BY InitIsGood, MembersHaveEntries DEF QueuesInit
<1>2. TypesInv
  <2>1. AbsoluteDeadline \in [Tasks -> 0..(U32 - 1)]
    BY DEF IdleDeadline, Tasks
  <2>2. State \in [Tasks -> MsgStates] /\ pc \in [Tasks -> MsgPCs]
    BY DEF MsgStates, MsgPCs
  <2>3. /\ Delay \in [Tasks -> Nat] /\ RunningTask = 0 /\ MrtkRunning = FALSE
        /\ MrtkTime \in 0..MaxTime /\ toPlace \subseteq Users /\ due \in [Tasks -> Nat]
        /\ count \in 0..NotTicking /\ isrOwner \in Tasks \cup {NoOwner}
    OBVIOUS
  <2> QED BY ONLY <2>1, <2>2, <2>3 DEF TypesInv
<1>3. CallTypes /\ TaskId = 0
  BY DEF CallTypes, Qcreate
<1>4. ReadyInv
  BY <1>1 DEF ReadyInv, KeyInv, QueueInv, KeyMatchesTcb, IdleBehind, ReadyOnce
<1>5. StartInv /\ TickInv
  BY <1>1, <1>3 DEF StartInv, TickInv, Ticking
<1>6. \A t \in Tasks : pc[t] = "new" /\ ~Runs(t) /\ State[t] = "READY"
  BY DEF Runs
<1>7. WindowInv /\ BlockedInv /\ ExecInv
  BY <1>3, <1>6 DEF WindowInv, BlockedInv, InPend, ExecInv
<1>8. RingInv
  BY QcreateEmpty
<1> QED BY <1>2, <1>3, <1>4, <1>5, <1>7, <1>8 DEF UpInv, UpTasksInv

(* A task in code of its own does not sleep, and no tick is in progress.   *)
LEMMA CallerAwake ==
    ASSUME UpInv, NEW t \in Tasks, InTask(t)
    PROVE  /\ MrtkRunning /\ RunningTask = t /\ toPlace = {} /\ ~Ticking
           /\ t \notin Members(RdyQueue)
           /\ t \in Users /\ pc[t] \notin {"wait", "pend"} => ~Asleep(t)
           /\ \A u \in Tasks : Runs(u) <=> u = t
  BY DEF UpInv, UpTasksInv, InTask, StartInv, TickInv, ReadyInv, ReadyOnce, WindowInv, Runs

(* Every mrtk_sched, that of a call and that of a tick: the task that gets *)
(* the CPU is awake, and nobody falls asleep or wakes.                     *)
LEMMA SchedUp ==
    ASSUME UpRegime, UpInv, MrtkRunning, Sched,
           pc' \in [Tasks -> MsgPCs], \A t \in Users : InPend(t)' <=> InPend(t),
           count' = NotTicking,
           UNCHANGED <<Delay, AbsoluteDeadline, boot, isrOwner, MrtkTime, due, msgVars>>
    PROVE  UpTasksInv'
<1> USE TheReceiver, TaskNumbers DEF UpRegime, UpInv, UpTasksInv
<1>1. /\ toPlace = {}
      /\ UNCHANGED <<Delay, AbsoluteDeadline, MrtkRunning, toPlace, isrOwner, MrtkTime, due,
                     QEntries, TaskId, IsTimeoutEnable, error, msg, posted>>
  BY DEF StartInv, boot, msgVars, ring, event, calls
<1>2. HandsOver
  BY <1>1, SchedHandsOver
<1>3. /\ State' \in [Tasks -> MsgStates] /\ RunningTask' \in Tasks /\ ReadyInv'
      /\ RunningTask' # Idle => State'[RunningTask'] = "EXECUTING"
      /\ \A u \in Users : /\ State'[u] = "SUSPENDED" <=> State[u] = "SUSPENDED"
                          /\ State'[u] = "WAITING" <=> State[u] = "WAITING"
  BY <1>2 DEF HandsOver
<1>4. TypesInv' /\ CallTypes'
  BY <1>1, <1>3 DEF TypesInv, CallTypes
<1>5. StartInv' /\ TickInv'
  BY <1>1 DEF StartInv, TickInv, Ticking
<1>6. WindowInv'
  BY <1>3 DEF WindowInv, Runs, Asleep
<1>7. BlockedInv'
  <2>1. (Asleep(Receiver)' <=> Asleep(Receiver)) /\ (TimedOut(Receiver)' <=> TimedOut(Receiver))
    BY <1>1, <1>3 DEF Asleep, TimedOut
  <2> QED BY <1>1, <1>3, <2>1 DEF BlockedInv
<1> QED BY <1>3, <1>4, <1>5, <1>6, <1>7

(* A call that neither blocks nor wakes anyone: only the receiver takes    *)
(* from the queue, and then it is out of its pend.                         *)
LEMMA CallUp ==
    ASSUME UpRegime, UpInv, NEW t \in Tasks, InTask(t),
           pc[t] \in {"new", "app", "woken"}, pc' = [pc EXCEPT ![t] = "app"],
           UNCHANGED <<tcb, sched, boot, isr, MrtkTime, due, TaskId>>, CallTypes',
           t # Receiver => UNCHANGED <<QEntries, IsTimeoutEnable>>
    PROVE  UpTasksInv'
<1> USE TheReceiver, TaskNumbers DEF UpRegime, UpInv, UpTasksInv
<1>1. UNCHANGED <<State, Delay, AbsoluteDeadline, RdyQueue, RunningTask, MrtkRunning,
                  toPlace, count, isrOwner, MrtkTime, due, TaskId>>
  BY DEF tcb, sched, boot, isr
<1>2. /\ pc' \in [Tasks -> MsgPCs] /\ pc'[t] = "app"
      /\ \A u \in Tasks \ {t} : pc'[u] = pc[u]
  BY DEF TypesInv, MsgPCs
<1>3. TypesInv' /\ ReadyInv'
  BY <1>1, <1>2 DEF TypesInv, ReadyInv, QueueInv, KeyMatchesTcb, KeyInv, IdleBehind,
                    ReadyOnce
<1>4. StartInv' /\ TickInv'
  BY <1>1, CallerAwake DEF StartInv, TickInv, Ticking
<1>5. WindowInv'
  <2> SUFFICES ASSUME NEW u \in Users, Runs(u)', Asleep(u)' PROVE FALSE
    BY DEF WindowInv
  <2>1. u = t /\ Asleep(t) /\ t \in Users
    BY <1>1, CallerAwake DEF Runs, Asleep
  <2> QED BY <2>1, CallerAwake
<1>6. BlockedInv'
  <2>1. CASE t = Receiver
    BY <1>1, <1>2, <2>1 DEF BlockedInv, InPend
  <2>2. CASE t # Receiver
    <3>1. /\ Asleep(Receiver)' <=> Asleep(Receiver)
          /\ TimedOut(Receiver)' <=> TimedOut(Receiver)
      BY <1>1, <2>2 DEF Asleep, TimedOut
    <3>2. \A u \in Users : InPend(u)' => InPend(u)
      BY <1>2 DEF InPend
    <3> QED BY <1>1, <2>2, <3>1, <3>2 DEF BlockedInv
  <2> QED BY <2>1, <2>2
<1> QED BY <1>3, <1>4, <1>5, <1>6

-----------------------------------------------------------------------------
(* A task that blocks has two ticks or no tick to wait for, and is in no   *)
(* queue.                                                                  *)
LEMMA BlockUp ==
    ASSUME UpRegime, UpInv, NEW t \in Users, InTask(t), pc[t] \in {"new", "app"},
           NEW s \in {"SUSPENDED", "WAITING"}, NEW where \in {"wait", "pend"},
           State' = [State EXCEPT ![t] = s], pc' = [pc EXCEPT ![t] = where],
           Delay' \in [Tasks -> Nat], due' \in [Tasks -> Nat],
           s = "SUSPENDED" => Delay'[t] >= 2,
           UNCHANGED <<AbsoluteDeadline, sched, boot, isr, MrtkTime>>,
           TaskId' = TaskId \/ MrtkRunning
    PROVE  /\ TypesInv' /\ ReadyInv' /\ StartInv' /\ TickInv' /\ WindowInv'
           /\ State'[t] = s /\ pc'[t] = where
           /\ \A u \in Tasks \ {t} : State'[u] = State[u] /\ pc'[u] = pc[u]
<1> USE TheReceiver, TaskNumbers DEF UpRegime, UpInv, UpTasksInv
<1>1. /\ MrtkRunning /\ RunningTask = t /\ toPlace = {} /\ t # Idle /\ t \in Tasks
      /\ ~Ticking /\ t \notin Members(RdyQueue) /\ \A u \in Tasks : Runs(u) <=> u = t
      /\ UNCHANGED <<AbsoluteDeadline, RdyQueue, RunningTask, MrtkRunning, toPlace, count,
                     isrOwner, MrtkTime>>
  BY CallerAwake DEF sched, boot, isr
<1>2. /\ State' \in [Tasks -> MsgStates] /\ pc' \in [Tasks -> MsgPCs]
      /\ State'[t] = s /\ pc'[t] = where
      /\ \A u \in Tasks \ {t} : State'[u] = State[u] /\ pc'[u] = pc[u]
  BY <1>1 DEF TypesInv, MsgStates, MsgPCs
<1>3. TypesInv'
  BY <1>1, <1>2 DEF TypesInv
<1>4. ReadyInv'
  BY <1>1, BlockReady
<1>5. StartInv' /\ TickInv'
  BY <1>1 DEF StartInv, TickInv, Ticking
<1>6. WindowInv'
  BY <1>1, <1>2 DEF WindowInv, Runs
<1> QED BY <1>2, <1>3, <1>4, <1>5, <1>6

\* What LongSleeps says of the task that blocks.
LEMMA LongSleep ==
    ASSUME LongSleeps, UpInv, NEW t \in Users, InTask(t), pc[t] \in {"new", "app"},
           State'[t] = "SUSPENDED", Delay'[t] \in Nat \ {0}
    PROVE  Delay'[t] >= 2
<1>1. State[t] # "SUSPENDED"
  BY CallerAwake, TaskNumbers DEF Asleep
<1>2. Delay'[t] # 1
  BY <1>1 DEF LongSleeps
<1> QED BY <1>2

LEMMA WaitBeginUp ==
    ASSUME UpRegime, UpInv, LongSleeps, NEW t \in Users, NEW d \in WaitTimes,
           WaitBegin(t, d), UNCHANGED msgVars
    PROVE  UpTasksInv'
<1> USE TheReceiver, TaskNumbers DEF UpRegime, UpInv, UpTasksInv
<1> DEFINE s == "SUSPENDED" where == "wait"
<1>1. /\ InTask(t) /\ pc[t] \in {"new", "app"} /\ t \in Tasks
      /\ State' = [State EXCEPT ![t] = s] /\ pc' = [pc EXCEPT ![t] = where]
      /\ Delay' = [Delay EXCEPT ![t] = d]
      /\ due' = [due EXCEPT ![t] = MrtkTime + d]
      /\ UNCHANGED <<AbsoluteDeadline, sched, boot, isr, MrtkTime>>
  BY DEF WaitBegin
<1>2. UNCHANGED <<QEntries, TaskId, IsTimeoutEnable, error, msg, posted>>
  BY DEF msgVars, ring, event, calls
<1>3. d \in Nat \ {0} /\ MrtkTime + d \in Nat
  BY KernelAssumption DEF TypesInv
<1>4. /\ Delay' \in [Tasks -> Nat] /\ due' \in [Tasks -> Nat] /\ Delay'[t] = d
      /\ State'[t] = s /\ \A u \in Tasks \ {t} : Delay'[u] = Delay[u]
  BY <1>1, <1>3 DEF TypesInv
<1>5. Delay'[t] >= 2
  BY <1>1, <1>3, <1>4, LongSleep
<1>6. /\ TypesInv' /\ ReadyInv' /\ StartInv' /\ TickInv' /\ WindowInv'
      /\ pc'[t] = where
      /\ \A u \in Tasks \ {t} : State'[u] = State[u] /\ pc'[u] = pc[u]
  <2>1. s \in {"SUSPENDED", "WAITING"} /\ where \in {"wait", "pend"}
    OBVIOUS
  <2>2. UpRegime /\ UpInv /\ TaskId' = TaskId
    BY <1>2
  <2> HIDE DEF s, where, UpInv, UpRegime
  <2> QED BY ONLY t \in Users, <1>1, <1>4, <1>5, <2>1, <2>2, BlockUp
<1>7. CallTypes'
  BY <1>2 DEF CallTypes
<1>8. BlockedInv'
  <2>1. CASE t = Receiver
    BY <1>2, <1>6, <2>1 DEF BlockedInv, InPend
  <2>2. CASE t # Receiver
    <3>1. /\ Asleep(Receiver)' <=> Asleep(Receiver)
          /\ TimedOut(Receiver)' <=> TimedOut(Receiver)
          /\ State'[Receiver] = State[Receiver]
      BY <1>2, <1>4, <1>6, <2>2 DEF Asleep, TimedOut
    <3>2. \A u \in Users : InPend(u)' => InPend(u)
      BY <1>6 DEF InPend
    <3> QED BY <1>2, <2>2, <3>1, <3>2 DEF BlockedInv
  <2> QED BY <2>1, <2>2
<1> QED BY <1>6, <1>7, <1>8

(* The receiver blocks on an empty queue.                                  *)
LEMMA QpendBlockUp ==
    ASSUME UpRegime, UpInv, LongSleeps, NEW timeout \in Timeouts,
           QpendBlock(Receiver, timeout)
    PROVE  UpTasksInv'
<1> USE TheReceiver, TaskNumbers DEF UpRegime, UpInv, UpTasksInv
<1> DEFINE s == IF timeout = 0 THEN "WAITING" ELSE "SUSPENDED"
           where == "pend"
<1>1. /\ InTask(Receiver) /\ pc[Receiver] \in {"new", "app"} /\ QEntries = 0
      /\ TaskId' = Receiver
      /\ State' = [State EXCEPT ![Receiver] = s] /\ pc' = [pc EXCEPT ![Receiver] = where]
      /\ timeout = 0 => UNCHANGED <<Delay, due>>
      /\ timeout # 0 => /\ Delay' = [Delay EXCEPT ![Receiver] = timeout]
                        /\ due' = [due EXCEPT ![Receiver] = MrtkTime + timeout]
      /\ IsTimeoutEnable' = (timeout # 0)
      /\ UNCHANGED <<AbsoluteDeadline, sched, boot, isr, MrtkTime>>
      /\ UNCHANGED <<QEntries, error, msg, posted>>
  BY DEF QpendBlock, Calls, RememberReceiver, ring, calls
<1>2. timeout \in Nat /\ MrtkTime + timeout \in Nat
  BY MsgQueueAssumption, KernelAssumption DEF TypesInv
<1>3. /\ Delay' \in [Tasks -> Nat] /\ due' \in [Tasks -> Nat] /\ State'[Receiver] = s
      /\ timeout # 0 => Delay'[Receiver] = timeout
  BY <1>1, <1>2 DEF TypesInv
<1>4. s = "SUSPENDED" => Delay'[Receiver] >= 2
  <2>1. ASSUME s = "SUSPENDED" PROVE Delay'[Receiver] \in Nat \ {0}
    BY <1>2, <1>3, <2>1
  <2> QED BY <1>1, <1>3, <2>1, LongSleep
<1>5. /\ TypesInv' /\ ReadyInv' /\ StartInv' /\ TickInv' /\ WindowInv'
      /\ pc'[Receiver] = where
      /\ \A u \in Tasks \ {Receiver} : State'[u] = State[u] /\ pc'[u] = pc[u]
  <2>1. s \in {"SUSPENDED", "WAITING"} /\ where \in {"wait", "pend"}
    OBVIOUS
  <2>2. UpRegime /\ UpInv /\ MrtkRunning /\ Receiver \in Users
    BY <1>1 DEF InTask
  <2> HIDE DEF s, where, UpInv, UpRegime
  <2> QED BY ONLY <1>1, <1>3, <1>4, <2>1, <2>2, BlockUp
<1>6. IsTimeoutEnable' = (timeout # 0) /\ (s = "SUSPENDED" <=> timeout # 0)
      /\ Asleep(Receiver)'
  BY <1>1, <1>3 DEF Asleep
<1>7. CallTypes'
  BY <1>1, <1>6 DEF CallTypes
<1>8. BlockedInv'
  <2>1. \A u \in Users : InPend(u)' => u = Receiver
    BY <1>5 DEF InPend, BlockedInv
  <2> QED BY <1>1, <1>3, <1>6, <2>1 DEF BlockedInv
<1> QED BY <1>5, <1>7, <1>8

-----------------------------------------------------------------------------
(* A tick may come while any task runs: one in a window has two to go.     *)
LEMMA TickBeginUp ==
    ASSUME UpRegime, UpInv, TickBegin, UNCHANGED msgVars
    PROVE  UpTasksInv'
<1> USE TheReceiver, TaskNumbers DEF UpRegime, UpInv, UpTasksInv
<1>1. /\ MrtkRunning /\ isrOwner = NoOwner /\ isrOwner' = RunningTask
      /\ MrtkTime < MaxTime /\ MrtkTime' = MrtkTime + 1 /\ count' = 0
      /\ UNCHANGED <<State, Delay, AbsoluteDeadline, RdyQueue, RunningTask, MrtkRunning,
                     toPlace, pc, due, QEntries, TaskId, IsTimeoutEnable, error, msg, posted>>
  BY DEF TickBegin, TickTaken, tcb, sched, boot, msgVars, ring, event, calls
<1>2. ~Ticking
  <2>1. RunningTask \in Tasks
    BY <1>1 DEF TypesInv
  <2> QED BY <1>1, <2>1 DEF TickInv
<1>3. MrtkTime \in Nat /\ MrtkTime' \in 0..MaxTime /\ count' \in 0..NotTicking
  BY <1>1, KernelAssumption DEF TypesInv
<1>4. TypesInv' /\ CallTypes'
  BY <1>1, <1>3 DEF TypesInv, CallTypes
<1>5. ReadyInv'
  BY <1>1, ClockKeepsKeys DEF ReadyInv, QueueInv, KeyMatchesTcb, IdleBehind, ReadyOnce
<1>6. StartInv' /\ TickInv'
  BY <1>1 DEF StartInv, TickInv
<1>7. WindowInv' /\ BlockedInv'
  BY <1>1, <1>2 DEF WindowInv, Runs, Asleep, BlockedInv, InPend, TimedOut
<1> QED BY <1>4, <1>5, <1>6, <1>7

LEMMA TickTurnUp ==
    ASSUME UpRegime, UpInv, TickSkip \/ TickDelay, UNCHANGED msgVars
    PROVE  UpTasksInv'
<1> USE TheReceiver, TaskNumbers DEF UpRegime, UpInv, UpTasksInv
<1>1. /\ count < UsersMax /\ count \in Nat /\ count' = count + 1
      /\ \/ Delay' = Delay
         \/ /\ count \in Users /\ State[count] = "SUSPENDED" /\ Delay[count] # 0
            /\ Delay' = [Delay EXCEPT ![count] = @ - 1]
      /\ UNCHANGED <<State, AbsoluteDeadline, RdyQueue, RunningTask, MrtkRunning, toPlace,
                     isrOwner, MrtkTime, pc, due, QEntries, TaskId, IsTimeoutEnable,
                     error, msg, posted>>
  BY DEF TickSkip, TickDelay, Sleeps, tcb, sched, boot, TypesInv, msgVars, ring, event,
         calls
<1>2. Ticking /\ Ticking' /\ count' \in 0..NotTicking
  BY <1>1 DEF Ticking
<1>3. /\ Delay' \in [Tasks -> Nat]
      /\ \A u \in Tasks : Delay'[u] # Delay[u] => u = count /\ State[u] = "SUSPENDED"
  <2>1. Delay \in [Tasks -> Nat]
    BY DEF TypesInv
  <2>2. CASE Delay' = Delay
    BY <2>1, <2>2
  <2>3. CASE /\ count \in Users /\ State[count] = "SUSPENDED" /\ Delay[count] # 0
             /\ Delay' = [Delay EXCEPT ![count] = @ - 1]
    <3>1. Delay[count] - 1 \in Nat
      BY <2>1, <2>3
    <3> QED BY <2>1, <2>3, <3>1
  <2> QED BY <1>1, <2>2, <2>3
<1>4. TypesInv' /\ CallTypes'
  BY <1>1, <1>2, <1>3 DEF TypesInv, CallTypes
<1>5. ReadyInv'
  BY <1>1 DEF ReadyInv, QueueInv, KeyInv, KeyMatchesTcb, IdleBehind, ReadyOnce
<1>6. StartInv' /\ TickInv'
  BY <1>1, <1>2 DEF StartInv, TickInv, Ticking
<1>7. WindowInv'
  <2> SUFFICES ASSUME NEW t \in Users, Runs(t), Asleep(t), State[t] = "SUSPENDED",
                      count + 1 <= t
               PROVE  Delay'[t] >= 2
    BY <1>1, <1>2 DEF WindowInv, Runs, Asleep
  <2>1. count <= t /\ t # count
    BY <1>1
  <2> QED BY <1>3, <2>1 DEF WindowInv
<1>8. BlockedInv'
  <2>1. ~Asleep(Receiver) => (TimedOut(Receiver)' <=> TimedOut(Receiver))
    BY <1>1, <1>3 DEF Asleep, TimedOut
  <2> QED BY <1>1, <2>1 DEF BlockedInv, InPend, Asleep
<1> QED BY <1>4, <1>5, <1>6, <1>7, <1>8

(* A tick never wakes the task that it has interrupted, and a pend that it *)
(* ends has timed out.                                                     *)
LEMMA TickWakeUp ==
    ASSUME UpRegime, UpInv, TickWake, UNCHANGED msgVars
    PROVE  UpTasksInv'
<1> USE TheReceiver, TaskNumbers DEF UpRegime, UpInv, UpTasksInv
<1>1. /\ count < UsersMax /\ count \in Users /\ count' = count + 1
      /\ State[count] = "SUSPENDED" /\ Delay[count] = 1
      /\ UNCHANGED <<RunningTask, MrtkRunning, toPlace, isrOwner, MrtkTime, pc, due,
                     QEntries, TaskId, IsTimeoutEnable, error, msg, posted>>
  BY DEF TickWake, Sleeps, boot, msgVars, ring, event, calls
<1>2. Ticking /\ Ticking' /\ count' \in 0..NotTicking /\ count \in Nat
  BY <1>1 DEF Ticking
<1>3. MrtkRunning /\ toPlace = {} /\ isrOwner = RunningTask
  BY <1>2 DEF StartInv, TickInv
<1>4. RunningTask # count
  <2>1. ASSUME RunningTask = count PROVE Delay[count] >= 2
    BY <1>1, <1>2, <1>3, <2>1 DEF WindowInv, Runs, Asleep
  <2> QED BY <1>1, <2>1
<1>5. /\ TypesInv' /\ ReadyInv' /\ State'[count] = "READY" /\ Delay'[count] = 0
      /\ \A u \in Tasks \ {count} : State'[u] = State[u] /\ Delay'[u] = Delay[u]
  BY <1>3, <1>4, WakeReady
<1>6. CallTypes'
  BY <1>1 DEF CallTypes
<1>7. StartInv' /\ TickInv'
  BY <1>1, <1>2, <1>3 DEF StartInv, TickInv
<1>8. WindowInv'
  <2> SUFFICES ASSUME NEW t \in Users, Runs(t), Asleep(t)'
               PROVE  /\ pc[t] \in {"wait", "pend"}
                      /\ State'[t] = "SUSPENDED" /\ count + 1 <= t => Delay'[t] >= 2
    BY <1>1, <1>2 DEF WindowInv, Runs
  <2>1. t # count /\ t \in Tasks
    BY <1>4 DEF Runs
  <2>2. State'[t] = State[t] /\ Delay'[t] = Delay[t] /\ Asleep(t)
    BY <1>5, <2>1 DEF Asleep
  <2>3. t \in Nat /\ (count + 1 <= t => count <= t)
    BY <1>2
  <2> QED BY <1>2, <2>2, <2>3 DEF WindowInv
<1>9. BlockedInv'
  <2>1. CASE count = Receiver
    <3>1. InPend(Receiver) => TimedOut(Receiver)' /\ State'[Receiver] = "READY"
      BY <1>1, <1>5, <2>1 DEF BlockedInv, TimedOut
    <3> QED BY <1>1, <3>1 DEF BlockedInv, InPend, Asleep
  <2>2. CASE count # Receiver
    <3>1. /\ Asleep(Receiver)' <=> Asleep(Receiver)
          /\ TimedOut(Receiver)' <=> TimedOut(Receiver)
          /\ State'[Receiver] = State[Receiver]
      BY <1>1, <1>5, <2>2 DEF Asleep, TimedOut
    <3> QED BY <1>1, <3>1 DEF BlockedInv, InPend
  <2> QED BY <2>1, <2>2
<1> QED BY <1>5, <1>6, <1>7, <1>8, <1>9

LEMMA AckTickUp ==
    ASSUME UpRegime, UpInv, AckTick, UNCHANGED msgVars
    PROVE  UpTasksInv'
<1> USE TheReceiver, TaskNumbers DEF UpRegime, UpInv, UpTasksInv
<1>1. /\ ~Ticking /\ isrOwner' = NoOwner
      /\ UNCHANGED <<State, Delay, AbsoluteDeadline, RdyQueue, RunningTask, MrtkRunning,
                     toPlace, count, MrtkTime, pc, due, QEntries, TaskId,
                     IsTimeoutEnable, error, msg, posted>>
  BY DEF AckTick, tcb, sched, boot, msgVars, ring, event, calls
<1>2. TypesInv' /\ CallTypes'
  BY <1>1 DEF TypesInv, CallTypes
<1>3. ReadyInv'
  BY <1>1 DEF ReadyInv, QueueInv, KeyInv, KeyMatchesTcb, IdleBehind, ReadyOnce
<1>4. StartInv' /\ TickInv' /\ WindowInv' /\ BlockedInv'
  BY <1>1 DEF StartInv, TickInv, Ticking, WindowInv, BlockedInv, Runs, Asleep, InPend,
              TimedOut
<1> QED BY <1>2, <1>3, <1>4

-----------------------------------------------------------------------------
(* Nothing is pending before the boot.                                     *)
LEMMA PlaceTaskUp ==
    ASSUME UpRegime, UpInv, NEW t \in Users, PlaceTask(t), UNCHANGED msgVars
    PROVE  UpTasksInv'
<1> USE TheReceiver, TaskNumbers DEF UpRegime, UpInv, UpTasksInv
<1>1. /\ t \in toPlace /\ ~MrtkRunning
      /\ RdyQueue' = InsertInQueue(RdyQueue, t, Deadline[t])
      /\ toPlace' = toPlace \ {t}
      /\ UNCHANGED <<State, Delay, AbsoluteDeadline, RunningTask, MrtkRunning, count,
                     isrOwner, MrtkTime, pc, due, QEntries, TaskId, IsTimeoutEnable,
                     error, msg, posted>>
  BY DEF PlaceTask, StartInv, tcb, isr, msgVars, ring, event, calls
<1>2. /\ Members(RdyQueue) = Users \ toPlace /\ TaskId = 0 /\ count = NotTicking
      /\ isrOwner = NoOwner
      /\ \A u \in Tasks : State[u] = "READY" /\ pc[u] = "new"
      /\ \A u \in Users : AbsoluteDeadline[u] = Deadline[u]
      /\ toPlace \subseteq Users
  BY <1>1 DEF StartInv, TypesInv
<1>3. TypesInv' /\ ReadyInv' /\ Members(RdyQueue') = Members(RdyQueue) \cup {t}
  BY PlaceReady
<1>4. CallTypes'
  BY <1>1 DEF CallTypes
<1>5. StartInv' /\ TickInv'
  BY <1>1, <1>2, <1>3 DEF StartInv, TickInv, Ticking
<1>6. WindowInv' /\ BlockedInv'
  BY <1>1, <1>2 DEF WindowInv, Runs, BlockedInv, InPend
<1> QED BY <1>3, <1>4, <1>5, <1>6

LEMMA StartUp ==
    ASSUME UpRegime, UpInv, Start, UNCHANGED msgVars
    PROVE  UpTasksInv'
<1> USE TheReceiver, TaskNumbers DEF UpRegime, UpInv, UpTasksInv
<1>1. /\ ~MrtkRunning /\ MrtkRunning' /\ toPlace = {} /\ toPlace' = {}
      /\ UNCHANGED <<Delay, AbsoluteDeadline, count, isrOwner, MrtkTime, pc, due,
                     QEntries, TaskId, IsTimeoutEnable, error, msg, posted>>
  BY DEF Start, isr, msgVars, ring, event, calls
<1>2. /\ TaskId = 0 /\ count = NotTicking /\ isrOwner = NoOwner
      /\ \A u \in Tasks : State[u] = "READY" /\ pc[u] = "new"
  BY <1>1 DEF StartInv
<1>3. /\ TypesInv' /\ ReadyInv' /\ RunningTask' \in Tasks
      /\ \A u \in Users : State'[u] \in {"READY", "EXECUTING"}
  BY <1>1, <1>2, StartReady
<1>4. CallTypes' /\ StartInv' /\ TickInv'
  BY <1>1, <1>2 DEF CallTypes, StartInv, TickInv, Ticking
<1>5. WindowInv' /\ BlockedInv'
  BY <1>1, <1>2, <1>3 DEF WindowInv, Asleep, BlockedInv, InPend
<1> QED BY <1>3, <1>4, <1>5

-----------------------------------------------------------------------------
(* A post to a receiver that keeps up wakes it, out of no queue.           *)
LEMMA QpostUp ==
    ASSUME UpRegime, UpInv, FindsSleeper, NEW t \in Senders, NEW m \in Messages, Qpost(t, m)
    PROVE  UpTasksInv'
<1> USE TheReceiver, TaskNumbers DEF UpRegime, UpInv, UpTasksInv
<1>1. /\ InTask(t) /\ pc[t] \in {"new", "app"} /\ t \in Users /\ t \in Tasks
      /\ QEntries' = QEntries + 1 /\ WakeReceiver
      /\ error' = [error EXCEPT ![t] = "NO_ERROR"]
      /\ pc' = [pc EXCEPT ![t] = "post"]
      /\ posted' = [posted EXCEPT ![t] = due[t]]
      /\ UNCHANGED <<Delay, RunningTask, MrtkRunning, toPlace, count, isrOwner,
                     MrtkTime, due, TaskId, IsTimeoutEnable, msg>>
  BY MsgQueueAssumption DEF Qpost, Calls, Push, boot, isr, event
<1>2. /\ MrtkRunning /\ RunningTask = t /\ toPlace = {} /\ ~Ticking /\ ~Asleep(t)
      /\ \A u \in Tasks : Runs(u) <=> u = t
  BY <1>1, CallerAwake
<1>3. /\ pc' \in [Tasks -> MsgPCs] /\ pc'[t] = "post"
      /\ \A u \in Tasks \ {t} : pc'[u] = pc[u]
  BY <1>1 DEF TypesInv, MsgPCs
<1>4. /\ State' \in [Tasks -> MsgStates] /\ AbsoluteDeadline' \in [Tasks -> 0..(U32 - 1)]
      /\ ReadyInv'
      /\ \A u \in Tasks \ {Receiver} : State'[u] = State[u]
      /\ TaskId = Receiver => State'[Receiver] = "READY" /\ Receiver # t
      /\ TaskId = 0 => State' = State
  <2>1. TaskId \in {0, Receiver}
    BY DEF BlockedInv
  <2>2. ASSUME TaskId = Receiver PROVE Receiver # t /\ Receiver \notin Members(RdyQueue)
    <3>1. State[Receiver] \in {"SUSPENDED", "WAITING"}
      BY <2>2 DEF FindsSleeper
    <3>2. Receiver # t
      BY <1>2, <3>1 DEF Asleep
    <3> QED BY <1>2, <3>1, <3>2 DEF ReadyInv, ReadyOnce
  <2> QED BY <1>1, <1>2, <2>1, <2>2, PostReady
<1>5. TypesInv'
  BY <1>1, <1>3, <1>4 DEF TypesInv
<1>6. CallTypes'
  <2>1. due[t] \in Nat
    BY <1>1 DEF TypesInv
  <2> QED BY <1>1, <2>1 DEF CallTypes
<1>7. StartInv' /\ TickInv'
  BY <1>1, <1>2 DEF StartInv, TickInv, Ticking
<1>8. TaskId \in {0, Receiver}
  BY DEF BlockedInv
<1>9. WindowInv'
  <2> SUFFICES ASSUME Asleep(t)' PROVE FALSE
    BY <1>1, <1>2 DEF WindowInv, Runs
  <2>1. State'[t] = State[t]
    BY <1>1, <1>4, <1>8
  <2> QED BY <1>2, <2>1 DEF Asleep
<1>10. BlockedInv'
  <2>1. \A u \in Users : InPend(u)' => InPend(u)
    BY <1>3 DEF InPend
  <2>2. CASE TaskId = Receiver
    <3>1. QEntries' > 0
      <4>1. QEntries \in Nat
        BY MsgQueueAssumption DEF RingInv
      <4> QED BY <1>1, <4>1
    <3>2. ~Asleep(Receiver)' /\ State'[Receiver] # "SUSPENDED"
      BY <1>4, <2>2 DEF Asleep
    <3> QED BY <1>1, <2>1, <2>2, <3>1, <3>2 DEF BlockedInv
  <2>3. CASE TaskId = 0
    <3>1. \A u \in Users : ~InPend(u)'
      BY <2>1, <2>3 DEF BlockedInv
    <3> QED BY <1>1, <2>3, <3>1 DEF BlockedInv
  <2> QED BY <1>8, <2>2, <2>3
<1> QED BY <1>4, <1>5, <1>6, <1>7, <1>9, <1>10

-----------------------------------------------------------------------------
(* mrtk_sched as the tasks call it: from a wait, a pend or a post.         *)
LEMMA CallSchedUp ==
    ASSUME UpRegime, UpInv, NEW t \in Users, InTask(t), Sched,
           NEW where \in MsgPCs, pc' = [pc EXCEPT ![t] = where],
           InPend(t) <=> where = "woken", where # "pend",
           UNCHANGED <<Delay, AbsoluteDeadline, boot, isr, MrtkTime, due, msgVars>>
    PROVE  UpTasksInv'
<1> USE TaskNumbers
<1>1. MrtkRunning /\ ~Ticking
  BY CallerAwake
<1>2. pc \in [Tasks -> MsgPCs] /\ t \in Tasks
  BY DEF UpInv, UpTasksInv, TypesInv
<1>3. pc' \in [Tasks -> MsgPCs] /\ \A u \in Users : InPend(u)' <=> InPend(u)
  BY <1>2 DEF InPend
<1>4. count' = NotTicking /\ UNCHANGED isrOwner
  BY <1>1 DEF isr, Ticking
<1> HIDE DEF UpInv, UpRegime
<1>5. UNCHANGED <<Delay, AbsoluteDeadline, boot, isrOwner, MrtkTime, due, msgVars>>
  BY <1>4
<1> QED BY ONLY UpRegime, UpInv, Sched, <1>1, <1>3, <1>4, <1>5, SchedUp

(* A pend that returns a message.                                          *)
LEMMA PickUp ==
    ASSUME UpRegime, UpInv, InTask(Receiver), pc[Receiver] \in {"new", "app", "woken"},
           PickMsg(Receiver),
           UNCHANGED <<tcb, sched, boot, isr, MrtkTime, due, event, posted>>
    PROVE  UpTasksInv'
<1> USE TheReceiver DEF UpRegime
<1>1. /\ msg' = [msg EXCEPT ![Receiver] = storage[QOut]]
      /\ error' = [error EXCEPT ![Receiver] = "NO_ERROR"]
      /\ pc' = [pc EXCEPT ![Receiver] = "app"]
      /\ UNCHANGED <<tcb, sched, boot, isr, MrtkTime, due, TaskId>>
      /\ UNCHANGED <<IsTimeoutEnable, posted>>
  BY DEF PickMsg, event
<1>2. CallTypes'
  <2>1. storage[QOut] \in Messages \cup {Unset}
    BY DEF UpInv, RingInv
  <2> QED BY <1>1, <2>1 DEF UpInv, UpTasksInv, CallTypes
<1>3. /\ UpRegime /\ Receiver \in Tasks /\ InTask(Receiver)
      /\ pc[Receiver] \in {"new", "app", "woken"}
      /\ Receiver # Receiver => UNCHANGED <<QEntries, IsTimeoutEnable>>
  OBVIOUS
<1> QED BY ONLY UpInv, <1>1, <1>2, <1>3, CallUp

(* A pend that times out.                                                  *)
LEMMA QpendTimeoutUp ==
    ASSUME UpRegime, UpInv, QpendTimeout(Receiver)
    PROVE  UpTasksInv'
<1> USE TheReceiver DEF UpRegime
<1>1. /\ InTask(Receiver) /\ pc[Receiver] \in {"new", "app", "woken"} /\ Receiver \in Tasks
      /\ IsTimeoutEnable' = FALSE
      /\ error' = [error EXCEPT ![Receiver] = "EVENT_TIMEOUT"]
      /\ pc' = [pc EXCEPT ![Receiver] = "app"]
      /\ UNCHANGED <<tcb, sched, boot, isr, MrtkTime, due, TaskId>>
      /\ UNCHANGED <<msg, posted>>
  BY DEF QpendTimeout
<1>2. CallTypes'
  BY <1>1 DEF UpInv, UpTasksInv, CallTypes
<1>3. UpRegime /\ (Receiver # Receiver => UNCHANGED <<QEntries, IsTimeoutEnable>>)
  OBVIOUS
<1> QED BY ONLY UpInv, <1>1, <1>2, <1>3, CallUp

(* A post that is refused because the queue is full.                       *)
LEMMA QpostFullUp ==
    ASSUME UpRegime, UpInv, NEW t \in Senders, QpostFull(t)
    PROVE  UpTasksInv'
<1>1. /\ InTask(t) /\ pc[t] \in {"new", "app", "woken"} /\ t \in Tasks /\ t \in Users
      /\ error' = [error EXCEPT ![t] = "ERROR_QUEUE_FULL"]
      /\ pc' = [pc EXCEPT ![t] = "app"]
      /\ posted' = [posted EXCEPT ![t] = due[t]]
      /\ UNCHANGED <<tcb, sched, boot, isr, MrtkTime, due, TaskId>>
      /\ UNCHANGED <<QEntries, IsTimeoutEnable>>
      /\ UNCHANGED msg
  BY MsgQueueAssumption, TaskNumbers DEF QpostFull, Calls, ring, event
<1>2. CallTypes'
  <2>1. due[t] \in Nat
    BY <1>1 DEF UpInv, UpTasksInv, TypesInv
  <2> QED BY <1>1, <2>1 DEF UpInv, UpTasksInv, CallTypes
<1> QED BY ONLY UpRegime, UpInv, <1>1, <1>2, CallUp

(* A call of the kernel that does nothing to the tasks.                    *)
LEMMA KernelCallUp ==
    ASSUME UpRegime, UpInv, NEW t \in Tasks, KernelCall(t), UNCHANGED msgVars
    PROVE  UpTasksInv'
<1>1. /\ InTask(t) /\ pc[t] \in {"new", "app", "woken"}
      /\ pc' = [pc EXCEPT ![t] = "app"]
      /\ UNCHANGED <<tcb, sched, boot, isr, MrtkTime, due, TaskId>>
      /\ UNCHANGED <<QEntries, IsTimeoutEnable>>
      /\ UNCHANGED <<error, msg, posted>>
  BY DEF KernelCall, msgVars, ring, event, calls
<1>2. CallTypes'
  BY <1>1 DEF UpInv, UpTasksInv, CallTypes
<1> QED BY ONLY UpRegime, UpInv, t \in Tasks, <1>1, <1>2, CallUp

(* A receiver that comes back to an empty queue has timed out.             *)
LEMMA UpWokenFinds == OneReceiver /\ UpInv => ThereIsMsg
<1> SUFFICES ASSUME OneReceiver, UpInv, InTask(Receiver), pc[Receiver] = "woken",
                    ~TimedOut(Receiver)
             PROVE  QEntries > 0
  BY DEF ThereIsMsg, OneReceiver
<1>1. ~Asleep(Receiver)
  BY CallerAwake, TheReceiver
<1> QED BY <1>1 DEF UpInv, UpTasksInv, BlockedInv, InPend

(* A receiver in its pend that is in no queue and off the CPU sleeps, and  *)
(* whoever sleeps has nothing to take.                                     *)
LEMMA UpInvSuffices ==
    OneReceiver /\ UpInv => MsgTypeOK /\ ReadyOnce /\ NoMissedMessage
<1> SUFFICES ASSUME OneReceiver, UpInv PROVE MsgTypeOK /\ ReadyOnce /\ NoMissedMessage
  OBVIOUS
<1> USE TheReceiver DEF UpInv, UpTasksInv
<1>1. RdyQueue \in QueueType
  BY DEF ReadyInv, QueueInv, GoodQueue
<1>2. TaskId \in Users \cup {0}
  BY DEF BlockedInv
<1>3. MsgTypeOK
  BY <1>1, <1>2 DEF MsgTypeOK, TypesInv, CallTypes, RingInv, MsgStates, MsgPCs
<1>4. ReadyOnce
  BY DEF ReadyInv
<1>5. NoMissedMessage
  <2> SUFFICES ASSUME InPend(Receiver), Receiver \notin Members(RdyQueue),
                      RunningTask # Receiver
               PROVE  QEntries = 0
    BY DEF NoMissedMessage, OneReceiver, InPend
  <2>1. toPlace = {}
    <3>1. MrtkRunning
      BY DEF InPend, StartInv
    <3> QED BY <3>1 DEF StartInv
  <2>2. State[Receiver] \in MsgStates /\ State[Receiver] # "EXECUTING"
    BY DEF TypesInv, ExecInv, Runs
  <2>3. State[Receiver] # "READY"
    BY <2>1, <2>2, <1>4 DEF ReadyOnce, MsgStates
  <2>4. Asleep(Receiver)
    BY <2>2, <2>3 DEF Asleep, MsgStates
  <2> QED BY <2>4 DEF BlockedInv
<1> QED BY <1>3, <1>4, <1>5

-----------------------------------------------------------------------------
(* Each step of a receiver that keeps up keeps the invariant.              *)
LEMMA UpStep ==
    ASSUME UpRegime, UpInv, [MsgNext /\ KeepsUp]_allVars
    PROVE  UpInv'
<1> USE TheReceiver, TaskNumbers, MsgQueueAssumption DEF UpRegime
<1>1. RingInv' /\ ExecInv'
  <2>1. RingInv /\ ExecInv /\ TypesInv /\ StartInv /\ ThereIsMsg /\ [MsgNext]_allVars
    BY UpWokenFinds DEF UpInv, UpTasksInv
  <2> QED BY <2>1, MsgStep, StepExecutes
<1>2. CASE UNCHANGED allVars
  <2>1. UNCHANGED <<State, Delay, AbsoluteDeadline, RdyQueue, RunningTask, MrtkRunning,
                    toPlace, count, isrOwner, MrtkTime, pc, due, QEntries, TaskId,
                    IsTimeoutEnable, error, msg, posted>>
    BY <1>2 DEF allVars, vars, tcb, sched, boot, isr, msgVars, ring, event, calls
  <2>2. TypesInv' /\ CallTypes' /\ StartInv' /\ TickInv'
    BY <2>1 DEF UpInv, UpTasksInv, TypesInv, CallTypes, StartInv, TickInv, Ticking
  <2>3. ReadyInv'
    BY <2>1 DEF UpInv, UpTasksInv, ReadyInv, QueueInv, KeyInv, KeyMatchesTcb, IdleBehind,
                ReadyOnce
  <2>4. WindowInv' /\ BlockedInv'
    BY <2>1 DEF UpInv, UpTasksInv, WindowInv, BlockedInv, Runs, Asleep, InPend, Ticking,
                TimedOut
  <2> QED BY <1>1, <2>2, <2>3, <2>4 DEF UpInv, UpTasksInv
<1>3. ASSUME MsgNext, PostsToSleepers, LongSleeps PROVE UpTasksInv'
  <2>1. CASE Next /\ UNCHANGED msgVars
    <3>1. ASSUME NEW t \in Users, PlaceTask(t) PROVE UpTasksInv'
      BY <2>1, <3>1, PlaceTaskUp
    <3>2. CASE Start
      BY <2>1, <3>2, StartUp
    <3>3. ASSUME NEW t \in Tasks, KernelCall(t) PROVE UpTasksInv'
      BY <2>1, <3>3, KernelCallUp
    <3>4. ASSUME NEW t \in Users, WaitSched(t) PROVE UpTasksInv'
      <4> DEFINE where == "app"
      <4>1. /\ InTask(t) /\ Sched /\ pc' = [pc EXCEPT ![t] = where] /\ where \in MsgPCs
            /\ (InPend(t) <=> where = "woken") /\ where # "pend"
            /\ UNCHANGED <<Delay, AbsoluteDeadline, boot, isr, MrtkTime, due, msgVars>>
        BY <2>1, <3>4 DEF WaitSched, InPend, MsgPCs
      <4> HIDE DEF where
      <4> QED BY ONLY UpRegime, UpInv, t \in Users, <4>1, CallSchedUp
    <3>5. ASSUME NEW t \in Users, NEW d \in WaitTimes, WaitBegin(t, d) PROVE UpTasksInv'
      BY <1>3, <2>1, <3>5, WaitBeginUp
    <3>6. CASE TickBegin
      BY <2>1, <3>6, TickBeginUp
    <3>7. CASE TickSkip \/ TickDelay
      BY <2>1, <3>7, TickTurnUp
    <3>8. CASE TickWake
      BY <2>1, <3>8, TickWakeUp
    <3>9. CASE TickSched
      <4>1. MrtkRunning
        <5>1. UsersMax # NotTicking
          BY KernelAssumption DEF NotTicking
        <5> QED BY <3>9, <5>1 DEF TickSched, Ticking, UpInv, UpTasksInv, TickInv
      <4>2. Sched /\ count' = NotTicking /\ pc' = pc
            /\ UNCHANGED <<Delay, AbsoluteDeadline, boot, isrOwner, MrtkTime, due, msgVars>>
        BY <2>1, <3>9 DEF TickSched
      <4>3. pc' \in [Tasks -> MsgPCs] /\ \A t \in Users : InPend(t)' <=> InPend(t)
        BY <4>2 DEF UpInv, UpTasksInv, TypesInv, InPend
      <4> QED BY ONLY UpRegime, UpInv, <4>1, <4>2, <4>3, SchedUp
    <3>10. CASE AckTick
      BY <2>1, <3>10, AckTickUp
    <3> QED BY <2>1, <3>1, <3>2, <3>3, <3>4, <3>5, <3>6, <3>7, <3>8, <3>9, <3>10
            DEF Next, TaskNext, TickNext
  <2>2. CASE QpendPick(Receiver) \/ QpendReturn(Receiver)
    <3>1. /\ InTask(Receiver) /\ pc[Receiver] \in {"new", "app", "woken"}
          /\ PickMsg(Receiver)
          /\ UNCHANGED <<tcb, sched, boot, isr, MrtkTime, due, event, posted>>
      BY <2>2 DEF QpendPick, QpendReturn, Calls
    <3> QED BY <3>1, PickUp
  <2>3. ASSUME NEW timeout \in Timeouts, QpendBlock(Receiver, timeout) PROVE UpTasksInv'
    BY <1>3, <2>3, QpendBlockUp
  <2>4. CASE QpendSched(Receiver)
    <3> DEFINE where == "woken"
    <3>1. /\ InTask(Receiver) /\ Sched /\ pc' = [pc EXCEPT ![Receiver] = where]
          /\ where \in MsgPCs /\ (InPend(Receiver) <=> where = "woken") /\ where # "pend"
          /\ UNCHANGED <<Delay, AbsoluteDeadline, boot, isr, MrtkTime, due, msgVars>>
      BY <2>4 DEF QpendSched, InPend, MsgPCs
    <3>2. Receiver \in Users
      OBVIOUS
    <3> HIDE DEF where
    <3> QED BY ONLY UpRegime, UpInv, <3>1, <3>2, CallSchedUp
  <2>5. CASE QpendTimeout(Receiver)
    BY <2>5, QpendTimeoutUp
  <2>6. ASSUME NEW t \in Senders, QpostFull(t) PROVE UpTasksInv'
    BY <2>6, QpostFullUp
  <2>7. ASSUME NEW t \in Senders, NEW m \in Messages, Qpost(t, m) PROVE UpTasksInv'
    BY <1>3, <2>7, QpostUp DEF PostsToSleepers
  <2>8. ASSUME NEW t \in Senders, QpostSched(t) PROVE UpTasksInv'
    <3> DEFINE where == "app"
    <3>1. /\ InTask(t) /\ Sched /\ pc' = [pc EXCEPT ![t] = where]
          /\ where \in MsgPCs /\ (InPend(t) <=> where = "woken") /\ where # "pend"
          /\ UNCHANGED <<Delay, AbsoluteDeadline, boot, isr, MrtkTime, due, msgVars>>
      BY <2>8 DEF QpostSched, InPend, MsgPCs
    <3>2. t \in Users
      OBVIOUS
    <3> HIDE DEF where
    <3> QED BY ONLY UpRegime, UpInv, <3>1, <3>2, CallSchedUp
  <2>9. \/ Next /\ UNCHANGED msgVars
        \/ Qpend(Receiver) \/ QpendEnd(Receiver)
        \/ \E t \in Senders : AnyQpost(t) \/ QpostSched(t)
    BY <1>3 DEF MsgNext, OneReceiver
  <2> QED BY <2>1, <2>2, <2>3, <2>4, <2>5, <2>6, <2>7, <2>8, <2>9
          DEF Qpend, QpendEnd, AnyQpost
<1> QED BY <1>1, <1>2, <1>3 DEF UpInv, KeepsUp

LEMMA UpInvariant ==
    ASSUME UpRegime
    PROVE  KeepsUpSpec => [](UpInv /\ ThereIsMsg)
<1>1. MsgInit => UpInv
  BY InitUpInv DEF UpRegime
<1>2. UpInv /\ [MsgNext /\ KeepsUp]_allVars => UpInv'
  BY UpStep
<1>3. UpInv => ThereIsMsg
  BY UpWokenFinds DEF UpRegime
<1> QED BY <1>1, <1>2, <1>3, PTL DEF KeepsUpSpec

(* A tick may take the CPU from the receiver between its test of QEntries  *)
(* and its mrtk_sched (mrtk_msgqueue.c:132), and the tasks that run then   *)
(* may post: no message is in the queue while the receiver is neither      *)
(* ready nor running.                                                      *)
THEOREM NoMessageMissed ==
    ASSUME UpRegime
    PROVE  KeepsUpSpec => []NoMissedMessage
<1>1. UpInv => NoMissedMessage
  BY UpInvSuffices DEF UpRegime
<1> QED BY <1>1, UpInvariant, PTL

(* Then, too, a receiver that a post or a timeout wakes in that window or  *)
(* later is in the ready queue exactly while it is READY, and once.        *)
THEOREM KeepsUpReadyOnce ==
    ASSUME UpRegime
    PROVE  KeepsUpSpec => []ReadyOnce
<1>1. UpInv => ReadyOnce
  BY UpInvSuffices DEF UpRegime
<1> QED BY <1>1, UpInvariant, PTL

(* And any number of senders feed a first-in first-out channel.            *)
THEOREM KeepsUpImplementsChannel ==
    ASSUME UpRegime
    PROVE  KeepsUpSpec => ImplementsChannel
<1>1. MsgInit /\ [][MsgNext]_allVars /\ []ThereIsMsg => ImplementsChannel
  BY QueueImplementsChannel
<1> QED BY <1>1, UpInvariant, PTL DEF KeepsUpSpec
=============================================================================
