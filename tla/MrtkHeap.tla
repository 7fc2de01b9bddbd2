------------------------------ MODULE MrtkHeap ------------------------------
(***************************************************************************)
(* The deadline queue of kernel/src/mrtk_heap.c, as operators on one       *)
(* queue.  The ready queue and the waiting queue of a CPU are two values   *)
(* of the same type, so the QueueType parameter of the code disappears.    *)
(*                                                                         *)
(* A queue is [tab, last, full]: the row of the table, last_element and    *)
(* full_level.  Entry 0 of a row is never used by the code.  A blank entry *)
(* has the deadline LLONG_MAX; its TaskId is 0 before its first use and    *)
(* 0xFFFF after, and only the second value can ever be read.               *)
(***************************************************************************)
EXTENDS Integers

CONSTANTS QueueSize,    \* MRTK_QUEUE_SIZE
          U32,          \* 2^32, the range of a Uint32
          LLONG_MAX     \* the largest Long64

\* The loops below are unrolled for rows of at most 64 entries (59 in the code).
ASSUME HeapAssumption ==
    /\ QueueSize \in 5..64
    /\ U32 \in Nat \ {0}
    /\ LLONG_MAX \in Nat
    /\ U32 <= LLONG_MAX

NO_TASK == 65535

Index == 1..(QueueSize - 1)

HEAP == [TaskId : Nat, Deadline : 0..LLONG_MAX]

Entry(t, d) == [TaskId |-> t, Deadline |-> d]

Blank == Entry(NO_TASK, LLONG_MAX)

QueueType == [tab : [Index -> HEAP], last : 0..(QueueSize - 1), full : Nat]

QueuesInit == [tab |-> [i \in Index |-> Blank], last |-> 0, full |-> 0]

-----------------------------------------------------------------------------
(* What a queue holds. *)

Slots(q) == 1..q.last

Held(q) == {q.tab[i] : i \in Slots(q)}

Members(q) == {q.tab[i].TaskId : i \in Slots(q)}

Distinct(q) ==
    \A i, j \in Slots(q) : q.tab[i].TaskId = q.tab[j].TaskId => i = j

\* The entries that are not in use are blank.
TailBlank(q) == \A i \in Index \ Slots(q) : q.tab[i] = Blank

-----------------------------------------------------------------------------
SwapTaskIds(tab, i, j) ==
    [tab EXCEPT ![i].TaskId = tab[j].TaskId, ![j].TaskId = tab[i].TaskId]

SwapWithoutCopy(tab, i, j) == [tab EXCEPT ![i] = tab[j], ![j] = tab[j]]

(* The temporary that holds the deadline of the first item is a Uint32. *)
SwapQueueItems(tab, i, j) ==
    [tab EXCEPT ![i] = tab[j],
                ![j] = Entry(tab[i].TaskId, tab[i].Deadline % U32)]

\* A table in which the entry at index i is being moved.
Sifting == [tab : [Index -> HEAP], i : Index]

\* One turn of the loop that moves an inserted entry towards the root.
SiftUpStep(h) ==
    LET parent == h.i \div 2
    IN  IF h.i # 1 /\ h.tab[h.i].Deadline < h.tab[parent].Deadline
        THEN [tab |-> SwapQueueItems(h.tab, h.i, parent), i |-> parent]
        ELSE h

Up[h \in Sifting] == SiftUpStep(h)

SiftUpOnce(h) == Up[h]

\* From an index below 64 the root is at most five turns away.
SiftUp(h) == Up[Up[Up[Up[Up[h]]]]]

SecondChild(tab, i) == 4 * i

\* `i << 1 + 1` is i << 2 in C: the second child looked at is 4 * i.
MinChild(tab, i) ==
    IF tab[2 * i].Deadline < tab[4 * i].Deadline THEN 2 * i ELSE 4 * i

\* One turn of the loop that moves an entry away from the root.
SiftDownStep(h) ==
    LET child == MinChild(h.tab, h.i)
    IN  IF 4 * h.i < QueueSize /\ h.tab[h.i].Deadline > h.tab[child].Deadline
        THEN [tab |-> SwapQueueItems(h.tab, h.i, child), i |-> child]
        ELSE h

Down[h \in Sifting] == SiftDownStep(h)

SiftDownOnce(h) == Down[h]

\* Each turn at least doubles the index: four turns leave a row of 64.
SiftDown(h) == Down[Down[Down[Down[h]]]]

-----------------------------------------------------------------------------
InsertInQueue(q, t, d) ==
    LET last == q.last + 1
    IN  [tab  |-> SiftUp([tab |-> [q.tab EXCEPT ![last] = Entry(t, d)],
                          i   |-> last]).tab,
         last |-> last,
         full |-> IF last >= 2 * q.full THEN last ELSE q.full]

ShrunkLevelLate(q) == IF q.last - 1 <= q.full THEN q.full \div 2 ELSE q.full

\* full_level after the last entry has gone.
ShrunkLevel(q) == IF q.last - 1 < q.full THEN q.full \div 2 ELSE q.full

ReplaceKeepingLast(q, i) ==
    SiftDown([tab |-> [q.tab EXCEPT ![i] = q.tab[q.last]], i |-> i]).tab

\* Entry i is overwritten by the last entry, which then sinks from i.
ReplaceByLast(q, i) ==
    SiftDown([tab |-> [q.tab EXCEPT ![i] = q.tab[q.last], ![q.last] = Blank],
              i   |-> i]).tab

RemoveFirstElementInQueue(q) ==
    IF q.last = 0
    THEN q
    ELSE [tab  |-> IF q.last = 1 THEN [q.tab EXCEPT ![1] = Blank]
                                 ELSE ReplaceByLast(q, 1),
          last |-> q.last - 1,
          full |-> ShrunkLevel(q)]

\* The search stops at the first entry of the task.
PositionOf(q, t) ==
    CHOOSE k \in Slots(q) : /\ q.tab[k].TaskId = t
                            /\ \A m \in 1..(k - 1) : q.tab[m].TaskId # t

RemoveElementInPlace(q, t) ==
    IF t \notin Members(q)
    THEN q
    ELSE [tab  |-> [q.tab EXCEPT ![PositionOf(q, t)] = Blank],
          last |-> q.last - 1,
          full |-> ShrunkLevel(q)]

\* An entry of the last level is blanked where it stands.
RemoveElementInQueue(q, t) ==
    IF t \notin Members(q)
    THEN q
    ELSE LET k == PositionOf(q, t)
         IN  [tab  |-> IF q.last = 1 \/ k >= q.full
                       THEN [q.tab EXCEPT ![IF q.last = 1 THEN 1 ELSE k] = Blank]
                       ELSE ReplaceByLast(q, k),
              last |-> q.last - 1,
              full |-> ShrunkLevel(q)]

HeadOfQueue(q, idle) == q.tab[1].TaskId

\* The idle task of the CPU answers for an empty queue.
GetTaskWithNearestDeadline(q, idle) ==
    IF q.last = 0 THEN idle ELSE q.tab[1].TaskId
=============================================================================
