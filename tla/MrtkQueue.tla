----------------------------- MODULE MrtkQueue -----------------------------
(***************************************************************************)
(* One deadline queue and the kernel's use of it.  A ready queue sees      *)
(* mrtk_InsertInQueue and mrtk_RemoveFirstElementInQueue; a waiting queue  *)
(* sees mrtk_RemoveElementInQueue as well, when a wait times out.  A task  *)
(* is inserted only when it is not in the queue.                           *)
(***************************************************************************)
EXTENDS MrtkHeap

CONSTANTS Tasks,        \* the identifiers of the tasks that use the queue
          Deadlines,    \* the deadlines they are inserted with
          MaxEntries,   \* a bound on the entries in the queue at once
          MaxSearched   \* a bound on them when a task is removed by name

ASSUME QueueAssumption ==
    /\ Tasks \subseteq Nat
    /\ Deadlines \subseteq 0..(LLONG_MAX - 1)
    /\ MaxEntries \in 1..(QueueSize - 1)
    /\ MaxSearched \in Nat

VARIABLE queue

Init == queue = QueuesInit

\* The code has no bound check here: MaxEntries stands for its callers.
Insert(t, d) ==
    /\ t \notin Members(queue)
    /\ queue.last < MaxEntries
    /\ queue' = InsertInQueue(queue, t, d)

RemoveFirst ==
    /\ queue.last # 0
    /\ queue' = RemoveFirstElementInQueue(queue)

RemoveElement(t) ==
    /\ t \in Members(queue)
    /\ queue.last <= MaxSearched
    /\ queue' = RemoveElementInQueue(queue, t)

InsertAny == \E t \in Tasks, d \in Deadlines : Insert(t, d)

ReadyNext == InsertAny \/ RemoveFirst

ReadySpec == Init /\ [][ReadyNext]_queue

WaitingNext == ReadyNext \/ \E t \in Tasks : RemoveElement(t)

WaitingSpec == Init /\ [][WaitingNext]_queue

-----------------------------------------------------------------------------
(* The queue is well formed: entries in use have a real task, every task   *)
(* once, and every entry out of use is blank, which the sift-down loop     *)
(* needs because it reads children beyond last_element.                    *)
QueueOK ==
    /\ queue \in QueueType
    /\ Members(queue) \subseteq Tasks
    /\ Distinct(queue)
    /\ TailBlank(queue)

(* full_level is the first index of the deepest level in use, although it  *)
(* is kept only by doubling comparisons and halvings: mrtk_heap.c:146,209. *)
LevelOK ==
    IF queue.last = 0
    THEN queue.full = 0
    ELSE /\ queue.full <= queue.last
         /\ queue.last < 2 * queue.full
         /\ queue.full \in {1, 2, 4, 8, 16, 32}

(* What the mistaken child index of mrtk_heap.c:227 leaves of the heap     *)
(* order, after any sequence of insertions and removals: at the indices 1, *)
(* 2, 4... an entry is no later than the two that the loop of :232 takes   *)
(* for its children.  The last index before that loop breaks off is not    *)
(* among them: the loop may leave there an entry later than both.          *)
SpineSorted ==
    \A i \in {1, 2, 4, 8} :
        4 * i < QueueSize =>
            \A child \in {2 * i, 4 * i} :
                queue.tab[i].Deadline <= queue.tab[child].Deadline

(* An entry inserted with a strictly nearer deadline than every entry held *)
(* is the next one taken, in a queue of any size and disorder: what lets a *)
(* woken task with the nearest deadline run at once.                       *)
NearestInsertedGoesFirst ==
    [][\A t \in Tasks, d \in Deadlines :
          (Insert(t, d) /\ \A e \in Held(queue) : d < e.Deadline)
             => GetTaskWithNearestDeadline(queue', NO_TASK) = t]_queue

(* The task the queue gives is one with the nearest deadline (README.md:7, *)
(* and mrtk_heap.c:254).                                                   *)
NearestFirst ==
    queue.last # 0 => \A e \in Held(queue) : queue.tab[1].Deadline <= e.Deadline

\* The queue seen as the set of its entries implements the abstract queue.
Abstract == INSTANCE DeadlineQueue WITH held <- Held(queue)

(* Every task inserted comes out once, with the deadline it went in with:  *)
(* sifting moves entries and never drops, duplicates or changes one.       *)
KeepsEntries == Abstract!Spec
=============================================================================
