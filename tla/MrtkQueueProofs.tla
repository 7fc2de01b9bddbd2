-------------------------- MODULE MrtkQueueProofs --------------------------
(***************************************************************************)
(* The ready queue implements the abstract queue for every number of tasks *)
(* and every size of its table, as long as deadlines fit in a Uint32, and  *)
(* keeps the part of the heap order that the code's index arithmetic       *)
(* leaves: the spine of the indices 1, 2, 4... is in order, and an entry   *)
(* nearer than all others goes to the head.                                *)
(***************************************************************************)
EXTENDS MrtkQueue, MrtkHeapProofs

\* The deadlines that a Uint32 holds, the temporary of SwapQueueItems.
SmallDeadlines == Deadlines \subseteq 0..(U32 - 1)

IInv ==
    /\ GoodQueue(queue)
    /\ \A e \in Held(queue) : e.TaskId \in Tasks /\ e.Deadline \in Deadlines

(* The empty queue of mrtk_QueuesInit satisfies the invariant.             *)
LEMMA InitIInv == Init => IInv
  BY InitIsGood DEF Init, IInv

(* mrtk_InsertInQueue keeps the invariant and puts one entry in the        *)
(* abstract queue.                                                         *)
LEMMA InsertStep ==
    ASSUME SmallDeadlines, IInv, NEW t \in Tasks, NEW d \in Deadlines, Insert(t, d)
    PROVE  IInv' /\ Abstract!Put(t, d)
<1>1. /\ t \in Nat /\ d \in 0..(U32 - 1)
      /\ queue.last < QueueSize - 1
  <2>1. queue.last \in Nat
    BY QueueEntries DEF IInv
  <2> QED BY <2>1, QueueAssumption, HeapAssumption DEF SmallDeadlines, Insert
<1>2. t \notin Members(queue) /\ queue' = InsertInQueue(queue, t, d)
  BY DEF Insert
<1>3. GoodQueue(queue)
  BY DEF IInv
<1>4. GoodQueue(queue)' /\ Held(queue)' = Held(queue) \cup {Entry(t, d)}
  <2>1. /\ GoodQueue(InsertInQueue(queue, t, d))
        /\ Held(InsertInQueue(queue, t, d)) = Held(queue) \cup {Entry(t, d)}
    BY <1>1, <1>2, <1>3, InsertAddsEntry
  <2>2. /\ GoodQueue(queue)' <=> GoodQueue(queue')
        /\ Held(queue)' = Held(queue')
    BY DEF GoodQueue, GoodTable, QueueType, Held, Slots
  <2> QED BY <1>2, <2>1, <2>2
<1>5. IInv'
  BY <1>4 DEF IInv, Entry
<1>6. \A e \in Held(queue) : e.TaskId # t
  BY <1>2, <1>3, QueueEntries
<1> QED BY <1>4, <1>5, <1>6 DEF Abstract!Put, Entry

(* mrtk_RemoveFirstElementInQueue keeps the invariant and takes one entry  *)
(* out of the abstract queue.                                              *)
LEMMA RemoveFirstStep ==
    ASSUME IInv, RemoveFirst
    PROVE  IInv' /\ Abstract!Take
<1>1. queue.last # 0 /\ queue' = RemoveFirstElementInQueue(queue) /\ GoodQueue(queue)
  BY DEF RemoveFirst, IInv
<1>2. /\ GoodQueue(queue') /\ queue.tab[1] \in Held(queue)
      /\ Held(queue') = Held(queue) \ {queue.tab[1]}
  BY <1>1, RemoveFirstTakesRoot
<1>3. /\ GoodQueue(queue)' <=> GoodQueue(queue')
      /\ Held(queue)' = Held(queue')
  BY DEF GoodQueue, GoodTable, QueueType, Held, Slots
<1> QED BY <1>2, <1>3 DEF IInv, Abstract!Take

(* Every step of a ready queue keeps the invariant.                        *)
LEMMA ReadyStep ==
    ASSUME SmallDeadlines
    PROVE  IInv /\ [ReadyNext]_queue => IInv'
<1> SUFFICES ASSUME IInv, [ReadyNext]_queue PROVE IInv'
  OBVIOUS
<1>1. CASE UNCHANGED queue
  BY <1>1 DEF IInv, GoodQueue, GoodTable, QueueType, Held, Slots
<1>2. CASE InsertAny
  BY <1>2, InsertStep DEF InsertAny
<1>3. CASE RemoveFirst
  BY <1>3, RemoveFirstStep
<1> QED BY <1>1, <1>2, <1>3 DEF ReadyNext

(* Every table of a ready queue is well formed: each task in it once, and  *)
(* blank entries after the last.                                           *)
THEOREM ReadyQueueOK ==
    ASSUME SmallDeadlines
    PROVE  ReadySpec => []QueueOK
<1>1. IInv /\ [ReadyNext]_queue => IInv'
  BY ReadyStep
<1>2. IInv => QueueOK
  <2> SUFFICES ASSUME IInv PROVE QueueOK
    OBVIOUS
  <2>1. GoodQueue(queue)
    BY DEF IInv
  <2>2. Members(queue) \subseteq Tasks
    BY <2>1, QueueEntries DEF IInv
  <2>3. queue.last \in 0..(QueueSize - 1)
    BY <2>1, QueueEntries
  <2>4. Distinct(queue)
    BY <2>1 DEF GoodQueue, GoodTable, Distinct, Slots
  <2>5. TailBlank(queue)
    BY <2>1, <2>3, HeapAssumption DEF GoodQueue, GoodTable, TailBlank, Slots, Index
  <2> QED BY <2>1, <2>2, <2>4, <2>5 DEF GoodQueue, QueueOK
<1> QED BY <1>1, <1>2, InitIInv, PTL DEF ReadySpec

(* What goes into the ready queue comes out of it, once and unchanged.     *)
THEOREM ReadyQueueKeepsEntries ==
    ASSUME SmallDeadlines
    PROVE  ReadySpec => KeepsEntries
<1>1. Init => Abstract!Init
  BY InitIsGood DEF Init, Abstract!Init
<1>2. IInv /\ [ReadyNext]_queue => IInv' /\ [Abstract!Next]_(Held(queue))
  <2> SUFFICES ASSUME IInv, [ReadyNext]_queue
               PROVE  IInv' /\ [Abstract!Next]_(Held(queue))
    OBVIOUS
  <2>1. CASE UNCHANGED queue
    BY <2>1 DEF IInv, GoodQueue, GoodTable, QueueType, Held, Slots
  <2>2. CASE InsertAny
    BY <2>2, InsertStep DEF InsertAny, Abstract!Next
  <2>3. CASE RemoveFirst
    BY <2>3, RemoveFirstStep DEF Abstract!Next
  <2> QED BY <2>1, <2>2, <2>3 DEF ReadyNext
<1> QED BY <1>1, <1>2, InitIInv, PTL DEF ReadySpec, KeepsEntries, Abstract!Spec

-----------------------------------------------------------------------------
(* full_level, kept by comparisons and halvings, is the first index of the *)
(* last level in use, whatever is removed from where.                      *)
THEOREM WaitingQueueLevels == WaitingSpec => []LevelOK
<1> DEFINE Levels == LevelOK /\ queue.last \in Nat
<1>1. Init => Levels
  BY DEF Init, QueuesInit, LevelOK
<1>2. ASSUME Levels, InsertAny PROVE Levels'
  <2>1. PICK t \in Tasks, d \in Deadlines : Insert(t, d)
    BY <1>2 DEF InsertAny
  <2>2. /\ queue.last + 1 < 64
        /\ queue'.last = queue.last + 1
        /\ queue'.full = IF queue.last + 1 >= 2 * queue.full
                        THEN queue.last + 1 ELSE queue.full
    BY <1>2, <2>1, QueueAssumption, HeapAssumption DEF Insert, InsertInQueue
  <2> QED BY <1>2, <2>2 DEF LevelOK
<1>3. ASSUME Levels, queue.last # 0,
             queue'.last = queue.last - 1, queue'.full = ShrunkLevel(queue)
      PROVE  Levels'
  BY <1>3 DEF LevelOK, ShrunkLevel
<1>4. ASSUME Levels, RemoveFirst PROVE Levels'
  BY <1>3, <1>4 DEF RemoveFirst, RemoveFirstElementInQueue
<1>5. ASSUME Levels, NEW t \in Tasks, RemoveElement(t) PROVE Levels'
  <2>1. queue.last # 0
    BY <1>5 DEF RemoveElement, Members, Slots
  <2>2. queue'.last = queue.last - 1 /\ queue'.full = ShrunkLevel(queue)
    BY <1>5 DEF RemoveElement, RemoveElementInQueue
  <2> QED BY <1>3, <1>5, <2>1, <2>2
<1>6. Levels /\ UNCHANGED queue => Levels'
  BY DEF LevelOK
<1>7. Levels /\ [WaitingNext]_queue => Levels'
  BY <1>2, <1>4, <1>5, <1>6 DEF WaitingNext, ReadyNext
<1> QED BY <1>1, <1>7, PTL DEF WaitingSpec

-----------------------------------------------------------------------------
(* A task inserted with the nearest deadline of all is the next to leave,  *)
(* in a ready queue of any size and disorder.                              *)
THEOREM ReadyQueueNearestInserted ==
    ASSUME SmallDeadlines
    PROVE  ReadySpec => NearestInsertedGoesFirst
<1> DEFINE Goes == \A t \in Tasks, d \in Deadlines :
                      (Insert(t, d) /\ \A e \in Held(queue) : d < e.Deadline)
                         => GetTaskWithNearestDeadline(queue', NO_TASK) = t
<1>1. ASSUME IInv PROVE Goes
  <2> SUFFICES ASSUME NEW t \in Tasks, NEW d \in Deadlines, Insert(t, d),
                      \A e \in Held(queue) : d < e.Deadline
               PROVE  GetTaskWithNearestDeadline(queue', NO_TASK) = t
    OBVIOUS
  <2>1. GoodQueue(queue) /\ t \notin Members(queue) /\ queue' = InsertInQueue(queue, t, d)
    BY <1>1 DEF IInv, Insert
  <2>2. queue.last < QueueSize - 1 /\ queue.last \in Nat /\ t \in Nat /\ d \in 0..(U32 - 1)
    <3>1. queue.last \in Nat
      BY <2>1, QueueEntries
    <3> QED BY <3>1, QueueAssumption, HeapAssumption DEF SmallDeadlines, Insert
  <2>3. queue'.tab[1] = Entry(t, d)
    BY <2>1, <2>2, NearestGoesFirst
  <2>4. queue'.last # 0
    BY <2>1, <2>2, InsertAddsEntry
  <2> QED BY <2>3, <2>4 DEF GetTaskWithNearestDeadline, Entry
<1>2. IInv /\ [ReadyNext]_queue => IInv' /\ [Goes]_queue
  BY <1>1, ReadyStep
<1> QED BY <1>2, InitIInv, PTL DEF ReadySpec, NearestInsertedGoesFirst

-----------------------------------------------------------------------------
Spine == {1, 2, 4, 8}

Inner(i) == i \in Spine /\ 4 * i < QueueSize

Children(i) == {2 * i, 4 * i}

InOrder(tab, i, k) == tab[i].Deadline <= tab[k].Deadline

SpineTable(tab) == \A i \in Spine : Inner(i) => \A c \in Children(i) : InOrder(tab, i, c)

\* An entry whose child is being moved precedes what comes below that child.
Skips(h) ==
    \A i \in Spine : Inner(i) /\ h.i \in Children(i) /\ 4 * h.i < QueueSize
        => \A c \in Children(h.i) : InOrder(h.tab, i, c)

\* The spine is in order but for the entry being lifted and those above it.
Rising(h) ==
    /\ \A i \in Spine : Inner(i) =>
          \A c \in Children(i) : c # h.i => InOrder(h.tab, i, c)
    /\ Skips(h)

\* The spine is in order but for the entry being lowered and those below it.
Sinking(h) ==
    /\ h.i \in {1, 2, 4, 8, 16, 32}
    /\ \A i \in Spine : Inner(i) /\ i # h.i =>
          \A c \in Children(i) : InOrder(h.tab, i, c)
    /\ Skips(h)

(* The indices of the spine and of its children are in the row.            *)
LEMMA SpineInRow == \A i : Inner(i) => i \in Index /\ Children(i) \subseteq Index
  BY HeapAssumption DEF Inner, Spine, Children, Index

(* A turn of the loop that lifts keeps the order of the spine.             *)
LEMMA RisingStep ==
    ASSUME NEW n, NEW h, Moving(h, n), Rising(h)
    PROVE  Rising(Up[h])
<1> DEFINE g == Up[h]
           p == h.i \div 2
<1>1. CASE Settled(h)
  BY <1>1, LiftStep
<1>2. CASE ~Settled(h)
  <2>1. /\ Moving(g, n) /\ p \in 1..n /\ p < h.i /\ g.i = p
        /\ h.tab[h.i].Deadline < h.tab[p].Deadline
        /\ g.tab[p] = h.tab[h.i] /\ g.tab[h.i] = h.tab[p]
        /\ \A k \in Index : k # p /\ k # h.i => g.tab[k] = h.tab[k]
    BY <1>2, LiftStep
  <2>2. /\ \A k \in Index : h.tab[k].Deadline \in Nat
        /\ \A i : Inner(i) => i \in Index /\ Children(i) \subseteq Index
        /\ h.i \in Index /\ p \in Index
    BY <2>1, Keys, SpineInRow
  <2>3. /\ h.i \in Nat /\ (h.i = 2 * p \/ h.i = 2 * p + 1)
        /\ \A i \in Spine : h.i = 2 * i => i = p
        /\ \A i \in Spine : h.i = 4 * i => p = 2 * i
    BY <2>2 DEF Index, Spine
  <2> HIDE DEF g, p
  <2>keys. /\ h.tab[h.i].Deadline <= h.tab[p].Deadline
        /\ \A k \in Index : h.tab[p].Deadline <= h.tab[k].Deadline
                           => h.tab[h.i].Deadline <= h.tab[k].Deadline
    <3>1. h.tab[h.i].Deadline \in Nat /\ h.tab[p].Deadline \in Nat
      BY <2>2
    <3>2. h.tab[h.i].Deadline < h.tab[p].Deadline
      BY <2>1
    <3>3. ASSUME NEW k \in Index, h.tab[p].Deadline <= h.tab[k].Deadline
          PROVE  h.tab[h.i].Deadline <= h.tab[k].Deadline
      <4>1. h.tab[k].Deadline \in Nat
        BY <2>2
      <4> QED BY ONLY <3>1, <3>2, <3>3, <4>1
    <3>4. h.tab[h.i].Deadline <= h.tab[p].Deadline
      BY ONLY <3>1, <3>2
    <3> QED BY ONLY <3>3, <3>4
  <2>4. ASSUME NEW i \in Spine, Inner(i), NEW c \in Children(i), c # p
        PROVE  InOrder(g.tab, i, c)
    <3>in. i \in Index /\ c \in Index /\ i \in Nat /\ i > 0
      BY <2>2, <2>4 DEF Index
    <3>1. CASE i = p
      <4>1. c # h.i => InOrder(h.tab, p, c)
        BY <2>4, <3>1 DEF Rising
      <4>2. h.tab[h.i].Deadline <= g.tab[c].Deadline
        <5>1. CASE c = h.i
          BY <2>keys, <2>1, <5>1
        <5>2. CASE c # h.i
          <6>1. g.tab[c] = h.tab[c]
            BY <2>1, <2>4, <3>in, <5>2
          <6>2. h.tab[p].Deadline <= h.tab[c].Deadline
            BY <4>1, <5>2 DEF InOrder
          <6> QED BY <2>keys, <3>in, <6>1, <6>2
        <5> QED BY <5>1, <5>2
      <4>3. g.tab[i] = h.tab[h.i]
        BY <2>1, <3>1
      <4> QED BY <4>2, <4>3 DEF InOrder
    <3>2. CASE i = h.i
      <4>1. p \in Spine /\ Inner(p) /\ h.i \in Children(p)
        BY <2>1, <2>2, <2>3, <2>4, <3>2, HeapAssumption DEF Spine, Inner, Children
      <4>2. InOrder(h.tab, p, c)
        BY <2>4, <3>2, <4>1 DEF Rising, Skips, Inner
      <4>3. c # h.i
        BY <2>4, <3>in, <3>2 DEF Children
      <4> QED BY <2>1, <2>2, <2>4, <3>in, <3>2, <4>2, <4>3 DEF InOrder
    <3>3. CASE i # p /\ i # h.i /\ c = h.i
      <4>1. p \in Children(i) /\ p # h.i
        BY <2>1, <2>2, <2>3, <2>4, <3>3 DEF Children, Index
      <4>2. InOrder(h.tab, i, p)
        BY <2>4, <4>1 DEF Rising
      <4> QED BY <2>1, <2>2, <3>in, <3>3, <4>2 DEF InOrder
    <3>4. CASE i # p /\ i # h.i /\ c # h.i
      <4>1. InOrder(h.tab, i, c)
        BY <2>4, <3>4 DEF Rising
      <4> QED BY <2>1, <2>4, <3>in, <3>4, <4>1 DEF InOrder
    <3> QED BY <3>1, <3>2, <3>3, <3>4
  <2>5. ASSUME NEW i \in Spine, Inner(i), p \in Children(i), 4 * p < QueueSize,
               NEW c \in Children(p)
        PROVE  InOrder(g.tab, i, c)
    <3>1. p \in Spine /\ Inner(p)
      BY <2>5, HeapAssumption DEF Spine, Inner, Children
    <3>2. i \in Index /\ c \in Index /\ i # p /\ c # p /\ i # h.i
      BY <2>1, <2>2, <2>5, <3>1 DEF Spine, Children, Index
    <3>3. InOrder(h.tab, i, p)
      BY <2>1, <2>2, <2>5 DEF Rising, Index
    <3>4. c # h.i => InOrder(h.tab, p, c)
      BY <2>5, <3>1 DEF Rising
    <3> QED BY <2>1, <2>2, <3>2, <3>3, <3>4 DEF InOrder
  <2>6. Rising(g)
    BY <2>1, <2>4, <2>5 DEF Rising, Skips
  <2> QED BY <2>6 DEF g
<1> QED BY <1>1, <1>2

(* When the loop that lifts has stopped the spine is in order.             *)
LEMMA RisingEnds ==
    ASSUME NEW n, NEW h, Moving(h, n), Rising(h), Settled(h)
    PROVE  SpineTable(h.tab)
<1> SUFFICES ASSUME NEW i \in Spine, Inner(i), h.i \in Children(i)
             PROVE  InOrder(h.tab, i, h.i)
  BY DEF Rising, SpineTable
<1> DEFINE p == h.i \div 2
<1>1. /\ h.i \in Index /\ i \in Index /\ p \in Index /\ h.i # 1
      /\ \A k \in Index : h.tab[k].Deadline \in Nat
      /\ p = i \/ (p \in Children(i) /\ p # h.i)
  <2>1. /\ h.i \in Index /\ i \in Index /\ Children(i) \subseteq Index
        /\ \A k \in Index : h.tab[k].Deadline \in Nat
    BY Keys, SpineInRow
  <2> QED BY <2>1 DEF Index, Children, Spine
<1>2. h.tab[p].Deadline <= h.tab[h.i].Deadline
  BY <1>1 DEF Settled
<1>3. p # i => InOrder(h.tab, i, p)
  BY <1>1 DEF Rising
<1> HIDE DEF p
<1> QED BY <1>1, <1>2, <1>3 DEF InOrder

(* An insertion in a row whose spine is in order leaves it in order.       *)
LEMMA InsertKeepsSpine ==
    ASSUME NEW q, GoodQueue(q), q.last < QueueSize - 1, SpineTable(q.tab),
           NEW t \in Nat, t \notin Members(q), NEW d \in 0..(U32 - 1)
    PROVE  SpineTable(InsertInQueue(q, t, d).tab)
<1> DEFINE n    == q.last + 1
           tab0 == [q.tab EXCEPT ![n] = Entry(t, d)]
           h    == [tab |-> tab0, i |-> n]
           Lifted(g) == Moving(g, n) /\ Rising(g)
<1>1. Moving(h, n)
  BY InsertedMoves
<1>2. Rising(h)
  <2>1. /\ q.tab \in [Index -> HEAP] /\ q.last \in Nat /\ n \in Index
        /\ \A k \in Index : n < k => q.tab[k] = Blank
    BY <1>1, QueueEntries DEF Moving, Sifting, GoodQueue, GoodTable
  <2>2. tab0[n] = Entry(t, d) /\ \A k \in Index : k # n => tab0[k] = q.tab[k]
    BY <2>1
  <2>3. /\ \A k \in Index : tab0[k].Deadline \in Nat /\ tab0[k].Deadline <= LLONG_MAX
        /\ \A i : Inner(i) => i \in Index /\ Children(i) \subseteq Index
    <3>1. h.tab = tab0
      OBVIOUS
    <3> HIDE DEF h
    <3>2. /\ \A k \in Index : h.tab[k].Deadline \in Nat /\ h.tab[k].Deadline <= LLONG_MAX
          /\ \A i : Inner(i) => i \in Index /\ Children(i) \subseteq Index
      BY <1>1, Keys, SpineInRow
    <3> HIDE DEF tab0
    <3> QED BY <3>1, <3>2
  <2> HIDE DEF n, tab0
  <2>4. \A k \in Index : n < k => tab0[k].Deadline = LLONG_MAX
    BY <2>1, <2>2 DEF Blank, Entry, Index
  <2>5. ASSUME NEW i \in Spine, Inner(i), NEW c \in Children(i), c # n
        PROVE  InOrder(tab0, i, c)
    <3>1. CASE i = n
      <4>1. n < c
        BY <2>5, <3>1 DEF Spine, Children
      <4> QED BY <2>3, <2>4, <2>5, <4>1 DEF InOrder
    <3>2. CASE i # n
      BY <2>2, <2>3, <2>5, <3>2 DEF SpineTable, InOrder
    <3> QED BY <3>1, <3>2
  <2>6. ASSUME NEW i \in Spine, Inner(i), n \in Children(i), 4 * n < QueueSize,
               NEW c \in Children(n)
        PROVE  InOrder(tab0, i, c)
    <3>1. c \in Index /\ n < c /\ i \in Index
      BY <2>1, <2>3, <2>6, HeapAssumption DEF Children, Index
    <3> QED BY <2>3, <2>4, <3>1 DEF InOrder
  <2> QED BY <2>5, <2>6 DEF Rising, Skips
<1>3. ASSUME NEW g, Lifted(g) PROVE Lifted(Up[g])
  BY <1>3, LiftStep, RisingStep
<1>4. Lifted(h)
  BY <1>1, <1>2
<1> HIDE DEF Lifted, h
<1>5. Lifted(Up[Up[h]])
  BY <1>3, <1>4
<1>6. Lifted(Up[Up[Up[Up[h]]]])
  BY <1>3, <1>5
<1>7. Lifted(SiftUp(h))
  BY <1>3, <1>6 DEF SiftUp
<1>8. SpineTable(SiftUp(h).tab)
  BY <1>1, <1>7, SiftUpSettles, RisingEnds DEF Lifted
<1> QED BY <1>8 DEF InsertInQueue, h

(* MinChild is a child that precedes the other.                            *)
LEMMA MinChildPrecedes ==
    ASSUME NEW n, NEW h, Moving(h, n), 4 * h.i < QueueSize
    PROVE  /\ MinChild(h.tab, h.i) \in Children(h.i)
           /\ \A k \in Children(h.i) : InOrder(h.tab, MinChild(h.tab, h.i), k)
<1>1. /\ h.i \in Index /\ 2 * h.i \in Index /\ 4 * h.i \in Index
      /\ \A k \in Index : h.tab[k].Deadline \in Nat
  <2>1. h.i \in Index /\ \A k \in Index : h.tab[k].Deadline \in Nat
    BY Keys, SpineInRow
  <2> QED BY <2>1, HeapAssumption DEF Index
<1>2. h.tab[2 * h.i].Deadline \in Nat /\ h.tab[4 * h.i].Deadline \in Nat
  BY <1>1
<1> QED BY <1>2 DEF MinChild, Children, InOrder

(* A turn of the loop that lowers keeps the order of the spine.            *)
LEMMA SinkingStep ==
    ASSUME NEW n, NEW h, Moving(h, n), Sinking(h)
    PROVE  Sinking(Down[h])
<1> DEFINE g == Down[h]
           c == MinChild(h.tab, h.i)
<1>1. CASE Sunk(h)
  BY <1>1, LowerStep
<1>2. CASE ~Sunk(h)
  <2>1. /\ Moving(g, n) /\ 4 * h.i < QueueSize /\ c \in 1..n /\ c # h.i /\ g.i = c
        /\ h.tab[c].Deadline < h.tab[h.i].Deadline
        /\ g.tab[c] = h.tab[h.i] /\ g.tab[h.i] = h.tab[c]
        /\ \A k \in Index : k # c /\ k # h.i => g.tab[k] = h.tab[k]
    BY <1>2, LowerStep
  <2>2. c \in Children(h.i) /\ \A k \in Children(h.i) : InOrder(h.tab, c, k)
    BY <2>1, MinChildPrecedes
  <2> HIDE DEF g, c
  <2>3. h.i \in Spine /\ Inner(h.i)
    BY <2>1, HeapAssumption DEF Sinking, Spine, Inner
  <2>4. /\ \A k \in Index : h.tab[k].Deadline \in Nat
        /\ \A i : Inner(i) => i \in Index /\ Children(i) \subseteq Index
        /\ h.i \in Index /\ c \in Index
    BY <2>2, <2>3, Keys, SpineInRow
  <2>keys. h.tab[c].Deadline <= h.tab[h.i].Deadline
    <3>1. h.tab[c].Deadline \in Nat /\ h.tab[h.i].Deadline \in Nat
      BY <2>4
    <3> QED BY ONLY <2>1, <3>1
  <2>5. c \in {1, 2, 4, 8, 16, 32}
    BY <2>2, <2>3 DEF Spine, Children
  <2>6. ASSUME NEW i \in Spine, Inner(i), i # c, NEW k \in Children(i)
        PROVE  InOrder(g.tab, i, k)
    <3>1. i \in Index /\ k \in Index
      BY <2>4, <2>6
    <3>2. CASE i = h.i
      <4>1. g.tab[i] = h.tab[c] /\ h.tab[c].Deadline <= h.tab[k].Deadline
        BY <2>1, <2>2, <2>6, <3>2 DEF InOrder
      <4>2. k # h.i
        BY <2>6, <3>2 DEF Spine, Children
      <4>3. g.tab[k].Deadline = IF k = c THEN h.tab[h.i].Deadline ELSE h.tab[k].Deadline
        BY <2>1, <3>1, <4>2
      <4> QED BY <2>keys, <4>1, <4>3 DEF InOrder
    <3>3. CASE i # h.i
      <4>1. g.tab[i] = h.tab[i]
        BY <2>1, <2>6, <3>1, <3>3
      <4>2. InOrder(h.tab, i, k)
        BY <2>6, <3>3 DEF Sinking
      <4>3. CASE k = h.i
        <5>1. InOrder(h.tab, i, c)
          BY <2>1, <2>2, <2>6, <4>3 DEF Sinking, Skips
        <5> QED BY <2>1, <4>1, <4>3, <5>1 DEF InOrder
      <4>4. CASE k = c
        <5>1. h.tab[i].Deadline <= h.tab[c].Deadline
          BY <4>2, <4>4 DEF InOrder
        <5>2. h.tab[i].Deadline <= h.tab[h.i].Deadline
          <6>1. /\ h.tab[i].Deadline \in Nat /\ h.tab[c].Deadline \in Nat
                /\ h.tab[h.i].Deadline \in Nat
            BY <2>4, <3>1
          <6> QED BY <2>keys, <5>1, <6>1
        <5> QED BY <2>1, <4>1, <4>4, <5>2 DEF InOrder
      <4>5. CASE k # h.i /\ k # c
        BY <2>1, <3>1, <4>1, <4>2, <4>5 DEF InOrder
      <4> QED BY <4>3, <4>4, <4>5
    <3> QED BY <3>2, <3>3
  <2>7. ASSUME NEW i \in Spine, Inner(i), c \in Children(i), 4 * c < QueueSize,
               NEW k \in Children(c)
        PROVE  InOrder(g.tab, i, k)
    <3>1. c \in Spine /\ Inner(c)
      BY <2>7, HeapAssumption DEF Spine, Inner, Children
    <3>2. i \in Index /\ k \in Index /\ i # c /\ k # c /\ k # h.i
      <4>1. i \in Index /\ k \in Index
        BY <2>4, <2>7, <3>1
      <4>2. i # c /\ k # c
        BY <2>7, <3>1 DEF Spine, Children
      <4>3. k # h.i
        BY <2>2, <2>3, <2>7, <3>1 DEF Spine, Children
      <4> QED BY <4>1, <4>2, <4>3
    <3>3. g.tab[k] = h.tab[k]
      BY <2>1, <3>2
    <3>4. h.tab[c].Deadline <= h.tab[k].Deadline
      BY <2>1, <2>7, <3>1 DEF Sinking, InOrder
    <3>5. g.tab[i].Deadline <= h.tab[c].Deadline
      <4>1. CASE i = h.i
        <5>1. g.tab[i] = h.tab[c] /\ h.tab[c].Deadline \in Nat
          BY <2>1, <2>4, <4>1
        <5> QED BY <5>1
      <4>2. CASE i # h.i
        <5>1. g.tab[i] = h.tab[i]
          BY <2>1, <3>2, <4>2
        <5>2. InOrder(h.tab, i, c)
          BY <2>7, <4>2 DEF Sinking
        <5> QED BY <5>1, <5>2 DEF InOrder
      <4> QED BY <4>1, <4>2
    <3>6. /\ h.tab[c].Deadline \in Nat /\ h.tab[k].Deadline \in Nat
          /\ g.tab[i].Deadline \in Nat
      <4>1. \A m \in Index : g.tab[m].Deadline \in Nat
        BY <2>1, Keys
      <4> QED BY <2>4, <3>2, <4>1
    <3>7. g.tab[i].Deadline <= h.tab[k].Deadline
      BY <3>4, <3>5, <3>6
    <3> QED BY <3>3, <3>7 DEF InOrder
  <2>8. Sinking(g)
    BY <2>1, <2>5, <2>6, <2>7 DEF Sinking, Skips
  <2> QED BY <2>8 DEF g
<1> QED BY <1>1, <1>2

(* When the loop that lowers has stopped the spine is in order.            *)
LEMMA SinkingEnds ==
    ASSUME NEW n, NEW h, Moving(h, n), Sinking(h), Sunk(h)
    PROVE  SpineTable(h.tab)
<1> SUFFICES ASSUME h.i \in Spine, Inner(h.i), NEW c \in Children(h.i)
             PROVE  InOrder(h.tab, h.i, c)
  BY DEF Sinking, SpineTable
<1> DEFINE m == MinChild(h.tab, h.i)
<1>1. /\ m \in Children(h.i) /\ InOrder(h.tab, m, c)
      /\ h.tab[h.i].Deadline <= h.tab[m].Deadline
  BY MinChildPrecedes DEF Inner, Sunk
<1> HIDE DEF m
<1>2. /\ h.tab[h.i].Deadline \in Nat /\ h.tab[m].Deadline \in Nat
      /\ h.tab[c].Deadline \in Nat
  <2>1. m \in Index /\ c \in Index /\ h.i \in Index
    BY <1>1, Keys, SpineInRow
  <2> QED BY <2>1, Keys
<1> QED BY <1>1, <1>2 DEF InOrder

(* Four turns are enough.                                                  *)
LEMMA SiftDownEnds ==
    ASSUME NEW n, NEW h, Moving(h, n), Sinking(h)
    PROVE  SpineTable(SiftDown(h).tab)
<1> DEFINE Lowered(g, k) == Moving(g, n) /\ Sinking(g) /\ (Sunk(g) \/ g.i >= k)
<1>1. ASSUME NEW g, NEW k \in Nat, Lowered(g, k)
      PROVE  Lowered(Down[g], 2 * k)
  <2>1. Moving(Down[g], n) /\ Sinking(Down[g])
    BY <1>1, LowerStep, SinkingStep
  <2>2. CASE Sunk(g)
    BY <1>1, <2>2, LowerStep
  <2>3. CASE ~Sunk(g)
    <3>1. Down[g].i = MinChild(g.tab, g.i) /\ 4 * g.i < QueueSize
      BY <1>1, <2>3, LowerStep
    <3>2. Down[g].i \in Children(g.i)
      BY <1>1, <3>1, MinChildPrecedes
    <3>3. g.i \in Nat /\ g.i >= k
      BY <1>1, <2>3 DEF Sinking
    <3> QED BY <2>1, <3>2, <3>3 DEF Children
  <2> QED BY <2>2, <2>3
<1>2. Lowered(h, 1)
  BY DEF Sinking
<1> HIDE DEF Lowered
<1>3. Lowered(Down[h], 2)
  BY <1>1, <1>2
<1>4. Lowered(Down[Down[h]], 4)
  BY <1>1, <1>3
<1>5. Lowered(Down[Down[Down[h]]], 8)
  BY <1>1, <1>4
<1>6. Lowered(SiftDown(h), 16)
  BY <1>1, <1>5 DEF SiftDown
<1> DEFINE r == SiftDown(h)
<1> HIDE DEF r
<1>7. Moving(r, n) /\ Sinking(r) /\ (Sunk(r) \/ r.i >= 16)
  BY <1>6 DEF Lowered, r
<1>8. Sunk(r)
  BY <1>7, HeapAssumption DEF Sunk, Sinking
<1> QED BY <1>7, <1>8, SinkingEnds DEF r

(* A removal of the head leaves the spine in order.                        *)
LEMMA RemoveFirstKeepsSpine ==
    ASSUME NEW q, GoodQueue(q), q.last # 0, SpineTable(q.tab)
    PROVE  SpineTable(RemoveFirstElementInQueue(q).tab)
<1>1. /\ q.tab \in [Index -> HEAP] /\ q.last \in Index /\ 1 \in Index
      /\ \A k \in Index : q.last < k => q.tab[k] = Blank
      /\ Blank \in HEAP
  <2>1. q.last \in Nat
    BY QueueEntries
  <2> QED BY <2>1, HeapAssumption
       DEF GoodQueue, GoodTable, Index, Blank, Entry, HEAP, NO_TASK
<1>2. \A k \in Index : q.tab[k].Deadline \in Nat /\ q.tab[k].Deadline <= LLONG_MAX
  BY <1>1, HeapAssumption DEF HEAP
<1>3. \A i : Inner(i) => i \in Index /\ Children(i) \subseteq Index
  BY HeapAssumption DEF Inner, Spine, Children, Index
<1>4. ASSUME NEW tab, NEW i \in Spine, Inner(i), NEW c \in Children(i),
             \A k \in Index : k # 1 => tab[k] = IF k = q.last THEN Blank ELSE q.tab[k],
             i # 1
      PROVE  InOrder(tab, i, c)
  <2>1. i \in Index /\ c \in Index /\ c # 1 /\ i < c
    BY <1>3, <1>4 DEF Spine, Children
  <2>2. Blank.Deadline = LLONG_MAX /\ LLONG_MAX \in Nat
    BY HeapAssumption DEF Blank, Entry
  <2>3. CASE i = q.last
    <3>1. tab[i] = Blank /\ tab[c] = Blank
      BY <1>1, <1>4, <2>1, <2>3 DEF Index
    <3> QED BY <2>2, <3>1 DEF InOrder
  <2>4. CASE i # q.last /\ c = q.last
    BY <1>2, <1>4, <2>1, <2>2, <2>4 DEF InOrder
  <2>5. CASE i # q.last /\ c # q.last
    BY <1>4, <2>1, <2>5 DEF SpineTable, InOrder
  <2> QED BY <2>3, <2>4, <2>5
<1>5. CASE q.last = 1
  <2> DEFINE tab == [q.tab EXCEPT ![1] = Blank]
  <2>1. \A k \in Index : tab[k] = Blank
    <3>1. \A k \in Index : k = 1 \/ q.last < k
      BY <1>5 DEF Index
    <3> QED BY <1>1, <3>1
  <2>2. RemoveFirstElementInQueue(q).tab = tab
    BY <1>5 DEF RemoveFirstElementInQueue
  <2>3. Blank.Deadline = LLONG_MAX /\ LLONG_MAX \in Nat
    BY HeapAssumption DEF Blank, Entry
  <2> HIDE DEF tab
  <2>4. SpineTable(tab)
    BY <1>3, <2>1, <2>3 DEF SpineTable, InOrder
  <2> QED BY <2>2, <2>4
<1>6. CASE q.last # 1
  <2> DEFINE tab0 == [q.tab EXCEPT ![1] = q.tab[q.last], ![q.last] = Blank]
             h    == [tab |-> tab0, i |-> 1]
  <2>1. Moving(h, q.last - 1)
    BY <1>6, ReplacedMoves
  <2>2. \A k \in Index : k # 1 => tab0[k] = IF k = q.last THEN Blank ELSE q.tab[k]
    BY <1>1
  <2> HIDE DEF tab0
  <2>3. Sinking(h)
    <3>1. \A i \in Spine : h.i \notin Children(i)
      BY DEF Spine, Children
    <3> QED BY <1>4, <2>2, <3>1 DEF Sinking, Skips
  <2>4. RemoveFirstElementInQueue(q).tab = SiftDown(h).tab
    BY <1>6 DEF RemoveFirstElementInQueue, ReplaceByLast, tab0
  <2> QED BY <2>1, <2>3, <2>4, SiftDownEnds
<1> QED BY <1>5, <1>6

(* The part of the heap order that the code keeps, it keeps for ever, in a *)
(* ready queue of any size.                                                *)
THEOREM ReadyQueueSpine ==
    ASSUME SmallDeadlines
    PROVE  ReadySpec => []SpineSorted
<1> DEFINE SInv == IInv /\ SpineTable(queue.tab)
<1>1. SpineSorted <=> SpineTable(queue.tab)
  BY DEF SpineSorted, SpineTable, Spine, Inner, Children, InOrder
<1>2. Init => SpineTable(queue.tab)
  <2> SUFFICES ASSUME Init PROVE SpineTable(queue.tab)
    OBVIOUS
  <2>1. \A i : Inner(i) => i \in Index /\ Children(i) \subseteq Index
    BY HeapAssumption DEF Inner, Spine, Children, Index
  <2>2. \A i \in Index : queue.tab[i] = Blank
    BY DEF Init, QueuesInit
  <2>3. Blank.Deadline = LLONG_MAX /\ LLONG_MAX \in Nat
    BY HeapAssumption DEF Blank, Entry
  <2> QED BY <2>1, <2>2, <2>3 DEF SpineTable, InOrder
<1>3. ASSUME SInv, [ReadyNext]_queue PROVE SpineTable(queue'.tab)
  <2>1. CASE UNCHANGED queue
    BY <1>3, <2>1
  <2>2. ASSUME NEW t \in Tasks, NEW d \in Deadlines, Insert(t, d)
        PROVE  SpineTable(queue'.tab)
    <3>1. queue.last \in Nat
      BY <1>3, QueueEntries DEF IInv
    <3>2. queue.last < QueueSize - 1 /\ t \in Nat /\ d \in 0..(U32 - 1)
      BY <2>2, <3>1, QueueAssumption, HeapAssumption DEF SmallDeadlines, Insert
    <3> QED BY <1>3, <2>2, <3>2, InsertKeepsSpine DEF IInv, Insert
  <2>3. CASE RemoveFirst
    BY <1>3, <2>3, RemoveFirstKeepsSpine DEF IInv, RemoveFirst
  <2> QED BY <1>3, <2>1, <2>2, <2>3 DEF ReadyNext, InsertAny
<1>4. SpineTable(queue'.tab) <=> SpineTable(queue.tab)'
  BY DEF SpineTable, Spine, Inner, Children, InOrder
<1>5. SInv /\ [ReadyNext]_queue => SInv'
  BY <1>3, <1>4, ReadyStep
<1> QED BY <1>1, <1>2, <1>5, InitIInv, PTL DEF ReadySpec
=============================================================================
