--------------------------- MODULE MrtkHeapProofs ---------------------------
(***************************************************************************)
(* What the operations of mrtk_heap.c do to the entries of a queue of any  *)
(* size: an insertion adds the new entry and nothing else, the removal of  *)
(* the first entry takes that entry away and nothing else.  The loops that *)
(* sift only exchange entries in use, because the entries out of use have  *)
(* the deadline LLONG_MAX and no entry is greater.                         *)
(***************************************************************************)
EXTENDS MrtkHeap, TLAPS

\* The entries of a table whose first n entries are in use.
InUse(tab, n) == {tab[i] : i \in 1..n}

(* A table with n entries in use, of distinct tasks, with deadlines that   *)
(* fit in a Uint32, and blank entries after them.                          *)
GoodTable(tab, n) ==
    /\ tab \in [Index -> HEAP]
    /\ n \in 0..(QueueSize - 1)
    /\ \A i \in 1..n : tab[i].Deadline < U32
    /\ \A i, j \in 1..n : tab[i].TaskId = tab[j].TaskId => i = j
    /\ \A i \in Index : n < i => tab[i] = Blank

GoodQueue(q) ==
    /\ q \in QueueType
    /\ GoodTable(q.tab, q.last)

(* A Uint32 variable holds a deadline below 2^32 unchanged.                *)
LEMMA SmallMod == \A d \in 0..(U32 - 1) : d % U32 = d
  BY HeapAssumption, SMT

(* SwapQueueItems exchanges two entries with deadlines below 2^32.         *)
LEMMA SwapExchanges ==
    ASSUME NEW tab, NEW n, GoodTable(tab, n), NEW i \in 1..n, NEW j \in 1..n, i # j
    PROVE  LET new == SwapQueueItems(tab, i, j)
           IN  /\ new \in [Index -> HEAP]
               /\ new[i] = tab[j] /\ new[j] = tab[i]
               /\ \A k \in Index : k # i /\ k # j => new[k] = tab[k]
<1> DEFINE new == SwapQueueItems(tab, i, j)
<1>1. i \in Index /\ j \in Index /\ tab \in [Index -> HEAP]
  BY HeapAssumption DEF GoodTable, Index
<1>2. tab[i] \in HEAP /\ tab[j] \in HEAP
  BY <1>1
<1>3. tab[i].Deadline % U32 = tab[i].Deadline
  <2>1. tab[i].Deadline \in 0..(U32 - 1)
    BY <1>1, <1>2, HeapAssumption DEF GoodTable, HEAP
  <2> QED BY <2>1, SmallMod
<1>4. Entry(tab[i].TaskId, tab[i].Deadline % U32) = tab[i]
  BY <1>2, <1>3 DEF Entry, HEAP
<1>5. new = [tab EXCEPT ![i] = tab[j], ![j] = tab[i]]
  BY <1>4 DEF SwapQueueItems
<1> QED BY <1>1, <1>2, <1>5

(* An exchange of two entries in use loses neither.                        *)
LEMMA SwapKeepsTable ==
    ASSUME NEW tab, NEW n, GoodTable(tab, n), NEW i \in 1..n, NEW j \in 1..n, i # j
    PROVE  /\ GoodTable(SwapQueueItems(tab, i, j), n)
           /\ InUse(SwapQueueItems(tab, i, j), n) = InUse(tab, n)
<1> DEFINE new == SwapQueueItems(tab, i, j)
<1>1. i \in Index /\ j \in Index /\ n \in Nat /\ tab \in [Index -> HEAP]
  BY HeapAssumption DEF GoodTable, Index
<1>2. /\ new \in [Index -> HEAP]
      /\ new[i] = tab[j] /\ new[j] = tab[i]
      /\ \A k \in Index : k # i /\ k # j => new[k] = tab[k]
  BY SwapExchanges
<1>3. GoodTable(new, n)
  <2> HIDE DEF new
  <2>1. 1..n \subseteq Index
    BY <1>1, HeapAssumption DEF GoodTable, Index
  <2>2. \A k \in 1..n : new[k].Deadline < U32
    BY <1>2, <2>1 DEF GoodTable
  <2>3. \A k, m \in 1..n : new[k].TaskId = new[m].TaskId => k = m
    BY <1>2, <2>1 DEF GoodTable
  <2>4. \A k \in Index : n < k => new[k] = Blank
    BY <1>1, <1>2 DEF GoodTable, Index
  <2> QED BY <1>2, <2>2, <2>3, <2>4 DEF GoodTable
<1>4. InUse(new, n) = InUse(tab, n)
  <2>1. 1..n \subseteq Index
    BY HeapAssumption DEF GoodTable, Index
  <2>2. ASSUME NEW k \in 1..n
        PROVE  /\ \E m \in 1..n : new[k] = tab[m]
               /\ \E m \in 1..n : tab[k] = new[m]
    BY <1>2, <2>1
  <2> HIDE DEF new
  <2> QED BY <2>2 DEF InUse
<1> QED BY <1>3, <1>4

-----------------------------------------------------------------------------
\* An entry in use that is being moved in a good table.
Moving(h, n) == h \in Sifting /\ h.i \in 1..n /\ GoodTable(h.tab, n)

\* A turn of a loop has moved entries in use and nothing else.
Moved(h, r, n) == Moving(r, n) /\ InUse(r.tab, n) = InUse(h.tab, n)

(* One exchange of two entries in use is a move: SwapQueueItems of         *)
(* mrtk_heap.c loses neither.                                              *)
LEMMA SwapMoves ==
    ASSUME NEW n, NEW h, Moving(h, n), NEW j \in 1..n, h.i # j
    PROVE  Moved(h, [tab |-> SwapQueueItems(h.tab, h.i, j), i |-> j], n)
<1> DEFINE r == [tab |-> SwapQueueItems(h.tab, h.i, j), i |-> j]
<1>1. GoodTable(r.tab, n) /\ InUse(r.tab, n) = InUse(h.tab, n)
  BY SwapKeepsTable DEF Moving
<1>2. j \in Index
  BY HeapAssumption DEF Moving, GoodTable, Index
<1>3. r \in Sifting
  BY <1>1, <1>2 DEF Sifting, GoodTable
<1> QED BY <1>1, <1>3 DEF Moved, Moving

(* One turn towards the root exchanges an entry with its parent.           *)
LEMMA SiftUpStepMoves ==
    ASSUME NEW n, NEW h, Moving(h, n)
    PROVE  Moved(h, SiftUpStep(h), n)
<1> DEFINE parent == h.i \div 2
<1>1. CASE h.i # 1 /\ h.tab[h.i].Deadline < h.tab[parent].Deadline
  <2>1. parent \in 1..n /\ h.i # parent
    BY <1>1, HeapAssumption DEF Moving, GoodTable
  <2> QED BY <1>1, <2>1, SwapMoves DEF SiftUpStep
<1>2. CASE ~(h.i # 1 /\ h.tab[h.i].Deadline < h.tab[parent].Deadline)
  BY <1>2 DEF SiftUpStep, Moved
<1> QED BY <1>1, <1>2

(* The whole loop of mrtk_InsertInQueue only moves entries.                *)
LEMMA SiftUpMoves ==
    ASSUME NEW n, NEW h, Moving(h, n)
    PROVE  Moved(h, SiftUp(h), n)
<1>1. ASSUME NEW g, Moved(h, g, n)
      PROVE  Moved(h, Up[g], n)
  <2>1. Moved(g, SiftUpStep(g), n)
    BY <1>1, SiftUpStepMoves DEF Moved
  <2>2. Up[g] = SiftUpStep(g)
    BY <1>1 DEF Up, Moved, Moving
  <2> QED BY <1>1, <2>1, <2>2 DEF Moved
<1>2. Moved(h, h, n)
  BY DEF Moved
<1>3. Moved(h, Up[Up[h]], n)
  BY <1>1, <1>2
<1>4. Moved(h, Up[Up[Up[Up[h]]]], n)
  BY <1>1, <1>3
<1>5. Moved(h, Up[Up[Up[Up[Up[h]]]]], n)
  BY <1>1, <1>4
<1> QED BY <1>5 DEF SiftUp

(* One turn away from the root exchanges an entry with an entry in use:    *)
(* a blank child has the greatest deadline there is.                       *)
LEMMA SiftDownStepMoves ==
    ASSUME NEW n, NEW h, Moving(h, n)
    PROVE  Moved(h, SiftDownStep(h), n)
<1> DEFINE child == MinChild(h.tab, h.i)
<1>1. CASE 4 * h.i < QueueSize /\ h.tab[h.i].Deadline > h.tab[child].Deadline
  <2>1. h.i \in Nat /\ child \in Index /\ h.i # child /\ h.i \in Index
    <3>1. child \in {2 * h.i, 4 * h.i}
      BY DEF MinChild
    <3>2. h.i \in Nat \ {0}
      BY DEF Moving, GoodTable
    <3>3. QueueSize \in Nat
      BY HeapAssumption
    <3> HIDE DEF child
    <3> QED BY <1>1, <3>1, <3>2, <3>3 DEF Index
  <2>2. h.tab[h.i] \in HEAP /\ h.tab[child] \in HEAP
    BY <2>1 DEF Moving, GoodTable
  <2>3. child \in 1..n
    <3>1. SUFFICES ASSUME n < child PROVE FALSE
      BY <2>1, HeapAssumption DEF Moving, GoodTable, Index
    <3>2. h.tab[child].Deadline = LLONG_MAX
      BY <2>1, <3>1 DEF Moving, GoodTable, Blank, Entry
    <3> QED BY <1>1, <2>2, <3>2, HeapAssumption DEF HEAP
  <2> QED BY <1>1, <2>1, <2>3, SwapMoves DEF SiftDownStep
<1>2. CASE ~(4 * h.i < QueueSize /\ h.tab[h.i].Deadline > h.tab[child].Deadline)
  BY <1>2 DEF SiftDownStep, Moved
<1> QED BY <1>1, <1>2

(* The whole loop of mrtk_RemoveFirstElementInQueue only moves entries.    *)
LEMMA SiftDownMoves ==
    ASSUME NEW n, NEW h, Moving(h, n)
    PROVE  Moved(h, SiftDown(h), n)
<1>1. ASSUME NEW g, Moved(h, g, n)
      PROVE  Moved(h, Down[g], n)
  <2>1. Moved(g, SiftDownStep(g), n)
    BY <1>1, SiftDownStepMoves DEF Moved
  <2>2. Down[g] = SiftDownStep(g)
    BY <1>1 DEF Down, Moved, Moving
  <2> QED BY <1>1, <2>1, <2>2 DEF Moved
<1>2. Moved(h, h, n)
  BY DEF Moved
<1>3. Moved(h, Down[Down[h]], n)
  BY <1>1, <1>2
<1>4. Moved(h, Down[Down[Down[Down[h]]]], n)
  BY <1>1, <1>3
<1> QED BY <1>4 DEF SiftDown

-----------------------------------------------------------------------------
(* The loops stop where their tests are false, within the turns of the     *)
(* models.                                                                 *)
Settled(h) ==
    h.i = 1 \/ h.tab[h.i \div 2].Deadline <= h.tab[h.i].Deadline

Sunk(h) ==
    4 * h.i < QueueSize
        => h.tab[h.i].Deadline <= h.tab[MinChild(h.tab, h.i)].Deadline

(* The keys of a table in which an entry is being moved.                   *)
LEMMA Keys ==
    ASSUME NEW n, NEW h, Moving(h, n)
    PROVE  /\ h.i \in Index
           /\ \A k \in Index : h.tab[k].Deadline \in Nat /\ h.tab[k].Deadline <= LLONG_MAX
<1>1. h.tab \in [Index -> HEAP] /\ h.i \in Index
  BY DEF Moving, Sifting
<1> QED BY <1>1, HeapAssumption DEF HEAP

(* One turn of the loop that lifts an entry, as a fact about the keys.     *)
LEMMA LiftStep ==
    ASSUME NEW n, NEW h, Moving(h, n)
    PROVE  LET g == Up[h]
               p == h.i \div 2
           IN  /\ Moving(g, n)
               /\ Settled(h) => g = h
               /\ ~Settled(h) => /\ p \in 1..n /\ p < h.i /\ g.i = p
                                 /\ h.tab[h.i].Deadline < h.tab[p].Deadline
                                 /\ g.tab[p] = h.tab[h.i] /\ g.tab[h.i] = h.tab[p]
                                 /\ \A k \in Index : k # p /\ k # h.i => g.tab[k] = h.tab[k]
<1> DEFINE p == h.i \div 2
           swapped == [tab |-> SwapQueueItems(h.tab, h.i, p), i |-> p]
<1>1. /\ Up[h] = SiftUpStep(h)
      /\ GoodTable(h.tab, n) /\ h.i \in 1..n /\ n \in Nat /\ 1..n \subseteq Index
      /\ h.tab \in [Index -> HEAP]
  <2>1. Up[h] = SiftUpStep(h)
    BY DEF Up, Moving
  <2>2. GoodTable(h.tab, n) /\ h.i \in 1..n /\ n \in 0..(QueueSize - 1)
    BY DEF Moving, GoodTable
  <2>3. h.tab \in [Index -> HEAP]
    BY <2>2 DEF GoodTable
  <2> QED BY <2>1, <2>2, <2>3, HeapAssumption DEF Index
<1>2. Moving(Up[h], n)
  BY <1>1, SiftUpStepMoves DEF Moved
<1>3. \A k \in Index : h.tab[k].Deadline \in Nat
  BY <1>1, HeapAssumption DEF HEAP
<1>4. h.i # 1 => p \in 1..n /\ p < h.i
  BY <1>1
<1>5. SiftUpStep(h) = IF h.i # 1 /\ h.tab[h.i].Deadline < h.tab[p].Deadline
                      THEN swapped ELSE h
  BY DEF SiftUpStep
<1>6. Settled(h) <=> ~(h.i # 1 /\ h.tab[h.i].Deadline < h.tab[p].Deadline)
  BY <1>1, <1>3, <1>4 DEF Settled
<1>7. ASSUME ~Settled(h)
      PROVE  /\ p \in 1..n /\ p < h.i
             /\ h.tab[h.i].Deadline < h.tab[p].Deadline
             /\ swapped.i = p
             /\ swapped.tab[p] = h.tab[h.i] /\ swapped.tab[h.i] = h.tab[p]
             /\ \A k \in Index : k # p /\ k # h.i => swapped.tab[k] = h.tab[k]
  <2>1. /\ p \in 1..n /\ p < h.i /\ p # h.i
        /\ h.tab[h.i].Deadline < h.tab[p].Deadline
    BY <1>1, <1>4, <1>6, <1>7
  <2> HIDE DEF p
  <2> QED BY <1>1, <2>1, SwapExchanges
<1> HIDE DEF p, swapped
<1> QED BY <1>1, <1>2, <1>5, <1>6, <1>7 DEF p

(* Five turns are enough.                                                  *)
LEMMA SiftUpSettles ==
    ASSUME NEW n, NEW h, Moving(h, n)
    PROVE  Moving(SiftUp(h), n) /\ Settled(SiftUp(h))
<1>1. ASSUME NEW k \in Nat, NEW g, Moving(g, n), Settled(g) \/ g.i < 2 * k
      PROVE  Moving(Up[g], n) /\ (Settled(Up[g]) \/ Up[g].i < k)
  <2>1. g.i \in Nat
    BY <1>1, HeapAssumption DEF Moving, GoodTable
  <2>2. ~Settled(g) => g.i \div 2 < k
    BY <1>1, <2>1
  <2> QED BY <1>1, <2>2, LiftStep
<1>2. h.i < 64
  BY HeapAssumption DEF Moving, GoodTable
<1>3. /\ Moving(Up[h], n)
      /\ Settled(Up[h]) \/ Up[h].i < 32
  BY <1>1, <1>2
<1>4. /\ Moving(Up[Up[h]], n)
      /\ Settled(Up[Up[h]]) \/ Up[Up[h]].i < 16
  BY <1>1, <1>3
<1>5. /\ Moving(Up[Up[Up[h]]], n)
      /\ Settled(Up[Up[Up[h]]]) \/ Up[Up[Up[h]]].i < 8
  BY <1>1, <1>4
<1>6. /\ Moving(Up[Up[Up[Up[h]]]], n)
      /\ Settled(Up[Up[Up[Up[h]]]]) \/ Up[Up[Up[Up[h]]]].i < 4
  BY <1>1, <1>5
<1>7. /\ Moving(SiftUp(h), n)
      /\ Settled(SiftUp(h)) \/ SiftUp(h).i < 2
  BY <1>1, <1>6 DEF SiftUp
<1> QED BY <1>7, HeapAssumption DEF Moving, Settled, GoodTable

(* One turn of the loop that lowers an entry, as a fact about the keys.    *)
LEMMA LowerStep ==
    ASSUME NEW n, NEW h, Moving(h, n)
    PROVE  LET g == Down[h]
               c == MinChild(h.tab, h.i)
           IN  /\ Moving(g, n)
               /\ Sunk(h) => g = h
               /\ ~Sunk(h) => /\ 4 * h.i < QueueSize
                              /\ c \in 1..n /\ c # h.i /\ g.i = c
                              /\ h.tab[c].Deadline < h.tab[h.i].Deadline
                              /\ g.tab[c] = h.tab[h.i] /\ g.tab[h.i] = h.tab[c]
                              /\ \A k \in Index : k # c /\ k # h.i => g.tab[k] = h.tab[k]
<1> DEFINE c == MinChild(h.tab, h.i)
           swapped == [tab |-> SwapQueueItems(h.tab, h.i, c), i |-> c]
<1>1. /\ Down[h] = SiftDownStep(h)
      /\ GoodTable(h.tab, n) /\ h.i \in 1..n /\ n \in Nat /\ 1..n \subseteq Index
      /\ h.tab \in [Index -> HEAP]
  <2>1. Down[h] = SiftDownStep(h)
    BY DEF Down, Moving
  <2>2. GoodTable(h.tab, n) /\ h.i \in 1..n /\ n \in 0..(QueueSize - 1)
    BY DEF Moving, GoodTable
  <2>3. h.tab \in [Index -> HEAP]
    BY <2>2 DEF GoodTable
  <2> QED BY <2>1, <2>2, <2>3, HeapAssumption DEF Index
<1>2. Moving(Down[h], n)
  BY <1>1, SiftDownStepMoves DEF Moved
<1>3. \A k \in Index : h.tab[k].Deadline \in Nat
  BY Keys
<1>4. 4 * h.i < QueueSize => c \in Index /\ c # h.i
  BY <1>1, HeapAssumption DEF MinChild, Index
<1>5. SiftDownStep(h) = IF 4 * h.i < QueueSize /\ h.tab[h.i].Deadline > h.tab[c].Deadline
                        THEN swapped ELSE h
  BY DEF SiftDownStep
<1> HIDE DEF c
<1>6. Sunk(h) <=> ~(4 * h.i < QueueSize /\ h.tab[h.i].Deadline > h.tab[c].Deadline)
  <2>1. Sunk(h) <=> (4 * h.i < QueueSize => h.tab[h.i].Deadline <= h.tab[c].Deadline)
    BY DEF Sunk, c
  <2>2. h.i \in Index
    BY <1>1
  <2> QED BY <1>3, <1>4, <2>1, <2>2
<1>7. ASSUME ~Sunk(h)
      PROVE  /\ 4 * h.i < QueueSize
             /\ c \in 1..n /\ c # h.i
             /\ h.tab[c].Deadline < h.tab[h.i].Deadline
             /\ swapped.i = c
             /\ swapped.tab[c] = h.tab[h.i] /\ swapped.tab[h.i] = h.tab[c]
             /\ \A k \in Index : k # c /\ k # h.i => swapped.tab[k] = h.tab[k]
  <2>1. /\ 4 * h.i < QueueSize /\ c \in Index /\ c # h.i
        /\ h.tab[h.i].Deadline > h.tab[c].Deadline
    BY <1>4, <1>6, <1>7
  <2>2. h.tab[h.i].Deadline \in Nat /\ h.tab[h.i].Deadline < U32
    BY <1>1, <1>3 DEF GoodTable
  <2>3. c \in 1..n
    <3>1. h.tab[c] # Blank
      BY <2>1, <2>2, HeapAssumption DEF Blank, Entry
    <3> QED BY <1>1, <2>1, <3>1 DEF GoodTable, Index
  <2>4. h.tab[c].Deadline < h.tab[h.i].Deadline
    BY <1>3, <2>1, <2>2
  <2> QED BY <1>1, <2>1, <2>3, <2>4, SwapExchanges
<1> HIDE DEF swapped
<1>8. Sunk(h) => Down[h] = h
  BY <1>1, <1>5, <1>6
<1>9. ~Sunk(h) => Down[h] = swapped
  BY <1>1, <1>5, <1>6
<1> QED BY <1>2, <1>7, <1>8, <1>9 DEF c

-----------------------------------------------------------------------------
(* What a good queue holds is what its table has in use, and its members   *)
(* are the tasks of those entries.                                         *)
LEMMA QueueEntries ==
    ASSUME NEW q, GoodQueue(q)
    PROVE  /\ q.last \in 0..(QueueSize - 1)
           /\ Held(q) = InUse(q.tab, q.last)
           /\ \A e \in Held(q) : e \in HEAP /\ e.Deadline \in 0..(U32 - 1)
           /\ Members(q) = {e.TaskId : e \in Held(q)}
<1>1. q.last \in 0..(QueueSize - 1) /\ Held(q) = InUse(q.tab, q.last)
  BY DEF GoodQueue, GoodTable, Held, Slots, InUse
<1>2. ASSUME NEW i \in 1..q.last
      PROVE  q.tab[i] \in HEAP /\ q.tab[i].Deadline \in 0..(U32 - 1)
  <2>1. i \in Index
    BY <1>1, HeapAssumption DEF Index
  <2>2. q.tab[i] \in HEAP /\ q.tab[i].Deadline < U32
    BY <2>1 DEF GoodQueue, GoodTable
  <2> QED BY <2>2, HeapAssumption DEF HEAP
<1>3. \A e \in Held(q) : e \in HEAP /\ e.Deadline \in 0..(U32 - 1)
  BY <1>2 DEF Held, Slots
<1>4. Members(q) = {e.TaskId : e \in Held(q)}
  BY DEF Members, Held
<1> QED BY <1>1, <1>3, <1>4

(* A new queue is good and empty.                                          *)
LEMMA InitIsGood == GoodQueue(QueuesInit) /\ Held(QueuesInit) = {}
<1>1. Blank \in HEAP
  BY HeapAssumption DEF Blank, Entry, HEAP, NO_TASK
<1>2. QueuesInit \in QueueType
  BY <1>1, HeapAssumption DEF QueuesInit, QueueType
<1>3. GoodTable(QueuesInit.tab, QueuesInit.last)
  BY <1>1, HeapAssumption DEF QueuesInit, GoodTable, Index
<1> QED BY <1>2, <1>3 DEF GoodQueue, Held, Slots, QueuesInit

(* An entry written after the last one is an entry in use, to be lifted.   *)
LEMMA InsertedMoves ==
    ASSUME NEW q, GoodQueue(q), q.last < QueueSize - 1,
           NEW t \in Nat, t \notin Members(q), NEW d \in 0..(U32 - 1)
    PROVE  LET n == q.last + 1
           IN  Moving([tab |-> [q.tab EXCEPT ![n] = Entry(t, d)], i |-> n], n)
<1> DEFINE n    == q.last + 1
           tab0 == [q.tab EXCEPT ![n] = Entry(t, d)]
           h    == [tab |-> tab0, i |-> n]
<1>1. /\ q.last \in Nat /\ n \in Index /\ n \in 0..(QueueSize - 1)
      /\ 1..n \subseteq Index /\ 1..n = 1..q.last \cup {n}
  BY QueueEntries, HeapAssumption DEF Index
<1>2. Entry(t, d) \in HEAP
  BY HeapAssumption DEF Entry, HEAP
<1>3. /\ q.tab \in [Index -> HEAP]
      /\ \A i \in 1..q.last : q.tab[i].Deadline < U32
      /\ \A i, j \in 1..q.last : q.tab[i].TaskId = q.tab[j].TaskId => i = j
      /\ \A i \in Index : q.last < i => q.tab[i] = Blank
  BY DEF GoodQueue, GoodTable
<1>4. /\ tab0 \in [Index -> HEAP] /\ tab0[n] = Entry(t, d)
      /\ \A i \in Index : i # n => tab0[i] = q.tab[i]
  BY <1>1, <1>2, <1>3
<1> HIDE DEF tab0, n
<1>5. \A i \in 1..n : tab0[i].Deadline < U32
  BY <1>1, <1>3, <1>4, HeapAssumption DEF Entry
<1>6. \A i \in 1..q.last : i # n /\ tab0[i].TaskId # t
  BY <1>1, <1>4 DEF Members, Slots, n
<1>7. \A i, j \in 1..n : tab0[i].TaskId = tab0[j].TaskId => i = j
  BY <1>1, <1>3, <1>4, <1>6 DEF Entry
<1>8. \A i \in Index : n < i => tab0[i] = Blank
  BY <1>1, <1>3, <1>4 DEF Index, n
<1>9. GoodTable(tab0, n)
  BY <1>1, <1>4, <1>5, <1>7, <1>8 DEF GoodTable
<1>10. Moving(h, n)
  BY <1>1, <1>4, <1>9 DEF Moving, Sifting, Index
<1> QED BY <1>10 DEF n, tab0

(* An insertion of a task that is not in the queue adds its entry, and     *)
(* keeps every other.                                                      *)
THEOREM InsertAddsEntry ==
    ASSUME NEW q, GoodQueue(q), q.last < QueueSize - 1,
           NEW t \in Nat, t \notin Members(q), NEW d \in 0..(U32 - 1)
    PROVE  /\ GoodQueue(InsertInQueue(q, t, d))
           /\ Held(InsertInQueue(q, t, d)) = Held(q) \cup {Entry(t, d)}
           /\ InsertInQueue(q, t, d).last = q.last + 1
<1> DEFINE n    == q.last + 1
           tab0 == [q.tab EXCEPT ![n] = Entry(t, d)]
           h    == [tab |-> tab0, i |-> n]
           r    == InsertInQueue(q, t, d)
<1>1. /\ q.last \in Nat /\ n \in Index /\ n \in 0..(QueueSize - 1)
      /\ 1..n \subseteq Index /\ 1..n = 1..q.last \cup {n}
  BY QueueEntries, HeapAssumption DEF Index
<1>2. Entry(t, d) \in HEAP
  BY HeapAssumption DEF Entry, HEAP
<1>3. /\ q.tab \in [Index -> HEAP] /\ q.full \in Nat
      /\ \A i \in 1..q.last : q.tab[i].Deadline < U32
      /\ \A i, j \in 1..q.last : q.tab[i].TaskId = q.tab[j].TaskId => i = j
      /\ \A i \in Index : q.last < i => q.tab[i] = Blank
  BY DEF GoodQueue, GoodTable, QueueType
<1>4. /\ tab0 \in [Index -> HEAP] /\ tab0[n] = Entry(t, d)
      /\ \A i \in Index : i # n => tab0[i] = q.tab[i]
  BY <1>1, <1>2, <1>3
<1>5. Moving(h, n)
  BY InsertedMoves
<1>6. InUse(tab0, n) = InUse(q.tab, q.last) \cup {Entry(t, d)}
  <2>1. \A i \in 1..q.last : tab0[i] = q.tab[i]
    BY <1>1, <1>4
  <2> HIDE DEF tab0, n
  <2> QED BY <1>1, <1>4, <2>1 DEF InUse
<1>7. Moved(h, SiftUp(h), n)
  BY <1>5, SiftUpMoves
<1>8. r.tab = SiftUp(h).tab /\ r.last = n /\ r.full \in Nat
  BY <1>1, <1>3 DEF InsertInQueue
<1>8a. r = [tab |-> r.tab, last |-> r.last, full |-> r.full]
  BY DEF InsertInQueue
<1>9. GoodQueue(r)
  <2>1. GoodTable(r.tab, n)
    BY <1>7, <1>8 DEF Moved, Moving
  <2> HIDE DEF r, n
  <2> QED BY <1>1, <1>8, <1>8a, <2>1 DEF GoodQueue, QueueType, GoodTable
<1>10. Held(r) = InUse(SiftUp(h).tab, n)
  <2> HIDE DEF r
  <2> QED BY <1>8, <1>9, QueueEntries
<1> QED BY <1>6, <1>7, <1>8, <1>9, <1>10, QueueEntries DEF Moved

(* The last entry, written over the root, is an entry in use, to be        *)
(* lowered.                                                                *)
LEMMA ReplacedMoves ==
    ASSUME NEW q, GoodQueue(q), q.last # 0, q.last # 1
    PROVE  LET tab0 == [q.tab EXCEPT ![1] = q.tab[q.last], ![q.last] = Blank]
           IN  Moving([tab |-> tab0, i |-> 1], q.last - 1)
<1> DEFINE n    == q.last - 1
           tab0 == [q.tab EXCEPT ![1] = q.tab[q.last], ![q.last] = Blank]
           h    == [tab |-> tab0, i |-> 1]
<1>1. /\ q.last \in Nat /\ q.last \in Index /\ n \in 0..(QueueSize - 1)
      /\ 1 \in Index /\ 1..n \subseteq Index /\ 1..n \subseteq 1..q.last
      /\ 1 \in 1..n /\ 1 # q.last /\ q.last \notin 1..n
  BY QueueEntries, HeapAssumption DEF Index
<1>2. /\ q.tab \in [Index -> HEAP] /\ Blank \in HEAP
      /\ \A i \in 1..q.last : q.tab[i].Deadline < U32
      /\ \A i, j \in 1..q.last : q.tab[i].TaskId = q.tab[j].TaskId => i = j
      /\ \A i \in Index : q.last < i => q.tab[i] = Blank
  BY HeapAssumption DEF GoodQueue, GoodTable, Blank, Entry, HEAP, NO_TASK
<1>3. /\ tab0 \in [Index -> HEAP]
      /\ tab0[1] = q.tab[q.last] /\ tab0[q.last] = Blank
      /\ \A i \in Index : i # 1 /\ i # q.last => tab0[i] = q.tab[i]
  BY <1>1, <1>2
<1>4. \A i \in Index : n < i => i = q.last \/ q.last < i
  BY <1>1 DEF Index
<1>5. q.last \in 1..q.last
  BY <1>1
<1> HIDE DEF tab0, n
<1>6. \A i \in 1..n : tab0[i].Deadline < U32
  BY <1>1, <1>2, <1>3, <1>5
<1>7. \A i, j \in 1..n : tab0[i].TaskId = tab0[j].TaskId => i = j
  BY <1>1, <1>2, <1>3, <1>5
<1>8. \A i \in Index : n < i => tab0[i] = Blank
  BY <1>1, <1>2, <1>3, <1>4
<1>9. GoodTable(tab0, n)
  BY <1>1, <1>3, <1>6, <1>7, <1>8 DEF GoodTable
<1>10. Moving(h, n)
  BY <1>1, <1>3, <1>9 DEF Moving, Sifting
<1> QED BY <1>10 DEF n, tab0

(* The removal of the first element takes away the entry at the root, the  *)
(* one mrtk_GetTaskWithNearestDeadline gives, and keeps every other.       *)
THEOREM RemoveFirstTakesRoot ==
    ASSUME NEW q, GoodQueue(q), q.last # 0
    PROVE  LET r == RemoveFirstElementInQueue(q)
           IN  /\ GoodQueue(r)
               /\ q.tab[1] \in Held(q)
               /\ Held(r) = Held(q) \ {q.tab[1]}
               /\ r.last = q.last - 1
<1> DEFINE r == RemoveFirstElementInQueue(q)
           n == q.last - 1
<1>1. /\ q.last \in Nat /\ q.last \in Index /\ n \in 0..(QueueSize - 1)
      /\ 1 \in 1..q.last /\ 1 \in Index /\ 1..q.last \subseteq Index
      /\ 1..q.last = 1..n \cup {q.last} /\ 1..n \subseteq Index
  BY QueueEntries, HeapAssumption DEF Index
<1>2. /\ q.tab \in [Index -> HEAP] /\ q.full \in Nat
      /\ \A i \in 1..q.last : q.tab[i].Deadline < U32
      /\ \A i, j \in 1..q.last : q.tab[i].TaskId = q.tab[j].TaskId => i = j
      /\ \A i \in Index : q.last < i => q.tab[i] = Blank
  BY DEF GoodQueue, GoodTable, QueueType
<1>3. Blank \in HEAP
  BY HeapAssumption DEF Blank, Entry, HEAP, NO_TASK
<1>4. q.tab[1] \in Held(q)
  BY <1>1 DEF Held, Slots
<1>5. r.last = n /\ r = [tab |-> r.tab, last |-> r.last, full |-> r.full]
  BY DEF RemoveFirstElementInQueue
<1>6. r.full \in Nat
  BY <1>2 DEF RemoveFirstElementInQueue, ShrunkLevel
<1>7. SUFFICES GoodTable(r.tab, n) /\ InUse(r.tab, n) = InUse(q.tab, q.last) \ {q.tab[1]}
  <2> HIDE DEF r, n
  <2>1. ASSUME GoodTable(r.tab, n) PROVE GoodQueue(r)
    BY <1>1, <1>5, <1>6, <2>1 DEF GoodQueue, QueueType, GoodTable
  <2>2. ASSUME GoodQueue(r) PROVE Held(r) = InUse(r.tab, n)
    BY <1>5, <2>2, QueueEntries
  <2>3. r.last = q.last - 1
    BY <1>5 DEF n
  <2>4. Held(q) = InUse(q.tab, q.last)
    BY QueueEntries
  <2> QED BY <1>4, <2>1, <2>2, <2>3, <2>4 DEF r
<1>8. CASE q.last = 1
  <2>1. r.tab = [q.tab EXCEPT ![1] = Blank]
    BY <1>8 DEF RemoveFirstElementInQueue
  <2>2. n = 0
    BY <1>8
  <2>3. GoodTable(r.tab, 0)
    <3>1. r.tab \in [Index -> HEAP]
      BY <1>2, <1>3, <2>1
    <3>2. \A i \in Index : r.tab[i] = Blank
      <4> HIDE DEF r
      <4>1. \A i \in Index : i = 1 \/ q.last < i
        BY <1>8, HeapAssumption DEF Index
      <4> QED BY <1>1, <1>2, <2>1, <4>1
    <3> QED BY <3>1, <3>2, HeapAssumption DEF GoodTable
  <2>4. InUse(r.tab, 0) = {} /\ InUse(q.tab, 1) = {q.tab[1]}
    BY DEF InUse
  <2> QED BY <1>8, <2>2, <2>3, <2>4
<1>9. CASE q.last # 1
  <2> DEFINE tab0 == [q.tab EXCEPT ![1] = q.tab[q.last], ![q.last] = Blank]
             h    == [tab |-> tab0, i |-> 1]
  <2>1. 1 \in 1..n /\ 1 # q.last /\ q.last \notin 1..n
    BY <1>1, <1>9
  <2>2. q.tab[q.last] \in HEAP
    BY <1>1, <1>2
  <2>3. /\ tab0 \in [Index -> HEAP]
        /\ tab0[1] = q.tab[q.last] /\ tab0[q.last] = Blank
        /\ \A i \in Index : i # 1 /\ i # q.last => tab0[i] = q.tab[i]
    BY <1>1, <1>2, <1>3, <2>1, <2>2
  <2>6. InUse(tab0, n) = InUse(q.tab, q.last) \ {q.tab[1]}
    <3>1. \A i \in 1..q.last : i # 1 => q.tab[i] # q.tab[1]
      BY <1>1, <1>2
    <3> HIDE DEF tab0, n
    <3>2. ASSUME NEW i \in 1..n
          PROVE  \E k \in 1..q.last : k # 1 /\ tab0[i] = q.tab[k]
      <4>1. CASE i = 1
        BY <1>1, <2>1, <2>3, <4>1
      <4>2. CASE i # 1
        BY <1>1, <2>1, <2>3, <4>2
      <4> QED BY <4>1, <4>2
    <3>3. ASSUME NEW k \in 1..q.last, k # 1
          PROVE  \E i \in 1..n : tab0[i] = q.tab[k]
      <4>1. CASE k = q.last
        BY <2>1, <2>3, <4>1
      <4>2. CASE k # q.last
        BY <1>1, <2>1, <2>3, <3>3, <4>2
      <4> QED BY <4>1, <4>2
    <3> QED BY <3>1, <3>2, <3>3 DEF InUse
  <2>7. Moved(h, SiftDown(h), n)
    <3>1. Moving(h, n)
      BY <1>9, ReplacedMoves
    <3> QED BY <3>1, SiftDownMoves
  <2>8. r.tab = SiftDown(h).tab
    BY <1>9 DEF RemoveFirstElementInQueue, ReplaceByLast
  <2> QED BY <2>6, <2>7, <2>8 DEF Moved, Moving
<1> QED BY <1>8, <1>9
-----------------------------------------------------------------------------
\* The entry that is being lifted is nearer than all others in use.
Leads(h, n) ==
    \A k \in 1..n : k # h.i => h.tab[h.i].Deadline < h.tab[k].Deadline

(* An entry nearer than all others is lifted to the root.                  *)
LEMMA LeaderReachesRoot ==
    ASSUME NEW n, NEW h, Moving(h, n), Leads(h, n)
    PROVE  SiftUp(h).tab[1] = h.tab[h.i]
<1> DEFINE e == h.tab[h.i]
           Lifted(g) == Moving(g, n) /\ Leads(g, n) /\ g.tab[g.i] = e
<1>1. 1..n \subseteq Index /\ n \in Nat
  BY HeapAssumption DEF Moving, GoodTable, Index
<1>2. ASSUME NEW g, Lifted(g) PROVE Lifted(Up[g])
  <2> DEFINE p == g.i \div 2
  <2>1. CASE Settled(g)
    BY <1>2, <2>1, LiftStep
  <2>2. CASE ~Settled(g)
    <3>1. /\ Moving(Up[g], n) /\ p \in 1..n /\ p < g.i /\ Up[g].i = p
          /\ g.tab[g.i].Deadline < g.tab[p].Deadline
          /\ Up[g].tab[p] = g.tab[g.i] /\ Up[g].tab[g.i] = g.tab[p]
          /\ \A k \in Index : k # p /\ k # g.i => Up[g].tab[k] = g.tab[k]
      BY <1>2, <2>2, LiftStep
    <3> HIDE DEF p
    <3>2. Leads(Up[g], n)
      BY <1>1, <1>2, <3>1 DEF Leads
    <3> QED BY <1>2, <3>1, <3>2
  <2> QED BY <2>1, <2>2
<1>3. Lifted(h)
  OBVIOUS
<1> HIDE DEF Lifted
<1>4. Lifted(Up[Up[h]])
  BY <1>2, <1>3
<1>5. Lifted(Up[Up[Up[Up[h]]]])
  BY <1>2, <1>4
<1>6. Lifted(SiftUp(h))
  BY <1>2, <1>5 DEF SiftUp
<1> DEFINE r == SiftUp(h)
<1>7. Moving(r, n) /\ Settled(r)
  BY SiftUpSettles
<1> HIDE DEF r
<1>8. r.i = 1
  <2>1. r.i \in 1..n /\ r.tab \in [Index -> HEAP]
    BY <1>7 DEF Moving, GoodTable
  <2>2. r.i # 1 => r.i \div 2 \in 1..n /\ r.i \div 2 # r.i
    BY <1>1, <2>1
  <2>3. \A k \in 1..n : r.tab[k].Deadline \in Nat
    BY <1>1, <2>1, HeapAssumption DEF HEAP
  <2> QED BY <1>6, <1>7, <2>1, <2>2, <2>3 DEF Lifted, Leads, Settled, r
<1> QED BY <1>6, <1>8 DEF Lifted, r


(* A task inserted with the nearest deadline of all goes to the head of a  *)
(* queue of any size and disorder.                                         *)
LEMMA NearestGoesFirst ==
    ASSUME NEW q, GoodQueue(q), q.last < QueueSize - 1,
           NEW t \in Nat, t \notin Members(q), NEW d \in 0..(U32 - 1),
           \A e \in Held(q) : d < e.Deadline
    PROVE  InsertInQueue(q, t, d).tab[1] = Entry(t, d)
<1> DEFINE n    == q.last + 1
           tab0 == [q.tab EXCEPT ![n] = Entry(t, d)]
           h    == [tab |-> tab0, i |-> n]
<1>1. Moving(h, n)
  BY InsertedMoves
<1>2. /\ q.tab \in [Index -> HEAP] /\ n \in Index /\ q.last \in Nat
      /\ 1..n = 1..q.last \cup {n} /\ 1..n \subseteq Index
  BY QueueEntries, HeapAssumption DEF Index, GoodQueue, GoodTable
<1>3. tab0[n] = Entry(t, d) /\ \A k \in Index : k # n => tab0[k] = q.tab[k]
  BY <1>2
<1>4. \A k \in 1..q.last : d < q.tab[k].Deadline
  BY DEF Held, Slots
<1>5. Leads(h, n)
  <2> HIDE DEF n, tab0
  <2> QED BY <1>2, <1>3, <1>4 DEF Leads, Entry
<1>6. SiftUp(h).tab[1] = Entry(t, d)
  <2>1. h.tab[h.i] = Entry(t, d)
    BY <1>3
  <2> HIDE DEF h
  <2>2. SiftUp(h).tab[1] = h.tab[h.i]
    BY ONLY <1>1, <1>5, LeaderReachesRoot
  <2> QED BY ONLY <2>1, <2>2
<1>7. InsertInQueue(q, t, d).tab = SiftUp(h).tab
  BY DEF InsertInQueue
<1> QED BY <1>6, <1>7

(* An insertion leaves the head of a queue in place, unless the new task   *)
(* is nearer.                                                              *)
LEMMA HeadGivesWayToNearer ==
    ASSUME NEW q, GoodQueue(q), q.last < QueueSize - 1, q.last # 0,
           NEW t \in Nat, t \notin Members(q), NEW d \in 0..(U32 - 1)
    PROVE  \/ InsertInQueue(q, t, d).tab[1] = q.tab[1]
           \/ /\ InsertInQueue(q, t, d).tab[1] = Entry(t, d)
              /\ d < q.tab[1].Deadline
<1> DEFINE n    == q.last + 1
           tab0 == [q.tab EXCEPT ![n] = Entry(t, d)]
           h    == [tab |-> tab0, i |-> n]
           head == q.tab[1]
           Lifted(g) == /\ Moving(g, n)
                        /\ g.tab[g.i] = Entry(t, d)
                        /\ g.i # 1 => g.tab[1] = head
                        /\ g.i = 1 => d < head.Deadline
<1>1. /\ q.tab \in [Index -> HEAP] /\ n \in Index /\ q.last \in Nat /\ n # 1 /\ 1 \in Index
  BY QueueEntries, HeapAssumption DEF Index, GoodQueue, GoodTable
<1>2. Lifted(h)
  <2>1. tab0[n] = Entry(t, d) /\ tab0[1] = q.tab[1]
    BY <1>1
  <2>2. Moving(h, n)
    BY InsertedMoves
  <2> QED BY <1>1, <2>1, <2>2
<1>3. ASSUME NEW g, Lifted(g) PROVE Lifted(Up[g])
  <2> DEFINE p == g.i \div 2
  <2>1. CASE Settled(g)
    BY <1>3, <2>1, LiftStep
  <2>2. CASE ~Settled(g)
    <3>1. /\ Moving(Up[g], n) /\ p < g.i /\ Up[g].i = p
          /\ g.tab[g.i].Deadline < g.tab[p].Deadline
          /\ Up[g].tab[p] = g.tab[g.i]
          /\ \A k \in Index : k # p /\ k # g.i => Up[g].tab[k] = g.tab[k]
      BY <1>3, <2>2, LiftStep
    <3>2. g.i # 1
      BY <2>2 DEF Settled
    <3> HIDE DEF p, head
    <3> QED BY <1>1, <1>3, <3>1, <3>2 DEF Entry
  <2> QED BY <2>1, <2>2
<1>4. InsertInQueue(q, t, d).tab = SiftUp(h).tab
  BY DEF InsertInQueue
<1> HIDE DEF Lifted, h
<1>5. Lifted(Up[Up[h]])
  BY <1>2, <1>3
<1>6. Lifted(Up[Up[Up[Up[h]]]])
  BY <1>3, <1>5
<1>7. Lifted(SiftUp(h))
  BY <1>3, <1>6 DEF SiftUp
<1>8. \/ SiftUp(h).tab[1] = head
      \/ SiftUp(h).tab[1] = Entry(t, d) /\ d < head.Deadline
  <2> HIDE DEF head
  <2> QED BY <1>7 DEF Lifted
<1> QED BY <1>4, <1>8

(* When the head leaves, the one that takes its place is no farther than   *)
(* some other, if there is one.                                            *)
LEMMA NewHeadPrecedesAnother ==
    ASSUME NEW q, GoodQueue(q), q.last > 2
    PROVE  LET r == RemoveFirstElementInQueue(q)
           IN  \E e \in Held(r) : e # r.tab[1] /\ r.tab[1].Deadline <= e.Deadline
<1> DEFINE r    == RemoveFirstElementInQueue(q)
           n    == q.last - 1
           tab0 == [q.tab EXCEPT ![1] = q.tab[q.last], ![q.last] = Blank]
           h    == [tab |-> tab0, i |-> 1]
<1>1. q.last \in Nat /\ n \in Nat /\ q.last # 0 /\ q.last # 1 /\ 1 \in 1..n /\ 2 \in 1..n
  BY QueueEntries
<1>2. Moving(h, n)
  BY <1>1, ReplacedMoves
<1>3. r.tab = SiftDown(h).tab /\ r.last = n
  BY <1>1 DEF RemoveFirstElementInQueue, ReplaceByLast
<1>4. GoodQueue(r) /\ Held(r) = InUse(r.tab, n)
  <2>1. GoodQueue(r)
    BY <1>1, RemoveFirstTakesRoot
  <2> HIDE DEF r
  <2> QED BY <1>3, <2>1, QueueEntries
<1> HIDE DEF h, r, n
<1> DEFINE moved == h.tab[1]
           Below(g) == /\ Moving(g, n) /\ g.i > 1
                       /\ InUse(g.tab, n) = InUse(h.tab, n)
                       /\ g.tab[1].Deadline < moved.Deadline
<1>5. h.i = 1 /\ moved \in InUse(h.tab, n)
  BY <1>1 DEF h, InUse
<1>6. ASSUME NEW g, Below(g) PROVE Below(Down[g])
  <2> DEFINE c == MinChild(g.tab, g.i)
  <2>1. CASE Sunk(g)
    BY <1>6, <2>1, LowerStep
  <2>2. CASE ~Sunk(g)
    <3>1. /\ Moving(Down[g], n) /\ Down[g].i = c
          /\ \A k \in Index : k # c /\ k # g.i => Down[g].tab[k] = g.tab[k]
      BY <1>6, <2>2, LowerStep
    <3>2. g.i \in Nat /\ g.i > 1 /\ 1 \in Index
      BY <1>6, HeapAssumption DEF Moving, GoodTable, Index
    <3>3. c > 1
      BY <3>2 DEF MinChild
    <3>4. InUse(Down[g].tab, n) = InUse(g.tab, n)
      <4>1. Down[g] = SiftDownStep(g)
        BY <1>6 DEF Down, Moving
      <4> QED BY <1>6, <4>1, SiftDownStepMoves DEF Moved
    <3> HIDE DEF c, moved
    <3> QED BY <1>6, <3>1, <3>2, <3>3, <3>4
  <2> QED BY <2>1, <2>2
<1>7. CASE Sunk(h)
  <2>1. Down[h] = h
    BY <1>2, <1>7, LowerStep
  <2>2. SiftDown(h) = h
    BY <2>1 DEF SiftDown
  <2>3. h.tab[1].Deadline <= h.tab[2].Deadline
    <3>1. h.tab[1].Deadline <= h.tab[MinChild(h.tab, 1)].Deadline
      BY <1>5, <1>7, HeapAssumption DEF Sunk
    <3>2. /\ h.tab[1].Deadline \in Nat /\ h.tab[2].Deadline \in Nat
          /\ h.tab[4].Deadline \in Nat
      BY <1>2, Keys, HeapAssumption DEF Index
    <3> QED BY <3>1, <3>2 DEF MinChild
  <2>4. h.tab[2] # h.tab[1] /\ h.tab[2] \in InUse(h.tab, n)
    BY <1>1, <1>2 DEF Moving, GoodTable, InUse
  <2> QED BY <1>3, <1>4, <2>2, <2>3, <2>4 DEF r
<1>8. CASE ~Sunk(h)
  <2> DEFINE c == MinChild(h.tab, h.i)
  <2>1. /\ Moving(Down[h], n) /\ c # 1 /\ Down[h].i = c /\ c \in 1..n
        /\ h.tab[c].Deadline < h.tab[1].Deadline /\ Down[h].tab[1] = h.tab[c]
    BY <1>2, <1>5, <1>8, LowerStep
  <2>2. InUse(Down[h].tab, n) = InUse(h.tab, n)
    <3>1. Down[h] = SiftDownStep(h)
      BY <1>2 DEF Down, Moving
    <3> QED BY <1>2, <3>1, SiftDownStepMoves DEF Moved
  <2>3. Below(Down[h])
    <3> HIDE DEF c
    <3> QED BY <1>1, <2>1, <2>2
  <2> HIDE DEF Below
  <2>4. Below(Down[Down[Down[h]]])
    BY <1>6, <2>3
  <2>5. Below(SiftDown(h))
    BY <1>6, <2>4 DEF SiftDown
  <2>6. /\ moved \in Held(r)
        /\ r.tab[1].Deadline < moved.Deadline
    BY <1>3, <1>4, <1>5, <2>5 DEF Below
  <2>7. moved # r.tab[1] /\ r.tab[1].Deadline <= moved.Deadline
    <3>1. r.tab[1].Deadline \in Nat /\ moved.Deadline \in Nat
      <4>1. 1 \in Index
        BY HeapAssumption DEF Index
      <4>2. Moving(SiftDown(h), n)
        BY <2>5 DEF Below
      <4> QED BY <1>2, <1>3, <4>1, <4>2, Keys
    <3> QED BY <2>6, <3>1
  <2> HIDE DEF moved
  <2> QED BY <2>6, <2>7 DEF r
<1> QED BY <1>7, <1>8
=============================================================================
