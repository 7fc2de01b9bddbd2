--------------------------- MODULE MrtkLockProofs ---------------------------
(***************************************************************************)
(* The lock of MrtkLock excludes, serves in order and implements the       *)
(* abstract lock, for any deadlines and any bound on the numbers, from any *)
(* stale flags and deadlines in the RAM, and under these Conditions: one   *)
(* task of each CPU, deadlines that differ in 16 bits, and stale numbers   *)
(* within a bound that is below 2^16, so that no cast changes a number.    *)
(*                                                                         *)
(* The inductive invariant says what a task knows of its own words         *)
(* (OwnInv), that numbers do not grow past the bound because a task that   *)
(* has taken the largest number waits for one that is choosing (BoundInv), *)
(* and that a number chosen after another task has gone past the choosing  *)
(* flag, or before it was there, is larger (OrderInv, AheadInv).           *)
(***************************************************************************)
EXTENDS MrtkLock, TLAPS

Conditions == OneTaskPerCpu /\ DistinctDeadlines /\ NoWrap /\ StaleNumbersFit

\* Between raising the flag and storing the number.
Reading == {"max0", "max1", "again0", "again1", "number"}

OwnInv ==
    \A t \in Tasks :
        /\ pc[t] \in Reading \cup {"chosen"} => Choosing[Cpu[t]] = 1
        /\ pc[t] \in Numbered => Number[Cpu[t]] = my_number[t] /\ my_number[t] > 0
        /\ pc[t] # "init" => TaskHoldingLockDeadline[Cpu[t]] = Deadline[t]
        /\ pc[t] \in Reading => Number[Cpu[t]] < MaxNumber
        /\ pc[t] = "max1" /\ Cpu[t] = 0 => first[t] = Number[0]
        /\ pc[t] = "number" => my_number[t] > 0

\* Another task has the largest number and is kept by the flag of t.
Crowded(t) ==
    \E u \in Tasks \ {t} : pc[u] \in {"chosen", "choosing"} /\ my_number[u] = MaxNumber

Bounded(t, n) == n < MaxNumber \/ (n = MaxNumber /\ Crowded(t))

BoundInv ==
    \A t \in Tasks : pc[t] \in Reading =>
        /\ \A c \in CPUs : Bounded(t, Number[c])
        /\ pc[t] = "max1" => Bounded(t, first[t])
        /\ pc[t] \in {"again0", "again1"} => Bounded(t, my_number[t])
        /\ pc[t] = "number" => Bounded(t, my_number[t] - 1)

\* Task u must see the number of t, if it has looked at it.
Precedes(t, u) == t # u /\ (pc[t] \in {"turn", "cs"} \/ t \in ahead[u])

OrderInv ==
    \A t, u \in Tasks : Precedes(t, u) =>
        /\ pc[u] = "max1" /\ Cpu[t] = 0 => first[u] >= my_number[t]
        /\ pc[u] = "again0" => my_number[u] >= my_number[t] /\ Number[0] >= my_number[t]
        /\ pc[u] = "again1" => my_number[u] >= my_number[t] /\ Number[1] >= my_number[t]
        /\ pc[u] = "number" => my_number[u] > my_number[t]

AheadInv ==
    \A u \in Tasks : \A t \in ahead[u] :
        /\ t # u
        /\ pc[t] \in {"chosen", "choosing", "turn"}
        /\ pc[u] \in (Reading \cup Numbered) \ {"cs"}
        /\ pc[u] \in Numbered => my_number[u] > my_number[t]

\* The task in its critical section comes before every task with a number.
TurnInv ==
    \A t, u \in Tasks :
        t # u /\ pc[t] = "cs" /\ pc[u] \in Numbered => Before(t, u)

IInv == TypeOK /\ OwnInv /\ BoundInv /\ OrderInv /\ AheadInv /\ TurnInv

-----------------------------------------------------------------------------
(* The two CPUs, one task on each.                                         *)
LEMMA TwoCpus ==
    ASSUME Conditions
    PROVE  /\ CPUs = {0, 1}
           /\ \A t \in Tasks : /\ Cpu[t] \in {0, 1} /\ Deadline[t] \in Nat
                               /\ Uint16Of(Deadline[t]) \in Nat
           /\ \A t, u \in Tasks : t # u => Cpu[u] = 1 - Cpu[t] /\ Cpu[t] # Cpu[u]
           /\ MaxNumber \in Nat /\ U16 \in Nat /\ U16 > 1
           /\ InitialWords \subseteq Nat /\ InitialNumbers \subseteq 0..MaxNumber
           /\ InitialNumbers \cup 0..(MaxNumber + 1) = 0..(MaxNumber + 1)
<1>1. /\ Cpu \in [Tasks -> {0, 1}] /\ Deadline \in [Tasks -> Nat] /\ U16 \in Nat \ {0, 1}
      /\ MaxNumber \in Nat /\ InitialWords \subseteq Nat
  BY LockAssumption DEF CPUs
<1>2. \A d \in Nat : Uint16Of(d) \in Nat
  BY <1>1 DEF Uint16Of
<1>3. \A t, u \in Tasks : t # u => Cpu[u] = 1 - Cpu[t] /\ Cpu[t] # Cpu[u]
  BY <1>1 DEF Conditions, OneTaskPerCpu
<1>4. InitialNumbers \subseteq 0..MaxNumber
  BY DEF Conditions, StaleNumbersFit
<1>5. InitialNumbers \cup 0..(MaxNumber + 1) = 0..(MaxNumber + 1)
  <2>1. 0..MaxNumber \subseteq 0..(MaxNumber + 1)
    BY <1>1
  <2>2. \A B : InitialNumbers \subseteq B => InitialNumbers \cup B = B
    OBVIOUS
  <2>3. InitialNumbers \subseteq 0..(MaxNumber + 1)
    BY <1>4, <2>1
  <2> QED BY ONLY <2>2, <2>3
<1> QED BY <1>1, <1>2, <1>3, <1>4, <1>5 DEF CPUs

(* The casts change no number that a task can meet.                        *)
LEMMA CastsKeepNumbers ==
    ASSUME Conditions
    PROVE  /\ \A n \in 0..(MaxNumber + 1) : Uint16Of(n) = n
           /\ Uint16Of(1) = 1 /\ Uint16Of(0) = 0
  BY LockAssumption DEF Conditions, NoWrap, Uint16Of

(* Before mrtk_InitLock nothing is claimed of the words but their types.   *)
LEMMA InitIInv == ASSUME Conditions, Init PROVE IInv
<1>1. TypeOK
  BY TwoCpus DEF Conditions, Init, TypeOK
<1>2. \A t \in Tasks : pc[t] = "init" /\ ahead[t] = {}
  BY DEF Init
<1> QED
  BY <1>1, <1>2 DEF IInv, OwnInv, BoundInv, OrderInv, Precedes, AheadInv, TurnInv,
                    Reading, Numbered

(* mrtk_InitLock stores the deadline of a task that has no number.         *)
LEMMA InitLockIInv ==
    ASSUME Conditions, IInv, NEW t \in Tasks, InitLock(t) PROVE IInv'
<1> USE TwoCpus DEF Conditions, IInv, TypeOK, InitLock, Goto, words
<1>1. TypeOK'
  OBVIOUS
<1>2. OwnInv'
  BY DEF OwnInv, Reading, Numbered
<1>3. BoundInv'
  BY DEF BoundInv, Bounded, Crowded, OwnInv, Reading, Numbered
<1>4. OrderInv'
  BY DEF OrderInv, Precedes, OwnInv, AheadInv, Reading, Numbered
<1>5. AheadInv'
  BY DEF AheadInv, OrderInv, Precedes, OwnInv, Reading, Numbered
<1>6. TurnInv'
  BY DEF TurnInv, Before, OrderInv, Precedes, OwnInv, Reading, Numbered
<1> QED BY <1>1, <1>2, <1>3, <1>4, <1>5, <1>6

(* Raising the flag: the tasks of the other CPU that wait with a number    *)
(* are ahead from now on.                                                  *)
LEMMA StartChoosingIInv ==
    ASSUME Conditions, IInv, NEW t \in Tasks, StartChoosing(t) PROVE IInv'
<1> USE TwoCpus DEF Conditions, IInv, TypeOK, StartChoosing, Goto, words
<1>a. \A c \in CPUs : Number[c] < MaxNumber
  BY CastsKeepNumbers
<1>1. TypeOK'
  BY DEF Waiting
<1>2. OwnInv'
  BY <1>a DEF OwnInv, Reading, Numbered
<1>3. BoundInv'
  BY <1>a DEF BoundInv, Bounded, Crowded, OwnInv, Reading, Numbered
<1>4. OrderInv'
  BY DEF OrderInv, Precedes, OwnInv, AheadInv, Reading, Numbered
<1>5. AheadInv'
  <2>1. /\ ahead'[t] = Waiting /\ pc'[t] = "max0"
        /\ \A u \in Tasks \ {t} : ahead'[u] = ahead[u] /\ pc'[u] = pc[u]
        /\ my_number' = my_number /\ pc[t] = "out"
    OBVIOUS
  <2>2. \A u \in Waiting : /\ u \in Tasks \ {t}
                            /\ pc[u] \in {"chosen", "choosing", "turn"}
    BY DEF Waiting
  <2>3. \A u \in Tasks : ahead[u] \subseteq Tasks \ {t}
    BY <2>1 DEF AheadInv
  <2> QED BY <2>1, <2>2, <2>3 DEF AheadInv, Reading, Numbered
<1>6. TurnInv'
  BY DEF TurnInv, Before, OrderInv, Precedes, OwnInv, Reading, Numbered
<1> QED BY <1>1, <1>2, <1>3, <1>4, <1>5, <1>6

(* The read of the number of CPU 0 sees the tasks that are ahead.          *)
LEMMA ReadFirstIInv ==
    ASSUME Conditions, IInv, NEW t \in Tasks, ReadFirst(t) PROVE IInv'
<1> USE TwoCpus DEF Conditions, IInv, TypeOK, ReadFirst, Goto, words
<1>1. TypeOK'
  OBVIOUS
<1>2. OwnInv'
  BY DEF OwnInv, Reading, Numbered
<1>3. BoundInv'
  BY DEF BoundInv, Bounded, Crowded, OwnInv, Reading, Numbered
<1>4. OrderInv'
  BY DEF OrderInv, Precedes, OwnInv, AheadInv, Reading, Numbered
<1>5. AheadInv'
  BY DEF AheadInv, OrderInv, Precedes, OwnInv, Reading, Numbered
<1>6. TurnInv'
  BY DEF TurnInv, Before, OrderInv, Precedes, OwnInv, Reading, Numbered
<1> QED BY <1>1, <1>2, <1>3, <1>4, <1>5, <1>6

(* The read of the number of CPU 1 and the comparison: the larger one      *)
(* counts, and it is at least that of every task that is ahead.            *)
LEMMA ReadSecondIInv ==
    ASSUME Conditions, IInv, NEW t \in Tasks, ReadSecond(t) PROVE IInv'
<1> USE TwoCpus DEF Conditions, IInv, TypeOK, ReadSecond, Goto, words
<1>a. \A n \in {first[t], Number[1]} : n \in 0..(MaxNumber + 1) /\ Uint16Of(n) = n
  BY CastsKeepNumbers
<1> USE <1>a
<1>1. TypeOK'
  OBVIOUS
<1>2. OwnInv'
  BY DEF OwnInv, Reading, Numbered
<1>3. BoundInv'
  BY DEF BoundInv, Bounded, Crowded, OwnInv, Reading, Numbered
<1>4. OrderInv'
  BY DEF OrderInv, Precedes, OwnInv, AheadInv, Reading, Numbered
<1>5. AheadInv'
  BY DEF AheadInv, OrderInv, Precedes, OwnInv, Reading, Numbered
<1>6. TurnInv'
  BY DEF TurnInv, Before, OrderInv, Precedes, OwnInv, Reading, Numbered
<1> QED BY <1>1, <1>2, <1>3, <1>4, <1>5, <1>6

(* The number taken is larger than that of every task that is ahead,       *)
(* whether the word is read again or not.                                  *)
LEMMA TakeNumberIInv ==
    ASSUME Conditions, IInv, NEW t \in Tasks, TakeNumber(t) PROVE IInv'
<1> USE TwoCpus DEF Conditions, IInv, TypeOK, Goto, words
<1>1. PICK c \in CPUs, fresh \in BOOLEAN :
        /\ Goto(t, IF c = 0 THEN "again0" ELSE "again1", "number")
        /\ my_number' = [my_number EXCEPT
              ![t] = Uint16Of(1 + IF fresh THEN Uint16Of(Number[c]) ELSE @)]
        /\ UNCHANGED <<words, first, ahead>>
  BY DEF TakeNumber
<1> DEFINE v == IF fresh THEN Number[c] ELSE my_number[t]
<1>a. Uint16Of(Number[c]) = Number[c]
  BY CastsKeepNumbers
<1>2. pc[t] = (IF c = 0 THEN "again0" ELSE "again1") /\ c \in {0, 1}
  BY <1>1
<1>3. v \in Nat /\ Bounded(t, v)
  BY <1>2 DEF BoundInv, Reading
<1>4. Uint16Of(1 + v) = 1 + v
  BY <1>3, CastsKeepNumbers DEF Bounded
<1>5. /\ pc' = [pc EXCEPT ![t] = "number"]
      /\ my_number' = [my_number EXCEPT ![t] = 1 + v]
      /\ UNCHANGED <<words, first, ahead>>
  BY <1>1, <1>4, <1>a
<1>6. \A u \in Tasks : Precedes(u, t) => v >= my_number[u]
  BY <1>2 DEF OrderInv
<1> HIDE DEF v
<1>7. TypeOK'
  BY <1>3, <1>5 DEF Bounded
<1>8. OwnInv'
  BY <1>2, <1>3, <1>5 DEF OwnInv, Reading, Numbered
<1>9. BoundInv'
  BY <1>2, <1>3, <1>5 DEF BoundInv, Bounded, Crowded, Reading
<1>10. OrderInv'
  BY <1>2, <1>3, <1>5, <1>6 DEF OrderInv, Precedes, AheadInv, Reading, Numbered
<1>11. AheadInv'
  BY <1>2, <1>5 DEF AheadInv, Reading, Numbered
<1>12. TurnInv'
  BY <1>2, <1>5 DEF TurnInv, Before, Numbered
<1> QED BY <1>7, <1>8, <1>9, <1>10, <1>11, <1>12

(* Storing the number.                                                     *)
LEMMA SetNumberIInv ==
    ASSUME Conditions, IInv, NEW t \in Tasks, SetNumber(t) PROVE IInv'
<1> USE TwoCpus DEF Conditions, IInv, TypeOK, SetNumber, Goto, words
<1>1. TypeOK'
  OBVIOUS
<1>2. OwnInv'
  BY DEF OwnInv, Reading, Numbered
<1>3. BoundInv'
  <2> SUFFICES ASSUME NEW u \in Tasks, pc'[u] \in Reading
               PROVE  /\ \A c \in CPUs : Bounded(u, Number[c])'
                      /\ pc'[u] = "max1" => Bounded(u, first[u])'
                      /\ pc'[u] \in {"again0", "again1"} => Bounded(u, my_number[u])'
                      /\ pc'[u] = "number" => Bounded(u, my_number[u] - 1)'
    BY DEF BoundInv
  <2>1. u # t /\ pc[u] \in Reading /\ pc'[u] = pc[u]
    BY DEF Reading
  <2>2. Crowded(u) => Crowded(u)'
    BY DEF Crowded
  <2>3. ~Crowded(t)
    BY <2>1 DEF Crowded, Reading
  <2>4. my_number[t] <= MaxNumber
    BY <2>3 DEF BoundInv, Bounded, Reading
  <2>5. my_number[t] = MaxNumber => Crowded(u)'
    BY <2>1 DEF Crowded
  <2> QED BY <2>1, <2>2, <2>4, <2>5 DEF BoundInv, Bounded
<1>4. OrderInv'
  BY DEF OrderInv, Precedes, OwnInv, AheadInv, Reading, Numbered
<1>5. AheadInv'
  BY DEF AheadInv, OrderInv, Precedes, OwnInv, Reading, Numbered
<1>6. TurnInv'
  BY DEF TurnInv, Before, OrderInv, Precedes, OwnInv, Reading, Numbered
<1> QED BY <1>1, <1>2, <1>3, <1>4, <1>5, <1>6

(* Lowering the flag.                                                      *)
LEMMA EndChoosingIInv ==
    ASSUME Conditions, IInv, NEW t \in Tasks, EndChoosing(t) PROVE IInv'
<1> USE TwoCpus DEF Conditions, IInv, TypeOK, EndChoosing, Goto, words
<1>1. TypeOK'
  OBVIOUS
<1>2. OwnInv'
  BY DEF OwnInv, Reading, Numbered
<1>3. BoundInv'
  BY DEF BoundInv, Bounded, Crowded, OwnInv, Reading, Numbered
<1>4. OrderInv'
  BY DEF OrderInv, Precedes, OwnInv, AheadInv, Reading, Numbered
<1>5. AheadInv'
  BY DEF AheadInv, OrderInv, Precedes, OwnInv, Reading, Numbered
<1>6. TurnInv'
  BY DEF TurnInv, Before, OrderInv, Precedes, OwnInv, Reading, Numbered
<1> QED BY <1>1, <1>2, <1>3, <1>4, <1>5, <1>6

(* Past the other CPU's flag: a task that chooses after this sees the      *)
(* number.                                                                 *)
LEMMA AwaitChoosingIInv ==
    ASSUME Conditions, IInv, NEW t \in Tasks, AwaitChoosing(t) PROVE IInv'
<1> USE TwoCpus DEF Conditions, IInv, TypeOK, AwaitChoosing, Goto, words
<1>1. TypeOK'
  OBVIOUS
<1>2. OwnInv'
  BY DEF OwnInv, Reading, Numbered
<1>3. BoundInv'
  <2>1. \A u \in Tasks : pc'[u] \in Reading => u = t
    BY CastsKeepNumbers DEF OwnInv, Other, Reading
  <2> QED BY <2>1 DEF BoundInv, Reading
<1>4. OrderInv'
  <2>1. \A u \in Tasks : u # t => pc[u] \notin Reading
    BY CastsKeepNumbers DEF OwnInv, Other, Reading
  <2>2. /\ pc' = [pc EXCEPT ![t] = "turn"]
        /\ UNCHANGED <<Number, my_number, first, ahead>>
    OBVIOUS
  <2> QED BY <2>1, <2>2 DEF OrderInv, Precedes, Reading
<1>5. AheadInv'
  BY DEF AheadInv, OrderInv, Precedes, OwnInv, Reading, Numbered
<1>6. TurnInv'
  BY DEF TurnInv, Before, OrderInv, Precedes, OwnInv, Reading, Numbered
<1> QED BY <1>1, <1>2, <1>3, <1>4, <1>5, <1>6

(* Entering the critical section: nobody is ahead, and every other number  *)
(* is larger or ties with a later deadline.                                *)
LEMMA AwaitTurnIInv ==
    ASSUME Conditions, IInv, NEW t \in Tasks, AwaitTurn(t) PROVE IInv'
<1> USE TwoCpus DEF Conditions, IInv, TypeOK, AwaitTurn, Goto, words
<1>a. /\ pc[t] = "turn" /\ pc' = [pc EXCEPT ![t] = "cs"]
      /\ ahead' = [u \in Tasks |-> ahead[u] \ {t}]
      /\ UNCHANGED <<Choosing, Number, TaskHoldingLockDeadline, my_number, first>>
  OBVIOUS
<1>b. \A u \in Tasks : u # t /\ pc[u] \in Numbered => Before(t, u)
  <2> SUFFICES ASSUME NEW u \in Tasks, u # t, pc[u] \in Numbered
               PROVE  Before(t, u)
    OBVIOUS
  <2>1. Other(Cpu[t]) = Cpu[u]
    BY DEF Other
  <2>2. /\ IsMyTurn(Cpu[u], Uint16Of(Number[Cpu[u]]), Cpu[t], my_number[t])
        /\ Uint16Of(Number[Cpu[u]]) = Number[Cpu[u]]
    BY <2>1, CastsKeepNumbers
  <2>3. /\ Number[Cpu[u]] = my_number[u] /\ my_number[u] > 0
        /\ TaskHoldingLockDeadline[Cpu[u]] = Deadline[u]
        /\ TaskHoldingLockDeadline[Cpu[t]] = Deadline[t]
    BY <1>a DEF OwnInv, Numbered
  <2>4. Uint16Of(Deadline[t]) # Uint16Of(Deadline[u])
    BY DEF DistinctDeadlines
  <2>5. Uint16Of(Deadline[t]) \in Nat /\ Uint16Of(Deadline[u]) \in Nat
    OBVIOUS
  <2>6. my_number[t] \in Nat /\ my_number[u] \in Nat
    OBVIOUS
  <2> QED BY <2>2, <2>3, <2>4, <2>5, <2>6 DEF IsMyTurn, Before
<1>c. ahead[t] = {}
  <2> SUFFICES ASSUME NEW u \in ahead[t] PROVE FALSE
    OBVIOUS
  <2>1. /\ u \in Tasks /\ u # t /\ pc[u] \in {"chosen", "choosing", "turn"}
        /\ my_number[t] > my_number[u]
    BY <1>a DEF AheadInv, Numbered
  <2>2. Before(t, u)
    BY <1>b, <2>1 DEF Numbered
  <2>3. my_number[t] \in Nat /\ my_number[u] \in Nat
    BY <2>1
  <2> QED BY <2>1, <2>2, <2>3 DEF Before
<1>1. TypeOK'
  OBVIOUS
<1>2. OwnInv'
  BY DEF OwnInv, Reading, Numbered
<1>3. BoundInv'
  BY DEF BoundInv, Bounded, Crowded, OwnInv, Reading, Numbered
<1>4. OrderInv'
  BY DEF OrderInv, Precedes, OwnInv, AheadInv, Reading, Numbered
<1>5. AheadInv'
  BY <1>a, <1>c DEF AheadInv, Reading, Numbered
<1>6. TurnInv'
  BY <1>a, <1>b DEF TurnInv, Before, Numbered
<1> QED BY <1>1, <1>2, <1>3, <1>4, <1>5, <1>6

(* Leaving the critical section: the number is 0 again.                    *)
LEMMA UnlockIInv ==
    ASSUME Conditions, IInv, NEW t \in Tasks, Unlock(t) PROVE IInv'
<1> USE TwoCpus DEF Conditions, IInv, TypeOK, Unlock, Goto, words
<1>1. TypeOK'
  OBVIOUS
<1>2. OwnInv'
  BY DEF OwnInv, Reading, Numbered
<1>3. BoundInv'
  BY DEF BoundInv, Bounded, Crowded, OwnInv, Reading, Numbered
<1>4. OrderInv'
  BY DEF OrderInv, Precedes, OwnInv, AheadInv, Reading, Numbered
<1>5. AheadInv'
  BY DEF AheadInv, OrderInv, Precedes, OwnInv, Reading, Numbered
<1>6. TurnInv'
  BY DEF TurnInv, Before, OrderInv, Precedes, OwnInv, Reading, Numbered
<1> QED BY <1>1, <1>2, <1>3, <1>4, <1>5, <1>6

(* Every step keeps the invariant.                                         *)
LEMMA StepIInv == ASSUME Conditions, IInv, [Next]_vars PROVE IInv'
<1>1. CASE UNCHANGED vars
  BY <1>1 DEF vars, words, IInv, TypeOK, OwnInv, BoundInv, Bounded, Crowded,
              OrderInv, Precedes, AheadInv, TurnInv, Before
<1>2. CASE Next
  <2>1. PICK t \in Tasks : InitLock(t) \/ StartChoosing(t) \/ LockStep(t) \/ Unlock(t)
    BY <1>2 DEF Next
  <2>2. CASE InitLock(t)
    BY <2>2, InitLockIInv
  <2>3. CASE StartChoosing(t)
    BY <2>3, StartChoosingIInv
  <2>4. CASE ReadFirst(t)
    BY <2>4, ReadFirstIInv
  <2>5. CASE ReadSecond(t)
    BY <2>5, ReadSecondIInv
  <2>6. CASE TakeNumber(t)
    BY <2>6, TakeNumberIInv
  <2>7. CASE SetNumber(t)
    BY <2>7, SetNumberIInv
  <2>8. CASE EndChoosing(t)
    BY <2>8, EndChoosingIInv
  <2>9. CASE AwaitChoosing(t)
    BY <2>9, AwaitChoosingIInv
  <2>10. CASE AwaitTurn(t)
    BY <2>10, AwaitTurnIInv
  <2>11. CASE Unlock(t)
    BY <2>11, UnlockIInv
  <2> QED BY <2>1, <2>2, <2>3, <2>4, <2>5, <2>6, <2>7, <2>8, <2>9, <2>10, <2>11
             DEF LockStep
<1> QED BY <1>1, <1>2 DEF Next

(* The invariant, for all states that the lock reaches.                    *)
THEOREM LockInvariant == ASSUME Conditions PROVE Spec => []IInv
<1>1. Init => IInv
  BY InitIInv
<1>2. IInv /\ [Next]_vars => IInv'
  BY StepIInv
<1> QED BY <1>1, <1>2, PTL DEF Spec

(* The words stay in their types: no number is more than one past the      *)
(* bound, whichever numbers mrtk_GetMaximumNumber reads.                   *)
THEOREM LockTypes == ASSUME Conditions PROVE Spec => []TypeOK
<1>1. IInv => TypeOK
  BY DEF IInv
<1> QED BY <1>1, LockInvariant, PTL

(* Two tasks that both come before the other cannot be.                    *)
LEMMA CriticalAlone == ASSUME IInv PROVE MutualExclusion
<1> SUFFICES ASSUME NEW t \in Tasks, NEW u \in Tasks, t # u,
                    pc[t] = "cs", pc[u] = "cs"
             PROVE  FALSE
  BY DEF MutualExclusion
<1>1. Before(t, u) /\ Before(u, t)
  BY DEF IInv, TurnInv, Numbered
<1>2. my_number[t] \in Nat /\ my_number[u] \in Nat
  BY DEF IInv, TypeOK
<1>3. Uint16Of(Deadline[t]) \in Nat /\ Uint16Of(Deadline[u]) \in Nat
  BY LockAssumption DEF Uint16Of
<1> QED BY <1>1, <1>2, <1>3 DEF Before

(* At most one task is between mrtk_lock and mrtk_unlock.                  *)
THEOREM LockMutualExclusion == ASSUME Conditions PROVE Spec => []MutualExclusion
<1>1. IInv => MutualExclusion
  BY CriticalAlone
<1> QED BY <1>1, LockInvariant, PTL

(* A task that has its number before another starts to lock goes first.    *)
THEOREM LockFirstComeFirstServed ==
    ASSUME Conditions PROVE Spec => []FirstComeFirstServed
<1>1. IInv => FirstComeFirstServed
  BY DEF IInv, AheadInv, FirstComeFirstServed
<1> QED BY <1>1, LockInvariant, PTL

-----------------------------------------------------------------------------
(* The lock as the abstract one: what a program counter means there.       *)
LEMMA Modes ==
    ASSUME TypeOK
    PROVE  /\ \A t \in Tasks :
                 /\ mode[t] = "out" <=> pc[t] \in {"init", "out"}
                 /\ mode[t] = "asking" <=> pc[t] \in Reading
                 /\ mode[t] = "waiting" <=> pc[t] \in Numbered \ {"cs"}
                 /\ mode[t] = "in" <=> pc[t] = "cs"
           /\ Abstract!Waiting = Waiting
           /\ Abstract!Competing = {t \in Tasks : pc[t] \in Numbered}
  BY DEF TypeOK, mode, Reading, Numbered, Waiting, Abstract!Waiting, Abstract!Competing

\* The mode of a task at a program counter.
ModeAt(p) == CASE p \in {"init", "out"} -> "out"
               [] p \in Numbered \ {"cs"} -> "waiting"
               [] p = "cs" -> "in"
               [] OTHER -> "asking"

(* A step of one task changes the mode of that task only.                  *)
LEMMA ModeStep ==
    ASSUME TypeOK, NEW t \in Tasks, NEW from, NEW to, Goto(t, from, to)
    PROVE  /\ mode[t] = ModeAt(from)
           /\ mode' = [mode EXCEPT ![t] = ModeAt(to)]
  BY DEF TypeOK, Goto, mode, ModeAt, Numbered

(* The pairs of the order, one by one.                                     *)
LEMMA OrderPairs ==
    /\ order \subseteq Tasks \X Tasks
    /\ \A t, u \in Tasks : <<t, u>> \in order <=>
          t # u /\ pc[t] \in Numbered /\ pc[u] \in Numbered /\ Before(t, u)
  BY DEF order

(* A step that gives or takes no number keeps the order.                   *)
LEMMA SameOrder ==
    ASSUME TypeOK, NEW t \in Tasks, NEW from, NEW to, Goto(t, from, to),
           from \in Numbered <=> to \in Numbered,
           \A u \in Tasks : u # t \/ from \in Numbered => my_number'[u] = my_number[u]
    PROVE  order' = order
<1>1. \A u \in Tasks : pc'[u] \in Numbered <=> pc[u] \in Numbered
  BY DEF TypeOK, Goto
<1>2. \A u \in Tasks : pc[u] \in Numbered => my_number'[u] = my_number[u]
  BY DEF Goto
<1>3. \A u, v \in Tasks : pc[u] \in Numbered /\ pc[v] \in Numbered =>
          (Before(u, v)' <=> Before(u, v))
  BY <1>2 DEF Before
<1> QED BY <1>1, <1>3 DEF order

(* Of two tasks one comes first, and not both do.                          *)
LEMMA BeforeIsStrict ==
    ASSUME Conditions, TypeOK, NEW t \in Tasks, NEW u \in Tasks, t # u
    PROVE  Before(t, u) <=> ~Before(u, t)
<1>1. my_number[t] \in Nat /\ my_number[u] \in Nat
  BY TwoCpus DEF TypeOK
<1>2. /\ Uint16Of(Deadline[t]) \in Nat /\ Uint16Of(Deadline[u]) \in Nat
      /\ Uint16Of(Deadline[t]) # Uint16Of(Deadline[u])
  BY TwoCpus DEF Conditions, DistinctDeadlines
<1> QED BY <1>1, <1>2 DEF Before

(* The store of the number is the step that settles the place of a task:   *)
(* behind the one that is in and those that were ahead, whose numbers it   *)
(* has seen, and before those with a larger number.                        *)
LEMMA SetNumberJoins ==
    ASSUME Conditions, IInv, NEW t \in Tasks, SetNumber(t)
    PROVE  Abstract!Join(t)
<1> DEFINE Held == {u \in Tasks : pc[u] \in Numbered}
           Behind == {u \in Held : Before(t, u)}
<1>1. Goto(t, "number", "chosen") /\ my_number' = my_number /\ ahead' = ahead
  BY DEF SetNumber
<1>2. TypeOK
  BY DEF IInv
<1>3. mode[t] = "asking" /\ mode' = [mode EXCEPT ![t] = "waiting"]
  BY <1>1, <1>2, ModeStep DEF ModeAt, Numbered
<1>4. pc[t] = "number" /\ pc' = [pc EXCEPT ![t] = "chosen"] /\ t \notin Held
  BY <1>1 DEF Goto, Numbered
<1>5. ASSUME NEW u \in Held, u \in ahead[t] \/ pc[u] = "cs"
      PROVE  ~Before(t, u)
  <2>1. u \in Tasks /\ u # t /\ Precedes(u, t)
    BY <1>4, <1>5 DEF Precedes
  <2>2. my_number[t] > my_number[u]
    BY <2>1, <1>4 DEF IInv, OrderInv
  <2> QED BY <2>1, <2>2, <1>2, TwoCpus DEF Before, TypeOK
<1>6. Behind \in SUBSET (Abstract!Waiting \ ahead[t])
  <2>1. \A u \in Behind : u \in Tasks /\ pc[u] \in Numbered \ {"cs"} /\ u \notin ahead[t]
    BY <1>5
  <2> QED BY <2>1 DEF Abstract!Waiting, mode, Numbered
<1>7. \A u \in Behind, v \in Tasks : <<u, v>> \in order => v \in Behind
  <2>1. \A u, v \in Held : u = v
    BY <1>4, TwoCpus
  <2> QED BY <2>1, OrderPairs
<1>8. order' = order \cup ({t} \X Behind) \cup ((Abstract!Competing \ Behind) \X {t})
  <2> DEFINE new == order \cup ({t} \X Behind) \cup ((Abstract!Competing \ Behind) \X {t})
  <2>1. Abstract!Competing = Held
    BY <1>2, Modes
  <2>2. \A u \in Tasks : pc'[u] \in Numbered <=> u = t \/ u \in Held
    BY <1>2, <1>4 DEF TypeOK, Numbered
  <2>3. \A u, v \in Tasks : Before(u, v)' <=> Before(u, v)
    BY <1>1 DEF Before
  <2>4. \A u \in Held : Before(u, t) <=> u \notin Behind
    BY <1>2, <1>4, BeforeIsStrict
  <2>5. order' \subseteq Tasks \X Tasks /\ new \subseteq Tasks \X Tasks
    BY <2>1, OrderPairs DEF order
  <2>6. \A u, v \in Tasks : <<u, v>> \in order' <=>
            u # v /\ (u = t \/ u \in Held) /\ (v = t \/ v \in Held) /\ Before(u, v)
    BY <2>2, <2>3 DEF order
  <2>7. \A u, v \in Tasks : <<u, v>> \in new <=>
            \/ u # v /\ u \in Held /\ v \in Held /\ Before(u, v)
            \/ u = t /\ v \in Behind
            \/ v = t /\ u \in Held \ Behind
    BY <2>1, OrderPairs
  <2>8. \A u, v \in Tasks : <<u, v>> \in order' <=> <<u, v>> \in new
    BY <1>4, <2>4, <2>6, <2>7
  <2> HIDE DEF new
  <2>9. order' = new
    BY <2>5, <2>8
  <2> QED BY <2>9 DEF new
<1> QED BY <1>1, <1>3, <1>6, <1>7, <1>8 DEF Abstract!Join

(* The lock implements the abstract one: a task that stores its number     *)
(* takes a place that respects who waited before it asked, and gets in     *)
(* when nobody holds a place before it.                                    *)
THEOREM LockImplementsAbstract == ASSUME Conditions PROVE Spec => ImplementsLock
<1>1. Init => Abstract!Init
  BY DEF Init, Abstract!Init, mode, order, Numbered
<1>2. IInv /\ IInv' /\ [Next]_vars => [Abstract!Next]_(Abstract!vars)
  <2> SUFFICES ASSUME IInv, IInv', [Next]_vars PROVE [Abstract!Next]_(Abstract!vars)
    OBVIOUS
  <2>1. CASE UNCHANGED vars
    BY <2>1 DEF vars, mode, order, Before, Abstract!vars
  <2>2. CASE Next
    <3>1. PICK t \in Tasks : InitLock(t) \/ StartChoosing(t) \/ LockStep(t) \/ Unlock(t)
      BY <2>2 DEF Next
    <3>2. TypeOK
      BY DEF IInv
    <3>3. mode = [mode EXCEPT ![t] = mode[t]]
      BY DEF mode
    <3>4. CASE InitLock(t)
      <4>1. Goto(t, "init", "out") /\ my_number' = my_number /\ ahead' = ahead
        BY <3>4 DEF InitLock
      <4>2. order' = order
        BY <4>1, <3>2, SameOrder DEF Numbered
      <4>3. mode' = mode
        BY <4>1, <3>2, <3>3, ModeStep DEF ModeAt, Numbered
      <4> QED BY <4>1, <4>2, <4>3 DEF Abstract!vars
    <3>5. CASE StartChoosing(t)
      <4>1. /\ Goto(t, "out", "max0") /\ my_number' = my_number
            /\ ahead' = [ahead EXCEPT ![t] = Waiting]
        BY <3>5 DEF StartChoosing
      <4>2. order' = order
        BY <4>1, <3>2, SameOrder DEF Numbered
      <4>3. mode[t] = "out" /\ mode' = [mode EXCEPT ![t] = "asking"]
        BY <4>1, <3>2, ModeStep DEF ModeAt, Numbered
      <4>4. Abstract!Waiting = Waiting
        BY <3>2, Modes
      <4> QED BY <4>1, <4>2, <4>3, <4>4 DEF Abstract!Next, Abstract!Ask
    <3>6. CASE ReadFirst(t) \/ ReadSecond(t) \/ TakeNumber(t)
      <4>1. PICK from \in Reading, to \in Reading :
               /\ Goto(t, from, to) /\ ahead' = ahead
               /\ \A u \in Tasks \ {t} : my_number'[u] = my_number[u]
        BY <3>2, <3>6 DEF ReadFirst, ReadSecond, TakeNumber, Reading, TypeOK, Goto
      <4>2. order' = order
        BY <4>1, <3>2, SameOrder DEF Numbered, Reading
      <4>3. mode' = mode
        BY <4>1, <3>2, <3>3, ModeStep DEF ModeAt, Numbered, Reading
      <4> QED BY <4>1, <4>2, <4>3 DEF Abstract!vars
    <3>7. CASE SetNumber(t)
      BY <3>7, SetNumberJoins DEF Abstract!Next
    <3>8. CASE EndChoosing(t) \/ AwaitChoosing(t)
      <4>1. PICK from \in Numbered \ {"cs"}, to \in Numbered \ {"cs"} :
               Goto(t, from, to) /\ ahead' = ahead /\ my_number' = my_number
        BY <3>8 DEF EndChoosing, AwaitChoosing, Numbered
      <4>2. order' = order
        BY <4>1, <3>2, SameOrder
      <4>3. mode' = mode
        BY <4>1, <3>2, <3>3, ModeStep DEF ModeAt, Numbered
      <4> QED BY <4>1, <4>2, <4>3 DEF Abstract!vars
    <3>9. CASE AwaitTurn(t)
      <4>1. /\ Goto(t, "turn", "cs") /\ my_number' = my_number
            /\ ahead' = [u \in Tasks |-> ahead[u] \ {t}]
        BY <3>9 DEF AwaitTurn
      <4>2. order' = order
        BY <4>1, <3>2, SameOrder DEF Numbered
      <4>3. mode[t] = "waiting" /\ mode' = [mode EXCEPT ![t] = "in"]
        BY <4>1, <3>2, ModeStep DEF ModeAt, Numbered
      <4>4. /\ pc' = [pc EXCEPT ![t] = "cs"] /\ pc'[t] = "cs"
            /\ \A u, v \in Tasks : Before(u, v)' <=> Before(u, v)
        BY <4>1, <3>2 DEF Goto, TypeOK, Before
      <4>5. ASSUME NEW u \in Tasks, <<u, t>> \in order PROVE FALSE
        <5>1. u # t /\ pc[u] \in Numbered /\ Before(u, t)
          BY <4>5, OrderPairs
        <5>2. Before(t, u)'
          BY <4>4, <5>1 DEF IInv, TurnInv
        <5> QED BY <3>2, <4>4, <5>1, <5>2, BeforeIsStrict
      <4> QED BY <4>1, <4>2, <4>3, <4>5 DEF Abstract!Next, Abstract!Enter
    <3>10. CASE Unlock(t)
      <4>1. Goto(t, "cs", "out") /\ my_number' = my_number /\ ahead' = ahead
        BY <3>10 DEF Unlock
      <4>2. mode[t] = "in" /\ mode' = [mode EXCEPT ![t] = "out"]
        BY <4>1, <3>2, ModeStep DEF ModeAt, Numbered
      <4>3. order' = {p \in order : p[1] # t /\ p[2] # t}
        <5>1. \A u \in Tasks : pc'[u] \in Numbered <=> u # t /\ pc[u] \in Numbered
          BY <4>1, <3>2 DEF Goto, TypeOK, Numbered
        <5>2. \A u, v \in Tasks : Before(u, v)' <=> Before(u, v)
          BY <4>1 DEF Before
        <5> QED BY <5>1, <5>2 DEF order
      <4> QED BY <4>1, <4>2, <4>3 DEF Abstract!Next, Abstract!Leave
    <3> QED BY <3>1, <3>4, <3>5, <3>6, <3>7, <3>8, <3>9, <3>10 DEF LockStep
  <2> QED BY <2>1, <2>2
<1> QED BY <1>1, <1>2, LockInvariant, PTL DEF Spec, ImplementsLock, Abstract!Spec
=============================================================================
