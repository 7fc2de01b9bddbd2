------------------------------ MODULE MrtkLock ------------------------------
(***************************************************************************)
(* One lock between the two CPUs of the F28377D: mrtk_lock and mrtk_unlock *)
(* of mrtk_sync.c, in the build without MRTK_ENABLE_HARDWARE_TEST_SET,     *)
(* over the words of mrtk_port_sync.c.  It is Lamport's bakery, a ticket   *)
(* per CPU with ties broken by the deadline stored by mrtk_InitLock.       *)
(*                                                                         *)
(* Every access to a word that the other CPU writes is a step.  The words  *)
(* are 32 bits wide and the code does not initialise them.  It compares    *)
(* two numbers in 32 bits, and cuts a word to 16 bits whenever it uses its *)
(* value.                                                                  *)
(***************************************************************************)
EXTENDS Integers

CONSTANTS Tasks,          \* the tasks that use the lock
          Cpu,            \* the CPU that each runs on
          Deadline,       \* their relative deadlines, Uint32
          U16, U32,       \* 2^16 and 2^32, the ranges of Uint16 and Uint32
          InitialWords,   \* what the flags and deadlines may hold at first
          InitialNumbers, \* what the numbers may hold at first
          MaxNumber       \* bound: no task starts to lock past this number

CPUs == {0, 1}

ASSUME LockAssumption ==
    /\ Cpu \in [Tasks -> CPUs]
    /\ Deadline \in [Tasks -> Nat]
    /\ U16 \in Nat \ {0, 1}
    /\ U32 \in Nat /\ U16 <= U32
    /\ InitialWords \subseteq 0..(U32 - 1) /\ 0 \in InitialWords
    /\ InitialNumbers \subseteq 0..(U32 - 1) /\ 0 \in InitialNumbers
    /\ MaxNumber \in 0..(U16 - 1)

\* "Other" is the only processor that the loop over NbProcessors visits.
Other(c) == 1 - c

\* What mrtk_GetChoosing and its like return of a word: (Uint16) of it.
Uint16Of(word) == word % U16

VARIABLES
    Choosing, Number, TaskHoldingLockDeadline,  \* the words, one per CPU
    my_number,   \* local of mrtk_lock, and of mrtk_GetMaximumNumber before
    first,       \* the value that mrtk_GetMaximumNumber read for CPU 0
    pc,          \* where a task is, see TypeOK
    ahead        \* history: who waited when a task began, and still does

words == <<Choosing, Number, TaskHoldingLockDeadline>>
vars == <<words, my_number, first, pc, ahead>>

Goto(t, from, to) == pc[t] = from /\ pc' = [pc EXCEPT ![t] = to]

-----------------------------------------------------------------------------
Init ==
    /\ Choosing \in [CPUs -> InitialWords]
    /\ Number \in [CPUs -> InitialNumbers]
    /\ TaskHoldingLockDeadline \in [CPUs -> InitialWords]
    /\ my_number = [t \in Tasks |-> 0]
    /\ first = [t \in Tasks |-> 0]
    /\ pc = [t \in Tasks |-> "init"]
    /\ ahead = [t \in Tasks |-> {}]

\* mrtk_InitLock stores the deadline of the calling task and nothing else.
InitLock(t) ==
    /\ Goto(t, "init", "out")
    /\ TaskHoldingLockDeadline' =
          [TaskHoldingLockDeadline EXCEPT ![Cpu[t]] = Deadline[t]]
    /\ UNCHANGED <<Choosing, Number, my_number, first, ahead>>

\* The tasks that have stored their number and wait.
Waiting == {u \in Tasks : pc[u] \in {"chosen", "choosing", "turn"}}

StartChoosing(t) ==
    /\ \A c \in CPUs : Uint16Of(Number[c]) < MaxNumber
    /\ Goto(t, "out", "max0")
    /\ Choosing' = [Choosing EXCEPT ![Cpu[t]] = 1]
    /\ ahead' = [ahead EXCEPT ![t] = Waiting]
    /\ UNCHANGED <<Number, TaskHoldingLockDeadline, my_number, first>>

(* mrtk_GetMaximumNumber reads the numbers of CPU 0 and of CPU 1, compares *)
(* them as Uint32, and returns (Uint16) of the larger one, read again.     *)
ReadFirst(t) ==
    /\ Goto(t, "max0", "max1")
    /\ first' = [first EXCEPT ![t] = Number[0]]
    /\ UNCHANGED <<words, my_number, ahead>>

ReadSecond(t) ==
    /\ pc[t] = "max1"
    /\ \/ first[t] > Number[1] /\ Goto(t, "max1", "again0")
       \/ first[t] <= Number[1] /\ Goto(t, "max1", "again1")
    /\ my_number' = [my_number EXCEPT
          ![t] = Uint16Of(IF first[t] > Number[1] THEN first[t] ELSE Number[1])]
    /\ UNCHANGED <<words, first, ahead>>

(* The pointers are not volatile, so the build may keep the value it has   *)
(* compared instead of reading the word again.  `1 +` is done in 16 bits.  *)
TakeNumber(t) ==
    \E c \in CPUs, fresh \in BOOLEAN :
        /\ Goto(t, IF c = 0 THEN "again0" ELSE "again1", "number")
        /\ my_number' = [my_number EXCEPT
              ![t] = Uint16Of(1 + IF fresh THEN Uint16Of(Number[c]) ELSE @)]
        /\ UNCHANGED <<words, first, ahead>>

SetNumber(t) ==
    /\ Goto(t, "number", "chosen")
    /\ Number' = [Number EXCEPT ![Cpu[t]] = my_number[t]]
    /\ UNCHANGED <<Choosing, TaskHoldingLockDeadline, my_number, first, ahead>>

EndChoosing(t) ==
    /\ Goto(t, "chosen", "choosing")
    /\ Choosing' = [Choosing EXCEPT ![Cpu[t]] = 0]
    /\ UNCHANGED <<Number, TaskHoldingLockDeadline, my_number, first, ahead>>

AwaitNothing(t) ==
    /\ Goto(t, "choosing", "turn")
    /\ UNCHANGED <<words, my_number, first, ahead>>

AwaitChoosing(t) ==
    /\ Uint16Of(Choosing[Other(Cpu[t])]) = 0
    /\ Goto(t, "choosing", "turn")
    /\ UNCHANGED <<words, my_number, first, ahead>>

IsMyTurnOrTie(j, number_j, c, number) == number_j = 0 \/ number_j >= number

IsMyTurnByDeadline(j, number_j, c, number) ==
    number_j = 0 \/ TaskHoldingLockDeadline[j] >= TaskHoldingLockDeadline[c]

\* The deadlines are compared as Uint16.
IsMyTurn(j, number_j, c, number) ==
    \/ number_j = 0
    \/ number_j > number
    \/ /\ number_j = number
       /\ Uint16Of(TaskHoldingLockDeadline[j]) >= Uint16Of(TaskHoldingLockDeadline[c])

\* The last turn of the second do-while: the lock is taken.
AwaitTurn(t) ==
    LET j == Other(Cpu[t])
    IN  /\ IsMyTurn(j, Uint16Of(Number[j]), Cpu[t], my_number[t])
        /\ Goto(t, "turn", "cs")
        /\ ahead' = [u \in Tasks |-> ahead[u] \ {t}]
        /\ UNCHANGED <<words, my_number, first>>

UnlockKeepingNumber(t) == Goto(t, "cs", "out") /\ UNCHANGED <<words, my_number, first, ahead>>

Unlock(t) ==
    /\ Goto(t, "cs", "out")
    /\ Number' = [Number EXCEPT ![Cpu[t]] = 0]
    /\ UNCHANGED <<Choosing, TaskHoldingLockDeadline, my_number, first, ahead>>

LockStep(t) ==
    \/ ReadFirst(t) \/ ReadSecond(t) \/ TakeNumber(t) \/ SetNumber(t)
    \/ EndChoosing(t) \/ AwaitChoosing(t) \/ AwaitTurn(t)

Next == \E t \in Tasks : InitLock(t) \/ StartChoosing(t) \/ LockStep(t) \/ Unlock(t)

Spec == Init /\ [][Next]_vars

(* A task that is locking keeps executing, and leaves its critical section. *)
FairSpec == Spec /\ \A t \in Tasks : WF_vars(LockStep(t)) /\ WF_vars(Unlock(t))

-----------------------------------------------------------------------------
(* The documented and undocumented conditions of use.                      *)

\* One task of each CPU uses the lock.
OneTaskPerCpu == \A t, u \in Tasks : Cpu[t] = Cpu[u] => t = u

\* "must not have the same deadline as the task in other cpu", in 16 bits.
DistinctDeadlines ==
    \A t, u \in Tasks :
        Cpu[t] # Cpu[u] => Uint16Of(Deadline[t]) # Uint16Of(Deadline[u])

\* Numbers stay below 2^16: a number taken is at most one past the bound.
NoWrap == MaxNumber + 1 < U16

\* The numbers left in the RAM are no larger than the bound, so below 2^16.
\* The other words may hold anything.
StaleNumbersFit == InitialNumbers \subseteq 0..MaxNumber

-----------------------------------------------------------------------------
(* Types, and that numbers grow by no more than one past the largest that   *)
(* a task starts from, whichever numbers it reads while the other CPU locks *)
(* and unlocks.                                                             *)
TypeOK ==
    /\ Choosing \in [CPUs -> InitialWords \cup {0, 1}]
    /\ Number \in [CPUs -> InitialNumbers \cup 0..(MaxNumber + 1)]
    /\ TaskHoldingLockDeadline \in [CPUs -> Nat]
    /\ my_number \in [Tasks -> 0..(MaxNumber + 1)]
    /\ first \in [Tasks -> InitialNumbers \cup 0..(MaxNumber + 1)]
    /\ ahead \in [Tasks -> SUBSET Tasks]
    \* "init" before mrtk_InitLock; "out" does not use the lock; "max0" to
    \* "again1" in mrtk_GetMaximumNumber; "number", "chosen" before storing
    \* Number and Choosing; "choosing", "turn" in the two waiting loops.
    /\ pc \in [Tasks -> {"init", "out", "max0", "max1", "again0", "again1",
                         "number", "chosen", "choosing", "turn", "cs"}]

(* At most one task is between mrtk_lock and mrtk_unlock (mrtk_sync.c:11), *)
(* with any order of the accesses of the two CPUs, and from any stale flags *)
(* and deadlines and stale numbers within the bound.  From a number of 2^16 *)
(* or more, which compares as large and reads as small, it would fail.     *)
MutualExclusion ==
    \A t, u \in Tasks : pc[t] = "cs" /\ pc[u] = "cs" => t = u

(* A task that has stored its number before another starts to lock is      *)
(* served first, although numbers are read while the other CPU changes     *)
(* them.                                                                   *)
FirstComeFirstServed == \A t \in Tasks : pc[t] = "cs" => ahead[t] = {}

\* The tasks that have their number stored, and who of two comes first.
Numbered == {"chosen", "choosing", "turn", "cs"}

Before(t, u) ==
    \/ my_number[t] < my_number[u]
    \/ my_number[t] = my_number[u] /\ Uint16Of(Deadline[t]) < Uint16Of(Deadline[u])

\* The part a task plays in the abstract lock.
mode == [t \in Tasks |-> CASE pc[t] \in {"init", "out"} -> "out"
                           [] pc[t] \in Numbered \ {"cs"} -> "waiting"
                           [] pc[t] = "cs" -> "in"
                           [] OTHER -> "asking"]

\* The order settled by the numbers that the tasks hold.
order == {p \in Tasks \X Tasks : /\ p[1] # p[2]
                                 /\ pc[p[1]] \in Numbered /\ pc[p[2]] \in Numbered
                                 /\ Before(p[1], p[2])}

Abstract == INSTANCE AbstractLock

(* The bakery implements the abstract lock: the place of a task among      *)
(* those that wait is settled by the one store of its number, behind all   *)
(* who waited when it began; tasks get in in that order, one at a time.    *)
ImplementsLock == Abstract!Spec

(* A task that locks gets the lock, when the words were zero at the start: *)
(* the two CPUs never wait for each other for ever, and neither is         *)
(* overtaken for ever.                                                     *)
EveryTaskServed ==
    Choosing = [c \in CPUs |-> 0] /\ Number = [c \in CPUs |-> 0]
        => \A t \in Tasks : mode[t] \in {"asking", "waiting"} ~> mode[t] = "in"
=============================================================================
