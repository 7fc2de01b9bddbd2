--------------------------- MODULE DeadlineQueue ---------------------------
(***************************************************************************)
(* What a queue of tasks promises its callers, without its table: a task   *)
(* goes in once, with the deadline it is queued with, and comes out once.  *)
(***************************************************************************)
EXTENDS Naturals

CONSTANTS Tasks, Deadlines

VARIABLE held    \* the set of entries [TaskId, Deadline] in the queue

Init == held = {}

Put(t, d) ==
    /\ \A e \in held : e.TaskId # t
    /\ held' = held \cup {[TaskId |-> t, Deadline |-> d]}

Take == \E e \in held : held' = held \ {e}

Next == (\E t \in Tasks, d \in Deadlines : Put(t, d)) \/ Take

Spec == Init /\ [][Next]_held
=============================================================================
