---------------------------- MODULE AbstractLock ----------------------------
(***************************************************************************)
(* What a lock promises the tasks that use it, whatever its algorithm.     *)
(* A task asks, joins those that wait, at a place that is settled then and *)
(* never changed, and gets in when nobody is before it.  A task that       *)
(* joined before another asked keeps its place before it; two tasks that   *)
(* were asking at the same time may be put in either order.                *)
(***************************************************************************)
CONSTANT Tasks

VARIABLES
    mode,    \* "out", "asking", "waiting" or "in"
    ahead,   \* the tasks that waited when a task asked, until they are in
    order    \* <<t, u>>: t goes before u, both waiting or t in already

vars == <<mode, ahead, order>>

Waiting == {t \in Tasks : mode[t] = "waiting"}
Competing == {t \in Tasks : mode[t] \in {"waiting", "in"}}

Init ==
    /\ mode = [t \in Tasks |-> "out"]
    /\ ahead = [t \in Tasks |-> {}]
    /\ order = {}

Ask(t) ==
    /\ mode[t] = "out"
    /\ mode' = [mode EXCEPT ![t] = "asking"]
    /\ ahead' = [ahead EXCEPT ![t] = Waiting]
    /\ UNCHANGED order

\* `behind` are the tasks that t overtakes, with all that come after them.
Join(t) ==
    /\ mode[t] = "asking"
    /\ mode' = [mode EXCEPT ![t] = "waiting"]
    /\ \E behind \in SUBSET (Waiting \ ahead[t]) :
          /\ \A u \in behind, v \in Tasks : <<u, v>> \in order => v \in behind
          /\ order' = order \cup ({t} \X behind) \cup ((Competing \ behind) \X {t})
    /\ UNCHANGED ahead

Enter(t) ==
    /\ mode[t] = "waiting"
    /\ \A u \in Tasks : <<u, t>> \notin order
    /\ mode' = [mode EXCEPT ![t] = "in"]
    /\ ahead' = [u \in Tasks |-> ahead[u] \ {t}]
    /\ UNCHANGED order

Leave(t) ==
    /\ mode[t] = "in"
    /\ mode' = [mode EXCEPT ![t] = "out"]
    /\ order' = {p \in order : p[1] # t /\ p[2] # t}
    /\ UNCHANGED ahead

Next == \E t \in Tasks : Ask(t) \/ Join(t) \/ Enter(t) \/ Leave(t)

Spec == Init /\ [][Next]_vars
=============================================================================
