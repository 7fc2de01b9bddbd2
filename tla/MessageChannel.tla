--------------------------- MODULE MessageChannel ---------------------------
(***************************************************************************)
(* What a message queue promises the tasks that use it: a message that was *)
(* accepted is delivered once, in the order of acceptance, and no more     *)
(* than Capacity wait at a time.                                           *)
(***************************************************************************)
EXTENDS Sequences, Naturals

CONSTANTS Messages, Capacity

VARIABLE channel

Init == channel = <<>>

Send(m) == Len(channel) < Capacity /\ channel' = Append(channel, m)

Receive == channel # <<>> /\ channel' = Tail(channel)

Next == Receive \/ \E m \in Messages : Send(m)

Spec == Init /\ [][Next]_channel
=============================================================================
