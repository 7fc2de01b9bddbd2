----------------------------- MODULE MCMsgUses ------------------------------
(* MrtkMsgQueue in its two uses: as the demo uses it, and with a receiver   *)
(* that keeps up.                                                           *)
EXTENDS MCMsgQueue

\* The use made of the queue, chosen once.
VARIABLE use

UsesInit == MsgInit /\ use \in {"demo", "keeps up"}

UsesNext ==
    /\ MsgNext
    /\ \/ use = "demo" /\ DemoCalls /\ FirstTickFindsIdle
       \/ use = "keeps up" /\ KeepsUp
    /\ UNCHANGED use

UsesSpec == UsesInit /\ [][UsesNext]_<<allVars, use>>
=============================================================================
