------------------------- MODULE MCRedeemScheduler -------------------------
(***************************************************************************)
(* Instances of RedeemScheduler for TLC: the btc and the eth job of one    *)
(* cycle, or the btc jobs of two cycles.                                   *)
(***************************************************************************)
EXTENDS RedeemScheduler

CONSTANTS b, e   \* two jobs

TwoSlots  == [j \in Job |-> IF j = b THEN 0 ELSE 1]
OneCycle  == [j \in Job |-> 1]
TwoCycles == [j \in Job |-> IF j = b THEN 1 ELSE 2]
Prompt    == {0}
Late      == {0, 1}
=============================================================================
