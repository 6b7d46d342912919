--------------------------- MODULE MCPaperLedger ---------------------------
(***************************************************************************)
(* Instances of PaperLedger for TLC: cash for two small buys out of three, *)
(* a fee that rounds, sells that compete for the same shares.              *)
(***************************************************************************)
EXTENDS PaperLedger

Prices  == {1, 2}
HalfFee == [n \in Notional |-> n \div 2]
Delayed == {0, 2}
=============================================================================
