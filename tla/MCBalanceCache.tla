---------------------------- MODULE MCBalanceCache ----------------------------
(* Values of the constants for TLC: one market whose monitor and buy task    *)
(* read at the same time.                                                    *)
EXTENDS BalanceCache

BtcOnly == {"btc"}

=============================================================================
