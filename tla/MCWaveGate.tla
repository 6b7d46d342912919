----------------------------- MODULE MCWaveGate -----------------------------
(***************************************************************************)
(* Instances of WaveGate for TLC: btc (1) and eth (2).                     *)
(***************************************************************************)
EXTENDS WaveGate
=============================================================================
