---------------------------- MODULE MCBarProcess ----------------------------
(* The bar process through a few restarts, for TLC. *)
EXTENDS BarProcess, TLC
=============================================================================
