----------------------------- MODULE MCInstance -----------------------------
(* An instance with a short event channel, for TLC. *)
EXTENDS Instance, TLC
=============================================================================
