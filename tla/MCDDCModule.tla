----------------------------- MODULE MCDDCModule -----------------------------
(***************************************************************************)
(* One monitor that has a brightness, and no clicks.                       *)
(***************************************************************************)
EXTENDS DDCModule

MCConfigs == {[show |-> {"br"}, blind |-> FALSE, hide |-> TRUE, presets |-> << >>]}
MCSupported == {"br"}
MCValues == {0, 50}
=============================================================================
