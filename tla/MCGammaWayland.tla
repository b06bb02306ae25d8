--------------------------- MODULE MCGammaWayland ---------------------------
(* The Wayland gamma manager with a few outputs, for TLC. *)
EXTENDS GammaWayland
=============================================================================
