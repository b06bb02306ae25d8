--------------------------- MODULE MCPulseClient ----------------------------
(* The PulseAudio client with a few callers, for TLC. *)
EXTENDS PulseClient
=============================================================================
