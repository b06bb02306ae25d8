--------------------------- MODULE MCTickDivider ----------------------------
(* Two sub-tickers that share one cancel channel; a base interval of 2 with
   durations that stand for 0, 1 and 2 base intervals, and two durations that
   tickDivider.interval rejects. *)
EXTENDS TickDivider

MCIntervals == {0, 2, 4, 3, -2}
=============================================================================
