---------------------------- MODULE MCRetryPacing ----------------------------
(***************************************************************************)
(* RetryPacing with durations of eight bits: every doubling boundary of    *)
(* the curve, and the durations just below overflow, are within reach.     *)
(***************************************************************************)
EXTENDS RetryPacing

MCJitter == {0, 1, 5, 10, 15, 19}
MCIntervals == {1, 2, 3, 5, 31, 63, 64, 100, 127}
MCCeilings == {1, 2, 7, 32, 63, 64, 126, 127}

\* Hints in seconds: those whose duration is representable, and beyond.
MCHints == {-1, 0, 1, 2, 5, 15, 16, 30, 31, 32, 33, 48, 63, 64, 65, 96, 127}
=============================================================================
