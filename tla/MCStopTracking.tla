--------------------------- MODULE MCStopTracking ---------------------------
(***************************************************************************)
(* StopTracking for TLC: two callers, in turns or overlapping.             *)
(***************************************************************************)
EXTENDS StopTracking, TLC

CONSTANTS c1, c2

MCCallers == {c1, c2}
MCSymmetry == Permutations(MCCallers)
=============================================================================
