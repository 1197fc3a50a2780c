--------------------------- MODULE MCBreakpoints ----------------------------
(***************************************************************************)
(* Breakpoints for TLC: two files and the functions, two places in each.   *)
(***************************************************************************)
EXTENDS Breakpoints, TLC

CONSTANTS f1, f2, l1, l2

MCFiles == {f1, f2}
MCLocs == {l1, l2}
MCSymmetry == Permutations(MCFiles) \cup Permutations(MCLocs)
=============================================================================
