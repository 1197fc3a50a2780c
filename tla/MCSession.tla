----------------------------- MODULE MCSession -----------------------------
(***************************************************************************)
(* Session for TLC: two calls that overlap.                                *)
(***************************************************************************)
EXTENDS Session

CONSTANTS c1, c2, g1

MCCallers == {c1, c2}
MCGated == {g1}
MCSetups == {"none", "connect"}
=============================================================================
