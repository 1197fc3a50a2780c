---------------------------- MODULE MCDAPClient -----------------------------
(***************************************************************************)
(* DAPClient for TLC.  Two callers contend for ds.mu; the configurations   *)
(* choose the backend, what may happen to the connection, and the bounds.  *)
(***************************************************************************)
EXTENDS DAPClient, TLC

CONSTANTS c1, c2

MCCallers == {c1, c2}

\* Callers are interchangeable; used only by runs without liveness.
MCSymmetry == Permutations(MCCallers)
=============================================================================
