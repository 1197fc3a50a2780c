----------------------------- MODULE MCEventBus -----------------------------
(***************************************************************************)
(* EventBus for TLC.  With a ring of one or two events, entries are        *)
(* overwritten while a Subscribe is in progress.                           *)
(***************************************************************************)
EXTENDS EventBus, TLC

CONSTANTS s1, s2

MCSubs == {s1, s2}
MCOne == {s1}
MCKinds == {"stopped"}
MCEntry == [n : 1 .. MaxEvents, kind : MCKinds]

\* Subscriptions are interchangeable.
MCSymmetry == Permutations(MCSubs)
=============================================================================
