------------------------------ MODULE EventLog ------------------------------
(***************************************************************************)
(* What the event replay buffer of the DAP client promises (ADR-PUMP-5):   *)
(* the last Cap events, oldest first.  eventRing implements it with a      *)
(* circular array; see EventRing.                                          *)
(***************************************************************************)
EXTENDS Naturals, Sequences

CONSTANTS
    Entry,      \* the values a ring slot can hold
    Cap         \* capacity of the ring

VARIABLE log    \* the retained events, oldest first

Init == log = <<>>

\* The oldest event is forgotten once Cap events are held.
Add(e) ==
    log' = IF Len(log) < Cap THEN Append(log, e) ELSE Append(Tail(log), e)

Next == \E e \in Entry : Add(e)

Spec == Init /\ [][Next]_log
=============================================================================
