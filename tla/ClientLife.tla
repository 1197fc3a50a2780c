----------------------------- MODULE ClientLife -----------------------------
(***************************************************************************)
(* What the session relies on of one DAPClient, from the handshake on:     *)
(* whether it is stale, the two goroutines it runs, how its hook contends  *)
(* for ds.mu with the tool handlers, and what Close promises.  Session     *)
(* gives every client these moves; DAPClient implements them.              *)
(***************************************************************************)
EXTENDS Naturals

CONSTANT CanRedial      \* the backend is a Redialer

VARIABLES
    mu,         \* ds.mu: "free", "taken" by a handler or "hook"
    stale, closed,
    pumping,    \* readLoop runs
    loop,       \* reconnectLoop: "idle", "hook", "inHook", "clear", "done"
    conn,       \* number of the present connection
    ready       \* the handshake was completed on it

life == <<mu, stale, closed, pumping, loop, conn, ready>>

Init ==
    /\ mu = "free" /\ stale = FALSE /\ closed = FALSE
    /\ pumping = TRUE /\ loop = "idle"
    /\ conn = 1 /\ ready = TRUE

Lock ==
    /\ mu = "free" /\ mu' = "taken"
    /\ UNCHANGED <<stale, closed, pumping, loop, conn, ready>>

\* Whoever closed the client keeps ds.mu until readLoop has ended.
Release == mu = "taken" /\ (closed => ~pumping) /\ mu' = "free"

Unlock == Release /\ UNCHANGED <<stale, closed, pumping, loop, conn, ready>>

\* A read or a write failed, or reconnect was forced.
Lose ==
    /\ stale' = TRUE
    /\ Release \/ UNCHANGED mu
    /\ UNCHANGED <<closed, pumping, loop, conn, ready>>

Close ==
    /\ mu = "free" /\ mu' = "taken"
    /\ ~closed /\ closed' = TRUE
    /\ UNCHANGED <<stale, pumping, loop, conn, ready>>

PumpExits ==
    /\ closed /\ pumping /\ pumping' = FALSE
    /\ UNCHANGED <<mu, stale, closed, loop, conn, ready>>

LoopEnds ==
    /\ loop = "idle" /\ (closed \/ (stale /\ ~CanRedial))
    /\ loop' = "done"
    /\ UNCHANGED <<mu, stale, closed, pumping, conn, ready>>

\* Only a stale client gets a new connection, and stays stale with it ...
Redial ==
    /\ loop = "idle" /\ stale /\ CanRedial
    /\ conn' = conn + 1 /\ ready' = FALSE
    /\ loop' = "hook"
    /\ UNCHANGED <<mu, stale, closed, pumping>>

HookBegin ==
    /\ loop = "hook" /\ mu = "free"
    /\ IF closed THEN loop' = "clear" /\ UNCHANGED mu
                 ELSE loop' = "inHook" /\ mu' = "hook"
    /\ UNCHANGED <<stale, closed, pumping, conn, ready>>

HookEnd ==
    /\ loop = "inHook" /\ mu' = "free" /\ loop' = "clear"
    /\ ready' \in {ready, TRUE}
    /\ UNCHANGED <<stale, closed, pumping, conn>>

\* ... until the hook has run, alone with ds.mu.
Clear ==
    /\ loop = "clear" /\ stale' = FALSE /\ loop' = "idle"
    /\ UNCHANGED <<mu, closed, pumping, conn, ready>>

Next ==
    \/ Lock \/ Unlock \/ Lose \/ Close \/ PumpExits \/ LoopEnds
    \/ Redial \/ HookBegin \/ HookEnd \/ Clear

Spec == Init /\ [][Next]_life
=============================================================================
