\* stop of a session whose adapter supports an optional tool.
SPECIFICATION Spec
CONSTANTS
    c1 = c1
    c2 = c2
    g1 = g1
    NoOne = NoOne
    Callers <- MCCallers
    Gated <- MCGated
    Setups <- MCSetups
    MaxSessions = 1
    MaxLosses = 0
INVARIANT
    NoToolLeft
\* The server may end.
CHECK_DEADLOCK FALSE
