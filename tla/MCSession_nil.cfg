\* stop between the pause of a wait-for-stop and its second wait.
SPECIFICATION Spec
CONSTANTS
    c1 = c1
    c2 = c2
    g1 = g1
    NoOne = NoOne
    Callers <- MCCallers
    Gated = {}
    Setups <- MCSetups
    MaxSessions = 1
    MaxLosses = 0
INVARIANT
    NeverNil
\* The server may end.
CHECK_DEADLOCK FALSE
