\* Two overlapping calls, two sessions, two lost connections.
SPECIFICATION FairSpec
CONSTANTS
    c1 = c1
    c2 = c2
    g1 = g1
    NoOne = NoOne
    Callers <- MCCallers
    Gated = {}
    Setups <- MCSetups
    MaxSessions = 2
    MaxLosses = 2
INVARIANTS
    TypeOK
    OneAdapter
    OneClient
    ToolsFit
    FrameIsCurrent
    HookIsOwn
PROPERTY
    CallsReturn
\* The server may end.
CHECK_DEADLOCK FALSE
