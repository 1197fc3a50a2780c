\* Spawned adapter: no reconnect; requests and stop still end.
SPECIFICATION FairSpec
CONSTANTS
    c1 = c1
    c2 = c2
    Callers <- MCCallers
    Hook = Hook
    Closer = Closer
    NoOne = NoOne
    HasRedialer = FALSE
    MaxCalls = 3
    MaxGen = 1
    MaxDrops = 1
    MaxForces = 0
    AllowClose = TRUE
    AllowCancel = TRUE
    SilentLoss = FALSE
    Pipes = TRUE
PROPERTIES
    CallsReturn
    CloseReturns
\* Calls are bounded and an idle client waits for the next one.
CHECK_DEADLOCK FALSE
