\* ConnectBackend: two losses, the second possibly during the reconnect; a
\* write to a connection whose peer has gone fails.
SPECIFICATION FairSpec
CONSTANTS
    c1 = c1
    c2 = c2
    Callers <- MCCallers
    Hook = Hook
    Closer = Closer
    NoOne = NoOne
    HasRedialer = TRUE
    MaxCalls = 1
    MaxGen = 3
    MaxDrops = 2
    MaxForces = 0
    AllowClose = FALSE
    AllowCancel = TRUE
    SilentLoss = FALSE
    Pipes = FALSE
PROPERTIES
    Recovers
    CallsReturn
\* Calls are bounded and an idle client waits for the next one.
CHECK_DEADLOCK FALSE
