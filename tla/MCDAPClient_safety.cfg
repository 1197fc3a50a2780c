\* ConnectBackend: a loss, a forced reconnect, cancelled calls and a stop, in
\* any order.
SPECIFICATION Spec
CONSTANTS
    c1 = c1
    c2 = c2
    Callers <- MCCallers
    Hook = Hook
    Closer = Closer
    NoOne = NoOne
    HasRedialer = TRUE
    MaxCalls = 2
    MaxGen = 2
    MaxDrops = 1
    MaxForces = 1
    AllowClose = TRUE
    AllowCancel = TRUE
    SilentLoss = TRUE
    Pipes = FALSE
SYMMETRY MCSymmetry
INVARIANTS
    TypeOK
    NoLostWaiter
    DeliverIsSafe
    NoCrossTalk
    StaleIsPursued
    OneLiveConnection
PROPERTY
    LifeSpec
\* Calls are bounded and an idle client waits for the next one.
CHECK_DEADLOCK FALSE
