\* A response dispatched before its caller reaches AwaitResponse.
SPECIFICATION Spec
CONSTANTS
    c1 = c1
    c2 = c2
    Callers <- MCCallers
    Hook = Hook
    Closer = Closer
    NoOne = NoOne
    HasRedialer = TRUE
    MaxCalls = 2
    MaxGen = 3
    MaxDrops = 0
    MaxForces = 0
    AllowClose = FALSE
    AllowCancel = TRUE
    SilentLoss = TRUE
    Pipes = FALSE
SYMMETRY MCSymmetry
INVARIANTS
    LookupMissMeansDrained
\* Calls are bounded and an idle client waits for the next one.
CHECK_DEADLOCK FALSE
