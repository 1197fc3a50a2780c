\* A reinit hook that fails.
SPECIFICATION Spec
CONSTANTS
    c1 = c1
    c2 = c2
    Callers <- MCCallers
    Hook = Hook
    Closer = Closer
    NoOne = NoOne
    HasRedialer = TRUE
    MaxCalls = 2
    MaxGen = 3
    MaxDrops = 1
    MaxForces = 1
    AllowClose = FALSE
    AllowCancel = TRUE
    SilentLoss = TRUE
    Pipes = FALSE
SYMMETRY MCSymmetry
INVARIANTS
    HealthyIsInitialised
\* Calls are bounded and an idle client waits for the next one.
CHECK_DEADLOCK FALSE
