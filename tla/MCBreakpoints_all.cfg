\* Every tool and every failure.
SPECIFICATION Spec
CONSTANTS
    f1 = f1
    f2 = f2
    l1 = l1
    l2 = l2
    FnList = FnList
    Files <- MCFiles
    Locs <- MCLocs
    MaxInitial = 2
    MaxUnplaced = 1
    KeepsBreakpoints = TRUE
    AllowRunTo = TRUE
    AllowRestart = TRUE
    AllowInitial = TRUE
    AllowGivingUp = TRUE
    AllowRefusedClear = TRUE
    AllowFailedReinit = TRUE
SYMMETRY MCSymmetry
INVARIANT
    RecordedIsConfirmed
    AgreesUnlessDisturbed
\* After stop no further session may be left to start.
CHECK_DEADLOCK FALSE
