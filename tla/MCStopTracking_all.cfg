\* A client in turns for a long session; overlapping calls, pause and
\* reconnects for a shorter one.
SPECIFICATION Spec
CONSTANTS
    c1 = c1
    c2 = c2
    NoOne = NoOne
    Callers <- MCCallers
    MaxTurns = 9
    MaxTime = 5
    MaxStops = 3
SYMMETRY MCSymmetry
INVARIANTS
    TypeOK
    NothingMissed
    NotTwice
    FrameIsShown
PROPERTY
    StopIsCurrent
\* The clock is bounded, and a session may end with no call left to make.
CHECK_DEADLOCK FALSE
