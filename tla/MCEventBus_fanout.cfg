\* Two subscriptions, either of which may be cancelled during a dispatch, and
\* channels that fill up.
SPECIFICATION Spec
CONSTANTS
    s1 = s1
    s2 = s2
    Subs <- MCSubs
    Kinds <- MCKinds
    Lost = "lost"
    Entry <- MCEntry
    NoEntry = NoEntry
    Cap = 1
    ChCap = 1
    OutCap = 1
    MaxEvents = 2
SYMMETRY MCSymmetry
INVARIANTS
    TypeOK
    LossIsTold
\* Events are bounded and every subscription is made once.
CHECK_DEADLOCK FALSE
