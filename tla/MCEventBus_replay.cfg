\* One subscription: replay and live delivery from a ring that overwrites,
\* through channels that fill up, and the end of its bridge.
SPECIFICATION FairSpec
CONSTANTS
    s1 = s1
    s2 = s2
    Subs <- MCOne
    Kinds <- MCKinds
    Lost = "lost"
    Entry <- MCEntry
    NoEntry = NoEntry
    Cap = 2
    ChCap = 2
    OutCap = 1
    MaxEvents = 3
INVARIANTS
    ExactWhenQuiet
    AtMostTwice
    LiveInOrder
PROPERTIES
    LogSpec
    BridgeEnds
\* Events are bounded and every subscription is made once.
CHECK_DEADLOCK FALSE
