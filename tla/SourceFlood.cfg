SPECIFICATION SourceSpec
CONSTANTS
    MinPoll = 1
    MaxPoll = 2
    Burst = 2
    BurstGap = 1
    ReplyTimeout = 1
    ReachBits = 2
    CookieTarget = 2
    Late = 1
    Kinds <- MCKinds
PROPERTIES PacedForAll
