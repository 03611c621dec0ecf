SPECIFICATION MCSpec
CONSTANTS
    MinPoll = 1
    MaxPoll = 2
    Burst = 2
    BurstGap = 1
    ReplyTimeout = 1
    ReachBits = 2
    CookieTarget = 2
    Late = 1
    Kinds <- MCKinds
    A = A
    B = B
    NoHost = NoHost
    MaxEntries = 2
    MaxRoots = 1
    MaxChanges = 2
    MaxFailures = 1
    Configs <- MCConfigs
    Offers <- MCOffers
    Fallback <- MCFallback
CHECK_DEADLOCK FALSE
INVARIANTS SourcesTypeOK SilentDoesNotVote TableFollowsConfig WorkAccounted
PROPERTIES EndsOnce Paced KeepsOnPolling KeepsSessions GetsReady
