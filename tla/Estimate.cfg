SPECIFICATION MCSpec
CONSTANTS
    CookieSizes = {1, 16, 18, 32, 100, 1023}
    Target = 4
    CookieTarget = 2
    MaxSessions = 2
    MaxRequests = 3
    MaxFailures = 1
    Stages = 3
    MaxTime = 5
    MaxId = 4
    Delays <- MCDelays
    Gaps <- MCGaps
    Steps <- MCSteps
    Words = 64
    Epoch = 60
    MinDelay = 1
    MaxDelay = 2
    Drain = 1
    MaxWait = 3
    MaxErr = 17
    Errors <- MCErrors
    Candidate <- MCCandidate
    MaxCandidates = 4
    MaxStratum = 3
    MaxDistance = 5
    MinSurvivors = 3
CHECK_DEADLOCK FALSE
INVARIANTS EstimateTypeOK NoCookieTwice NoAmplification ReportedInTime WithinHalfDelay MajorityRules PreferredLeads
PROPERTIES RequestsCanBeOpened AnswersRefill RepliesComeThrough ImplementsFilter
