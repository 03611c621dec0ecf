SPECIFICATION MeasureSpec
CONSTANTS
    Stages = 2
    MaxTime = 18
    MaxId = 2
    Delays <- MCDelays
    Gaps <- MCGaps
    Steps <- MCSteps
    Words = 32
    Epoch = 28
    MinDelay = 1
    MaxDelay = 2
    Drain = 1
    MaxWait = 3
    MaxErr = 1
    Errors <- MCErrors
CHECK_DEADLOCK FALSE
PROPERTIES DatedNow
