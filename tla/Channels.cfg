SPECIFICATION MCSpec
CONSTANTS
    MinBackoff = 1
    MaxBackoff = 3
    MaxLease = 2
    MaxFaults = 2
    A = A
    B = B
    Clients = {A, B}
    Trusted = {A}
    MaxClients = 1
    Room = 2
    Ring = 3
    ChunkSize = 2
    Lengths = {3}
    Requests <- MCRequests
    MaxAddresses = 2
    KeAnswers <- MCKeAnswers
    MaxMessage = 14
    MaxRecords = 5
    MaxCookies = 1
    ReadSize = 4
    Names = {A, B}
    Newer = {"new"}
    None = None
    Second = 9
    Meant <- MCMeant
INVARIANTS ChannelsTypeOK BufferIsOfThisConnection FramesAreWhole SubscribersAreCurrent WorthTheAnswer MeantOrRefused
PROPERTIES FollowsNetd TheDeadAreFound EveryoneIsServed
