SPECIFICATION MCSpec
CONSTANTS
    StepThreshold = 2
    PanicThreshold = 8
    Stepout = 3
    MaxFrequency = 3
    TimeConstant = 4
    StartInterval = 1
    FllInterval = 3
    RateScale = 16
    DriftInterval = 3
    SteerMayFail = TRUE
    MaxTime = 6
    DriftFiles <- MCDriftFiles
    Offsets <- MCOffsets
    Gaps <- MCGaps
    Utc = Utc
    London = London
    GB = GB
    LondonFile = LondonFile
    UtcFile = UtcFile
    NoZone = NoZone
    NoFile = NoFile
    MaxWrites = 2
    MaxUpgrades = 1
    MaxFaults = 2
    Zones <- MCZones
    Files <- MCFiles
    FileOf <- MCFileOf
INVARIANTS MachineTypeOK StepoutHonoured LearnsFromThisClock ZoneIsInPlace
PROPERTIES StepsEarned TakenUp
