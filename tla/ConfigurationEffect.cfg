SPECIFICATION Spec
CONSTANTS
    Utc = Utc
    London = London
    GB = GB
    LondonFile = LondonFile
    UtcFile = UtcFile
    NoZone = NoZone
    NoFile = NoFile
    MaxWrites = 2
    MaxUpgrades = 1
    MaxFaults = 0
    Zones <- MCZones
    Files <- MCFiles
    FileOf <- MCFileOf
PROPERTIES TakesEffect
