SPECIFICATION EitherSpec
INVARIANTS TypeOK NothingReal WireIsPlanned CacheBounded ServedStays ListedIsWhole IdentitiesKept
CONSTANTS
    Size = 8
    Special = {0, 255}
    HostMac <- McHostMac
    MaxSalt = 5
    Tie <- McTie
    Affinity = "both"
    RemapMac = TRUE
    KeepArp = FALSE
    MaxFrame = 2
    Captures = {"plant", "big"}
    Content <- McContent
    Arriving = {}
    Spilled = {"big"}
    Refused = {}
    PlanNets = {4, 5}
    RandomNets = {6}
    ZoneVendor <- McZoneVendor
    ZoneProtocol <- McZoneProtocol
    DeviceMac <- McDeviceMac
    VendorOf <- McVendorOf
    SwitchVendors = {}
    ControllerVendors = {"acme"}
    AssetCap = 3
    MaxDevices = 2
    Batch = 2
    Budget <- McBudget
    MaxCut = 1
    MaxEpoch = 3
    MaxStamp = 1
    Original <- McOriginal
    Rounds <- McRounds
    Ids = {1, 2}
    MaxDraws = 2
    Profiles <- McProfiles
    RemapFirst = TRUE
    ForgeNets = {6}
    MaxRoster = 4
CHECK_DEADLOCK FALSE
