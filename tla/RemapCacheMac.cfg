SPECIFICATION Spec
INVARIANT WireMacIsAssets
CONSTANTS
    Size = 8
    Special = {0, 255}
    HostMac <- McHostMac
    MaxSalt = 5
    Tie <- McTie
    Affinity = "both"
    RemapMac = TRUE
    KeepArp = FALSE
    MaxFrame = 2
    Captures = {"plant", "big"}
    Content <- McContent
    Arriving = {"plant"}
    Spilled = {"big"}
    Refused = {}
    PlanNets = {4, 5}
    RandomNets = {6}
    ZoneVendor <- McZoneVendor
    ZoneProtocol <- McZoneProtocol
    DeviceMac <- McDeviceMac
    VendorOf <- McVendorOf
    SwitchVendors = {}
    ControllerVendors = {"acme"}
    AssetCap = 3
    MaxDevices = 2
    Batch = 2
    Budget <- McBudget
    MaxCut = 1
    MaxEpoch = 2
    MaxStamp = 1
CHECK_DEADLOCK FALSE
