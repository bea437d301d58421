SPECIFICATION Spec
PROPERTIES ServedIsCurrent
CONSTANTS
    Size = 8
    Special = {0, 255}
    HostMac <- McHostMac
    MaxSalt = 5
    Tie <- McTie
    Affinity = "both"
    RemapMac = TRUE
    KeepArp = FALSE
    MaxFrame = 2
    Captures = {"plant"}
    Content <- McEdited
    Arriving = {"plant"}
    Spilled = {"plant"}
    Refused = {}
    PlanNets = {4}
    RandomNets = {6}
    ZoneVendor <- McZoneVendor
    ZoneProtocol <- McZoneProtocol
    DeviceMac <- McDeviceMac
    VendorOf <- McVendorOf
    SwitchVendors = {}
    ControllerVendors = {"acme"}
    AssetCap = 1
    MaxDevices = 1
    Batch = 1
    Budget <- McBudget
    MaxCut = 0
    MaxEpoch = 1
    MaxStamp = 2
CHECK_DEADLOCK FALSE
