SPECIFICATION Spec
CONSTANTS
    Zones <- MCTwoZones
    Reserved = {0}
    Origins = {1, 2}
    Modes = {"grow"}
    Packs = {"generic", "pack"}
    Batch = 1
    MaxDevices = 2
    AssetCap = 2
    PlanSize = 1
    Interval = {1, 2}
    Floor = 1
    MaxTime = 2
    MaxMade = 2
PROPERTIES CommitStands
