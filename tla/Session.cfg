SPECIFICATION FairSpec
CONSTANTS
    Zones <- MCOneZone
    Reserved = {0}
    Origins = {1}
    Modes = {"grow", "off"}
    Packs = {"generic", "pack"}
    Batch = 1
    MaxDevices = 2
    AssetCap = 2
    PlanSize = 1
    Interval = {1}
    Floor = 1
    MaxTime = 2
    MaxMade = 2
INVARIANTS TypeOK AssetKeepsAddress CleanIsSaved SealedAsPlanned
PROPERTIES ThreatFloor SavedEventually
