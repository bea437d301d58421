\* Two units over one bridge, with two captures that come, go and are torn.
SPECIFICATION FairSpec
INVARIANTS TypeOK MirrorHolds NoStaleHeartbeat NothingLeft
PROPERTIES GivesUp StopEnds KeepsSending OnceEnds
CONSTANTS
    Procs = {"generic", "pack", "hand"}
    Once = {"hand"}
    Captures = {"a", "b"}
    Weighted = {"a", "b"}
    Burst = 2
    MaxEvents = 3
CHECK_DEADLOCK FALSE
