SPECIFICATION FairSpec
CONSTANTS
    Poll = 1
    Flatline = 3
    MaxFrames = 1
    PipeLines = 1
    MaxOrphans = 0
    Once = FALSE
PROPERTY KillAlwaysNeedsWindow
CHECK_DEADLOCK FALSE
