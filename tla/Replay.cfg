\* One capture and one burst per iteration, daemon mode: safety and liveness.
SPECIFICATION FairSpec
CONSTANTS
    Poll = 2
    Flatline = 3
    MaxFrames = 2
    PipeLines = 1
    MaxOrphans = 1
    Once = FALSE
INVARIANTS TypeOK SuccessIsSent
PROPERTIES FlatMeansQuiet KillNeedsWindow SendEnds StopEnds
CHECK_DEADLOCK FALSE
