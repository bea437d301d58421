\* A burst that never reaches the wire is not sent again.
SPECIFICATION Spec
CONSTANTS
    Playbooks <- MCPlaybooks
    Campaigns = {"oneshot", "loop"}
    Cap = 2
    NonceSpan = 11
    MaxRestarts = 1
PROPERTY LandsBeforeMoving
