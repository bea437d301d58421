\* A growing plan, six playbooks over a sealed one, and a plan where ports meet.
SPECIFICATION Spec
INVARIANTS TypeOK EveryAssetBinds NoScan
PROPERTIES StreamsWhole AnswersMatch FreshConnections
CONSTANTS
    Width = 16
    StableMac <- McStableMac
    Index <- McIndex
    BitXor <- McXor
    SeqSpan = 16
    MaxPayload = 2
    Worlds <- McWorlds
    BareZones = {3}
    Level <- McLevel
    Batch = 6
    IdentityEvery = 1
    BeaconEvery = 2
    NsCadence = 2
    NsMost = 1
    Cap = 9
    Campaign = "loop"
    Ports = 16
    C2Ip = 900
    ExternalIp = 901
    MaxRuns = 3
    MaxRestarts = 1
CHECK_DEADLOCK FALSE
