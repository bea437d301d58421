\* Playbooks of one and two phases, one-shot and looping.
SPECIFICATION FairSpec
CONSTANTS
    Playbooks <- MCPlaybooks
    Campaigns = {"oneshot", "loop"}
    Cap = 2
    NonceSpan = 11
    MaxRestarts = 1
INVARIANTS TypeOK BurstFilled
PROPERTIES OneRender FreshRender PlaysScript Campaigning
