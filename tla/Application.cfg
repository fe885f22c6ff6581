SPECIFICATION FairSpec
CONSTANTS
    N = 3
    Run = {r1, r2, r3, r4}
    NoRun = NoRun
    LeaseTime = 2
    MaxTime = 4
INVARIANTS CampaignSafe
PROPERTIES CursorKept CommandsEnd
CHECK_DEADLOCK FALSE
