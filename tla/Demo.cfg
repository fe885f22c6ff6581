SPECIFICATION FairSpec
CONSTANTS
    N = 2
    Run = {r1, r2, r3}
    NoRun = NoRun
    LeaseTime = 5
    MaxTime = 14
INVARIANTS EffectsAccounted
PROPERTIES DispatchedByOwner UnkilledRunSettles
CHECK_DEADLOCK FALSE
