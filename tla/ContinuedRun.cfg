SPECIFICATION FairSpec
CONSTANTS
    MaxTurns = 4
    MaxCalls = 4
    MaxActs = 2
    Turns <- MCTurns
INVARIANTS RunSafe RecordsTruthful
PROPERTIES StepsSafe ImplementsLog LockReleased
CHECK_DEADLOCK FALSE
