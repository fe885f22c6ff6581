SPECIFICATION OperatorSpec
CONSTANTS
    N = 1
    Run = {r1, r2}
    NoRun = NoRun
    LeaseTime = 1
    MaxTime = 1
    SnapshotAttempts = 1
    MaxOverlap = 2
    MaxPolls = 1
    Asked = {q1, q2}
    Lifetime = 1
    LastSecond = 3
    MaxPhases = 6
    Limits = {1, 2, 3}
    Tasks = {"a", "b", ""}
    Routes <- MCRoutes
    Candidates <- MCCandidates
    Callers = {1, 2}
    MaxGates = 2
    MaxSendBytes = 1
INVARIANT PausedIsListed
CHECK_DEADLOCK FALSE
