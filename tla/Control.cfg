SPECIFICATION PartSpec
CONSTANTS
    r1 = r1
    r2 = r2
    o1 = o1
    o2 = o2
    Runs <- MCRuns
    Operators <- MCOperators
    Free = Free
    Other = Other
    MaxRequests = 3
INVARIANTS ControlSafe
PROPERTIES DurableBeforeReleased CommandsAnswered
