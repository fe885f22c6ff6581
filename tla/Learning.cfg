SPECIFICATION LearningSpec
CONSTANTS
    h1 = h1
    h2 = h2
    Hosts <- MCHosts
    Definitions <- MCDefinitions
    Suites <- MCSuites
    Contexts <- MCContexts
    Warmup = 1
    Interval = 2
    Canaries = 2
    Weights <- MCWeights
    MaxTime = 1
    MaxRuns = 4
    MaxReviews = 3
    o1 = o1
    o2 = o2
    Operators <- MCOperators
    Ids <- MCIds
    Runs <- MCRuns
    Observed <- MCObserved
    Context <- MCContext
    Values = {0, 1}
    MaxFacts = 2
    MaxEvents = 4
    Lifetime = 1
    LastTime = 2
SYMMETRY MCSymmetry
INVARIANTS RolloutSound OperatorDecides
PROPERTIES ImplementsTrial StaysForgotten
CHECK_DEADLOCK FALSE
