SPECIFICATION PlansSpec
CONSTANTS
    Plans <- MCPlans
    MaxSessionSteps = 3
    Hosts = {h1, h2}
    Trees <- MCTrees
    Facts <- MCFacts
    Context <- MCContext
    Briefs = {"b1", "b2"}
    MaxCorrections = 1
PROPERTY TerminalStays
CHECK_DEADLOCK FALSE
