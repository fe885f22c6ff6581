SPECIFICATION PlansSpec
CONSTANTS
    Plans <- MCPlans
    MaxSessionSteps = 3
    Hosts = {h1, h2}
    Trees <- MCTrees
    Facts <- MCFacts
    Context <- MCContext
    Briefs = {"b1", "b2"}
    MaxCorrections = 1
INVARIANTS PlanRecordsAgree TreeSound WordSound
PROPERTIES ImplementsLog NoLostTransition ImplementsChoice
CHECK_DEADLOCK FALSE
