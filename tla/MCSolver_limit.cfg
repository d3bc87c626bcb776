SPECIFICATION MCFairSpec
CONSTANTS
    Solutions <- MCSolutions
    Slacks = {0, 1}
    MaxRuns = 2
    Offers <- MCOffers
    Half = 4
    MaxSets = 2
    Backends = {"highs", "gurobi"}
INVARIANTS
    LimitIsAsked
CHECK_DEADLOCK FALSE
