SPECIFICATION MCFairSpec
CONSTANTS
    Solutions <- MCSolutions
    Slacks = {0, 1}
    MaxRuns = 2
    Offers <- MCOffers
    Half = 4
    MaxSets = 2
    Backends = {"highs", "gurobi"}
INVARIANTS
    TypeOK
    NoneTwice
    BestGiven
    CompleteIsProved
    StopIsTold
    ValuesOK
    OptionsReadBack
    SearchHasOptions
    StatisticsOfSearch
PROPERTIES
    PoolEndsAtStop
    StopEndsSearch
CHECK_DEADLOCK FALSE
