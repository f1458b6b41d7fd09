SPECIFICATION FairSpec
CONSTANTS
    c1 = c1
    c2 = c2
    Clients <- MC_Clients
    Destinations <- MC_Destinations
    Routes <- MC_Routes
    Concurrency = 2
    Providers = 2
    Capacity = 2
    PointBudget = 3
    MaxTime = 1
INVARIANTS
    BudgetsAreKept
    ArtifactsAreAnswered
PROPERTIES
    ComparisonsEnd
\* The clients and the clock come to their end.
CHECK_DEADLOCK FALSE
