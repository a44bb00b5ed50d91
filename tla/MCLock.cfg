SPECIFICATION FairSpec
CONSTANTS
    p1 = p1
    p2 = p2
    p3 = p3
    NoProc = NoProc
    Proc = {p1, p2, p3}
    MayCrash = {p1, p2}
    Flaky = {p2}
    Retries = 2
    MaxTimeout = 1
    MaxNest = 2
    MaxLevel = 2
INVARIANTS
    TypeOK
    FileOwned
    InheritedIsHeld
    NoLeak
    RetriesSuffice
PROPERTIES
    AttemptEnds
    StaleIsBroken
CHECK_DEADLOCK FALSE
