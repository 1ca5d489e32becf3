SPECIFICATION FairSpec
CONSTANTS
    Workers = {w1, w2}
    Count = 2
    Period = 1
    Rounds = 2
    DropLimit = 4
    Horizon = 2
INVARIANTS
    TypeOK
    EveryRequestCountsOnce
    NothingOmitted
    DeathShowsAsDrops
    ReportIsTrusted
    OneServer
PROPERTIES
    CompareEnds
CHECK_DEADLOCK FALSE
