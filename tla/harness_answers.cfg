SPECIFICATION FairSpec
CONSTANTS
    src = src
    new = new
    obj = obj
    p1 = p1
    p2 = p2
    p3 = p3
    Files = {src}
    Tracked = {src}
    Ignored = {}
    Patches = {p1}
    Applicable = {p1}
    Touches <- MCTouches
    AtHead = AtHead
    Missing = Missing
    Daemons = {d1}
    Pollers = {c1}
    RunIds = {r1, r2}
    MaxLaunches = 2
    MaxFaults = 0
    Environments <- AnyEnvironment
    NetnsVaries = FALSE
    FreshRunIds = TRUE
    SplitBuild = TRUE
    StatusFails = FALSE
    Printing = {1}
    NoRun = NoRun
    UnknownRun = UnknownRun
    NoPatch = NoPatch
    NoRow = NoRow
INVARIANTS
    NoteIsHonest
    FailedMeansOver
PROPERTIES
    NoRowAfterFailed
    EveryLaunchResolves
    LockIsReleased
