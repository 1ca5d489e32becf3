SPECIFICATION Spec
CONSTANTS
    src = src
    new = new
    obj = obj
    p1 = p1
    p2 = p2
    p3 = p3
    Files = {src, obj}
    Tracked = {src}
    Ignored = {obj}
    Patches = {p2, p3}
    Applicable = {p2, p3}
    Touches <- MCTouches
    AtHead = AtHead
    Missing = Missing
    Daemons = {d1}
    Pollers = {}
    RunIds = {r1, r2}
    MaxLaunches = 2
    MaxFaults = 0
    Environments <- DefaultEnvironment
    NetnsVaries = FALSE
    FreshRunIds = TRUE
    SplitBuild = FALSE
    StatusFails = FALSE
    Printing = {}
    NoRun = NoRun
    UnknownRun = UnknownRun
    NoPatch = NoPatch
    NoRow = NoRow
INVARIANT RowIsAboutItsPatch
