SPECIFICATION Spec
CONSTANTS
    src = src
    new = new
    obj = obj
    p1 = p1
    p2 = p2
    p3 = p3
    Files = {src, new}
    Tracked = {src}
    Ignored = {}
    Patches = {p1, p2}
    Applicable = {p1, p2}
    Touches <- MCTouches
    AtHead = AtHead
    Missing = Missing
    Daemons = {d1, d2}
    Pollers = {}
    RunIds = {r1, r2}
    MaxLaunches = 2
    MaxFaults = 0
    Environments <- DefaultEnvironment
    NetnsVaries = FALSE
    FreshRunIds = TRUE
    SplitBuild = FALSE
    StatusFails = FALSE
    Printing = {}
    NoRun = NoRun
    UnknownRun = UnknownRun
    NoPatch = NoPatch
    NoRow = NoRow
INVARIANT TestedTreeIsThePatch
