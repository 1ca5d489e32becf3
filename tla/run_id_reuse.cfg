SPECIFICATION Spec
CONSTANTS
    src = src
    new = new
    obj = obj
    p1 = p1
    p2 = p2
    p3 = p3
    Files = {src, new}
    Tracked = {src}
    Ignored = {}
    Patches = {p1}
    Applicable = {p1}
    Touches <- MCTouches
    AtHead = AtHead
    Missing = Missing
    Daemons = {d1}
    Pollers = {c1}
    RunIds = {r1}
    MaxLaunches = 2
    MaxFaults = 0
    Environments <- DefaultEnvironment
    NetnsVaries = FALSE
    FreshRunIds = FALSE
    SplitBuild = FALSE
    StatusFails = FALSE
    Printing = {}
    NoRun = NoRun
    UnknownRun = UnknownRun
    NoPatch = NoPatch
    NoRow = NoRow
INVARIANT FailedMeansNoRow
