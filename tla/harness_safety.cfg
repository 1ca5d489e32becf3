SPECIFICATION TurnsSpec
CONSTANTS
    src = src
    new = new
    obj = obj
    p1 = p1
    p2 = p2
    p3 = p3
    Files = {src, new, obj}
    Tracked = {src}
    Ignored = {obj}
    Patches = {p1, p2}
    Applicable = {p1, p2}
    Touches <- MCTouches
    AtHead = AtHead
    Missing = Missing
    Daemons = {d1, d2}
    Pollers = {}
    RunIds = {r1, r2}
    MaxLaunches = 2
    MaxFaults = 2
    Environments <- DefaultEnvironment
    NetnsVaries = TRUE
    FreshRunIds = TRUE
    SplitBuild = FALSE
    StatusFails = TRUE
    Printing = {}
    NoRun = NoRun
    UnknownRun = UnknownRun
    NoPatch = NoPatch
    NoRow = NoRow
SYMMETRY Interchangeable
INVARIANTS
    TypeOK
    TestedTreeIsThePatch
    OnePipelineUnderTheLock
    RowIsAboutItsPatch
    EveryLaunchAccounted
PROPERTIES
    StaleOnlyByCrash
    ImplementsService
