SPECIFICATION Spec
CONSTANTS
    Targets <- MCTargets
    Diffs <- AllDiffs
    Goldens <- MCGoldens
    Outputs <- MCOutputs
    Tol <- MCTol
    Intervals <- MCIntervals
    Threshold = 2
    Budget = 1
    NoResult = NoResult
    NoInterval = NoInterval
    NoReplay = NoReplay
    NoRow = NoRow
    Missing = Missing
INVARIANTS
    TypeOK
    RefusedWithCause
    GoldenGateDecides
    VerdictFollowsTheRule
    SanitizerColumnsAreTrue
    ReadersAgree
    LetThroughStaysInside
PROPERTIES
    CappedNeverUpgraded
    StepsAreThePipelines
CHECK_DEADLOCK FALSE
