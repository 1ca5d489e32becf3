SPECIFICATION Spec
CONSTANTS
    Targets <- PlainTargets
    Diffs <- RiskDiffs
    Goldens <- MCGoldens
    Outputs <- MCOutputs
    Tol <- MCTol
    Intervals <- MCIntervals
    Threshold = 2
    Budget = 1
    NoResult = NoResult
    NoInterval = NoInterval
    NoReplay = NoReplay
    NoRow = NoRow
    Missing = Missing
INVARIANTS
    NoRiskTokenIsAccepted
CHECK_DEADLOCK FALSE
