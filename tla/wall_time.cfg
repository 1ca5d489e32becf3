SPECIFICATION Spec
CONSTANTS
    Runs = 3
    WarmUps = 1
    ProbeRuns = 2
    ProbeWarmUps = 1
    Iterations = {0, 1, 3}
    Confidences = {0, 50, 95}
    Bar = 2
    Slowdown = 5
    SessionCounts = {0, 1, 2}
    BaseTime = 100
    CandidateTimes = {97, 101}
    PerfCost = 10
    Drift = 1
    MaxHeat = 3
INVARIANTS
    TypeOK
    PairsSeeOneMachine
    DriftCancels
    IntervalOrdered
    DecisionsAtConfidence
    QuietMachinePasses
CHECK_DEADLOCK FALSE
