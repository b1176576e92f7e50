\* JudgeConfig: five helm operations beside two platform upgrades;
\* p2 is a judge somebody had configured by hand.
SPECIFICATION Spec
CONSTANTS
    PlatformPairs = {p1, p2}
    JudgePairs = {j1, p2}
    NoRecord = NoRecord
    BackoffLimit = 2
    MaxHelm = 5
    MaxRenders = 2
INVARIANT PriorKept
INVARIANT UninstallRestores
CHECK_DEADLOCK FALSE
