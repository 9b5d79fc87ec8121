SPECIFICATION Spec
CONSTANTS
    Calls = {c1, c2, c3}
    Runs = {r1, r2}
    MaxInFlight = 2
    Limit = 1
    Starts = {0, 2, 5, 7, 10, 12}
    Lookback = 3
    Retention = 4
    RollupInterval = 1
    BatchSize = 1
    MaxBatches = 2
    MaxTime = 10
SYMMETRY Symmetry
CHECK_DEADLOCK FALSE
INVARIANTS NeverOvercounts QuotaOvershootBounded PrunedIsCounted
