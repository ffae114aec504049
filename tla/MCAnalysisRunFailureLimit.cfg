\* Two measurements and a pass that reads the run before the first.
SPECIFICATION Spec
CONSTANTS
    J = J
    K = K
    W = W
    Metric = {J, W}
    DryRun = {}
    Delayed = {W}
    Provider <- ByProvider
    Count <- Twice
    FailureLimit <- Zero
    InconclusiveLimit <- Zero
    ConsecutiveErrorLimit <- Zero
    MaxMeasurements = 2
    MaxErrors = 0
    MaxCrashes = 0
    MaxStale = 1
INVARIANTS
    FailureLimitHolds
CHECK_DEADLOCK FALSE
