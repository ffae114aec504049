\* A job and a query taken twice, with an error, a crash and a pass that reads an old run.
SPECIFICATION Spec
CONSTANTS
    J = J
    K = K
    W = W
    Metric = {J, W}
    DryRun = {}
    Delayed = {W}
    Provider <- ByProvider
    Count <- Twice
    FailureLimit <- JobMayFailOnce
    InconclusiveLimit <- Zero
    ConsecutiveErrorLimit <- JobMayFailOnce
    MaxMeasurements = 2
    MaxErrors = 1
    MaxCrashes = 1
    MaxStale = 1
INVARIANTS
    VerdictsEarned
    OneJobPerMeasurement
CHECK_DEADLOCK FALSE
