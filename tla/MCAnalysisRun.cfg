\* A job, a kayenta judgement and a dry-run query, with an error and a crash.
SPECIFICATION FairSpec
CONSTANTS
    J = J
    K = K
    W = W
    Metric = {J, K, W}
    DryRun = {W}
    Delayed = {K}
    Provider <- ByProvider
    Count <- TwiceTheJob
    FailureLimit <- JobMayFailOnce
    InconclusiveLimit <- Zero
    ConsecutiveErrorLimit <- JobMayFailOnce
    MaxMeasurements = 2
    MaxErrors = 1
    MaxCrashes = 1
    MaxStale = 0
INVARIANTS
    TypeOK
    SuccessEarned
    JobsEndWithRun
PROPERTIES
    KeepsPromise
    RunCompletes
CHECK_DEADLOCK FALSE
