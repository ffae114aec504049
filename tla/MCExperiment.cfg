\* Two templates; one pass reads an old store, one call fails or pass is lost.
SPECIFICATION Spec
CONSTANTS
    A = a
    Template = {t1, t2}
    Serviced = {t1}
    Analysis = {a}
    Replicas = 1
    Settings <- TimedOrRequired
    MaxRuns = 3
    MaxFaults = 1
    MaxPodFailures = 0
    MaxStale = 1
INVARIANT TypeOK RunsAfterAvailability OneOpenRun
PROPERTY OutcomeEarned DelayHonoured
