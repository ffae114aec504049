\* One template under fairness; a pod fails, one call fails or pass is lost.
SPECIFICATION FairSpec
CONSTANTS
    A = a
    Template = {t1}
    Serviced = {t1}
    Analysis = {a}
    Replicas = 1
    Settings <- TimedOrRequired
    MaxRuns = 2
    MaxFaults = 1
    MaxPodFailures = 1
    MaxStale = 0
PROPERTY Completes Tidies
