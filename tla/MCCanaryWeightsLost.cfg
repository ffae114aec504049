\* A reconcile that fails half way: the canary Service
\* moves to a new version before the weight of the last one is taken back
SPECIFICATION Spec
CONSTANTS
    Hash = {v1, v2}
    None = None
    Replicas = 2
    Steps <- TimedSteps
    MaxWeight = 2
    DynamicStableScale = FALSE
    MinPods = 1
    MaxDown = 1
    Background = FALSE
    StartingStep = 0
    AbortDelay = "default"
    ScaleDownDelay = "set"
    RevisionLimit = 1
    VerifyWeights = FALSE
    UserActions = {"template", "skipAll"}
    MaxEdits = 3
    MaxPodFailures = 0
    MaxErrors = 1
SYMMETRY Symmetry
INVARIANT TrafficEarned
