\* The stable version is scaled by the weights of the last reconcile
SPECIFICATION Spec
CONSTANTS
    Hash = {v1, v2}
    None = None
    Replicas = 2
    Steps <- TimedSteps
    MaxWeight = 2
    DynamicStableScale = TRUE
    MinPods = 1
    MaxDown = 1
    Background = FALSE
    StartingStep = 0
    AbortDelay = "default"
    ScaleDownDelay = "set"
    RevisionLimit = 1
    VerifyWeights = FALSE
    UserActions = {"template"}
    MaxEdits = 2
    MaxPodFailures = 0
    MaxErrors = 0
SYMMETRY Symmetry
PROPERTY ScaleDownKeepsTraffic
