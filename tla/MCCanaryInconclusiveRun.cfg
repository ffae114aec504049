\* A background run is inconclusive at a step that goes on by itself
SPECIFICATION Spec
CONSTANTS
    Hash = {v1, v2}
    None = None
    Replicas = 2
    Steps <- GatedSteps
    MaxWeight = 2
    DynamicStableScale = FALSE
    MinPods = 1
    MaxDown = 1
    Background = TRUE
    StartingStep = 0
    AbortDelay = "default"
    ScaleDownDelay = "set"
    RevisionLimit = 1
    VerifyWeights = FALSE
    UserActions = {"template"}
    MaxEdits = 2
    MaxPodFailures = 0
    MaxErrors = 0
SYMMETRY Symmetry
PROPERTY InconclusiveHolds
