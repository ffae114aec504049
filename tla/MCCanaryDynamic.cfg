\* A dynamic stable scale, an experiment, a set canary scale, and background
\* analysis from the second step on; no reconcile fails
SPECIFICATION Spec
CONSTANTS
    Hash = {v1, v2}
    None = None
    Replicas = 2
    Steps <- ScaledSteps
    MaxWeight = 2
    DynamicStableScale = TRUE
    MinPods = 1
    MaxDown = 1
    Background = TRUE
    StartingStep = 1
    AbortDelay = "set"
    ScaleDownDelay = "set"
    RevisionLimit = 1
    VerifyWeights = FALSE
    UserActions = {"template", "abort", "retry", "promoteFull"}
    MaxEdits = 2
    MaxPodFailures = 1
    MaxErrors = 0
SYMMETRY Symmetry
PROPERTY AbortSparesStable
