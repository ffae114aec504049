\* An abort delay longer than the resync period
SPECIFICATION Spec
CONSTANTS
    Hash = {v1, v2}
    None = None
    Replicas = 2
    Steps <- GatedSteps
    MaxWeight = 2
    DynamicStableScale = FALSE
    MinPods = 1
    MaxDown = 1
    Background = FALSE
    StartingStep = 0
    AbortDelay = "long"
    ScaleDownDelay = "set"
    RevisionLimit = 1
    VerifyWeights = FALSE
    UserActions = {"template", "abort"}
    MaxEdits = 2
    MaxPodFailures = 0
    MaxErrors = 0
SYMMETRY Symmetry
PROPERTY AbortedCanaryKept
