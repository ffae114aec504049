\* An aborted canary with a delay keeps the runs of an abort at a later step
SPECIFICATION Spec
CONSTANTS
    Hash = {v1, v2}
    None = None
    Replicas = 1
    Steps <- TwoAnalyses
    MaxWeight = 2
    DynamicStableScale = FALSE
    MinPods = 1
    MaxDown = 1
    Background = FALSE
    StartingStep = 0
    AbortDelay = "set"
    ScaleDownDelay = "set"
    RevisionLimit = 1
    VerifyWeights = FALSE
    UserActions = {"template", "pause", "promote", "skip", "skipAll",
                   "promoteFull", "abort", "retry"}
    MaxEdits = 3
    MaxPodFailures = 0
    MaxErrors = 0
SYMMETRY Symmetry
PROPERTY PromotionEarned
