\* The invariant and the action properties that CanaryPromotionProofs proves:
\* every user command, an abort delay, a failing pod and a reconcile cut short
SPECIFICATION Spec
CONSTANTS
    Hash = {v1, v2}
    None = None
    Replicas = 2
    Steps <- MixedSteps
    MaxWeight = 2
    DynamicStableScale = FALSE
    MinPods = 1
    MaxDown = 1
    Background = FALSE
    StartingStep = 0
    AbortDelay = "set"
    ScaleDownDelay = "set"
    RevisionLimit = 1
    VerifyWeights = TRUE
    UserActions = {"template", "pause", "promote", "skip", "skipAll",
                   "promoteFull", "abort", "retry"}
    MaxEdits = 2
    MaxPodFailures = 1
    MaxErrors = 1
SYMMETRY Symmetry
INVARIANT PromotionInv WeightEarned
PROPERTIES SureGatesEarned RaiseEarned
