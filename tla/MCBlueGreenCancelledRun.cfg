\* What docs/features/analysis.md:706 says, against the code.
SPECIFICATION Spec
CONSTANTS
    A = A
    B = B
    None = None
    Hash = {A, B}
    Replicas = 1
    AutoPromotion = "enabled"
    PrePromotion = TRUE
    PostPromotion = FALSE
    PreviewReplicaCount = None
    ScaleDownDelay = "default"
    AbortDelay = TRUE
    ProgressDeadlineAbort = FALSE
    UserActions = {"template", "abort", "retry"}
    MaxEdits = 3
    MaxPodFailures = 0
    MaxErrors = 0
PROPERTIES
    CancelledRunOpensNoGate
