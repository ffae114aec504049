\* A timed pause, post-promotion analysis, an abort when the progress deadline passes,
\* and a reconcile that fails.
SPECIFICATION FairSpec
CONSTANTS
    A = A
    B = B
    None = None
    Hash = {A, B}
    Replicas = 1
    AutoPromotion = "delayed"
    PrePromotion = FALSE
    PostPromotion = TRUE
    PreviewReplicaCount = None
    ScaleDownDelay = "default"
    AbortDelay = FALSE
    ProgressDeadlineAbort = TRUE
    UserActions = {"template", "promote", "promoteFull", "abort", "retry"}
    MaxEdits = 2
    MaxPodFailures = 0
    MaxErrors = 1
PROPERTIES
    Converges
    AbortReverts
