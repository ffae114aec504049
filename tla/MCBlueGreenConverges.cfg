\* Where automatic promotion ends, after a failed pod and a failed reconcile.
SPECIFICATION FairSpec
CONSTANTS
    A = A
    B = B
    None = None
    Hash = {A, B}
    Replicas = 1
    AutoPromotion = "enabled"
    PrePromotion = FALSE
    PostPromotion = TRUE
    PreviewReplicaCount = None
    ScaleDownDelay = "default"
    AbortDelay = TRUE
    ProgressDeadlineAbort = FALSE
    UserActions = {"template", "promoteFull", "abort"}
    MaxEdits = 2
    MaxPodFailures = 1
    MaxErrors = 1
PROPERTIES
    Converges
