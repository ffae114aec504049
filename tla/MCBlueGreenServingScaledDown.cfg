\* What rollout/replicaset.go:326 says, against the code.
SPECIFICATION Spec
CONSTANTS
    A = A
    B = B
    None = None
    Hash = {A, B}
    Replicas = 1
    AutoPromotion = "enabled"
    PrePromotion = FALSE
    PostPromotion = TRUE
    PreviewReplicaCount = None
    ScaleDownDelay = "default"
    AbortDelay = TRUE
    ProgressDeadlineAbort = FALSE
    UserActions = {"template", "abort"}
    MaxEdits = 2
    MaxPodFailures = 1
    MaxErrors = 0
PROPERTIES
    ServingNeverScaledDown
