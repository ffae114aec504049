\* What rollout/bluegreen.go:321 says, against the code.
SPECIFICATION Spec
CONSTANTS
    A = A
    B = B
    C = C
    None = None
    Hash = {A, B, C}
    Replicas = 2
    AutoPromotion = "manual"
    PrePromotion = FALSE
    PostPromotion = FALSE
    PreviewReplicaCount = 1
    ScaleDownDelay = "default"
    AbortDelay = TRUE
    ProgressDeadlineAbort = FALSE
    UserActions = {"template", "promote"}
    MaxEdits = 3
    MaxPodFailures = 0
    MaxErrors = 0
SYMMETRY Symmetry
PROPERTIES
    CheckpointResets
