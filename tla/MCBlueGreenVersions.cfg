\* Three versions, previewReplicaCount 1 of 2 replicas, both analyses.
SPECIFICATION Spec
CONSTANTS
    A = A
    B = B
    C = C
    None = None
    Hash = {A, B, C}
    Replicas = 2
    AutoPromotion = "manual"
    PrePromotion = TRUE
    PostPromotion = TRUE
    PreviewReplicaCount = 1
    ScaleDownDelay = "set"
    AbortDelay = TRUE
    ProgressDeadlineAbort = FALSE
    UserActions = {"template", "pause", "promote", "abort"}
    MaxEdits = 4
    MaxPodFailures = 0
    MaxErrors = 0
SYMMETRY Symmetry
PROPERTIES
    CheckpointEarned
    SwitchTargetScaled
    StableNeverScaledDown
    DelayedScaleDown
