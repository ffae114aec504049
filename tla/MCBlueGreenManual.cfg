\* Every command, both analyses, a failed pod and a failed reconcile.
SPECIFICATION Spec
CONSTANTS
    A = A
    B = B
    None = None
    Hash = {A, B}
    Replicas = 1
    AutoPromotion = "manual"
    PrePromotion = TRUE
    PostPromotion = TRUE
    PreviewReplicaCount = None
    ScaleDownDelay = "default"
    AbortDelay = TRUE
    ProgressDeadlineAbort = TRUE
    UserActions = {"template", "pause", "promote", "promoteFull", "abort", "retry"}
    MaxEdits = 3
    MaxPodFailures = 1
    MaxErrors = 1
SYMMETRY Symmetry
INVARIANTS
    TypeOK
    PromotionInv
    PauseInv
PROPERTIES
    PromotionGated
    StableGated
    AbortKept
