\* A scaling event gives pods to a version before its update begins
CONSTANTS
    V1 = V1
    V2 = V2
    V3 = V3
    None = None
    Limits <- MCLimits
    ReplicaCounts = {1, 3}
    MaxWeight = 4
    Weights = {0, 2, 4}
    Broken = {}
    MaxEdits = 2
    MaxWeightChanges = 2
    MaxPodFailures = 0
SPECIFICATION Spec
PROPERTY NoPodsBeforeItsUpdate
