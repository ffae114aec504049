\* The division of the pods is the closest to the weight, for every weight
CONSTANTS
    V1 = V1
    V2 = V2
    V3 = V3
    None = None
    Limits <- MCCountLimits
    ReplicaCounts = {1, 2, 3, 5}
    MaxWeight = 20
    Weights <- MCWeights
    Broken = {}
    MaxEdits = 1
    MaxWeightChanges = 1
    MaxPodFailures = 0
SPECIFICATION Spec
INVARIANT ClosestToWeight
