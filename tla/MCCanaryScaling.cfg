\* The limits, the division and the settling of a basic canary, through updates,
\* rollbacks, weight changes and a failed pod; the pods of V2 never start
CONSTANTS
    V1 = V1
    V2 = V2
    V3 = V3
    None = None
    Limits <- MCLimits
    ReplicaCounts = {1, 3}
    MaxWeight = 10
    Weights = {0, 5, 10}
    Broken = {V2}
    MaxEdits = 2
    MaxWeightChanges = 2
    MaxPodFailures = 1
SPECIFICATION FairSpec
INVARIANT TypeOK ClosestToWeight
PROPERTY Settles SurgeRespectedButKeptPods FloorRespectedButLeavingPods
