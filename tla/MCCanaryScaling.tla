--------------------------- MODULE MCCanaryScaling ---------------------------
(***************************************************************************)
(* Instances of CanaryScaling.                                             *)
(***************************************************************************)
EXTENDS CanaryScalingProperties

Number(n) == [value |-> n, percent |-> FALSE]
Percent(n) == [value |-> n, percent |-> TRUE]

\* The default (of 3 replicas: one more, none fewer), limits that both resolve
\* to zero, and both
MCLimits ==
    {[surge |-> Percent(25), unavailable |-> Percent(25)],
     [surge |-> Number(0), unavailable |-> Percent(25)],
     [surge |-> Number(2), unavailable |-> Number(1)]}

\* For the division of the pods, only maxSurge matters
MCCountLimits == {[surge |-> Number(n), unavailable |-> Number(1)] : n \in 0..1}

MCWeights == 0..20

=============================================================================
