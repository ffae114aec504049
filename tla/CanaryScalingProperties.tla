----------------------- MODULE CanaryScalingProperties -----------------------
(***************************************************************************)
(* What must hold of a basic canary's ReplicaSets (module CanaryScaling).  *)
(***************************************************************************)
EXTENDS CanaryScaling

(* The surge is respected: no scaling decision of a reconcile leaves more  *)
(* pods requested, over all versions, than spec.replicas plus maxSurge,    *)
(* unless there were as many before it (docs/features/canary.md,           *)
(* maxSurge; CalculateReplicaCountsForBasicCanary).                        *)
Requested(f) == SumReplicas(f, Versions)

SurgeRespected ==
    [][Reconcile => Requested(rs') <= MaxValue(Requested(rs), seen.replicas + Surge)]_vars

(* The surge is respected but for pods on their way out that the reconcile *)
(* keeps: adjustReplicaWithinLimits gives a ReplicaSet back the available  *)
(* pods it was about to lose and takes as many from the other one, but the *)
(* other one is written in a later reconcile.  No decision adds more than  *)
(* those pods to what the surge allows or what was requested before.       *)
OnTheirWayOut ==
    LET Count(v) == MaxValue(0, seen.rs[v].available - seen.rs[v].replicas)
    IN  Total(Count)

SurgeRespectedButKeptPods ==
    [][Reconcile => Requested(rs') <= MaxValue(Requested(rs), seen.replicas + Surge)
                                      + OnTheirWayOut]_vars

(* The floor is respected: of the pods that were available when the        *)
(* reconcile looked, its scaling keeps spec.replicas minus maxUnavailable, *)
(* or all that there were if they were fewer                               *)
(* (docs/features/canary.md, maxUnavailable).                              *)
Kept(f) ==
    LET Count(v) == MinValue(f[v].replicas, seen.rs[v].available) IN Total(Count)

FloorRespected ==
    [][Reconcile => Kept(rs') >= MinValue(Kept(seen.rs), MinAvailable)]_vars

(* The floor is respected but for pods on their way out: the scale-down of *)
(* the older versions counts them as available, that of the stable and of  *)
(* the new one (GetReplicasForScaleDown) does not.                         *)
FloorRespectedButLeavingPods ==
    [][(Reconcile /\ (OnTheirWayOut = 0 \/ \A v \in Others : rs'[v] = rs[v]))
        => Kept(rs') >= MinValue(Kept(seen.rs), MinAvailable)]_vars

(* The counts are the closest to the weight: of all ways to divide         *)
(* spec.replicas pods, or one more where maxSurge allows it, with a pod on *)
(* each side while the weight is a partial one, none comes closer than the *)
(* one approximateWeightedCanaryStableReplicaCounts finds among its four   *)
(* candidates, whatever weight a step asks for; but for the tie for which  *)
(* it has no candidate.                                                    *)
Divisions(w) ==
    LET partial == w \notin {0, MaxWeight} /\ seen.replicas + Surge > 1
        totals == {seen.replicas} \cup IF Surge > 0 THEN {seen.replicas + 1} ELSE {}
    IN  UNION {[canary : IF partial THEN 1..(t - 1) ELSE 0..t, total : {t}] : t \in totals}

Division(w) == Approximate(seen.replicas, w, MaxWeight, Surge)

NoCandidate(w) == /\ Surge = 0 /\ Division(w).new = 0
                  /\ FloorCeilingTied(w, MaxWeight, seen.replicas)

Closest(w) ==
    LET found == [canary |-> Division(w).new, total |-> Division(w).new + Division(w).stable]
    IN  \/ NoCandidate(w)
        \/ /\ found \in Divisions(w)
           /\ \A d \in Divisions(w) : ~Closer(w, MaxWeight, d, found)

ClosestToWeight ==
    (pc = "read" /\ seen.replicas > 0) => \A w \in 0..MaxWeight : Closest(w)

(* A partial weight has a pod on each side: "If the canary weight is       *)
(* between 1-99, and spec.replicas is > 1, we will always return a minimum *)
(* of 1 for stable and canary" (utils/replicaset/canary.go:212).           *)
OneOfEach ==
    (pc = "read" /\ seen.replicas > 1 /\ DesiredWeight \notin {0, MaxWeight}) =>
        LET division == Division(DesiredWeight) IN division.new >= 1 /\ division.stable >= 1

(* A version gets no pods before its update begins: until the status names *)
(* it, its weight is not that of any step, and the controller is to reset  *)
(* the steps first (PodTemplateOrStepsChanged in rolloutCanary;            *)
(* syncReplicasOnly expects that there is no ReplicaSet of it yet,         *)
(* rollout/sync.go:281).                                                   *)
NoPodsBeforeItsUpdate ==
    [][(Reconcile /\ Separate /\ seen.current # seen.new)
        => rs'[seen.new].replicas <= rs[seen.new].replicas]_vars

(* The counts settle: once the users, the steps and the failures rest, the *)
(* new and the stable version have the pods their weight asks for and no   *)
(* other version has any, whatever the limits are and though pods of some  *)
(* versions never become available; only an update to such a version waits *)
(* short of its weight, until its weight is 0 again, and the first version *)
(* of a Rollout is to have pods that start.  No order of scaling up and    *)
(* down waits for itself (GetReplicasForScaleDown: "a rollout could become *)
(* stuck").                                                                *)
Settled ==
    LET separate == stable # None /\ stable # new
        want == IF separate
                THEN Approximate(replicas, weight, MaxWeight,
                                 MaxSurge(limits.surge, replicas))
                ELSE [new |-> replicas, stable |-> 0]
    IN  /\ current = new
        /\ rs[new].replicas = want.new
        /\ separate => rs[stable].replicas = want.stable
        /\ \A v \in Versions \ {new, stable} : rs[v].replicas = 0

Waits == \/ new \in Broken /\ stable # new /\ weight > 0
         \/ stable \in Broken

Settles == <>[](Settled \/ Waits)

=============================================================================
