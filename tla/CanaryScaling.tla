---------------------------- MODULE CanaryScaling ----------------------------
(***************************************************************************)
(* The ReplicaSets of a basic canary (no traffic router) under the         *)
(* reconciles of rollout/canary.go: the pods of every version share the    *)
(* traffic, so the counts are the weights, and maxSurge and maxUnavailable *)
(* are what keeps the service up while they change.                        *)
(*                                                                         *)
(* A reconcile reads the Rollout and its ReplicaSets, computes on what it  *)
(* read, scales one group of ReplicaSets (the stable one, the new one, the *)
(* older ones) and patches the status; pods come, fail and go in between,  *)
(* and users change the template and the number of replicas.  The weight   *)
(* follows the steps, which this module leaves open (module Canary has     *)
(* them): MaxWeight stands for a Rollout that is through with them.        *)
(***************************************************************************)
EXTENDS CanaryReplicas

CONSTANTS
    V1, V2, V3,       \* three pod templates, and the ReplicaSets made of them
    None,             \* no stable version
    Limits,           \* the values of maxSurge and maxUnavailable to explore
    ReplicaCounts,    \* the values of spec.replicas to explore
    MaxWeight,        \* the weight that stands for all of the traffic
    Weights,          \* the weights the steps set
    Broken,           \* the versions whose pods never become available
    MaxEdits,         \* bound: changes of the template and of spec.replicas
    MaxWeightChanges, \* bound: weight changes
    MaxPodFailures    \* bound: pods that become unavailable

Versions == {V1, V2, V3}

ASSUME VersionsAssumption ==
    V1 # V2 /\ V1 # V3 /\ V2 # V3 /\ None \notin Versions
ASSUME LimitsAssumption ==
    \A l \in Limits : /\ l.surge.value \in Nat /\ l.surge.percent \in BOOLEAN
                      /\ l.unavailable.value \in Nat
                      /\ l.unavailable.percent \in BOOLEAN
ASSUME CountsAssumption == ReplicaCounts \subseteq Nat
ASSUME WeightsAssumption == MaxWeight \in Nat \ {0} /\ Weights \subseteq 0..MaxWeight
ASSUME BrokenAssumption == Broken \subseteq Versions \ {V1}
ASSUME BoundsAssumption ==
    MaxEdits \in Nat /\ MaxWeightChanges \in Nat /\ MaxPodFailures \in Nat

VARIABLES
    limits,     \* maxSurge and maxUnavailable
    replicas,   \* spec.replicas
    new,        \* the version of the Rollout's template
    current,    \* status.currentPodHash: the version whose update has begun
    stable,     \* status.stableRS
    weight,     \* GetCurrentSetWeight: 0 when aborted, MaxWeight after the steps
    rs,         \* the ReplicaSets: spec.replicas, status.availableReplicas and
                \* the desired-replicas annotation
    pc,         \* "idle", or "read" once a reconcile has read them
    seen,       \* what it read
    used        \* the part of each bound used so far

vars == <<limits, replicas, new, current, stable, weight, rs, pc, seen, used>>
rollout == <<limits, replicas, new, current, stable, weight>>

ReplicaSet == [replicas : Nat, available : Nat, desired : Nat]

Snapshot == [replicas : Nat, new : Versions, current : Versions \cup {None},
             stable : Versions \cup {None}, weight : 0..MaxWeight,
             rs : [Versions -> ReplicaSet]]

TypeOK ==
    /\ limits \in Limits
    /\ replicas \in Nat
    /\ new \in Versions
    /\ current \in Versions \cup {None}
    /\ stable \in Versions \cup {None}
    /\ weight \in 0..MaxWeight
    /\ rs \in [Versions -> ReplicaSet]
    /\ pc \in {"idle", "read"}
    /\ seen \in Snapshot
    /\ used \in [edits : 0..MaxEdits, weights : 0..MaxWeightChanges,
                 pods : 0..MaxPodFailures]

-----------------------------------------------------------------------------
(* What the reconcile computes from what it read.                          *)

Total(count(_)) == count(V1) + count(V2) + count(V3)

SumReplicas(f, S) ==
    LET Count(v) == IF v \in S THEN f[v].replicas ELSE 0 IN Total(Count)

SumAvailable(f) ==
    LET Count(v) == f[v].available IN Total(Count)

Surge == MaxSurge(limits.surge, seen.replicas)

MinAvailable ==
    seen.replicas - MaxUnavailable(limits.surge, limits.unavailable, seen.replicas)

\* CheckStableRSExists
Separate == seen.stable # None /\ seen.stable # seen.new

Others == Versions \ {seen.new, seen.stable}

\* GetCanaryReplicasOrWeight; it looks at the version of the status, not at the
\* template
DesiredWeight ==
    IF seen.stable = None \/ seen.stable = seen.current THEN MaxWeight
                                                        ELSE seen.weight

\* Mutant: the older ReplicaSets are left out of the total
Counts_WithoutOlder ==
    BasicCounts(seen.replicas, limits.surge, limits.unavailable,
                Approximate(seen.replicas, DesiredWeight, MaxWeight, Surge),
                seen.rs[seen.new],
                IF seen.stable = None THEN NoReplicaSet ELSE seen.rs[seen.stable],
                Separate, 0)

Counts ==
    BasicCounts(seen.replicas, limits.surge, limits.unavailable,
                Approximate(seen.replicas, DesiredWeight, MaxWeight, Surge),
                seen.rs[seen.new],
                IF seen.stable = None THEN NoReplicaSet ELSE seen.rs[seen.stable],
                Separate, SumReplicas(seen.rs, Others))

\* isScalingEvent
IsScalingEvent ==
    \E v \in Versions : seen.rs[v].replicas > 0 /\ seen.rs[v].desired # seen.replicas

-----------------------------------------------------------------------------
(* One reconcile.                                                          *)

Read ==
    /\ pc = "idle"
    /\ pc' = "read"
    /\ seen' = [replicas |-> replicas, new |-> new, current |-> current,
                stable |-> stable, weight |-> weight, rs |-> rs]
    /\ UNCHANGED <<rollout, rs, used>>

\* scaleReplicaSetAndRecordEvent: a conflict of the update is answered with a
\* patch, so that the write prevails.
Scaled(f, v, n) ==
    [f EXCEPT ![v].replicas = n,
              ![v].desired = IF n # seen.rs[v].replicas \/ @ # seen.replicas
                             THEN seen.replicas ELSE @]

\* reconcileCanaryStableReplicaSet, and where its count does not change,
\* reconcileNewReplicaSet
ScaleStable(n) == IF Separate THEN Scaled(rs, seen.stable, n) ELSE rs

Older == {v \in Others : seen.rs[v].replicas > 0}

\* An older ReplicaSet with pods still on their way out ends the scale-down.
Surplus == {v \in Older : seen.rs[v].available > seen.rs[v].replicas}

\* cleanupUnhealthyReplicas: an older ReplicaSet keeps the pods it has
CleanedUp(v) == MinValue(seen.rs[v].replicas, seen.rs[v].available)

\* scaleDownOldReplicaSetsForCanary: as many pods as the available ones allow,
\* those of the younger version (`first`) before those of the other
OlderCount(v, first) ==
    LET spare == SumAvailable(seen.rs) - MinAvailable
        left == IF v = first THEN spare
                ELSE spare - MinValue(CleanedUp(first), spare)
    IN  IF spare <= 0 \/ left <= 0 THEN CleanedUp(v)
        ELSE MaxValue(0, CleanedUp(v) - left)

\* The older ReplicaSets at the counts `count`
ScaleOlder(f, S, count(_)) ==
    [v \in Versions |->
        IF v \in S /\ count(v) # seen.rs[v].replicas THEN Scaled(f, v, count(v))[v]
                                                    ELSE f[v]]

\* reconcileOtherReplicaSets
ReconcileOthers(f) ==
    IF Surplus # {}
    THEN \E cleaned \in SUBSET (Older \ Surplus) : rs' = ScaleOlder(f, cleaned, CleanedUp)
    ELSE \E first \in Versions :
            LET Count(v) == OlderCount(v, first)
            IN  /\ Older # {} => first \in Older
                /\ rs' = ScaleOlder(f, Older, Count)

\* reconcileCanaryReplicaSets: at most one of the three groups changes size
ScaleTo(count) ==
    LET f == ScaleStable(count.stable)
        g == Scaled(f, seen.new, count.new)
    IN  IF Separate /\ count.stable # seen.rs[seen.stable].replicas THEN rs' = f
        ELSE IF count.new # seen.rs[seen.new].replicas THEN rs' = g
        ELSE ReconcileOthers(g)

ReconcileReplicaSets == ScaleTo(Counts)

\* shouldFullPromote
FullyPromoted ==
    \/ seen.stable = None
    \/ /\ seen.weight = MaxWeight
       /\ seen.rs[seen.new].available = seen.replicas

\* syncReplicasOnly: the status keeps its version and its step
SyncReplicasOnly ==
    /\ pc = "read" /\ IsScalingEvent
    /\ ReconcileReplicaSets
    /\ pc' = "idle"
    /\ UNCHANGED <<rollout, seen, used>>

\* rolloutCanary on a new template: the steps start over, or are skipped when
\* the template is that of the stable version
BeginUpdate ==
    /\ pc = "read" /\ ~IsScalingEvent /\ seen.current # seen.new
    /\ current' = seen.new
    /\ weight' = IF seen.new = seen.stable THEN MaxWeight ELSE 0
    /\ pc' = "idle"
    /\ UNCHANGED <<limits, replicas, new, stable, rs, seen, used>>

\* rolloutCanary
RolloutCanary ==
    /\ pc = "read" /\ ~IsScalingEvent /\ seen.current = seen.new
    /\ ReconcileReplicaSets
    /\ stable' = IF FullyPromoted THEN seen.new ELSE stable
    /\ pc' = "idle"
    /\ UNCHANGED <<limits, replicas, new, current, weight, seen, used>>

Reconcile == SyncReplicasOnly \/ BeginUpdate \/ RolloutCanary

-----------------------------------------------------------------------------
(* The steps, the cluster and the users.                                   *)

\* A step sets the weight, the last one is over, an abort sets it to 0
ChangeWeight ==
    /\ stable # None /\ stable # current /\ used.weights < MaxWeightChanges
    /\ \E w \in Weights : w # weight /\ weight' = w
    /\ used' = [used EXCEPT !.weights = @ + 1]
    /\ UNCHANGED <<limits, replicas, new, current, stable, rs, pc, seen>>

\* A new template, or an old one again
SetTemplate ==
    /\ used.edits < MaxEdits
    /\ \E v \in Versions \ {new} : new' = v
    /\ used' = [used EXCEPT !.edits = @ + 1]
    /\ UNCHANGED <<limits, replicas, current, stable, weight, rs, pc, seen>>

ScaleRollout ==
    /\ used.edits < MaxEdits
    /\ \E n \in ReplicaCounts \ {replicas} : replicas' = n
    /\ used' = [used EXCEPT !.edits = @ + 1]
    /\ UNCHANGED <<limits, new, current, stable, weight, rs, pc, seen>>

PodBecomesAvailable(v) ==
    /\ v \notin Broken
    /\ rs[v].available < rs[v].replicas
    /\ rs' = [rs EXCEPT ![v].available = @ + 1]
    /\ UNCHANGED <<rollout, pc, seen, used>>

SurplusPodsDeleted(v) ==
    /\ rs[v].available > rs[v].replicas
    /\ rs' = [rs EXCEPT ![v].available = rs[v].replicas]
    /\ UNCHANGED <<rollout, pc, seen, used>>

PodFails(v) ==
    /\ used.pods < MaxPodFailures
    /\ rs[v].available > 0
    /\ rs' = [rs EXCEPT ![v].available = @ - 1]
    /\ used' = [used EXCEPT !.pods = @ + 1]
    /\ UNCHANGED <<rollout, pc, seen>>

-----------------------------------------------------------------------------
\* A Rollout just created, its first ReplicaSet without pods
Init ==
    /\ limits \in Limits
    /\ replicas \in ReplicaCounts
    /\ new = V1 /\ current = None /\ stable = None
    /\ weight = 0
    /\ rs = [v \in Versions |-> [replicas |-> 0, available |-> 0, desired |-> 0]]
    /\ pc = "idle"
    /\ seen = [replicas |-> replicas, new |-> new, current |-> current,
               stable |-> stable, weight |-> weight, rs |-> rs]
    /\ used = [edits |-> 0, weights |-> 0, pods |-> 0]

Cluster ==
    \E v \in Versions : PodBecomesAvailable(v) \/ SurplusPodsDeleted(v) \/ PodFails(v)

User == SetTemplate \/ ScaleRollout

Next == Read \/ Reconcile \/ ChangeWeight \/ Cluster \/ User

Spec == Init /\ [][Next]_vars

\* The resync brings the Rollout back to the worker, a reconcile that has begun
\* returns (only Reconcile takes pc from "read" to "idle"), and the ReplicaSet
\* controller starts pods and removes the surplus.
Returns == pc = "read" /\ pc' = "idle"

Fairness ==
    /\ WF_vars(Read) /\ WF_pc(Returns)
    /\ \A v \in Versions : /\ WF_vars(PodBecomesAvailable(v))
                           /\ WF_vars(SurplusPodsDeleted(v))

FairSpec == Spec /\ Fairness

=============================================================================
