---------------------------- MODULE CanaryReplicas ----------------------------
(***************************************************************************)
(* How many pods a canary and a stable version get                         *)
(* (utils/replicaset/canary.go and the limits of replicaset.go): functions *)
(* of the Rollout and of the ReplicaSets as the lister shows them, without *)
(* state.  A ReplicaSet is [replicas, available]: spec.replicas and        *)
(* status.availableReplicas; a ReplicaSet that is nil is NoReplicaSet.     *)
(* Weights and counts are integers, and the comparisons the code makes on  *)
(* floating-point quotients are made exactly.                              *)
(***************************************************************************)
EXTENDS Integers

NoReplicaSet == [replicas |-> 0, available |-> 0, isNil |-> TRUE]

MinValue(a, b) == IF a > b THEN b ELSE a
MaxValue(a, b) == IF a < b THEN b ELSE a
AbsValue(a) == IF a < 0 THEN -a ELSE a
CeilDiv(a, b) == (a + b - 1) \div b

-----------------------------------------------------------------------------
(* maxSurge and maxUnavailable: a number, or a percentage of the replicas. *)

ValueOrPercent(l, total, roundUp) ==
    IF ~l.percent THEN l.value
    ELSE IF roundUp THEN CeilDiv(l.value * total, 100)
                    ELSE (l.value * total) \div 100

MaxSurge(surge, replicas) == ValueOrPercent(surge, replicas, TRUE)

\* resolveFenceposts, and the cut at the number of replicas
MaxUnavailable(surge, unavailable, replicas) ==
    LET down == ValueOrPercent(unavailable, replicas, FALSE)
        both == MaxSurge(surge, replicas) = 0 /\ down = 0
    IN  MinValue(IF both THEN 1 ELSE down, replicas)

-----------------------------------------------------------------------------
(* The counts that come closest to a weight (basic canary).                *)

FloorCeilingTied(weight, max, total) == (2 * total * weight) % (2 * max) = max

\* weightDelta(a) < weightDelta(b), multiplied by both totals
Closer(weight, max, a, b) ==
    AbsValue(a.canary * max - weight * a.total) * b.total
        < AbsValue(b.canary * max - weight * b.total) * a.total

\* Mutant: one more replica is considered though maxSurge does not allow it
Options_AlwaysSurge(replicas, weight, max, surge) ==
    LET ceil == CeilDiv(replicas * weight, max)
        floor == (replicas * weight) \div max
        zeroAllowed == weight \in {0, max} \/ (replicas = 1 /\ surge = 0)
        Option(cond, c, t) == [canary |-> c, total |-> IF cond THEN t ELSE 0]
        FloorAt(t) == ~FloorCeilingTied(weight, max, t) /\ (floor # 0 \/ zeroAllowed)
    IN  <<Option(ceil < replicas \/ zeroAllowed, ceil, replicas),
          Option(FloorAt(replicas), floor, replicas),
          Option(TRUE, ceil, replicas + 1),
          Option(FloorAt(replicas + 1), floor, replicas + 1)>>

\* The values the loop considers, in its order; an absent one is [.. total 0].
Options(replicas, weight, max, surge) ==
    LET ceil == CeilDiv(replicas * weight, max)
        floor == (replicas * weight) \div max
        zeroAllowed == weight \in {0, max} \/ (replicas = 1 /\ surge = 0)
        Option(cond, c, t) == [canary |-> c, total |-> IF cond THEN t ELSE 0]
        FloorAt(t) == ~FloorCeilingTied(weight, max, t) /\ (floor # 0 \/ zeroAllowed)
    IN  <<Option(ceil < replicas \/ zeroAllowed, ceil, replicas),
          Option(FloorAt(replicas), floor, replicas),
          Option(surge > 0, ceil, replicas + 1),
          Option(surge > 0 /\ FloorAt(replicas + 1), floor, replicas + 1)>>

Better(weight, max, best, next) ==
    IF next.total = 0 THEN best
    ELSE IF best.total = 0 \/ Closer(weight, max, next, best) THEN next
    ELSE best

Best(weight, max, o) ==
    Better(weight, max, Better(weight, max, Better(weight, max, o[1], o[2]), o[3]), o[4])

Divided(replicas, best) ==
    IF best.total = 0 THEN [new |-> 0, stable |-> replicas]
    ELSE [new |-> best.canary, stable |-> best.total - best.canary]

\* approximateWeightedCanaryStableReplicaCounts
Approximate(replicas, weight, max, surge) ==
    IF replicas = 0 THEN [new |-> 0, stable |-> 0]
    ELSE Divided(replicas, Best(weight, max, Options(replicas, weight, max, surge)))

-----------------------------------------------------------------------------
(* The next counts of a basic canary, within maxSurge and maxUnavailable.  *)

\* Mutant: pods on their way out still count as available
GetReplicasForScaleDown_CountLeaving(r, ignoreAvailability) ==
    IF ignoreAvailability THEN r.replicas ELSE r.available

\* Mutant: pods that never start stand in the way of a scale-down
GetReplicasForScaleDown_NeverIgnore(r, ignoreAvailability) ==
    MinValue(r.replicas, r.available)

GetReplicasForScaleDown(r, ignoreAvailability) ==
    IF r.replicas < r.available \/ ignoreAvailability THEN r.replicas
                                                      ELSE r.available

\* As much of the way up to the desired count as `room` allows
ScaledUp(count, desired, room) ==
    IF count < desired /\ room > 0 THEN MinValue(desired, count + room) ELSE count

\* Mutant: what may be taken is taken, desired or not
CalculateScaleDownReplicaCount_PastDesired(r, desired, scaleDownCount, count) ==
    IF r.replicas > desired THEN r.replicas - scaleDownCount ELSE count

CalculateScaleDownReplicaCount(r, desired, scaleDownCount, count) ==
    IF r.replicas > desired THEN MaxValue(desired, r.replicas - scaleDownCount)
                            ELSE count

\* [drain, adjust]: the two counts brought back within the limits
AdjustReplicaWithinLimits(drainRS, adjustRS, drain, adjust, maxAllowed, minAvailable) ==
    LET adjust1 == adjust - MaxValue(0, adjust + drain - maxAllowed)
        available == MinValue(drainRS.available, drain)
                     + MinValue(adjustRS.available, adjust1)
        extra == MaxValue(0, adjustRS.available - adjust1)
        adjust2 == adjust1 + MinValue(extra, MaxValue(0, minAvailable - available))
    IN  IF adjustRS = NoReplicaSet THEN [drain |-> drain, adjust |-> adjust]
        ELSE [drain |-> drain - MaxValue(0, adjust2 + drain - maxAllowed),
              adjust |-> adjust2]

\* The scale-up: the stable version first, the canary with the room that is left
ScaleUp(desired, new, count, room, separate) ==
    LET upStable == IF separate THEN ScaledUp(count, desired.stable, room) ELSE 0
    IN  [stable |-> upStable,
         new |-> ScaledUp(new.replicas, desired.new, room - (upStable - count))]

IsIncreasing(desired, new) == desired.new >= new.replicas

\* The version that is being drained counts with the pods requested of it.
ToScaleDown(desired, new, stable) ==
    GetReplicasForScaleDown(new, ~IsIncreasing(desired, new))
    + GetReplicasForScaleDown(stable, IsIncreasing(desired, new))

\* The scale-down, of counts `up` already scaled up, by at most `spare` pods
ScaleDown(desired, new, stable, separate, up, spare, maxAllowed, minAvailable) ==
    LET downNew == CalculateScaleDownReplicaCount(new, desired.new, spare, up.new)
        downStable ==
            CalculateScaleDownReplicaCount(stable, desired.stable, spare, up.stable)
        drainNew == AdjustReplicaWithinLimits(new, stable, downNew, up.stable,
                                              maxAllowed, minAvailable)
        drainStable == AdjustReplicaWithinLimits(stable, new, downStable, up.new,
                                                 maxAllowed, minAvailable)
    IN  IF ~IsIncreasing(desired, new)
        THEN [new |-> drainNew.drain, stable |-> drainNew.adjust]
        ELSE IF separate
        THEN [new |-> drainStable.adjust, stable |-> drainStable.drain]
        ELSE up

\* CalculateReplicaCountsForBasicCanary, for a canary `new` of which `stable`
\* is another version (separate) or not, and `old` replicas of other versions;
\* want is what Approximate returned.
BasicCounts(replicas, surge, unavailable, want, new, stable, separate, old) ==
    LET desired == IF separate THEN want ELSE [new |-> replicas, stable |-> 0]
        count == IF separate THEN stable.replicas ELSE 0
        maxAllowed == replicas + MaxSurge(surge, replicas)
        minAvailable == replicas - MaxUnavailable(surge, unavailable, replicas)
        room == maxAllowed - (new.replicas + count + old)
        up == ScaleUp(desired, new, count, room, separate)
        spare == ToScaleDown(desired, new, stable) - minAvailable
    IN  IF old > 0 \/ spare <= 0 THEN up
        ELSE ScaleDown(desired, new, stable, separate, up, spare,
                       maxAllowed, minAvailable)

-----------------------------------------------------------------------------
(* The counts of a canary whose traffic is routed by weight.               *)

TrafficWeightToReplicas(replicas, weight, max) == CeilDiv(weight * replicas, max)

\* minPods is minPodsPerReplicaSet, 1 when it is not set
CheckMinPodsPerReplicaSet(count, minPods) ==
    IF count = 0 THEN 0 ELSE MaxValue(count, minPods)

=============================================================================
