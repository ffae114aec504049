----------------------------- MODULE CanaryProofs -----------------------------
(***************************************************************************)
(* Proofs about the traffic-routed canary, for every sequence of steps,    *)
(* every number of versions and replicas and every bound.                  *)
(***************************************************************************)
EXTENDS CanaryProperties, NaturalsInduction, WellFoundedInduction, TLAPS

-----------------------------------------------------------------------------
(* Least and greatest elements, and functions defined by recursion.        *)

Below == {p \in Nat \X Nat : p[1] < p[2]}

LEMMA BelowIsWellFounded == IsWellFoundedOn(Below, Nat)
<1>1. OpToRel(<, Nat) = Below
  BY DEF OpToRel, Below
<1> QED
  BY <1>1, NatLessThanWellFounded

(* A set of natural numbers has a least one. *)
LEMMA LeastNatural ==
    ASSUME NEW S \in SUBSET Nat, S # {}
    PROVE  \E n \in S : \A m \in S : n <= m
<1>1. \E n \in S : \A m \in S : ~ (<<m, n>> \in Below)
  BY BelowIsWellFounded, WFMin
<1>2. PICK n \in S : \A m \in S : ~ (<<m, n>> \in Below)
  BY <1>1
<1>3. \A m \in S : m < n => <<m, n>> \in Below
  BY DEF Below
<1>4. \A m \in S : ~ (m < n)
  BY <1>2, <1>3
<1>5. \A m \in S : n <= m
  BY <1>4
<1> QED
  BY <1>5

(* A bounded one has a greatest one. *)
LEMMA GreatestNatural ==
    ASSUME NEW n \in Nat, NEW S \in SUBSET (0..n), S # {}
    PROVE  \E j \in S : \A k \in S : k <= j
<1> DEFINE T == {n - j : j \in S}
<1>1. T \in SUBSET Nat /\ T # {}
  <2>1. \A j \in S : n - j \in Nat
    OBVIOUS
  <2> QED
    BY <2>1
<1>2. \A k \in S : n - k \in T
  OBVIOUS
<1> HIDE DEF T
<1>3. PICK t \in T : \A u \in T : t <= u
  BY <1>1, LeastNatural
<1>4. PICK j \in S : t = n - j
  BY <1>3 DEF T
<1>5. \A k \in S : k <= j
  BY <1>2, <1>3, <1>4
<1> QED
  BY <1>5

\* f is defined by recursion on 0..n
IsRecursive(f, n, base, step) ==
    \A i \in 0..n : f[i] = IF i = 0 THEN base ELSE step[<<f[i - 1], i>>]

(* What a function defined by recursion on 0..n is made of, stays in X. *)
LEMMA RecursionExists ==
    ASSUME NEW n \in Nat, NEW X, NEW base \in X, NEW step \in [X \X (1..n) -> X]
    PROVE  \E f \in [0..n -> X] : IsRecursive(f, n, base, step)
<1> DEFINE Upto(k) == \E f \in [0..k -> X] : \A i \in 0..k :
              f[i] = IF i = 0 THEN base ELSE step[<<f[i - 1], i>>]
           S == {k \in 0..n : ~Upto(k)}
<1>1. Upto(0)
  <2> DEFINE f == [i \in 0..0 |-> base]
  <2>1. f \in [0..0 -> X]
    OBVIOUS
  <2>2. \A i \in 0..0 : f[i] = IF i = 0 THEN base ELSE step[<<f[i - 1], i>>]
    OBVIOUS
  <2> QED
    BY <2>1, <2>2
<1>2. ASSUME NEW k \in 0..n, k + 1 \in 0..n, Upto(k)
      PROVE  Upto(k + 1)
  <2>1. PICK f \in [0..k -> X] : \A i \in 0..k :
              f[i] = IF i = 0 THEN base ELSE step[<<f[i - 1], i>>]
    BY <1>2
  <2> DEFINE last == step[<<f[k], k + 1>>]
             g == [i \in 0..(k + 1) |-> IF i = k + 1 THEN last ELSE f[i]]
  <2>2. f[k] \in X /\ <<f[k], k + 1>> \in X \X (1..n)
    BY <1>2
  <2>3. last \in X
    BY <2>2
  <2>4. g \in [0..(k + 1) -> X]
    <3>1. \A i \in 0..(k + 1) : i = k + 1 \/ i \in 0..k
      OBVIOUS
    <3> QED
      BY <2>3, <3>1
  <2>5. \A i \in 0..(k + 1) :
           g[i] = IF i = 0 THEN base ELSE step[<<g[i - 1], i>>]
    <3> SUFFICES ASSUME NEW i \in 0..(k + 1)
                 PROVE  g[i] = IF i = 0 THEN base ELSE step[<<g[i - 1], i>>]
      OBVIOUS
    <3>1. CASE i = k + 1
      <4>1. i # 0 /\ i - 1 = k /\ k \in 0..(k + 1) /\ k # k + 1
        BY <3>1
      <4>2. g[k] = f[k]
        BY <4>1
      <4> QED
        BY <3>1, <4>1, <4>2
    <3>2. CASE i \in 0..k
      <4>1. i # k + 1 /\ (i # 0 => i - 1 \in 0..(k + 1) /\ i - 1 # k + 1)
        BY <3>2
      <4>2. g[i] = f[i] /\ (i # 0 => g[i - 1] = f[i - 1])
        BY <3>2, <4>1
      <4>3. f[i] = IF i = 0 THEN base ELSE step[<<f[i - 1], i>>]
        BY <2>1, <3>2
      <4> QED
        BY <4>2, <4>3
    <3> QED
      BY <3>1, <3>2
  <2> HIDE DEF g
  <2> QED
    BY <2>4, <2>5
<1> HIDE DEF Upto
<1>3. S = {}
  <2> SUFFICES ASSUME S # {} PROVE FALSE
    OBVIOUS
  <2>1. S \in SUBSET Nat
    OBVIOUS
  <2> HIDE DEF S
  <2>2. PICK k \in S : \A m \in S : k <= m
    BY <2>1, LeastNatural
  <2>3. k \in 0..n /\ ~Upto(k)
    BY <2>2 DEF S
  <2>4. k # 0
    BY <1>1, <2>3
  <2>5. k - 1 \in 0..n /\ (k - 1) + 1 = k /\ ~ (k <= k - 1)
    BY <2>3, <2>4
  <2>6. Upto(k - 1)
    BY <2>2, <2>5 DEF S
  <2> QED
    BY <1>2, <2>3, <2>5, <2>6
<1>4. n \in 0..n
  OBVIOUS
<1>5. Upto(n)
  BY <1>3, <1>4
<1> QED
  BY <1>5 DEF Upto, IsRecursive
-----------------------------------------------------------------------------
(* What the reads of the context return.                                   *)

(* The parts of the context. *)
LEMMA ContextTypes ==
    ASSUME TypeOK
    PROVE  /\ ctx.spec \in Spec_ /\ ctx.status \in Status_
           /\ ctx.rs \in [Hash -> ReplicaSet]
           /\ ctx.run \in [Kind -> Run_] /\ ctx.fresh \in [Kind -> Run_]
           /\ ctx.weights \in Weights /\ ctx.verified \in BOOLEAN
           /\ ctx.named \in [Kind -> {"none", "kept", "created"}]
           /\ ctx.pause \in Pause_
BY DEF TypeOK, Context

(* The parts of the status that was read. *)
LEMMA StatusTypes ==
    ASSUME TypeOK
    PROVE  /\ Stable \in OptHash /\ ctx.status.currentPodHash \in OptHash
           /\ Index \in StepIndex /\ ctx.status.weights \in Weights
           /\ ctx.status.weights.canary \in Nat
           /\ ctx.status.pauses \subseteq PauseReason
           /\ ctx.status.controllerPause \in BOOLEAN /\ ctx.status.abort \in BOOLEAN
           /\ ctx.status.abortedAt \in BOOLEAN /\ ctx.status.promoteFull \in BOOLEAN
           /\ New \in OptHash
BY ContextTypes DEF Status_, Spec_, Stable, Index, New, Weights

LEMMA ReplicaSetTypes ==
    ASSUME TypeOK, NEW h \in Hash
    PROVE  /\ ctx.rs[h] \in ReplicaSet /\ rs[h] \in ReplicaSet
           /\ Available(h) \in Nat /\ ctx.rs[h].replicas \in Nat
           /\ ctx.rs[h].deadline \in {"none", "far", "pending", "expired"}
<1>1. ctx.rs[h] \in ReplicaSet
  BY ContextTypes
<1>2. rs[h] \in ReplicaSet
  BY DEF TypeOK
<1> QED
  BY <1>1, <1>2 DEF Available, ReplicaSet

LEMMA CountsAssumed ==
    /\ StepCount \in Nat /\ StepIndex = 0..(StepCount + 1)
    /\ \A i \in 0..(StepCount - 1) : Steps[i + 1] \in CanaryStep
BY StepsAssumption DEF StepCount, StepIndex

-----------------------------------------------------------------------------
(* Counts and weights.                                                     *)

(* The last step of a kind up to step i is one of them. *)
LEMMA LastOfKind ==
    ASSUME NEW kind, NEW i \in Int, StepsUpTo(kind, i) # {}
    PROVE  /\ Last(StepsUpTo(kind, i)) \in StepsUpTo(kind, i)
           /\ \A k \in StepsUpTo(kind, i) : k <= Last(StepsUpTo(kind, i))
<1> DEFINE S == StepsUpTo(kind, i)
<1>1. S \in SUBSET (0..StepCount)
  BY CountsAssumed DEF StepsUpTo
<1>2. \E j \in S : \A k \in S : k <= j
  BY <1>1, CountsAssumed, GreatestNatural
<1> HIDE DEF S
<1>3. Last(S) \in S /\ \A k \in S : k <= Last(S)
  BY <1>2 DEF Last
<1> QED
  BY <1>3 DEF S

(* The last weight set up to step i is a weight. *)
LEMMA LastSetWeightType ==
    ASSUME NEW i \in Int
    PROVE  LastSetWeight(i) \in 0..MaxWeight
<1> DEFINE S == StepsUpTo("setWeight", i)
<1>1. CASE S = {}
  BY <1>1, ReplicasAssumption DEF LastSetWeight
<1>2. CASE S # {}
  <2> DEFINE j == Last(S)
  <2>1. j \in S
    BY <1>2, LastOfKind
  <2>2. j \in 0..(StepCount - 1) /\ Steps[j + 1].kind = "setWeight"
    BY <2>1, CountsAssumed DEF StepsUpTo
  <2> HIDE DEF j
  <2>3. Steps[j + 1].value \in Nat
    BY <2>2, CountsAssumed DEF CanaryStep
  <2>4. j + 1 \in 1..Len(Steps)
    BY <2>2, StepsAssumption DEF StepCount
  <2>5. Steps[j + 1].value <= MaxWeight
    BY <2>2, <2>4, StepsAssumption
  <2>6. LastSetWeight(i) = Steps[j + 1].value
    BY <1>2 DEF LastSetWeight, j
  <2> QED
    BY <2>3, <2>5, <2>6, ReplicasAssumption
<1> QED
  BY <1>1, <1>2

LEMMA SetWeightType ==
    ASSUME TypeOK
    PROVE  GetCurrentSetWeight \in 0..MaxWeight
<1>1. Index \in Int
  BY StatusTypes, CountsAssumed
<1>2. LastSetWeight(Index) \in 0..MaxWeight
  BY <1>1, LastSetWeightType
<1> QED
  BY <1>2, ReplicasAssumption DEF GetCurrentSetWeight

(* The scale that is set is a field of a step and its value. *)
LEMMA CanaryScaleType ==
    ASSUME TypeOK
    PROVE  UseSetCanaryScale.value \in Nat
<1> DEFINE S == StepsUpTo("setCanaryScale", Index)
           j == Last(S)
<1>1. CASE S = {}
  BY <1>1 DEF UseSetCanaryScale
<1>2. CASE S # {}
  <2>1. Index \in Int
    BY StatusTypes, CountsAssumed
  <2>2. j \in S
    BY <1>2, <2>1, LastOfKind
  <2>3. j \in 0..(StepCount - 1)
    BY <2>2, CountsAssumed DEF StepsUpTo
  <2> HIDE DEF j
  <2>4. Steps[j + 1].value \in Nat
    BY <2>3, CountsAssumed DEF CanaryStep
  <2> QED
    BY <2>4 DEF UseSetCanaryScale, j
<1> QED
  BY <1>1, <1>2

LEMMA WantType ==
    ASSUME TypeOK
    PROVE  /\ GetCanaryReplicasOrWeight.replicas \in Int
           /\ GetCanaryReplicasOrWeight.weight \in Nat
BY CanaryScaleType, SetWeightType, ReplicasAssumption
   DEF GetCanaryReplicasOrWeight, ReplicasOrWeightBy

(* Whatever the weight, no count is negative. *)
LEMMA CountTypes ==
    /\ \A w \in Int : ReplicasFor(w) \in Int
    /\ \A n \in Int : AtLeastMinPods(n) \in Nat
<1>1. ASSUME NEW w \in Int PROVE ReplicasFor(w) \in Int
  <2> DEFINE p == w * Replicas
  <2>1. p \in Int
    BY ReplicasAssumption
  <2> HIDE DEF p
  <2>2. (p + MaxWeight - 1) \div MaxWeight \in Int
    BY <2>1, ReplicasAssumption
  <2> QED
    BY <2>2 DEF ReplicasFor, TrafficWeightToReplicas, CeilDiv, p
<1>2. ASSUME NEW n \in Int PROVE AtLeastMinPods(n) \in Nat
  BY ReplicasAssumption DEF AtLeastMinPods, CheckMinPodsPerReplicaSet, MaxValue
<1> QED
  BY <1>1, <1>2

LEMMA ReplicaCountTypes ==
    ASSUME TypeOK, NEW w \in Weights
    PROVE  ReplicaCounts(w).canary \in Nat /\ ReplicaCounts(w).stable \in Nat
<1> DEFINE want == GetCanaryReplicasOrWeight
<1>1. want.replicas \in Int /\ want.weight \in Nat
  BY WantType
<1> HIDE DEF want
<1>2. w.canary \in Nat
  BY DEF Weights
<1>3. CanaryCount(want) \in Nat
  BY <1>1, CountTypes DEF CanaryCount
<1>4. /\ ReplicasFor(w.canary) \in Int
      /\ ReplicasFor(MaxWeight - want.weight) \in Int
      /\ ReplicasFor(MaxWeight - w.canary) \in Int
  BY <1>1, <1>2, CountTypes, ReplicasAssumption
<1>5. DynamicCounts(want, w).canary \in Nat /\ DynamicCounts(want, w).stable \in Nat
  BY <1>3, <1>4, CountTypes DEF DynamicCounts, MaxValue
<1> QED
  BY <1>3, <1>5, ReplicasAssumption DEF ReplicaCounts, want

(* The share of all traffic that some of the replicas can take is a number. *)
LEMMA SpareType ==
    ASSUME NEW a \in Nat
    PROVE  (MaxWeight * a) \div Replicas \in Nat
<1> DEFINE p == MaxWeight * a
<1>1. p \in Nat
  BY ReplicasAssumption
<1> HIDE DEF p
<1>2. p \div Replicas \in Nat
  BY <1>1, ReplicasAssumption
<1> QED
  BY <1>2 DEF p

LEMMA DesiredWeightType ==
    ASSUME TypeOK, New \in Hash, ctx.status.currentPodHash = New, ~Panics
    PROVE  DesiredWeight(ctx.pause) \in Nat
<1>1. ASSUME Stable \in Hash PROVE ReturnWeight \in Nat
  <2>1. (MaxWeight * Available(Stable)) \div Replicas \in Nat
    BY <1>1, ReplicaSetTypes, SpareType
  <2> QED
    BY <2>1, StatusTypes, ReplicasAssumption DEF ReturnWeight, MaxValue, MinValue
<1>2. ASSUME ~DynamicStableScale PROVE ReturnWeight \in Nat
  BY <1>2 DEF ReturnWeight
<1>3. RollingBack => ReturnWeight \in Nat
  BY <1>1 DEF RollingBack, IsFullyPromoted
<1>4. ~RollingBack /\ ~IsFullyPromoted /\ IsAborted(ctx.pause) => ReturnWeight \in Nat
  BY <1>1, <1>2, StatusTypes DEF Panics, OptHash
<1>5. FullPromotionWeight \in Nat
  <2>1. (MaxWeight * Available(New)) \div Replicas \in Nat
    BY ReplicaSetTypes, SpareType
  <2> QED
    BY <2>1, StatusTypes DEF FullPromotionWeight
<1>6. LastSetWeight(Index - 1) \in Nat /\ GetCurrentSetWeight \in Nat
  <2>1. Index - 1 \in Int
    BY StatusTypes, CountsAssumed
  <2> QED
    BY <2>1, LastSetWeightType, SetWeightType
<1> QED
  BY <1>3, <1>4, <1>5, <1>6, ReplicasAssumption DEF DesiredWeight

-----------------------------------------------------------------------------
(* The plan for old ReplicaSets.                                           *)

(* What the pods of the ReplicaSets that are listed add up to. *)
LEMMA AvailablePodsType ==
    ASSUME TypeOK
    PROVE  AvailablePods[Len(order)] \in Nat
<1> DEFINE n == Len(order)
           step == [p \in Nat \X (1..n) |-> p[1] + Available(order[p[2]])]
<1>1. n \in Nat /\ \A i \in 1..n : order[i] \in Hash
  BY DEF TypeOK
<1> HIDE DEF n
<1>2. \A i \in 1..n : Available(order[i]) \in Nat
  BY <1>1, ReplicaSetTypes
<1>3. step \in [Nat \X (1..n) -> Nat]
  BY <1>2
<1>4. \A m \in Nat, i \in 1..n : step[<<m, i>>] = m + Available(order[i])
  BY <1>3
<1> HIDE DEF step
<1>5. PICK f \in [0..n -> Nat] : IsRecursive(f, n, 0, step)
  BY <1>1, <1>3, RecursionExists
<1>6. \A i \in 0..n : i # 0 => i - 1 \in 0..n /\ i \in 1..n
  BY <1>1
<1>7. f = [i \in 0..n |-> IF i = 0 THEN 0 ELSE f[i - 1] + Available(order[i])]
  BY <1>4, <1>5, <1>6 DEF IsRecursive
<1>8. AvailablePods =
        [i \in 0..n |-> IF i = 0 THEN 0 ELSE AvailablePods[i - 1] + Available(order[i])]
  BY <1>7 DEF AvailablePods, n
<1>9. \A i \in 0..n : AvailablePods[i] =
        IF i = 0 THEN 0 ELSE AvailablePods[i - 1] + Available(order[i])
  BY <1>8
<1> DEFINE S == {k \in 0..n : AvailablePods[k] \notin Nat}
<1>10. SUFFICES ASSUME S # {} PROVE FALSE
  BY <1>1 DEF n
<1>11. S \in SUBSET Nat
  OBVIOUS
<1>12. PICK k \in S : \A m \in S : k <= m
  BY <1>10, <1>11, LeastNatural
<1>13. k # 0
  BY <1>9, <1>12
<1>14. k - 1 \in 0..n /\ k \in 1..n /\ k - 1 \notin S
  BY <1>1, <1>12, <1>13
<1>15. AvailablePods[k - 1] \in Nat /\ AvailablePods[k] = AvailablePods[k - 1] + Available(order[k])
  BY <1>9, <1>13, <1>14
<1> QED
  BY <1>2, <1>12, <1>14, <1>15

\* The plans: a ReplicaSet that a Service or the status refers to keeps the
\* pods that are available, and so does one that is not old.
Plans == {s \in [spare : Int, marked : Nat, annotate : SUBSET Hash, count : [Hash -> Nat]] :
             /\ \A h \in Hash : s.count[h] \in {0, Available(h)}
             /\ \A h \in Hash : IsReferenced(h) \/ h \notin OldReplicaSets =>
                   s.count[h] = Available(h) /\ h \notin s.annotate}

(* One ReplicaSet more is planned for. *)
LEMMA PlanGrows ==
    ASSUME TypeOK, NEW s \in Plans, NEW h \in Hash, ~IsReferenced(h), h \in OldReplicaSets
    PROVE  LET t == ScaledDownOld(s, h)
           IN  [t EXCEPT !.spare = @ - (Available(h) - t.count[h])] \in Plans
<1>1. /\ s.spare \in Int /\ s.marked \in Nat /\ s.annotate \in SUBSET Hash
      /\ s.count \in [Hash -> Nat]
      /\ s = [spare |-> s.spare, marked |-> s.marked, annotate |-> s.annotate,
              count |-> s.count]
  BY DEF Plans
<1>2. Available(h) \in Nat
  BY ReplicaSetTypes
<1> DEFINE t == ScaledDownOld(s, h)
<1>3. /\ t.spare \in Int /\ t.marked \in Nat
      /\ t = [spare |-> t.spare, marked |-> t.marked, annotate |-> t.annotate,
              count |-> t.count]
  <2> DEFINE Shaped(x) == /\ x.spare \in Int /\ x.marked \in Nat
                         /\ x = [spare |-> x.spare, marked |-> x.marked,
                                 annotate |-> x.annotate, count |-> x.count]
             none == [s EXCEPT !.count[h] = 0]
             keep == [s EXCEPT !.count[h] = Available(h), !.marked = @ + 1]
  <2>1. Shaped(none) /\ Shaped(keep)
    <3>1. none = [spare |-> s.spare, marked |-> s.marked, annotate |-> s.annotate,
                  count |-> [s.count EXCEPT ![h] = 0]]
      BY <1>1
    <3> HIDE DEF none
    <3>2. keep = [spare |-> s.spare, marked |-> s.marked + 1, annotate |-> s.annotate,
                  count |-> [s.count EXCEPT ![h] = Available(h)]]
      <4> DEFINE kept == [s EXCEPT !.count[h] = Available(h)]
                 c == [s.count EXCEPT ![h] = Available(h)]
      <4>1. kept = [spare |-> s.spare, marked |-> s.marked, annotate |-> s.annotate,
                    count |-> c]
        BY <1>1
      <4>2. keep = [kept EXCEPT !.marked = @ + 1]
        OBVIOUS
      <4> HIDE DEF kept, keep, c
      <4>3. keep = [spare |-> s.spare, marked |-> s.marked + 1,
                    annotate |-> s.annotate, count |-> c]
        BY <4>1, <4>2
      <4> QED
        BY <4>3 DEF c
    <3> QED
      BY <1>1, <3>1, <3>2
  <2>2. none.marked = s.marked
    BY <1>1
  <2> HIDE DEF none, keep
  <2>3. Shaped([none EXCEPT !.marked = @ + 1])
    BY <1>1, <2>1, <2>2
  <2>4. Shaped([keep EXCEPT !.annotate = @ \cup {h}])
    <3> DEFINE e == keep.annotate \cup {h}
    <3>1. [keep EXCEPT !.annotate = @ \cup {h}] =
             [spare |-> keep.spare, marked |-> keep.marked, annotate |-> e,
              count |-> keep.count]
      BY <2>1
    <3> HIDE DEF e
    <3> QED
      BY <2>1, <3>1
  <2>5. t \in {none, keep, [none EXCEPT !.marked = @ + 1],
               [keep EXCEPT !.annotate = @ \cup {h}]}
    BY DEF ScaledDownOld, none, keep
  <2> QED
    BY <2>1, <2>3, <2>4, <2>5
<1>4. /\ t.annotate \in SUBSET Hash
      /\ \A g \in Hash : g # h => (g \in t.annotate <=> g \in s.annotate)
  BY <1>1 DEF ScaledDownOld
<1>5. /\ t.count \in [Hash -> Nat]
      /\ t.count[h] \in {0, Available(h)}
      /\ \A g \in Hash : g # h => t.count[g] = s.count[g]
  BY <1>1, <1>2 DEF ScaledDownOld
<1> HIDE DEF t
<1> DEFINE u == [t EXCEPT !.spare = @ - (Available(h) - t.count[h])]
<1>6. Available(h) - t.count[h] \in Int
  BY <1>2, <1>5
<1>7. u = [spare |-> t.spare - (Available(h) - t.count[h]), marked |-> t.marked,
           annotate |-> t.annotate, count |-> t.count]
  BY <1>3
<1>8. u \in [spare : Int, marked : Nat, annotate : SUBSET Hash, count : [Hash -> Nat]]
  BY <1>3, <1>4, <1>5, <1>6, <1>7
<1>9. \A g \in Hash : u.count[g] = t.count[g] /\ (g \in u.annotate <=> g \in t.annotate)
  BY <1>7
<1> HIDE DEF u
<1>10. /\ \A g \in Hash : s.count[g] \in {0, Available(g)}
       /\ \A g \in Hash : IsReferenced(g) \/ g \notin OldReplicaSets =>
             s.count[g] = Available(g) /\ g \notin s.annotate
  BY DEF Plans
<1>11. \A g \in Hash : u.count[g] \in {0, Available(g)}
  BY <1>5, <1>9, <1>10
<1>12. \A g \in Hash : IsReferenced(g) \/ g \notin OldReplicaSets => g # h
  OBVIOUS
<1>13. \A g \in Hash : IsReferenced(g) \/ g \notin OldReplicaSets =>
           u.count[g] = Available(g) /\ g \notin u.annotate
  BY <1>4, <1>5, <1>9, <1>10, <1>12
<1>14. u \in Plans
  BY <1>8, <1>11, <1>13 DEF Plans
<1> QED
  BY <1>14 DEF t, u

(* The plan is one of them. *)
LEMMA OldPlanType ==
    ASSUME TypeOK
    PROVE  OldPlan[Len(order)] \in Plans
<1> DEFINE n == Len(order)
           At(i) == order[n + 1 - i]
           Grown(s, h) == LET t == ScaledDownOld(s, h)
                          IN  [t EXCEPT !.spare = @ - (Available(h) - t.count[h])]
           Step(s, i) == IF \/ At(i) \notin OldReplicaSets \/ IsReferenced(At(i))
                            \/ s.spare <= 0 \/ Available(At(i)) = 0
                         THEN s ELSE Grown(s, At(i))
           base == [spare |-> AvailablePods[n] - (Replicas - MaxDown), marked |-> 0,
                    annotate |-> {}, count |-> [h \in Hash |-> Available(h)]]
           step == [p \in Plans \X (1..n) |-> Step(p[1], p[2])]
<1>1. n \in Nat /\ \A i \in 1..n : At(i) \in Hash
  <2>1. n \in Nat /\ \A i \in 1..n : order[i] \in Hash
    BY DEF TypeOK
  <2>2. \A i \in 1..n : n + 1 - i \in 1..n
    BY <2>1
  <2> QED
    BY <2>1, <2>2
<1>2. base \in Plans
  <2>1. AvailablePods[n] - (Replicas - MaxDown) \in Int
    BY AvailablePodsType, ReplicasAssumption
  <2>2. [h \in Hash |-> Available(h)] \in [Hash -> Nat]
    BY ReplicaSetTypes
  <2> QED
    BY <2>1, <2>2 DEF Plans
<1>3. \A s \in Plans, i \in 1..n : Step(s, i) \in Plans
  BY <1>1, PlanGrows
<1> HIDE DEF n, At, Grown, base
<1>4. step \in [Plans \X (1..n) -> Plans]
  BY <1>3
<1>5. \A s \in Plans, i \in 1..n : step[<<s, i>>] = Step(s, i)
  BY <1>4
<1> HIDE DEF step, Step
<1>6. PICK f \in [0..n -> Plans] : IsRecursive(f, n, base, step)
  BY <1>1, <1>2, <1>4, RecursionExists
<1>7. \A i \in 0..n : i # 0 => i - 1 \in 0..n /\ i \in 1..n
  BY <1>1
<1>8. f = [i \in 0..n |-> IF i = 0 THEN base ELSE Step(f[i - 1], i)]
  BY <1>5, <1>6, <1>7 DEF IsRecursive
<1>9. OldPlan = [i \in 0..n |-> IF i = 0 THEN base ELSE Step(OldPlan[i - 1], i)]
  BY <1>8, Zenon DEF OldPlan, Step, At, Grown, base, n
<1>10. \A i \in 0..n : OldPlan[i] = IF i = 0 THEN base ELSE Step(OldPlan[i - 1], i)
  BY <1>9
<1> DEFINE S == {k \in 0..n : OldPlan[k] \notin Plans}
<1>11. SUFFICES ASSUME S # {} PROVE FALSE
  BY <1>1 DEF n
<1>12. S \in SUBSET Nat
  OBVIOUS
<1>13. PICK k \in S : \A m \in S : k <= m
  BY <1>11, <1>12, LeastNatural
<1>14. k # 0
  BY <1>2, <1>10, <1>13
<1>15. k - 1 \in 0..n /\ k \in 1..n /\ k - 1 \notin S
  BY <1>1, <1>13, <1>14
<1>16. OldPlan[k - 1] \in Plans /\ OldPlan[k] = Step(OldPlan[k - 1], k)
  BY <1>10, <1>14, <1>15
<1> QED
  BY <1>3, <1>13, <1>15, <1>16 DEF Step

-----------------------------------------------------------------------------
(* What the writes of a reconcile are made of.                             *)

LEMMA ScaledType ==
    ASSUME TypeOK, NEW h \in Hash, NEW n \in Nat, NEW C
    PROVE  Scaled(h, n, h \in C) \in ReplicaSet
BY ReplicaSetTypes DEF Scaled, ReplicaSet

LEMMA AnnotatedType ==
    ASSUME NEW r \in ReplicaSet, NEW long \in BOOLEAN
    PROVE  Annotated(r, long) \in ReplicaSet
BY DEF Annotated, ReplicaSet

LEMMA OldScaledType ==
    ASSUME TypeOK, NEW h \in Hash, NEW C
    PROVE  OldScaled(OldPlan[Len(order)], h, h \in C) \in ReplicaSet
<1>1. OldPlan[Len(order)].count[h] \in Nat
  BY OldPlanType DEF Plans
<1>2. Scaled(h, OldPlan[Len(order)].count[h], h \in C) \in ReplicaSet
  BY <1>1, ScaledType
<1> QED
  BY <1>2, AnnotatedType DEF OldScaled

LEMMA PauseStatusType ==
    ASSUME TypeOK, NEW p \in Pause_
    PROVE  PauseStatus(p) \in [pauses : SUBSET PauseReason, controllerPause : BOOLEAN,
                               abort : BOOLEAN, abortedAt : BOOLEAN]
<1>1. p.add \subseteq PauseReason
  BY DEF Pause_
<1> QED
  BY <1>1, StatusTypes DEF PauseStatus

\* What may become of the runs of a kind
RunPlan == [run : Run_, fresh : Run_, seen : Run_,
            named : {"none", "kept", "created"}, acts : BOOLEAN]

LEMMA NoRunType == NoRun \in Run_
BY CountsAssumed DEF NoRun, Run_, OptHash, Outcome

LEMMA CancelledType ==
    ASSUME NEW r \in Run_
    PROVE  Cancelled(r) \in Run_
BY DEF Cancelled, Run_

LEMMA RunPlanType ==
    ASSUME TypeOK, NEW k \in Kind, NEW index \in StepIndex
    PROVE  /\ Keep(k) \in RunPlan /\ Drop(k) \in RunPlan /\ Cancel(k) \in RunPlan
           /\ Start(k, index) \in RunPlan /\ Watch(k) \in RunPlan
<1>1. run[k] \in Run_ /\ fresh[k] \in Run_ /\ ctx.run[k] \in Run_
  BY ContextTypes DEF TypeOK
<1>2. Cancelled(run[k]) \in Run_ /\ Cancelled(fresh[k]) \in Run_
  BY <1>1, CancelledType
<1>3. Keep(k) \in RunPlan
  BY <1>1, <1>2 DEF Keep, RunPlan
<1>4. Drop(k) \in RunPlan /\ Cancel(k) \in RunPlan /\ Watch(k) \in RunPlan
  BY <1>2, <1>3 DEF Drop, Cancel, Watch, RunPlan
<1>5. [hash |-> New, index |-> index, phase |-> "Running", terminate |-> FALSE] \in Run_
  BY StatusTypes DEF Run_
<1>6. Started(k, index) \in Run_
  BY <1>1, <1>5 DEF Started
<1>7. Start(k, index) \in RunPlan
  BY <1>1, <1>3, <1>6 DEF Start, RunPlan
<1> QED
  BY <1>3, <1>4, <1>7

LEMMA ReconcileExperimentsType ==
    ASSUME TypeOK
    PROVE  ReconcileExperiments \in RunPlan
<1>1. "experiment" \in Kind /\ fresh["experiment"] \in Run_
  BY DEF Kind, TypeOK
<1>2. /\ Keep("experiment") \in RunPlan /\ Drop("experiment") \in RunPlan
      /\ Cancel("experiment") \in RunPlan /\ Watch("experiment") \in RunPlan
      /\ Start("experiment", Index) \in RunPlan
  BY <1>1, StatusTypes, RunPlanType
<1>3. [Drop("experiment") EXCEPT !.fresh = fresh["experiment"]] \in RunPlan
  BY <1>1, <1>2 DEF RunPlan
<1>4. [Watch("experiment") EXCEPT !.named = "none"] \in RunPlan
  BY <1>2 DEF RunPlan
<1> QED
  BY <1>2, <1>3, <1>4 DEF ReconcileExperiments

LEMMA ReconcileAnalysesType ==
    ASSUME TypeOK
    PROVE  ReconcileStepRun \in RunPlan /\ ReconcileBackgroundRun \in RunPlan
<1>1. "step" \in Kind /\ "background" \in Kind /\ Index \in StepIndex /\ 0 \in StepIndex
  BY StatusTypes, CountsAssumed DEF Kind
<1>2. /\ Keep("step") \in RunPlan /\ Cancel("step") \in RunPlan
      /\ Start("step", Index) \in RunPlan /\ Watch("step") \in RunPlan
  BY <1>1, RunPlanType
<1>3. /\ Keep("background") \in RunPlan /\ Drop("background") \in RunPlan
      /\ Cancel("background") \in RunPlan /\ Start("background", 0) \in RunPlan
      /\ Watch("background") \in RunPlan
  BY <1>1, RunPlanType
<1> QED
  BY <1>2, <1>3 DEF ReconcileStepRun, ReconcileBackgroundRun

-----------------------------------------------------------------------------
(* The new status.                                                         *)

LEMMA DecisionTypes ==
    ASSUME TypeOK
    PROVE  /\ DecidedPause(ctx.pause) \in Pause_ /\ Dropped \in Pause_
           /\ Decided \in Pause_
           /\ Changed \in BOOLEAN /\ Promotes \in BOOLEAN /\ Completes \in BOOLEAN
<1>1. ctx.pause \in Pause_
  BY ContextTypes
<1>2. DecidedPause(ctx.pause) \in Pause_
  BY <1>1 DEF DecidedPause, Pause_, PauseReason
<1>3. Changed \in BOOLEAN /\ Promotes \in BOOLEAN /\ Completes \in BOOLEAN
  BY DEF Changed, Promotes, Completes
<1>4. Dropped \in Pause_
  <2>1. Changed \/ ctx.status.promoteFull \in BOOLEAN
    BY <1>3, StatusTypes
  <2> QED
    BY <1>2, <1>3, <2>1, StatusTypes DEF Dropped, Pause_
<1>5. Decided \in Pause_
  BY <1>3, <1>4 DEF Decided, Pause_
<1> QED
  BY <1>2, <1>3, <1>4, <1>5

LEMMA NextStepIndexType ==
    ASSUME TypeOK
    PROVE  NextStepIndex \in StepIndex
<1>1. Completes => Index < StepCount
  BY DEF Completes, CompletedCurrentCanaryStep, HasStep
<1>2. Index \in 0..(StepCount + 1) /\ StepCount \in Nat /\ StepIndex = 0..(StepCount + 1)
  BY StatusTypes, CountsAssumed
<1> DEFINE from == IF ctx.status.promoteFull THEN StepCount ELSE Index
           by == IF Completes THEN 1 ELSE 0
<1>3. NextStepIndex \in {0, StepCount, from + by}
  BY DEF NextStepIndex
<1>4. from + by \in 0..(StepCount + 1)
  BY <1>1, <1>2
<1> HIDE DEF from, by
<1> QED
  BY <1>2, <1>3, <1>4

LEMMA NewStatusType ==
    ASSUME TypeOK
    PROVE  NewStatus \in Status_
<1> DEFINE pause == PauseStatus(Decided)
<1>1. /\ pause.pauses \in SUBSET PauseReason /\ pause.controllerPause \in BOOLEAN
      /\ pause.abort \in BOOLEAN /\ pause.abortedAt \in BOOLEAN
  BY DecisionTypes, PauseStatusType
<1> HIDE DEF pause
<1>2. (ctx.status.promoteFull /\ ~Changed /\ ~Promotes) \in BOOLEAN
  BY DecisionTypes, StatusTypes
<1>3. (StillNamed("step") /\ ctx.run["step"].phase = "Inconclusive") \in BOOLEAN
  BY DEF StillNamed
<1>4. (IF Promotes THEN New ELSE Stable) \in OptHash /\ New \in OptHash
  BY StatusTypes
<1>5. ctx.weights \in Weights
  BY ContextTypes
<1>6. NewStatus =
        [stableRS |-> IF Promotes THEN New ELSE Stable, currentPodHash |-> New,
         stepIndex |-> NextStepIndex, weights |-> ctx.weights,
         pauses |-> pause.pauses, controllerPause |-> pause.controllerPause,
         abort |-> pause.abort, abortedAt |-> pause.abortedAt,
         promoteFull |-> ctx.status.promoteFull /\ ~Changed /\ ~Promotes,
         inconclusive |-> StillNamed("step") /\ ctx.run["step"].phase = "Inconclusive"]
  BY DEF NewStatus, pause
<1> QED
  BY <1>1, <1>2, <1>3, <1>4, <1>5, <1>6, NextStepIndexType DEF Status_

LEMMA MergedType ==
    ASSUME NEW a \in Status_, NEW b \in Status_, NEW c \in Status_
    PROVE  Merged(a, b, c) \in Status_
BY DEF Merged, Patched, Status_

-----------------------------------------------------------------------------
(* Type correctness, one action after another.                             *)

LEMMA NewestType ==
    ASSUME NEW seq \in Seq(Hash), NEW h \in Hash
    PROVE  Newest(seq, h) \in Seq(Hash)
<1>1. CASE \A i \in 1..Len(seq) : seq[i] # h
  BY <1>1 DEF Newest
<1>2. CASE ~ \A i \in 1..Len(seq) : seq[i] # h
  <2> DEFINE n == Len(seq)
             at == CHOOSE i \in 1..n : seq[i] = h
             new == [i \in 1..n |-> IF i < at THEN seq[i]
                                    ELSE IF i < n THEN seq[i + 1] ELSE h]
  <2>1. n \in Nat /\ \A i \in 1..n : seq[i] \in Hash
    OBVIOUS
  <2>2. \A i \in 1..n : i < n => i + 1 \in 1..n
    BY <2>1
  <2>3. Newest(seq, h) = new
    BY <1>2 DEF Newest
  <2> HIDE DEF n, at
  <2>4. new \in [1..n -> Hash]
    BY <2>1, <2>2
  <2> QED
    BY <2>1, <2>3, <2>4
<1> QED
  BY <1>1, <1>2

LEMMA NoContextType == NoContext \in Context
<1>1. NoRun \in Run_
  BY NoRunType
<1>2. NoStatus \in Status_ /\ NoWeights \in Weights
  BY CountsAssumed DEF NoStatus, Status_, NoWeights, Weights, OptHash
<1>3. NewReplicaSet \in ReplicaSet
  BY DEF NewReplicaSet, ReplicaSet
<1>4. NoPause \in Pause_
  BY DEF NoPause, Pause_
<1>5. [template |-> None, paused |-> FALSE] \in Spec_
  BY DEF Spec_, OptHash
<1> QED
  BY <1>1, <1>2, <1>3, <1>4, <1>5 DEF NoContext, Context

(* The first snapshot is empty, and so is the status. *)
LEMMA InitTypes == Init => TypeOK
<1> SUFFICES ASSUME Init PROVE TypeOK
  OBVIOUS
<1>1. NoStatus \in Status_ /\ NoRun \in Run_ /\ ctx \in Context
  BY NoContextType, NoRunType DEF NoContext, Context, Init
<1>2. rs \in [Hash -> ReplicaSet]
  BY DEF Init, NewReplicaSet, ReplicaSet
<1>3. used \in [edits : 0..MaxEdits, pods : 0..MaxPodFailures, errors : 0..MaxErrors]
  BY BoundsAssumption DEF Init
<1>4. spec \in Spec_ /\ svc \in [stable : OptHash, canary : OptHash]
  BY DEF Init, Spec_, OptHash
<1>5. run \in [Kind -> Run_] /\ fresh \in [Kind -> Run_]
  BY <1>1 DEF Init
<1>6. status \in Status_ /\ order \in Seq(Hash) /\ route \in Nat /\ elapsed \in BOOLEAN
  <2>1. status \in Status_ /\ route \in Nat
    BY <1>1 DEF Init
  <2>2. order \in Seq(Hash)
    BY DEF Init
  <2>3. elapsed \in BOOLEAN
    BY DEF Init
  <2> QED
    BY <2>1, <2>2, <2>3
<1>7. /\ pc \in Stages \cup {"idle"} /\ passed \subseteq StepIndex
      /\ excused \in [steps : SUBSET StepIndex, recent : SUBSET StepIndex]
  BY DEF Init
<1> QED
  BY <1>1, <1>2, <1>3, <1>4, <1>5, <1>6, <1>7 DEF TypeOK

LEMMA StartSyncTypes ==
    ASSUME TypeOK, spec.template \in Hash, StartSync
    PROVE  TypeOK'
<1>1. order' \in Seq(Hash)
  BY NewestType DEF StartSync, TypeOK
<1>2. rs' \in [Hash -> ReplicaSet]
  BY DEF StartSync, TypeOK, ReplicaSet
<1> DEFINE drop == status.stableRS = status.currentPodHash /\ status.abort
<1>3. drop \in BOOLEAN
  BY DEF TypeOK, Status_
<1>4. ctx' = [spec |-> spec, status |-> status, rs |-> rs', run |-> run, fresh |-> fresh,
              weights |-> status.weights, verified |-> TRUE,
              named |-> [k \in Kind |-> "none"],
              pause |-> [NoPause EXCEPT !.removeAbort = drop]]
  BY DEF StartSync, NoContext
<1>5. [NoPause EXCEPT !.removeAbort = drop] \in Pause_
  BY <1>3 DEF NoPause, Pause_
<1> HIDE DEF drop
<1>6. ctx' \in Context
  <2>1. status.weights \in Weights
    BY DEF TypeOK, Status_
  <2> QED
    BY <1>2, <1>4, <1>5, <2>1 DEF Context, TypeOK
<1>7. excused' \in [steps : SUBSET StepIndex, recent : SUBSET StepIndex]
  BY DEF StartSync, TypeOK
<1>8. pc' \in Stages
  BY DEF StartSync, Stages
<1> QED
  BY <1>1, <1>2, <1>6, <1>7, <1>8 DEF StartSync, TypeOK

LEMMA ReconcileServicesTypes ==
    ASSUME TypeOK, SnapshotHeld, ReconcileServices
    PROVE  TypeOK'
<1>1. svc' \in [stable : OptHash, canary : OptHash]
  BY StatusTypes DEF ReconcileServices, TypeOK
<1>2. pc' \in Stages
  BY DEF ReconcileServices, Stages
<1> QED
  BY <1>1, <1>2 DEF ReconcileServices, TypeOK, history

\* The context when only its weights and their verification change
LEMMA VerifiedType ==
    ASSUME NEW c \in Context, NEW w \in Weights, NEW b \in BOOLEAN
    PROVE  [c EXCEPT !.weights = w, !.verified = b] \in Context
BY DEF Context

LEMMA ReconcileTrafficRoutingTypes ==
    ASSUME TypeOK, SnapshotHeld, ReconcileTrafficRouting
    PROVE  TypeOK'
<1>1. New \in Hash /\ ctx.status.currentPodHash = New /\ ~Panics
  BY DEF SnapshotHeld, ReconcileTrafficRouting, New
<1>2. DesiredWeight(ctx.pause) \in Nat
  BY <1>1, DesiredWeightType
<1>3. svc' \in [stable : OptHash, canary : OptHash]
  BY StatusTypes DEF ReconcileTrafficRouting, TypeOK
<1> DEFINE w == [canary |-> DesiredWeight(ctx.pause),
                 canaryHash |-> IF RollingBack THEN ctx.status.weights.canaryHash ELSE New,
                 stableHash |-> Stable]
<1>4. w \in Weights
  BY <1>2, StatusTypes DEF Weights
<1> HIDE DEF w
<1>5. \/ ctx' = NoContext
      \/ \E b \in BOOLEAN : ctx' = [ctx EXCEPT !.weights = w, !.verified = b]
  BY DEF ReconcileTrafficRouting, w
<1>6. ctx \in Context
  BY DEF TypeOK
<1>7. ctx' \in Context
  BY <1>4, <1>5, <1>6, VerifiedType, NoContextType
<1>8. pc' \in Stages \cup {"idle"} /\ route' \in Nat
  BY <1>2 DEF ReconcileTrafficRouting, Stages
<1> QED
  BY <1>3, <1>7, <1>8 DEF ReconcileTrafficRouting, TypeOK, history

LEMMA ReconcilePanicsTypes ==
    ASSUME TypeOK, ReconcilePanics
    PROVE  TypeOK'
BY NoContextType DEF ReconcilePanics, TypeOK, objects, history

LEMMA ReconcileRunsTypes ==
    ASSUME TypeOK, ReconcileRuns
    PROVE  TypeOK'
<1> DEFINE ex == ReconcileExperiments
           exEnds == ex.acts /\ ctx.run["experiment"].phase = "Failed"
           exPauses == ex.acts /\ ctx.run["experiment"].phase = "Inconclusive"
           skip == SkipAnalysis([ctx.pause EXCEPT !.addAbort = @ \/ exEnds])
           Skipped(k) == [Keep(k) EXCEPT !.run = Cancelled(run[k])]
           plan == [k \in Kind |-> IF k = "experiment" THEN ex
                                   ELSE IF skip THEN Skipped(k)
                                   ELSE IF k = "step" THEN ReconcileStepRun
                                   ELSE ReconcileBackgroundRun]
           phases == {ctx.run[k].phase : k \in {j \in Kind \ {"experiment"} : plan[j].acts}}
           add == (IF exPauses THEN {"InconclusiveExperiment"} ELSE {})
                   \cup (IF "Inconclusive" \in phases THEN {"InconclusiveAnalysisRun"} ELSE {})
<1>1. \A k \in Kind : Skipped(k) \in RunPlan
  <2> TAKE k \in Kind
  <2>1. 0 \in StepIndex
    BY CountsAssumed
  <2>2. Keep(k) \in RunPlan
    BY <2>1, RunPlanType
  <2>3. Cancelled(run[k]) \in Run_
    BY CancelledType DEF TypeOK
  <2> QED
    BY <2>2, <2>3 DEF RunPlan
<1> HIDE DEF Skipped, skip
<1>2. plan \in [Kind -> RunPlan]
  BY <1>1, ReconcileExperimentsType, ReconcileAnalysesType
<1>3. exEnds \in BOOLEAN /\ add \subseteq PauseReason
  BY ReconcileExperimentsType DEF RunPlan, PauseReason
<1>4. /\ run' = [k \in Kind |-> plan[k].run]
      /\ fresh' = [k \in Kind |-> plan[k].fresh]
      /\ ctx' = [ctx EXCEPT !.run = [k \in Kind |-> plan[k].seen],
                            !.named = [k \in Kind |-> plan[k].named],
                            !.pause.add = add,
                            !.pause.addAbort = exEnds \/ "Failed" \in phases]
      /\ pc' \in Stages
  BY Zenon DEF ReconcileRuns, Stages, skip, Skipped
<1> HIDE DEF plan, exEnds, phases, add
<1>5. \A k \in Kind : plan[k].run \in Run_ /\ plan[k].fresh \in Run_ /\ plan[k].seen \in Run_
                      /\ plan[k].named \in {"none", "kept", "created"}
  BY <1>2 DEF RunPlan
<1> DEFINE runs == [k \in Kind |-> plan[k].seen]
           names == [k \in Kind |-> plan[k].named]
           ends == exEnds \/ "Failed" \in phases
<1>6. run' \in [Kind -> Run_] /\ fresh' \in [Kind -> Run_]
  BY <1>4, <1>5
<1>7. runs \in [Kind -> Run_] /\ names \in [Kind -> {"none", "kept", "created"}]
  BY <1>5
<1>8. ends \in BOOLEAN
  BY <1>3
<1> HIDE DEF runs, names, ends
<1>9. ctx' = [ctx EXCEPT !.run = runs, !.named = names, !.pause.add = add,
                         !.pause.addAbort = ends]
  BY <1>4 DEF runs, names, ends
<1>10. ctx' \in Context
  BY <1>3, <1>7, <1>8, <1>9 DEF TypeOK, Context, Pause_
<1> QED
  BY <1>4, <1>6, <1>10 DEF ReconcileRuns, TypeOK, history

\* A write to ReplicaSets, of a reconcile that goes on
ReplicaSetStep ==
    /\ rs' \in [Hash -> ReplicaSet]
    /\ pc' \in Stages
    /\ used' \in [edits : 0..MaxEdits, pods : 0..MaxPodFailures, errors : 0..MaxErrors]
    /\ UNCHANGED <<spec, status, order, svc, route, run, fresh, elapsed, ctx,
                   passed, excused>>

LEMMA ReplicaSetStepTypes ==
    ASSUME TypeOK, ReplicaSetStep
    PROVE  TypeOK'
BY DEF ReplicaSetStep, TypeOK

(* Every action of reconcileCanaryReplicaSets is one. *)
LEMMA ReconcileReplicaSets ==
    ASSUME TypeOK, SnapshotHeld,
           \/ RemoveScaleDownDeadlines \/ ReconcileStableReplicaSet
           \/ ReconcileNewReplicaSet \/ ReconcileOtherReplicaSets \/ ReconcileOthersFails
    PROVE  ReplicaSetStep
<1>1. rs \in [Hash -> ReplicaSet] /\ "new" \in Stages /\ "sync" \in Stages
      /\ "others" \in Stages /\ "pause" \in Stages /\ "stable" \in Stages
      /\ used \in [edits : 0..MaxEdits, pods : 0..MaxPodFailures, errors : 0..MaxErrors]
  BY DEF TypeOK, Stages
<1>2. \A h \in Hash, n \in Nat, C \in Conflicts : Scaled(h, n, h \in C) \in ReplicaSet
  BY ScaledType
<1>3. CASE RemoveScaleDownDeadlines
  <2>1. \A h \in Hash : [rs[h] EXCEPT !.deadline = "none"] \in ReplicaSet
    BY <1>1 DEF ReplicaSet
  <2>2. rs' \in [Hash -> ReplicaSet]
    BY <1>1, <1>3, <2>1 DEF RemoveScaleDownDeadlines
  <2> QED
    BY <1>1, <1>3, <2>2 DEF RemoveScaleDownDeadlines, ReplicaSetStep, Proceed,
       KeepsButReplicaSets, history
<1>4. CASE ReconcileStableReplicaSet
  <2> DEFINE count == ReplicaCounts(ctx.status.weights).stable
             scales == Stable \notin {None, New} /\ ctx.rs[Stable].replicas # count
  <2>1. count \in Nat
    BY StatusTypes, ReplicaCountTypes
  <2> HIDE DEF count
  <2>2. PICK C \in Conflicts :
           rs' = IF scales THEN [rs EXCEPT ![Stable] = Scaled(Stable, count, Stable \in C)]
                 ELSE rs
    BY <1>4 DEF ReconcileStableReplicaSet, count
  <2>3. scales => Stable \in Hash
    BY StatusTypes DEF OptHash
  <2>4. scales => Scaled(Stable, count, Stable \in C) \in ReplicaSet
    BY <1>2, <2>1, <2>3
  <2>5. rs' \in [Hash -> ReplicaSet]
    BY <1>1, <2>2, <2>4
  <2> QED
    BY <1>1, <1>4, <2>5 DEF ReconcileStableReplicaSet, ReplicaSetStep, Proceed,
       KeepsButReplicaSets, history
<1>5. CASE ReconcileNewReplicaSet
  <2> DEFINE deadline == ctx.rs[New].deadline
             annotate == /\ ShouldDelayScaleDownOnAbort /\ deadline = "none"
                         /\ Available(Stable) = Replicas
             wait == ShouldDelayScaleDownOnAbort /\ deadline \in {"none", "pending"}
             count == IF ShouldDelayScaleDownOnAbort /\ deadline = "expired" THEN 0
                      ELSE ReplicaCounts(ctx.weights).canary
             scales == ~wait /\ ctx.rs[New].replicas # count
  <2>1. count \in Nat
    BY ContextTypes, ReplicaCountTypes
  <2>2. PICK C \in Conflicts :
          rs' = [rs EXCEPT ![New] = IF annotate THEN Annotated(@, AbortDelay = "long")
                                    ELSE IF scales THEN Scaled(New, count, New \in C)
                                    ELSE @]
    BY <1>5 DEF ReconcileNewReplicaSet
  <2> HIDE DEF annotate, count, scales
  <2>3. /\ Scaled(New, count, New \in C) \in ReplicaSet
        /\ Annotated(rs[New], AbortDelay = "long") \in ReplicaSet
    <3>1. New \in Hash /\ rs[New] \in ReplicaSet
      BY <1>1, <1>5 DEF SnapshotHeld, ReconcileNewReplicaSet, New
    <3> QED
      BY <1>2, <2>1, <3>1, AnnotatedType
  <2>4. rs' \in [Hash -> ReplicaSet]
    BY <1>1, <2>2, <2>3
  <2> QED
    BY <1>1, <1>5, <2>4 DEF ReconcileNewReplicaSet, ReplicaSetStep, Proceed,
       KeepsButReplicaSets, history
<1> DEFINE plan == OldPlan[Len(order)]
<1>6. \A h \in Hash, C \in Conflicts : OldScaled(plan, h, h \in C) \in ReplicaSet
  BY OldScaledType
<1> HIDE DEF plan
<1>7. CASE ReconcileOtherReplicaSets
  <2>1. PICK C \in Conflicts, clean \in SUBSET OldReplicaSets :
              rs' = [h \in Hash |->
                        IF h \notin OldReplicaSets THEN rs[h]
                        ELSE IF ~Surplus THEN OldScaled(plan, h, h \in C)
                        ELSE IF h \in clean /\ Available(h) < ctx.rs[h].replicas
                        THEN Scaled(h, Available(h), h \in C)
                        ELSE rs[h]]
    BY <1>7 DEF ReconcileOtherReplicaSets, plan
  <2>2. \A h \in Hash : Scaled(h, Available(h), h \in C) \in ReplicaSet
    BY <1>2, ReplicaSetTypes
  <2>3. rs' \in [Hash -> ReplicaSet]
    BY <1>1, <1>6, <2>1, <2>2
  <2> QED
    BY <1>1, <1>7, <2>3 DEF ReconcileOtherReplicaSets, ReplicaSetStep, Proceed,
       KeepsButReplicaSets, history
<1>8. CASE ReconcileOthersFails
  <2>1. PICK C \in Conflicts, done \in SUBSET OldReplicaSets :
              rs' = [h \in Hash |-> IF h \in done /\ ~Surplus
                                    THEN OldScaled(plan, h, h \in C) ELSE rs[h]]
    BY <1>8 DEF ReconcileOthersFails, plan
  <2>2. rs' \in [Hash -> ReplicaSet]
    BY <1>1, <1>6, <2>1
  <2>3. used' \in [edits : 0..MaxEdits, pods : 0..MaxPodFailures, errors : 0..MaxErrors]
    BY <1>1, <1>8, BoundsAssumption DEF ReconcileOthersFails
  <2> QED
    BY <1>1, <1>8, <2>2, <2>3 DEF ReconcileOthersFails, ReplicaSetStep
<1> QED
  BY <1>3, <1>4, <1>5, <1>7, <1>8

LEMMA SyncRolloutStatusTypes ==
    ASSUME TypeOK, SyncRolloutStatus
    PROVE  TypeOK'
<1>1. status' \in Status_
  <2>1. status \in Status_ /\ ctx.status \in Status_
    BY ContextTypes DEF TypeOK
  <2> QED
    BY <2>1, NewStatusType, MergedType DEF SyncRolloutStatus
<1>2. ctx' \in Context /\ pc' = "idle"
  BY NoContextType DEF SyncRolloutStatus
<1>3. run' \in [Kind -> Run_] /\ fresh' \in [Kind -> Run_]
  <2>1. \A k \in Kind : run[k] \in Run_ /\ fresh[k] \in Run_ /\ NoRun \in Run_
    BY NoRunType DEF TypeOK
  <2> QED
    BY <2>1 DEF SyncRolloutStatus
<1>4. passed' \subseteq StepIndex
  BY StatusTypes DEF SyncRolloutStatus, TypeOK
<1>5. excused' \in [steps : SUBSET StepIndex, recent : SUBSET StepIndex]
  <2>1. excused \in [steps : SUBSET StepIndex, recent : SUBSET StepIndex]
    BY DEF TypeOK
  <2>2. excused' \in {excused, [excused EXCEPT !.steps = excused.recent]}
    BY DEF SyncRolloutStatus
  <2> QED
    BY <2>1, <2>2
<1>6. elapsed' \in BOOLEAN
  BY DEF SyncRolloutStatus
<1> QED
  BY <1>1, <1>2, <1>3, <1>4, <1>5, <1>6 DEF SyncRolloutStatus, TypeOK

LEMMA ReconcileFailsTypes ==
    ASSUME TypeOK, ReconcileFails
    PROVE  TypeOK'
<1>1. used' \in [edits : 0..MaxEdits, pods : 0..MaxPodFailures, errors : 0..MaxErrors]
  BY BoundsAssumption DEF ReconcileFails, TypeOK
<1> QED
  BY <1>1, NoContextType DEF ReconcileFails, TypeOK, objects

LEMMA ReconcileTypes ==
    ASSUME TypeOK, SnapshotHeld, Reconcile
    PROVE  TypeOK'
<1>1. spec.template \in Hash
  BY DEF SnapshotHeld
<1> QED
  BY <1>1, StartSyncTypes, ReconcileServicesTypes, ReconcileTrafficRoutingTypes,
     ReconcilePanicsTypes, ReconcileRunsTypes, ReconcileReplicaSets, ReplicaSetStepTypes,
     SyncRolloutStatusTypes DEF Reconcile

LEMMA FailureTypes ==
    ASSUME TypeOK, SnapshotHeld, Failure
    PROVE  TypeOK'
<1>1. ASSUME NEW h \in Hash, PodFails(h) PROVE TypeOK'
  <2>1. rs[h] \in ReplicaSet
    BY DEF TypeOK
  <2>2. [rs[h] EXCEPT !.available = @ - 1] \in ReplicaSet
    BY <1>1, <2>1 DEF ReplicaSet, PodFails
  <2>3. rs' \in [Hash -> ReplicaSet]
    BY <1>1, <2>2 DEF PodFails, TypeOK
  <2>4. used' \in [edits : 0..MaxEdits, pods : 0..MaxPodFailures, errors : 0..MaxErrors]
    BY <1>1, BoundsAssumption DEF PodFails, TypeOK
  <2> QED
    BY <1>1, <2>3, <2>4 DEF PodFails, TypeOK
<1> QED
  BY <1>1, ReconcileReplicaSets, ReplicaSetStepTypes, ReconcileFailsTypes DEF Failure

LEMMA ClusterTypes ==
    ASSUME TypeOK, Cluster
    PROVE  TypeOK'
<1>1. ASSUME NEW h \in Hash,
             PodBecomesAvailable(h) \/ SurplusPodsDeleted(h) \/ DeadlinePasses(h)
      PROVE  TypeOK'
  <2>1. rs[h] \in ReplicaSet
    BY DEF TypeOK
  <2>2. /\ [rs[h] EXCEPT !.available = @ + 1] \in ReplicaSet
        /\ [rs[h] EXCEPT !.available = rs[h].replicas] \in ReplicaSet
        /\ [rs[h] EXCEPT !.deadline = IF @ = "far" THEN "pending" ELSE "expired"] \in ReplicaSet
    BY <2>1 DEF ReplicaSet
  <2>3. rs' \in [Hash -> ReplicaSet]
    BY <1>1, <2>2 DEF PodBecomesAvailable, SurplusPodsDeleted, DeadlinePasses, TypeOK
  <2> QED
    BY <1>1, <2>3 DEF PodBecomesAvailable, SurplusPodsDeleted, DeadlinePasses, TypeOK, history
<1>2. CASE PauseElapses
  BY <1>2 DEF PauseElapses, TypeOK, history
<1>3. ASSUME NEW k \in Kind, RunCompletes(k)
      PROVE  TypeOK'
  <2>1. ASSUME NEW outcome \in Outcome, NEW r \in Run_
        PROVE  [r EXCEPT !.phase = outcome] \in Run_
    BY DEF Run_
  <2>2. run' \in [Kind -> Run_] /\ fresh' \in [Kind -> Run_]
    <3>1. run[k] \in Run_ /\ fresh[k] \in Run_
      BY DEF TypeOK
    <3>2. ASSUME NEW f \in [Kind -> Run_], NEW outcome \in Outcome
          PROVE  [f EXCEPT ![k].phase = outcome] \in [Kind -> Run_]
      BY <2>1
    <3> QED
      BY <1>3, <3>2 DEF RunCompletes, TypeOK
  <2> QED
    BY <1>3, <2>2 DEF RunCompletes, TypeOK, history
<1> QED
  BY <1>1, <1>2, <1>3 DEF Cluster

LEMMA UserTypes ==
    ASSUME TypeOK, User
    PROVE  TypeOK'
<1>1. ASSUME NEW c, Edit(c)
      PROVE  used' \in [edits : 0..MaxEdits, pods : 0..MaxPodFailures, errors : 0..MaxErrors]
  BY <1>1, BoundsAssumption DEF Edit, TypeOK
<1>2. status.stepIndex \in StepIndex /\ FollowingStep \in StepIndex /\ StepCount \in StepIndex
  BY CountsAssumed DEF FollowingStep, TypeOK, Status_
<1>3. ASSUME NEW S \in SUBSET StepIndex, Excuse(S)
      PROVE  excused' \in [steps : SUBSET StepIndex, recent : SUBSET StepIndex]
  BY <1>3 DEF Excuse, TypeOK
<1>4. CASE (\E h \in Hash : SetTemplate(h)) \/ PauseRollout
  <2>1. spec' \in Spec_
    BY <1>4 DEF SetTemplate, PauseRollout, TypeOK, Spec_, OptHash
  <2> QED
    BY <1>1, <1>4, <2>1 DEF SetTemplate, PauseRollout, Edit, TypeOK
<1>5. CASE PromoteRollout
  <2>1. spec' \in Spec_
    BY <1>5 DEF PromoteRollout, TypeOK, Spec_
  <2>2. excused' \in [steps : SUBSET StepIndex, recent : SUBSET StepIndex]
    BY <1>2, <1>3, <1>5 DEF PromoteRollout
  <2> DEFINE stuck == status.inconclusive /\ status.pauses # {} /\ status.controllerPause
             on == status.controllerPause /\ ~stuck
             to == IF stuck \/ ~(status.pauses # {}) THEN FollowingStep ELSE status.stepIndex
  <2>3. on \in BOOLEAN /\ to \in StepIndex
    BY <1>2 DEF TypeOK, Status_
  <2>4. status' = [status EXCEPT !.pauses = {}, !.controllerPause = on, !.stepIndex = to]
    BY <1>5 DEF PromoteRollout
  <2> HIDE DEF on, to
  <2>5. status' \in Status_
    BY <2>3, <2>4 DEF TypeOK, Status_
  <2> QED
    BY <1>1, <1>5, <2>1, <2>2, <2>5 DEF PromoteRollout, Edit, TypeOK
<1>6. CASE SkipCurrentStep \/ SkipAllSteps
  <2>1. excused' \in [steps : SUBSET StepIndex, recent : SUBSET StepIndex]
    BY <1>2, <1>3, <1>6 DEF SkipCurrentStep, SkipAllSteps
  <2>2. \E i \in StepIndex : status' = [status EXCEPT !.stepIndex = i]
    BY <1>2, <1>6 DEF SkipCurrentStep, SkipAllSteps
  <2>3. status' \in Status_
    BY <2>2 DEF TypeOK, Status_
  <2> QED
    BY <1>1, <1>6, <2>1, <2>3 DEF SkipCurrentStep, SkipAllSteps, Edit, TypeOK
<1>7. CASE PromoteRolloutFull
  <2>1. excused' \in [steps : SUBSET StepIndex, recent : SUBSET StepIndex]
    BY <1>3, <1>7 DEF PromoteRolloutFull
  <2>2. status' \in Status_
    BY <1>7 DEF PromoteRolloutFull, TypeOK, Status_
  <2> QED
    BY <1>1, <1>7, <2>1, <2>2 DEF PromoteRolloutFull, Edit, TypeOK
<1>8. CASE AbortRollout \/ RetryRollout
  <2>1. status' \in Status_
    BY <1>8 DEF AbortRollout, RetryRollout, TypeOK, Status_
  <2> QED
    BY <1>1, <1>8, <2>1 DEF AbortRollout, RetryRollout, Edit, TypeOK
<1> QED
  BY <1>4, <1>5, <1>6, <1>7, <1>8 DEF User

-----------------------------------------------------------------------------
(* The snapshot of a reconcile.                                            *)

\* What the steps of a reconcile do to the snapshot and the history
GoesOn ==
    /\ pc \notin {"idle", "sync"}
    /\ ctx'.spec = ctx.spec /\ ctx'.status = ctx.status
    /\ UNCHANGED <<spec, status, passed, excused>>

\* A reconcile that ends before its status update
Stops ==
    /\ pc' = "idle" /\ ctx' = NoContext
    /\ UNCHANGED <<spec, status, run, fresh, passed, excused>>

\* What neither a reconcile nor a user does
Elsewhere == UNCHANGED <<spec, status, pc, ctx, passed, excused>>

(* Every step starts, continues, stops or ends a reconcile, or is made     *)
(* elsewhere.                                                              *)
LEMMA StepsOfReconcile ==
    ASSUME TypeOK, [Next]_vars
    PROVE  \/ StartSync \/ GoesOn \/ Stops \/ SyncRolloutStatus \/ User \/ Elsewhere
<1>1. CASE ReconcileTrafficRouting
  <2>1. \/ ctx' = NoContext /\ pc' = "idle"
        \/ \E b, w : ctx' = [ctx EXCEPT !.weights = w, !.verified = b]
    BY <1>1 DEF ReconcileTrafficRouting
  <2>2. CASE ctx' = NoContext /\ pc' = "idle"
    BY <1>1, <2>2 DEF ReconcileTrafficRouting, Stops, history
  <2>3. ASSUME NEW b, NEW w, ctx' = [ctx EXCEPT !.weights = w, !.verified = b]
        PROVE  GoesOn
    <3>1. ctx'.spec = ctx.spec /\ ctx'.status = ctx.status
      BY <2>3 DEF TypeOK, Context
    <3> QED
      BY <1>1, <3>1 DEF ReconcileTrafficRouting, GoesOn, history
  <2> QED
    BY <2>1, <2>2, <2>3
<1>2. CASE ReconcileRuns
  <2>1. ctx'.spec = ctx.spec /\ ctx'.status = ctx.status
    <3>1. \E f, g, a, b : ctx' = [ctx EXCEPT !.run = f, !.named = g, !.pause.add = a,
                                             !.pause.addAbort = b]
      BY <1>2, Zenon DEF ReconcileRuns
    <3> QED
      BY <3>1 DEF TypeOK, Context
  <2> QED
    BY <1>2, <2>1 DEF ReconcileRuns, GoesOn, history
<1>3. CASE ReconcileServices
  BY <1>3 DEF ReconcileServices, GoesOn, history
<1>4. CASE \/ RemoveScaleDownDeadlines \/ ReconcileStableReplicaSet
           \/ ReconcileNewReplicaSet \/ ReconcileOtherReplicaSets
  BY <1>4 DEF RemoveScaleDownDeadlines, ReconcileStableReplicaSet, ReconcileNewReplicaSet,
     ReconcileOtherReplicaSets, Proceed, KeepsButReplicaSets, history, GoesOn
<1>5. CASE ReconcileOthersFails
  BY <1>5 DEF ReconcileOthersFails, GoesOn
<1>6. CASE ReconcileFails \/ ReconcilePanics
  BY <1>6 DEF ReconcileFails, ReconcilePanics, Stops, objects, history
<1>7. ASSUME NEW h \in Hash,
             \/ PodBecomesAvailable(h) \/ SurplusPodsDeleted(h) \/ DeadlinePasses(h)
             \/ PodFails(h)
      PROVE  Elsewhere
  BY <1>7 DEF PodBecomesAvailable, SurplusPodsDeleted, DeadlinePasses, PodFails,
     Elsewhere, history
<1>8. CASE PauseElapses \/ \E k \in Kind : RunCompletes(k)
  BY <1>8 DEF PauseElapses, RunCompletes, Elsewhere, history
<1>9. CASE UNCHANGED vars
  BY <1>9 DEF vars, Elsewhere
<1> QED
  BY <1>1, <1>2, <1>3, <1>4, <1>5, <1>6, <1>7, <1>8, <1>9
     DEF Next, Reconcile, Cluster, Failure

LEMMA GateTypes ==
    /\ Gates \subseteq Nat /\ Gates \subseteq StepIndex /\ \A i \in Gates : i < StepCount
    /\ SureGates \subseteq Gates
BY CountsAssumed DEF Gates, SureGates

\* What a user does to the status and to the history: steps only go ahead, and
\* a gate that is left behind is excused
UserPatch ==
    /\ status'.stableRS = status.stableRS
    /\ status'.currentPodHash = status.currentPodHash
    /\ status'.controllerPause => status.controllerPause
    /\ status.stepIndex <= status'.stepIndex \/ StepCount <= status'.stepIndex
    /\ excused.recent \subseteq excused'.recent /\ excused.steps \subseteq excused'.steps
    /\ excused'.recent \subseteq excused.recent \cup excused'.steps
    /\ \A i \in Gates : status.stepIndex <= i /\ i < status'.stepIndex
                           => i \in excused'.recent /\ i \in excused'.steps
    /\ status'.promoteFull /\ ~status.promoteFull
          => Gates \subseteq excused'.recent /\ Gates \subseteq excused'.steps
    /\ UNCHANGED <<passed, ctx, pc, run, fresh>>

LEMMA UserPatches ==
    ASSUME TypeOK, User
    PROVE  UserPatch
<1>1. status \in Status_ /\ status.stepIndex \in 0..(StepCount + 1) /\ StepCount \in Nat
  BY CountsAssumed DEF TypeOK, Status_
<1>2. FollowingStep \in 0..(StepCount + 1) /\ status.stepIndex <= FollowingStep
      /\ FollowingStep <= status.stepIndex + 1
  BY <1>1 DEF FollowingStep
<1>3. \A i \in Gates : i \in Nat /\ i < StepCount /\ i \in StepIndex
  BY GateTypes
<1>4. ASSUME NEW S, Excuse(S)
      PROVE  /\ excused'.recent = excused.recent \cup S
             /\ excused'.steps = excused.steps \cup S
  BY <1>4 DEF Excuse
<1>5. UNCHANGED <<passed, ctx, pc, run, fresh>>
  BY DEF User, SetTemplate, PauseRollout, PromoteRollout, SkipCurrentStep, SkipAllSteps,
     PromoteRolloutFull, AbortRollout, RetryRollout, Edit
<1>6. CASE (\E h \in Hash : SetTemplate(h)) \/ PauseRollout
  BY <1>1, <1>3, <1>5, <1>6 DEF SetTemplate, PauseRollout, UserPatch
<1>7. CASE PromoteRollout
  <2>1. Excuse({status.stepIndex})
    BY <1>7 DEF PromoteRollout
  <2>2. \E stuck \in BOOLEAN :
           status' = [status EXCEPT
              !.pauses = {},
              !.controllerPause = @ /\ ~stuck,
              !.stepIndex = IF stuck \/ status.pauses = {} THEN FollowingStep ELSE @]
    BY <1>7 DEF PromoteRollout
  <2>3. /\ status'.stableRS = status.stableRS
        /\ status'.currentPodHash = status.currentPodHash
        /\ status'.controllerPause => status.controllerPause
        /\ status'.stepIndex \in {status.stepIndex, FollowingStep}
        /\ status'.promoteFull = status.promoteFull
    BY <1>1, <2>2 DEF Status_
  <2> QED
    BY <1>1, <1>2, <1>3, <1>4, <1>5, <2>1, <2>3 DEF UserPatch
<1>8. CASE SkipCurrentStep
  <2>1. Excuse({status.stepIndex}) /\ status' = [status EXCEPT !.stepIndex = FollowingStep]
    BY <1>8 DEF SkipCurrentStep
  <2> QED
    BY <1>1, <1>2, <1>3, <1>4, <1>5, <2>1 DEF UserPatch, Status_
<1>9. CASE SkipAllSteps
  <2>1. Excuse(StepIndex) /\ status' = [status EXCEPT !.stepIndex = StepCount]
    BY <1>9 DEF SkipAllSteps
  <2> QED
    BY <1>1, <1>3, <1>4, <1>5, <2>1 DEF UserPatch, Status_
<1>10. CASE PromoteRolloutFull
  <2>1. Excuse(StepIndex) /\ status' = [status EXCEPT !.promoteFull = TRUE]
    BY <1>10 DEF PromoteRolloutFull
  <2> QED
    BY <1>1, <1>3, <1>4, <1>5, <2>1 DEF UserPatch, Status_
<1>11. CASE AbortRollout \/ RetryRollout
  <2>1. UNCHANGED excused /\ \E b \in BOOLEAN : status' = [status EXCEPT !.abort = b]
    BY <1>11 DEF AbortRollout, RetryRollout
  <2> QED
    BY <1>1, <1>3, <1>5, <2>1 DEF UserPatch, Status_
<1> QED
  BY <1>6, <1>7, <1>8, <1>9, <1>10, <1>11 DEF User

(* The status is never behind what a reconcile read, but for steps that    *)
(* users ended since.                                                      *)
LEMMA SnapshotKept ==
    ASSUME TypeOK, SnapshotHeld, [Next]_vars
    PROVE  SnapshotHeld'
<1>1. spec'.template \in Hash
  <2>1. CASE User
    BY <2>1 DEF User, SetTemplate, PauseRollout, PromoteRollout, SkipCurrentStep,
       SkipAllSteps, PromoteRolloutFull, AbortRollout, RetryRollout, TypeOK, Spec_,
       SnapshotHeld
  <2> QED
    BY <2>1, StepsOfReconcile DEF StartSync, GoesOn, Stops, SyncRolloutStatus, Elsewhere,
       SnapshotHeld
<1>2. CASE StartSync
  <2>1. ctx'.spec = spec /\ ctx'.status = status
    BY <1>2 DEF StartSync, NoContext
  <2>2. pc' # "sync" => status.currentPodHash = spec.template
    BY <1>2 DEF StartSync
  <2>3. status.stepIndex \in Int /\ Gates \subseteq Int
    BY CountsAssumed, GateTypes DEF TypeOK, Status_
  <2> QED
    BY <1>1, <1>2, <2>1, <2>2, <2>3 DEF SnapshotHeld, StartSync
<1>3. CASE GoesOn
  BY <1>1, <1>3 DEF GoesOn, SnapshotHeld
<1>4. CASE Stops \/ SyncRolloutStatus
  BY <1>1, <1>4 DEF Stops, SyncRolloutStatus, SnapshotHeld
<1>5. CASE User
  <2>1. UserPatch
    BY <1>5, UserPatches
  <2>2. status.stepIndex \in Int /\ status'.stepIndex \in Int /\ Index \in Int /\ StepCount \in Nat
    <3>1. status'.stepIndex \in StepIndex
      BY <1>5, UserTypes DEF TypeOK, Status_
    <3> QED
      BY <3>1, StatusTypes, CountsAssumed DEF TypeOK, Status_
  <2>3. \A i \in Gates : i \in Nat /\ i < StepCount
    BY GateTypes
  <2>4. ASSUME pc # "idle", NEW i \in Gates, ctx.status.stepIndex <= i, i < status'.stepIndex
        PROVE  i \in excused'.recent
    <3>1. status.stepIndex <= i => i \in excused'.recent
      BY <2>1, <2>4 DEF UserPatch
    <3>2. i < status.stepIndex => i \in excused.recent
      BY <2>4 DEF SnapshotHeld
    <3> QED
      BY <2>1, <2>2, <2>3, <3>1, <3>2 DEF UserPatch
  <2>5. pc # "idle" => ctx.status.stepIndex <= status'.stepIndex \/ StepCount <= status'.stepIndex
    BY <2>1, <2>2 DEF UserPatch, SnapshotHeld, Index
  <2>6. pc # "idle" /\ status'.promoteFull /\ ~ctx.status.promoteFull
           => Gates \subseteq excused'.recent
    BY <2>1 DEF UserPatch, SnapshotHeld
  <2> QED
    BY <1>1, <2>1, <2>4, <2>5, <2>6 DEF UserPatch, SnapshotHeld
<1>6. CASE Elsewhere
  BY <1>1, <1>6 DEF Elsewhere, SnapshotHeld
<1> QED
  BY <1>2, <1>3, <1>4, <1>5, <1>6, StepsOfReconcile

(* Every variable holds a value of its type, for every sequence of steps   *)
(* and every bound; the counts and weights that are written are numbers,   *)
(* the plan for old ReplicaSets included.                                  *)
THEOREM TypeCorrect == Spec => [](TypeOK /\ SnapshotHeld)
<1>1. Init => TypeOK /\ SnapshotHeld
  BY InitTypes DEF Init, SnapshotHeld
<1>2. TypeOK /\ SnapshotHeld /\ [Next]_vars => (TypeOK /\ SnapshotHeld)'
  <2>1. TypeOK /\ UNCHANGED vars => TypeOK'
    BY DEF TypeOK, vars
  <2> QED
    BY <2>1, SnapshotKept, ReconcileTypes, ClusterTypes, UserTypes, FailureTypes DEF Next
<1> QED
  BY <1>1, <1>2, PTL DEF Spec
=============================================================================
