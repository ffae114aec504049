------------------------- MODULE CanaryScalingProofs -------------------------
(***************************************************************************)
(* Proofs about the scaling of a basic canary, for every number of         *)
(* replicas, every value of the limits, every weight and every number of   *)
(* pods: the types (no count is ever negative), the surge, the floor, and  *)
(* the division of the pods.                                               *)
(***************************************************************************)
EXTENDS CanaryScalingProperties, TLAPS

-----------------------------------------------------------------------------
(* The numbers the counts are made of.                                     *)

(* A rounded-up quotient is a number of replicas between none and all.     *)
LEMMA CeilDivRange ==
    ASSUME NEW r \in Nat, NEW m \in Nat \ {0}, NEW w \in 0..m
    PROVE  CeilDiv(r * w, m) \in 0..r /\ (r * w) \div m \in 0..r
<1> DEFINE p == r * w
<1>1. p \in Nat /\ p <= r * m
  BY SMT
<1>2. p \div m \in Nat /\ (p + m - 1) \div m \in Nat
  BY <1>1, SMT
<1>3. p \div m <= r
  <2>1. m * (p \div m) <= p
    BY <1>1, SMT
  <2>2. SUFFICES ASSUME p \div m >= r + 1 PROVE FALSE
    BY <1>2, SMT
  <2>3. m * (p \div m) >= m * (r + 1)
    BY <1>2, <2>2, SMT
  <2> QED
    BY <1>1, <1>2, <2>1, <2>3, SMT
<1>4. (p + m - 1) \div m <= r
  <2> DEFINE q == (p + m - 1) \div m
  <2>1. m * q <= p + m - 1
    BY <1>1, SMT
  <2>2. SUFFICES ASSUME q >= r + 1 PROVE FALSE
    BY <1>2, SMT
  <2>3. m * q >= m * (r + 1)
    BY <1>2, <2>2, SMT
  <2> QED
    BY <1>1, <1>2, <2>1, <2>3, SMT
<1> QED
  BY <1>1, <1>2, <1>3, <1>4, SMT DEF CeilDiv

(* Both limits are numbers of pods, and the pods an update must keep are   *)
(* at most spec.replicas.                                                  *)
LEMMA LimitsRange ==
    ASSUME NEW l \in Limits, NEW r \in Nat
    PROVE  /\ MaxSurge(l.surge, r) \in Nat
           /\ r - MaxUnavailable(l.surge, l.unavailable, r) \in 0..r
<1>1. /\ l.surge.value \in Nat /\ l.surge.percent \in BOOLEAN
      /\ l.unavailable.value \in Nat /\ l.unavailable.percent \in BOOLEAN
  BY LimitsAssumption
<1>2. \A a \in Nat : CeilDiv(a, 100) \in Nat /\ a \div 100 \in Nat
  BY SMT DEF CeilDiv
<1>3. l.surge.value * r \in Nat /\ l.unavailable.value * r \in Nat
  BY <1>1, SMT
<1>4. ValueOrPercent(l.surge, r, TRUE) \in Nat
  BY <1>1, <1>2, <1>3 DEF ValueOrPercent
<1>5. ValueOrPercent(l.unavailable, r, FALSE) \in Nat
  BY <1>1, <1>2, <1>3 DEF ValueOrPercent
<1>6. MaxSurge(l.surge, r) \in Nat
  BY <1>4 DEF MaxSurge
<1>7. \A n \in Nat : r - MinValue(n, r) \in 0..r
  BY SMT DEF MinValue
<1> DEFINE down == ValueOrPercent(l.unavailable, r, FALSE)
           resolved == IF MaxSurge(l.surge, r) = 0 /\ down = 0 THEN 1 ELSE down
<1>8. MaxUnavailable(l.surge, l.unavailable, r) = MinValue(resolved, r)
  BY DEF MaxUnavailable
<1>9. resolved \in Nat
  BY <1>5
<1> HIDE DEF resolved
<1> QED
  BY <1>6, <1>7, <1>8, <1>9

(* The pods wanted of each version are between none and all that maxSurge  *)
(* allows.                                                                 *)
LEMMA ApproximateRange ==
    ASSUME NEW r \in Nat, NEW m \in Nat \ {0}, NEW w \in 0..m, NEW s \in Nat
    PROVE  /\ Approximate(r, w, m, s).new \in 0..(r + s)
           /\ Approximate(r, w, m, s).stable \in 0..(r + s)
<1> DEFINE o == Options(r, w, m, s)
           Fits(x) == /\ x.canary \in Nat /\ x.total \in Nat
                      /\ x.total # 0 => x.canary <= x.total /\ x.total <= r + s
           best2 == Better(w, m, o[1], o[2])
           best3 == Better(w, m, best2, o[3])
           best == Better(w, m, best3, o[4])
<1>1. CeilDiv(r * w, m) \in 0..r /\ (r * w) \div m \in 0..r
  BY CeilDivRange
<1>2. Fits(o[1]) /\ Fits(o[2])
  BY <1>1, SMT DEF Options
<1>3. Fits(o[3]) /\ Fits(o[4])
  BY <1>1, SMT DEF Options
<1>4. \A x, y : Fits(x) /\ Fits(y) => Fits(Better(w, m, x, y))
  BY DEF Better
<1>5. Fits(best2)
  BY <1>2, <1>4
<1>6. Fits(best3)
  BY <1>3, <1>4, <1>5
<1>7. Fits(best)
  BY <1>3, <1>4, <1>6
<1>8. Approximate(r, w, m, s) =
        IF r = 0 THEN [new |-> 0, stable |-> 0]
        ELSE IF best.total = 0 THEN [new |-> 0, stable |-> r]
        ELSE [new |-> best.canary, stable |-> best.total - best.canary]
  BY DEF Approximate, Best, Divided
<1> HIDE DEF best
<1> QED
  BY <1>7, <1>8, SMT

-----------------------------------------------------------------------------
(* The counts of one reconcile.                                            *)

(* A count scaled up never shrinks and grows by at most the room there is. *)
LEMMA ScaledUpBound ==
    ASSUME NEW c \in Nat, NEW d \in Nat, NEW room \in Int
    PROVE  /\ ScaledUp(c, d, room) \in Nat
           /\ c <= ScaledUp(c, d, room)
           /\ ScaledUp(c, d, room) <= MaxValue(c, c + room)
           /\ ScaledUp(c, d, room) <= MaxValue(c, d)
BY SMT DEF ScaledUp, MinValue, MaxValue

(* The pods that count for a scale-down are those requested where their    *)
(* availability does not matter, and otherwise those of them that are      *)
(* available.                                                              *)
LEMMA ForScaleDownRange ==
    ASSUME NEW r, r.replicas \in Nat, r.available \in Nat, NEW ignore \in BOOLEAN
    PROVE  /\ GetReplicasForScaleDown(r, ignore) \in 0..(r.replicas)
           /\ ignore => GetReplicasForScaleDown(r, ignore) = r.replicas
           /\ ~ignore => GetReplicasForScaleDown(r, ignore) = MinValue(r.replicas, r.available)
BY SMT DEF GetReplicasForScaleDown, MinValue

(* Bringing two counts within the limits: neither becomes negative, the    *)
(* drained one does not grow, and the adjusted one grows only up to the    *)
(* pods it has.                                                            *)
LEMMA AdjustBound ==
    ASSUME NEW x, NEW y, NEW d \in Nat, NEW a \in Nat, NEW M \in Nat, NEW m \in 0..M,
           x.available \in Nat, y.available \in Nat, d <= M
    PROVE  LET z == AdjustReplicaWithinLimits(x, y, d, a, M, m)
           IN  /\ z.drain \in 0..d
               /\ z.adjust \in Nat
               /\ z.adjust <= MaxValue(a, y.available)
<1> DEFINE a1 == a - MaxValue(0, a + d - M)
           av == MinValue(x.available, d) + MinValue(y.available, a1)
           extra == MaxValue(0, y.available - a1)
           a2 == a1 + MinValue(extra, MaxValue(0, m - av))
<1>1. a1 \in 0..a /\ a1 <= M
  BY SMT DEF MaxValue
<1> HIDE DEF a1
<1>2. av \in Nat /\ av >= MinValue(y.available, a1)
  BY <1>1, SMT DEF MinValue
<1>3. extra \in Nat /\ (extra > 0 => y.available = a1 + extra)
  BY <1>1, SMT DEF MaxValue
<1> HIDE DEF av, extra
<1>4. a2 \in Nat /\ a2 >= a1 /\ a2 <= MaxValue(a1, y.available) /\ a2 <= M
  BY <1>1, <1>2, <1>3, SMT DEF MinValue, MaxValue
<1>5. AdjustReplicaWithinLimits(x, y, d, a, M, m) =
        IF y = NoReplicaSet THEN [drain |-> d, adjust |-> a]
        ELSE [drain |-> d - MaxValue(0, a2 + d - M), adjust |-> a2]
  BY DEF AdjustReplicaWithinLimits, a1, av, extra
<1> HIDE DEF a2
<1>6. d - MaxValue(0, a2 + d - M) \in 0..d
  BY <1>4, SMT DEF MaxValue
<1>7. a2 <= MaxValue(a, y.available) /\ a <= MaxValue(a, y.available)
  BY <1>1, <1>4, SMT DEF MaxValue
<1> QED
  BY <1>4, <1>5, <1>6, <1>7, SMT

(* Bringing two counts within the limits keeps what has to be available:   *)
(* the pods the adjusted version gets back make up for the drained ones,   *)
(* unless it has no more, and the drained one gives up none but those it   *)
(* was to lose, or has not.                                                *)
LEMMA AdjustFloor ==
    ASSUME NEW x, NEW y, NEW d \in Nat, NEW a \in Nat, NEW M \in Nat, NEW m \in 0..M,
           x.available \in Nat, y.available \in Nat, d <= M,
           NEW k \in 0..a, d + MinValue(k, y.available) >= m
    PROVE  LET z == AdjustReplicaWithinLimits(x, y, d, a, M, m)
           IN  /\ z.drain >= MinValue(d, x.available)
               /\ MinValue(z.adjust, y.available) + MinValue(d, x.available)
                    >= MinValue(m, y.available + MinValue(d, x.available))
<1> DEFINE a1 == a - MaxValue(0, a + d - M)
           av == MinValue(x.available, d) + MinValue(y.available, a1)
           extra == MaxValue(0, y.available - a1)
           need == MaxValue(0, m - av)
           a2 == a1 + MinValue(extra, need)
           low == MinValue(d, x.available)
<1>1. a1 \in 0..a /\ a1 + d <= M /\ (a1 < a => a1 + d = M)
  BY SMT DEF MaxValue
<1> HIDE DEF a1
<1>2. low \in Nat /\ low <= d /\ low <= x.available /\ (low = d \/ low = x.available)
  BY SMT DEF MinValue
<1>3. av = low + MinValue(y.available, a1)
  BY SMT DEF MinValue
<1>4. extra \in Nat /\ (extra > 0 => y.available = a1 + extra)
      /\ (extra = 0 => y.available <= a1)
  BY <1>1, SMT DEF MaxValue
<1> HIDE DEF low
<1>5. need \in Nat /\ (need > 0 => need = m - av) /\ (need = 0 => av >= m)
  BY <1>1, <1>2, <1>3, SMT DEF MinValue, MaxValue
<1> HIDE DEF av, extra, need
<1>6. AdjustReplicaWithinLimits(x, y, d, a, M, m) =
        IF y = NoReplicaSet THEN [drain |-> d, adjust |-> a]
        ELSE [drain |-> d - MaxValue(0, a2 + d - M), adjust |-> a2]
  BY DEF AdjustReplicaWithinLimits, a1, av, extra, need
<1>7. a2 \in Nat /\ a1 <= a2 /\ a2 <= a1 + need /\ a2 <= a1 + extra
      /\ (a2 = a1 + need \/ a2 = a1 + extra)
  BY <1>1, <1>4, <1>5, SMT DEF MinValue
<1> HIDE DEF a2
<1>8. d - MaxValue(0, a2 + d - M) >= low
  <2>1. CASE a2 + d <= M
    BY <1>1, <1>2, <1>7, <2>1, SMT DEF MaxValue
  <2>2. CASE a2 + d > M
    <3>1. need > 0 /\ extra > 0
      BY <1>1, <1>4, <1>5, <1>7, <2>2, SMT
    <3>2. av = low + a1 /\ need = m - (low + a1)
      BY <1>1, <1>3, <1>4, <1>5, <3>1, SMT DEF MinValue
    <3>3. CASE low = d
      BY <1>1, <3>1, <3>2, <3>3, SMT DEF MinValue
    <3>4. CASE low = x.available
      BY <1>1, <1>2, <1>7, <2>2, <3>1, <3>2, <3>4, SMT DEF MaxValue
    <3> QED
      BY <1>2, <3>3, <3>4
  <2> QED
    BY <1>1, <1>7, <2>1, <2>2, SMT
<1>9. MinValue(a2, y.available) + low >= MinValue(m, y.available + low)
  <2>1. CASE need = 0
    BY <1>1, <1>2, <1>3, <1>5, <1>7, <2>1, SMT DEF MinValue
  <2>2. CASE need > 0 /\ a2 = a1 + need
    BY <1>1, <1>2, <1>3, <1>4, <1>5, <1>7, <2>2, SMT DEF MinValue
  <2>3. CASE a2 = a1 + extra
    BY <1>1, <1>2, <1>4, <1>7, <2>3, SMT DEF MinValue
  <2> QED
    BY <1>5, <1>7, <2>1, <2>2, <2>3, SMT
<1>10. CASE y = NoReplicaSet
  BY <1>2, <1>6, <1>10, SMT DEF NoReplicaSet, MinValue, low
<1>11. CASE y # NoReplicaSet
  BY <1>6, <1>8, <1>9, <1>11 DEF low
<1> QED
  BY <1>10, <1>11

(* What a reconcile may request: no negative number of pods, and of the    *)
(* new or of the stable version no more than the limit and the pods that   *)
(* are there allow.                                                        *)
WithinLimits(c, limit, n, s, separate, old) ==
    LET count == IF separate THEN s.replicas ELSE 0
        total == n.replicas + count + old
    IN  /\ c.new \in Nat
        /\ c.stable \in Nat
        /\ separate => c.stable + n.replicas + old
                         <= MaxValue(total, limit)
                            + MaxValue(0, s.available - s.replicas)
        /\ c.new + count + old
             <= MaxValue(total, limit) + MaxValue(0, n.available - n.replicas)

\* What stays available, whichever of the two versions is brought to its count:
\* m pods, or all that there were if they were fewer.
KeepsFloor(c, m, n, s, separate) ==
    LET ofNew == MinValue(n.replicas, n.available)
        ofStable == IF separate THEN MinValue(s.replicas, s.available) ELSE 0
        left == IF separate /\ c.stable # s.replicas
                THEN ofNew + MinValue(c.stable, s.available)
                ELSE MinValue(c.new, n.available) + ofStable
    IN  left >= MinValue(ofNew + ofStable, m)

LEMMA CountsBound ==
    ASSUME NEW r \in Nat, NEW surge, NEW unavailable, NEW want, NEW n, NEW s,
           NEW separate \in BOOLEAN, NEW old \in Nat,
           MaxSurge(surge, r) \in Nat,
           r - MaxUnavailable(surge, unavailable, r) \in 0..r,
           want.new \in 0..(r + MaxSurge(surge, r)),
           want.stable \in 0..(r + MaxSurge(surge, r)),
           n.replicas \in Nat, n.available \in Nat,
           s.replicas \in Nat, s.available \in Nat
    PROVE  LET c == BasicCounts(r, surge, unavailable, want, n, s, separate, old)
           IN  /\ WithinLimits(c, r + MaxSurge(surge, r), n, s, separate, old)
               /\ KeepsFloor(c, r - MaxUnavailable(surge, unavailable, r), n, s, separate)
<1> DEFINE desired == IF separate THEN want ELSE [new |-> r, stable |-> 0]
           count == IF separate THEN s.replicas ELSE 0
           M == r + MaxSurge(surge, r)
           m == r - MaxUnavailable(surge, unavailable, r)
           room == M - (n.replicas + count + old)
           up == ScaleUp(desired, n, count, room, separate)
           inc == IsIncreasing(desired, n)
           gn == GetReplicasForScaleDown(n, ~inc)
           gs == GetReplicasForScaleDown(s, inc)
           spare == ToScaleDown(desired, n, s) - m
           downNew == CalculateScaleDownReplicaCount(n, desired.new, spare, up.new)
           downStable ==
               CalculateScaleDownReplicaCount(s, desired.stable, spare, up.stable)
           decr == AdjustReplicaWithinLimits(n, s, downNew, up.stable, M, m)
           incr == AdjustReplicaWithinLimits(s, n, downStable, up.new, M, m)
           c == BasicCounts(r, surge, unavailable, want, n, s, separate, old)
           total == n.replicas + count + old
<1>0. SUFFICES WithinLimits(c, M, n, s, separate, old) /\ KeepsFloor(c, m, n, s, separate)
  OBVIOUS
<1>1. M \in Nat /\ m \in 0..M /\ m <= r /\ r <= M
  BY SMT
<1>2. desired.new \in 0..M /\ desired.stable \in 0..M /\ count \in Nat
  BY <1>1, SMT
<1>3. inc \in BOOLEAN /\ (inc <=> desired.new >= n.replicas)
  BY DEF IsIncreasing
<1>s1. c = IF old > 0 \/ spare <= 0 THEN up
           ELSE ScaleDown(desired, n, s, separate, up, spare, M, m)
  BY DEF BasicCounts
<1>s2. up.stable = (IF separate THEN ScaledUp(count, desired.stable, room) ELSE 0)
  BY DEF ScaleUp
<1>s3. up.new = ScaledUp(n.replicas, desired.new, room - (up.stable - count))
  BY DEF ScaleUp
<1>s4. ScaleDown(desired, n, s, separate, up, spare, M, m) =
         IF ~inc THEN [new |-> decr.drain, stable |-> decr.adjust]
         ELSE IF separate THEN [new |-> incr.adjust, stable |-> incr.drain]
         ELSE up
  BY DEF ScaleDown
<1>s5. ToScaleDown(desired, n, s) = gn + gs
  BY DEF ToScaleDown
<1> HIDE DEF M, m, desired, count, c, up, decr, incr, downNew, downStable, spare
<1>4. room \in Int /\ room = M - total
  BY <1>1, <1>2, SMT
<1> HIDE DEF room
<1>5. /\ up.stable \in Nat
      /\ separate => /\ count <= up.stable
                     /\ up.stable <= MaxValue(count, count + room)
                     /\ up.stable <= MaxValue(count, desired.stable)
      /\ ~separate => up.stable = count
  <2>1. CASE separate
    <3>1. /\ desired.stable \in Nat
          /\ up.stable = ScaledUp(count, desired.stable, room)
      BY <1>1, <1>2, <1>s2, <2>1, SMT
    <3>2. count \in Nat /\ room \in Int
      BY <1>2, <1>4
    <3> QED
      BY <2>1, <3>1, <3>2, ScaledUpBound
  <2>2. CASE ~separate
    BY <1>s2, <2>2 DEF count
  <2> QED
    BY <2>1, <2>2
<1>6. /\ up.new \in Nat
      /\ n.replicas <= up.new
      /\ up.new <= MaxValue(n.replicas, n.replicas + (room - (up.stable - count)))
      /\ up.new <= MaxValue(n.replicas, desired.new)
  <2>1. desired.new \in Nat /\ room - (up.stable - count) \in Int
    BY <1>1, <1>2, <1>4, <1>5, SMT
  <2> QED
    BY <1>s3, <2>1, ScaledUpBound
<1> HIDE DEF inc
<1>7. /\ gn \in 0..(n.replicas) /\ (~inc => gn = n.replicas)
      /\ gs \in 0..(s.replicas) /\ (inc => gs = s.replicas)
      /\ inc => gn = MinValue(n.replicas, n.available)
      /\ ~inc => gs = MinValue(s.replicas, s.available)
  BY <1>3, ForScaleDownRange
<1> HIDE DEF gn, gs
<1>8. spare \in Int /\ spare = gn + gs - m
  BY <1>s5, <1>1, <1>7, SMT DEF spare
<1>9. ASSUME spare > 0, ~inc PROVE downNew \in 0..(n.replicas) /\ downNew <= M
  BY <1>1, <1>2, <1>3, <1>7, <1>8, <1>9, SMT
     DEF downNew, CalculateScaleDownReplicaCount, MaxValue
<1>10. ASSUME spare > 0, inc, separate
       PROVE  downStable \in 0..up.stable /\ downStable <= M
  <2>1. count = s.replicas
    BY <1>10 DEF count
  <2>2. CASE s.replicas > desired.stable
    BY <1>1, <1>2, <1>5, <1>7, <1>8, <1>10, <2>1, <2>2, SMT
       DEF downStable, CalculateScaleDownReplicaCount, MaxValue
  <2>3. CASE ~(s.replicas > desired.stable)
    BY <1>1, <1>2, <1>5, <1>10, <2>1, <2>3, SMT
       DEF downStable, CalculateScaleDownReplicaCount, MaxValue
  <2> QED
    BY <2>2, <2>3
<1>12. CASE old > 0 \/ spare <= 0 \/ (inc /\ ~separate)
  <2>1. c.new = up.new /\ c.stable = up.stable
    BY <1>s1, <1>s4, <1>12
  <2>2. up.stable + n.replicas + old <= MaxValue(total, M)
    BY <1>1, <1>2, <1>4, <1>5, SMT DEF MaxValue
  <2>3. up.new + count + old <= MaxValue(total, M)
    BY <1>1, <1>2, <1>4, <1>5, <1>6, SMT DEF MaxValue
  <2>4. MinValue(up.new, n.available) >= MinValue(n.replicas, n.available)
    BY <1>6, SMT DEF MinValue
  <2>5. separate => MinValue(up.stable, s.available) >= MinValue(s.replicas, s.available)
    BY <1>5, SMT DEF MinValue, count
  <2>6. KeepsFloor(c, m, n, s, separate)
    BY <1>1, <1>5, <1>6, <2>1, <2>4, <2>5, SMT DEF MinValue, KeepsFloor
  <2> QED
    BY <1>1, <1>2, <1>5, <1>6, <2>1, <2>2, <2>3, <2>6, SMT
       DEF MaxValue, WithinLimits, count
<1>13. CASE old = 0 /\ spare > 0 /\ ~inc
  <2>1. downNew \in Nat /\ downNew <= M /\ downNew <= n.replicas
    BY <1>9, <1>13
  <2>2. /\ decr.drain \in 0..downNew
        /\ decr.adjust \in Nat /\ decr.adjust <= MaxValue(up.stable, s.available)
    BY <1>1, <1>5, <2>1, AdjustBound DEF decr
  <2>3. c.new = decr.drain /\ c.stable = decr.adjust
    BY <1>s1, <1>s4, <1>8, <1>13, SMT
  <2>4. up.stable + n.replicas + old <= MaxValue(total, M)
    BY <1>1, <1>2, <1>4, <1>5, SMT DEF MaxValue
  <2>5. separate => c.stable + n.replicas + old
                      <= MaxValue(total, M) + MaxValue(0, s.available - s.replicas)
    BY <1>1, <1>2, <1>5, <2>2, <2>3, <2>4, SMT DEF MaxValue, count
  <2>6. c.new + count + old <= MaxValue(total, M)
    BY <1>1, <1>2, <2>1, <2>2, <2>3, SMT DEF MaxValue
  <2>7. WithinLimits(c, M, n, s, separate, old)
    BY <1>1, <1>2, <2>1, <2>2, <2>3, <2>5, <2>6, SMT DEF MaxValue, WithinLimits, count
  <2> DEFINE sk == MinValue(count, s.available)
             low == MinValue(downNew, n.available)
  <2>8. downNew + sk >= m
    <3>1. downNew >= n.replicas - spare /\ downNew >= desired.new
      BY <1>1, <1>2, <1>3, <1>7, <1>8, <1>13, SMT
         DEF downNew, CalculateScaleDownReplicaCount, MaxValue
    <3>2. separate => n.replicas - spare = m - sk
      BY <1>1, <1>7, <1>8, <1>13, SMT DEF count, MinValue
    <3>3. ~separate => desired.new = r /\ sk = 0
      BY SMT DEF desired, count, MinValue
    <3>4. sk \in Nat
      BY <1>2, SMT DEF MinValue
    <3> HIDE DEF sk
    <3>5. CASE separate
      BY <1>1, <2>1, <3>1, <3>2, <3>4, <3>5, SMT
    <3>6. CASE ~separate
      BY <1>1, <2>1, <3>1, <3>3, <3>6, SMT
    <3> QED
      BY <3>5, <3>6
  <2>9. /\ decr.drain >= low
        /\ MinValue(decr.adjust, s.available) + low >= MinValue(m, s.available + low)
    <3>1. count \in 0..(up.stable)
      BY <1>2, <1>5, SMT
    <3> QED
      BY <1>1, <1>5, <2>1, <2>8, <3>1, AdjustFloor DEF decr
  <2>10. /\ low \in Nat /\ low <= MinValue(n.replicas, n.available)
         /\ (low = downNew \/ low = MinValue(n.replicas, n.available))
         /\ MinValue(decr.drain, n.available) >= low
         /\ sk \in Nat /\ sk <= s.available
         /\ ~separate => sk = 0
         /\ separate => sk = MinValue(s.replicas, s.available)
    BY <1>2, <2>1, <2>2, <2>9, SMT DEF MinValue, count
  <2> HIDE DEF sk, low
  <2>11. KeepsFloor(c, m, n, s, separate)
    <3>1. CASE separate /\ c.stable # s.replicas
      BY <1>1, <2>2, <2>3, <2>9, <2>10, <3>1, SMT DEF KeepsFloor, MinValue
    <3>2. CASE separate /\ c.stable = s.replicas
      BY <1>1, <2>2, <2>3, <2>8, <2>9, <2>10, <3>2, SMT DEF KeepsFloor, MinValue
    <3>3. CASE ~separate
      <4> DEFINE nk == MinValue(n.replicas, n.available)
                 left == MinValue(c.new, n.available)
      <4>1. downNew >= m
        BY <1>1, <2>1, <2>8, <2>10, <3>3, SMT
      <4>2. nk \in Nat /\ low \in Nat /\ (low = downNew \/ low = nk)
        BY <2>10, SMT DEF MinValue
      <4>3. left \in Nat /\ left >= low
        BY <2>2, <2>3, <2>10, SMT DEF MinValue
      <4>4. KeepsFloor(c, m, n, s, separate) <=> left + 0 >= MinValue(nk + 0, m)
        BY <3>3 DEF KeepsFloor
      <4> HIDE DEF nk, left
      <4> QED
        BY <1>1, <2>1, <4>1, <4>2, <4>3, <4>4, SMT DEF MinValue
    <3> QED
      BY <3>1, <3>2, <3>3
  <2> QED
    BY <2>7, <2>11
<1>14. CASE old = 0 /\ spare > 0 /\ inc /\ separate
  <2>1. downStable \in Nat /\ downStable <= M /\ downStable <= up.stable
    BY <1>5, <1>10, <1>14, SMT
  <2>2. /\ incr.drain \in 0..downStable
        /\ incr.adjust \in Nat /\ incr.adjust <= MaxValue(up.new, n.available)
    BY <1>1, <1>6, <2>1, AdjustBound DEF incr
  <2>3. c.new = incr.adjust /\ c.stable = incr.drain
    BY <1>s1, <1>s4, <1>8, <1>14, SMT
  <2>4. up.stable + n.replicas + old <= MaxValue(total, M)
    BY <1>1, <1>2, <1>4, <1>5, SMT DEF MaxValue
  <2>5. up.new + count + old <= MaxValue(total, M)
    BY <1>1, <1>2, <1>4, <1>5, <1>6, SMT DEF MaxValue
  <2>6. c.stable + n.replicas + old <= MaxValue(total, M)
    BY <1>1, <1>2, <1>5, <2>1, <2>2, <2>3, <2>4, SMT DEF MaxValue
  <2>7. c.new + count + old
          <= MaxValue(total, M) + MaxValue(0, n.available - n.replicas)
    BY <1>1, <1>2, <1>6, <2>2, <2>3, <2>5, SMT DEF MaxValue
  <2>8. WithinLimits(c, M, n, s, separate, old)
    BY <1>1, <1>2, <2>1, <2>2, <2>3, <2>6, <2>7, SMT DEF MaxValue, WithinLimits, count
  <2> DEFINE nk == MinValue(n.replicas, n.available)
             low == MinValue(downStable, s.available)
  <2>9. nk \in Nat /\ nk <= n.available
    BY SMT DEF MinValue
  <2>10. downStable + nk >= m
    <3>1. spare = nk + s.replicas - m /\ count = s.replicas
      BY <1>7, <1>8, <1>14 DEF count
    <3>2. CASE s.replicas > desired.stable
      <4>1. downStable >= s.replicas - spare
        BY <1>1, <1>2, <1>5, <1>8, <1>14, <3>1, <3>2, SMT
           DEF downStable, CalculateScaleDownReplicaCount, MaxValue
      <4> QED
        BY <1>1, <2>1, <2>9, <3>1, <4>1, SMT
    <3>3. CASE ~(s.replicas > desired.stable)
      <4>1. downStable = up.stable
        BY <3>3 DEF downStable, CalculateScaleDownReplicaCount
      <4> QED
        BY <1>1, <1>5, <1>14, <2>1, <2>9, <3>1, <4>1, SMT
    <3> QED
      BY <3>2, <3>3
  <2>11. /\ incr.drain >= low
         /\ MinValue(incr.adjust, n.available) + low >= MinValue(m, n.available + low)
    <3>1. n.replicas \in 0..(up.new)
      BY <1>6, SMT
    <3> QED
      BY <1>1, <1>6, <2>1, <2>10, <3>1, AdjustFloor DEF incr
  <2>12. /\ low \in Nat /\ low <= s.available
         /\ low = downStable \/ low = s.available
         /\ MinValue(incr.drain, s.available) >= low
    BY <2>1, <2>2, <2>11, SMT DEF MinValue
  <2> HIDE DEF nk, low
  <2>13. KeepsFloor(c, m, n, s, separate)
    <3>1. CASE c.stable # s.replicas
      BY <1>1, <1>14, <2>2, <2>3, <2>9, <2>10, <2>11, <2>12, <3>1, SMT
         DEF KeepsFloor, MinValue, nk
    <3>2. CASE c.stable = s.replicas
      BY <1>1, <1>14, <2>2, <2>3, <2>9, <2>10, <2>11, <2>12, <3>2, SMT
         DEF KeepsFloor, MinValue, nk
    <3> QED
      BY <3>1, <3>2
  <2> QED
    BY <2>8, <2>13
<1> QED
  BY <1>3, <1>8, <1>12, <1>13, <1>14, SMT

-----------------------------------------------------------------------------
(* The inductive invariant: the types, and that nobody but the reconcile   *)
(* writes spec.replicas, so that the counts it read are still the counts.  *)

SeenIsCurrent ==
    pc = "read" => \A v \in Versions : rs[v].replicas = seen.rs[v].replicas

IInv == TypeOK /\ SeenIsCurrent

(* The sums over the three versions, spelled out.                          *)
LEMMA SumOfThree ==
    /\ \A f : SumReplicas(f, Versions) = f[V1].replicas + f[V2].replicas + f[V3].replicas
    /\ \A f, S : SumReplicas(f, S) = (IF V1 \in S THEN f[V1].replicas ELSE 0)
                                     + (IF V2 \in S THEN f[V2].replicas ELSE 0)
                                     + (IF V3 \in S THEN f[V3].replicas ELSE 0)
    /\ OnTheirWayOut = MaxValue(0, seen.rs[V1].available - seen.rs[V1].replicas)
                       + MaxValue(0, seen.rs[V2].available - seen.rs[V2].replicas)
                       + MaxValue(0, seen.rs[V3].available - seen.rs[V3].replicas)
    /\ \A f : SumAvailable(f) = f[V1].available + f[V2].available + f[V3].available
    /\ \A f : Kept(f) = MinValue(f[V1].replicas, seen.rs[V1].available)
                       + MinValue(f[V2].replicas, seen.rs[V2].available)
                       + MinValue(f[V3].replicas, seen.rs[V3].available)
<1>1. \A f, S : SumReplicas(f, S) = (IF V1 \in S THEN f[V1].replicas ELSE 0)
                                   + (IF V2 \in S THEN f[V2].replicas ELSE 0)
                                   + (IF V3 \in S THEN f[V3].replicas ELSE 0)
  BY DEF SumReplicas, Total
<1>2. V1 \in Versions /\ V2 \in Versions /\ V3 \in Versions
  BY DEF Versions
<1> QED
  BY <1>1, <1>2 DEF OnTheirWayOut, SumAvailable, Kept, Total

(* What a reconcile read is well typed, and so is what it computes of it.  *)
LEMMA SeenTypes ==
    ASSUME TypeOK
    PROVE  /\ seen.replicas \in Nat /\ seen.new \in Versions
           /\ seen.stable \in Versions \cup {None}
           /\ Surge \in Nat /\ MinAvailable \in 0..(seen.replicas)
           /\ \A v \in Versions : /\ seen.rs[v].replicas \in Nat
                                   /\ seen.rs[v].available \in Nat
           /\ \A S : SumReplicas(seen.rs, S) \in Nat
           /\ DesiredWeight \in 0..MaxWeight
<1>1. seen \in Snapshot /\ limits \in Limits
  BY DEF TypeOK
<1>2. /\ seen.replicas \in Nat /\ seen.new \in Versions
      /\ seen.stable \in Versions \cup {None} /\ seen.weight \in 0..MaxWeight
      /\ seen.rs \in [Versions -> ReplicaSet]
  BY <1>1 DEF Snapshot
<1>3. \A v \in Versions : seen.rs[v].replicas \in Nat /\ seen.rs[v].available \in Nat
  BY <1>2 DEF ReplicaSet
<1>4. Surge \in Nat /\ MinAvailable \in 0..(seen.replicas)
  BY <1>1, <1>2, LimitsRange DEF Surge, MinAvailable
<1>5. \A S : SumReplicas(seen.rs, S) \in Nat
  BY <1>3, SumOfThree, SMT DEF Versions
<1>6. DesiredWeight \in 0..MaxWeight
  BY <1>2, WeightsAssumption, SMT DEF DesiredWeight
<1> QED
  BY <1>2, <1>3, <1>4, <1>5, <1>6

(* The counts of the reconcile at hand, in terms of the two ReplicaSets    *)
(* that it divides the pods over.                                          *)
LEMMA CountsOfSeen ==
    ASSUME TypeOK
    PROVE  LET n == seen.rs[seen.new]
               s == IF seen.stable = None THEN NoReplicaSet ELSE seen.rs[seen.stable]
           IN  /\ WithinLimits(Counts, seen.replicas + Surge, n, s, Separate,
                               SumReplicas(seen.rs, Others))
               /\ KeepsFloor(Counts, MinAvailable, n, s, Separate)
<1> DEFINE n == seen.rs[seen.new]
           s == IF seen.stable = None THEN NoReplicaSet ELSE seen.rs[seen.stable]
           old == SumReplicas(seen.rs, Others)
           want == Approximate(seen.replicas, DesiredWeight, MaxWeight, Surge)
<1>1. /\ seen.replicas \in Nat /\ seen.new \in Versions
      /\ seen.stable \in Versions \cup {None}
      /\ Surge \in Nat /\ MinAvailable \in 0..(seen.replicas)
      /\ \A v \in Versions : seen.rs[v].replicas \in Nat /\ seen.rs[v].available \in Nat
      /\ old \in Nat
      /\ DesiredWeight \in 0..MaxWeight
  BY SeenTypes
<1>2. n.replicas \in Nat /\ n.available \in Nat
  BY <1>1
<1>3. s.replicas \in Nat /\ s.available \in Nat
  BY <1>1 DEF NoReplicaSet
<1>4. want.new \in 0..(seen.replicas + Surge) /\ want.stable \in 0..(seen.replicas + Surge)
  BY <1>1, ApproximateRange, WeightsAssumption
<1>5. Separate \in BOOLEAN
  BY DEF Separate
<1> HIDE DEF n, s, old, want
<1>6. Counts = BasicCounts(seen.replicas, limits.surge, limits.unavailable, want,
                           n, s, Separate, old)
  BY DEF Counts, want, n, s, old
<1>7. /\ WithinLimits(Counts, seen.replicas + Surge, n, s, Separate, old)
      /\ KeepsFloor(Counts, MinAvailable, n, s, Separate)
  BY <1>1, <1>2, <1>3, <1>4, <1>5, <1>6, CountsBound DEF Surge, MinAvailable
<1> QED
  BY <1>7 DEF n, s, old

(* The counts of the reconcile at hand are within the limits.              *)
LEMMA CountsWithinLimits ==
    ASSUME TypeOK
    PROVE  /\ Counts.new \in Nat /\ Counts.stable \in Nat
           /\ Separate =>
                Requested(seen.rs) - seen.rs[seen.stable].replicas + Counts.stable
                  <= MaxValue(Requested(seen.rs), seen.replicas + Surge) + OnTheirWayOut
           /\ Requested(seen.rs) - seen.rs[seen.new].replicas + Counts.new
                <= MaxValue(Requested(seen.rs), seen.replicas + Surge) + OnTheirWayOut
<1> DEFINE n == seen.rs[seen.new]
           s == IF seen.stable = None THEN NoReplicaSet ELSE seen.rs[seen.stable]
           old == SumReplicas(seen.rs, Others)
           count == IF Separate THEN s.replicas ELSE 0
<1>1. /\ seen.replicas \in Nat /\ seen.new \in Versions
      /\ seen.stable \in Versions \cup {None}
      /\ Surge \in Nat /\ MinAvailable \in 0..(seen.replicas)
      /\ \A v \in Versions : seen.rs[v].replicas \in Nat /\ seen.rs[v].available \in Nat
      /\ old \in Nat
  BY SeenTypes
<1>2. n.replicas \in Nat /\ n.available \in Nat
  BY <1>1
<1>3. s.replicas \in Nat /\ s.available \in Nat
  BY <1>1 DEF NoReplicaSet
<1>5. Separate \in BOOLEAN /\ (Separate => s = seen.rs[seen.stable])
  BY DEF Separate
<1>6. Requested(seen.rs) = n.replicas + count + old
  <2> DEFINE k(v) == seen.rs[v].replicas
             at(v) == IF v \in Others THEN k(v) ELSE 0
  <2>1. old = at(V1) + at(V2) + at(V3)
    BY SumOfThree
  <2>2. Requested(seen.rs) = k(V1) + k(V2) + k(V3)
    BY SumOfThree DEF Requested
  <2>3. k(V1) \in Nat /\ k(V2) \in Nat /\ k(V3) \in Nat
    BY <1>1 DEF Versions
  <2>4. n.replicas = k(seen.new) /\ count = IF Separate THEN k(seen.stable) ELSE 0
    BY DEF Separate
  <2> HIDE DEF k, n, s, old, count
  <2>5. /\ at(V1) = IF V1 \in {seen.new, seen.stable} THEN 0 ELSE k(V1)
        /\ at(V2) = IF V2 \in {seen.new, seen.stable} THEN 0 ELSE k(V2)
        /\ at(V3) = IF V3 \in {seen.new, seen.stable} THEN 0 ELSE k(V3)
    BY DEF Others, Versions
  <2> HIDE DEF at
  <2>6. seen.new \in {V1, V2, V3} /\ seen.stable \in {V1, V2, V3, None}
    BY <1>1 DEF Versions
  <2>7. CASE Separate
    BY <2>1, <2>2, <2>3, <2>4, <2>5, <2>6, <2>7, VersionsAssumption, SMT
       DEF Separate, Versions
  <2>8. CASE ~Separate
    BY <2>1, <2>2, <2>3, <2>4, <2>5, <2>6, <2>8, VersionsAssumption, SMT
       DEF Separate, Versions
  <2> QED
    BY <2>7, <2>8
<1>7. /\ MaxValue(0, n.available - n.replicas) <= OnTheirWayOut
      /\ Separate => MaxValue(0, s.available - s.replicas) <= OnTheirWayOut
  <2> DEFINE way(v) == MaxValue(0, seen.rs[v].available - seen.rs[v].replicas)
  <2>1. \A v \in Versions : way(v) \in Nat
    BY <1>1, SMT DEF MaxValue
  <2>2. OnTheirWayOut = way(V1) + way(V2) + way(V3)
    BY SumOfThree
  <2> HIDE DEF way
  <2>3. \A v \in Versions : way(v) <= OnTheirWayOut
    BY <2>1, <2>2, SMT DEF Versions
  <2> QED
    BY <1>1, <1>5, <2>3 DEF way, Separate
<1>8. OnTheirWayOut \in Nat /\ Requested(seen.rs) \in Nat
  <2>1. Requested(seen.rs) \in Nat
    BY SeenTypes DEF Requested
  <2>2. \A v \in Versions : MaxValue(0, seen.rs[v].available - seen.rs[v].replicas) \in Nat
    BY <1>1, SMT DEF MaxValue
  <2>3. OnTheirWayOut \in Nat
    BY <2>2, SumOfThree, SMT DEF Versions
  <2> QED
    BY <2>1, <2>3
<1> HIDE DEF n, s, old
<1>10. WithinLimits(Counts, seen.replicas + Surge, n, s, Separate, old)
  BY CountsOfSeen DEF n, s, old
<1> HIDE DEF Counts
<1>11. /\ Counts.new \in Nat /\ Counts.stable \in Nat
       /\ Separate => Counts.stable + n.replicas + old
                       <= MaxValue(n.replicas + count + old, seen.replicas + Surge)
                          + MaxValue(0, s.available - s.replicas)
       /\ Counts.new + count + old
            <= MaxValue(n.replicas + count + old, seen.replicas + Surge)
               + MaxValue(0, n.available - n.replicas)
  BY <1>10 DEF WithinLimits
<1>12. MaxValue(Requested(seen.rs), seen.replicas + Surge) \in Nat
  BY <1>1, <1>8, SMT DEF MaxValue
<1>13. ASSUME Separate
       PROVE  Requested(seen.rs) - seen.rs[seen.stable].replicas + Counts.stable
                <= MaxValue(Requested(seen.rs), seen.replicas + Surge) + OnTheirWayOut
  <2>1. seen.rs[seen.stable].replicas = s.replicas /\ count = s.replicas
    BY <1>5, <1>13
  <2> QED
    BY <1>1, <1>2, <1>3, <1>6, <1>7, <1>8, <1>11, <1>12, <1>13, <2>1, SMT DEF MaxValue
<1>14. Requested(seen.rs) - seen.rs[seen.new].replicas + Counts.new
         <= MaxValue(Requested(seen.rs), seen.replicas + Surge) + OnTheirWayOut
  <2>1. seen.rs[seen.new].replicas = n.replicas /\ count \in Nat
    BY <1>3 DEF n
  <2> QED
    BY <1>1, <1>2, <1>6, <1>7, <1>8, <1>11, <1>12, <2>1, SMT DEF MaxValue
<1> QED
  BY <1>11, <1>13, <1>14

-----------------------------------------------------------------------------
(* The steps.                                                              *)

(* Scaling one ReplicaSet leaves the others alone.                         *)
LEMMA ScaledType ==
    ASSUME NEW f \in [Versions -> ReplicaSet], NEW v \in Versions, NEW k \in Nat,
           seen.replicas \in Nat
    PROVE  /\ Scaled(f, v, k) \in [Versions -> ReplicaSet]
           /\ Scaled(f, v, k)[v].replicas = k
           /\ \A w \in Versions \ {v} : Scaled(f, v, k)[w] = f[w]
<1>1. f[v] \in ReplicaSet
  OBVIOUS
<1>2. /\ f[v].replicas \in Nat /\ f[v].available \in Nat /\ f[v].desired \in Nat
  BY <1>1 DEF ReplicaSet
<1> DEFINE d == IF k # seen.rs[v].replicas \/ f[v].desired # seen.replicas
                THEN seen.replicas ELSE f[v].desired
           r == [f[v] EXCEPT !.replicas = k, !.desired = d]
<1>3. r \in ReplicaSet /\ r.replicas = k
  BY <1>1, <1>2 DEF ReplicaSet
<1>4. Scaled(f, v, k) = [f EXCEPT ![v] = r]
  BY <1>1, <1>2 DEF Scaled, ReplicaSet
<1> HIDE DEF r
<1> QED
  BY <1>3, <1>4

(* The older ReplicaSets only lose pods.                                   *)
LEMMA OlderCountBound ==
    ASSUME TypeOK, NEW v \in Versions, NEW first \in Versions
    PROVE  /\ CleanedUp(v) \in 0..(seen.rs[v].replicas)
           /\ OlderCount(v, first) \in 0..(seen.rs[v].replicas)
<1>1. /\ \A w \in Versions : seen.rs[w].replicas \in Nat /\ seen.rs[w].available \in Nat
      /\ seen.replicas \in Nat /\ MinAvailable \in 0..(seen.replicas)
  BY SeenTypes
<1>2. \A w \in Versions : CleanedUp(w) \in 0..(seen.rs[w].replicas)
  BY <1>1, SMT DEF CleanedUp, MinValue
<1>3. SumAvailable(seen.rs) \in Nat
  BY <1>1, SMT DEF SumAvailable, Total, Versions
<1> DEFINE spare == SumAvailable(seen.rs) - MinAvailable
           left == IF v = first THEN spare ELSE spare - MinValue(CleanedUp(first), spare)
<1>4. spare \in Int
  BY <1>1, <1>3, SMT
<1> HIDE DEF spare
<1>5. left \in Int
  BY <1>2, <1>4, SMT DEF MinValue
<1>6. OlderCount(v, first) = IF spare <= 0 \/ left <= 0 THEN CleanedUp(v)
                             ELSE MaxValue(0, CleanedUp(v) - left)
  BY DEF OlderCount, spare
<1> HIDE DEF left
<1> QED
  BY <1>1, <1>2, <1>4, <1>5, <1>6, SMT DEF MaxValue

LEMMA ReconcileOthersBound ==
    ASSUME TypeOK, NEW g \in [Versions -> ReplicaSet],
           \A v \in Versions : g[v].replicas = seen.rs[v].replicas,
           ReconcileOthers(g)
    PROVE  /\ rs' \in [Versions -> ReplicaSet]
           /\ \A v \in Versions : rs'[v].replicas <= seen.rs[v].replicas
           /\ \A v \in Versions \ Others : rs'[v] = g[v]
<1>1. seen.replicas \in Nat /\ \A v \in Versions : seen.rs[v].replicas \in Nat
  BY SeenTypes
<1>2. CASE Surplus # {}
  <2>1. PICK cleaned \in SUBSET (Older \ Surplus) : rs' = ScaleOlder(g, cleaned, CleanedUp)
    BY <1>2 DEF ReconcileOthers
  <2>2. rs' = [v \in Versions |->
                  IF v \in cleaned /\ CleanedUp(v) # seen.rs[v].replicas
                  THEN Scaled(g, v, CleanedUp(v))[v] ELSE g[v]]
    BY <2>1 DEF ScaleOlder
  <2>3. \A v \in Versions : /\ CleanedUp(v) \in Nat
                            /\ CleanedUp(v) <= seen.rs[v].replicas
    BY <1>1, OlderCountBound
  <2>4. \A v \in Versions : /\ Scaled(g, v, CleanedUp(v))[v] \in ReplicaSet
                            /\ Scaled(g, v, CleanedUp(v))[v].replicas = CleanedUp(v)
    BY <1>1, <2>3, ScaledType
  <2> QED
    BY <1>1, <2>2, <2>3, <2>4 DEF Older
<1>3. CASE Surplus = {}
  <2>1. PICK first \in Versions :
          rs' = [v \in Versions |->
                  IF v \in Older /\ OlderCount(v, first) # seen.rs[v].replicas
                  THEN Scaled(g, v, OlderCount(v, first))[v] ELSE g[v]]
    BY <1>3 DEF ReconcileOthers, ScaleOlder
  <2>2. \A v \in Versions : /\ OlderCount(v, first) \in Nat
                            /\ OlderCount(v, first) <= seen.rs[v].replicas
    BY <1>1, OlderCountBound
  <2>3. \A v \in Versions :
          /\ Scaled(g, v, OlderCount(v, first))[v] \in ReplicaSet
          /\ Scaled(g, v, OlderCount(v, first))[v].replicas = OlderCount(v, first)
    BY <1>1, <2>2, ScaledType
  <2> QED
    BY <1>1, <2>1, <2>2, <2>3 DEF Older
<1> QED
  BY <1>2, <1>3

(* One reconcile scales one group of ReplicaSets: the stable one, the new  *)
(* one or the older ones.                                                  *)
StableScaled ==
    /\ Separate /\ seen.stable \in Versions
    /\ Counts.stable # seen.rs[seen.stable].replicas
    /\ rs'[seen.stable].replicas = Counts.stable
    /\ \A v \in Versions \ {seen.stable} : rs'[v].replicas = seen.rs[v].replicas

NewScaled ==
    /\ ~(Separate /\ Counts.stable # seen.rs[seen.stable].replicas)
    /\ rs'[seen.new].replicas = Counts.new
    /\ \A v \in Versions \ {seen.new} : rs'[v].replicas = seen.rs[v].replicas

OlderScaled ==
    \E g \in [Versions -> ReplicaSet] :
        /\ \A v \in Versions : g[v].replicas = seen.rs[v].replicas
        /\ \A v \in Others : g[v] = rs[v]
        /\ ReconcileOthers(g)

LEMMA OneGroup ==
    ASSUME IInv, pc = "read", ReconcileReplicaSets
    PROVE  /\ rs' \in [Versions -> ReplicaSet]
           /\ StableScaled \/ NewScaled \/ OlderScaled
<1> DEFINE f == ScaleStable(Counts.stable)
           g == Scaled(f, seen.new, Counts.new)
           k(v) == seen.rs[v].replicas
<1>1. /\ rs \in [Versions -> ReplicaSet]
      /\ \A v \in Versions : rs[v].replicas = k(v) /\ k(v) \in Nat
      /\ seen.replicas \in Nat /\ seen.new \in Versions
      /\ seen.stable \in Versions \cup {None}
  BY SeenTypes DEF IInv, TypeOK, SeenIsCurrent
<1>2. Counts.new \in Nat /\ Counts.stable \in Nat
  BY CountsWithinLimits DEF IInv
<1>3. Separate => seen.stable \in Versions /\ seen.stable # seen.new
  BY <1>1 DEF Separate
<1>4. \A v \in Others : v \in Versions /\ v # seen.new /\ v # seen.stable
  BY DEF Others
<1>5. /\ f \in [Versions -> ReplicaSet]
      /\ Separate => f[seen.stable].replicas = Counts.stable
      /\ \A v \in Versions : (~Separate \/ v # seen.stable) => f[v] = rs[v]
  BY <1>1, <1>2, <1>3, ScaledType DEF ScaleStable
<1> HIDE DEF f
<1>6. /\ g \in [Versions -> ReplicaSet]
      /\ g[seen.new].replicas = Counts.new
      /\ \A v \in Versions \ {seen.new} : g[v] = f[v]
  BY <1>1, <1>2, <1>5, ScaledType
<1> HIDE DEF g
<1>7. CASE Separate /\ Counts.stable # k(seen.stable)
  <2>1. rs' = f
    BY <1>7 DEF ReconcileReplicaSets, ScaleTo, f
  <2> QED
    BY <1>1, <1>3, <1>5, <1>7, <2>1 DEF StableScaled
<1>8. CASE /\ ~(Separate /\ Counts.stable # k(seen.stable))
           /\ Counts.new # k(seen.new)
  <2>1. rs' = g
    BY <1>8 DEF ReconcileReplicaSets, ScaleTo, g, f
  <2>2. \A v \in Versions \ {seen.new} : g[v].replicas = k(v)
    BY <1>1, <1>5, <1>6, <1>8
  <2> QED
    BY <1>6, <1>8, <2>1, <2>2 DEF NewScaled
<1>9. CASE /\ ~(Separate /\ Counts.stable # k(seen.stable))
           /\ Counts.new = k(seen.new)
  <2>1. ReconcileOthers(g)
    BY <1>9 DEF ReconcileReplicaSets, ScaleTo, g, f
  <2>2. \A v \in Versions : g[v].replicas = seen.rs[v].replicas
    BY <1>1, <1>5, <1>6, <1>9
  <2>3. \A v \in Others : g[v] = rs[v]
    BY <1>4, <1>5, <1>6
  <2>4. rs' \in [Versions -> ReplicaSet]
    BY <1>6, <2>1, <2>2, ReconcileOthersBound DEF IInv
  <2> QED
    BY <1>6, <2>1, <2>2, <2>3, <2>4 DEF OlderScaled
<1> QED
  BY <1>7, <1>8, <1>9

(* One reconcile: the types, and the surge.                                *)
LEMMA ReconcileBound ==
    ASSUME IInv, pc = "read", ReconcileReplicaSets
    PROVE  /\ rs' \in [Versions -> ReplicaSet]
           /\ Requested(rs') <= MaxValue(Requested(rs), seen.replicas + Surge)
                                + OnTheirWayOut
<1> DEFINE bound == MaxValue(Requested(seen.rs), seen.replicas + Surge) + OnTheirWayOut
           k(v) == seen.rs[v].replicas
<1>1. /\ rs \in [Versions -> ReplicaSet]
      /\ \A v \in Versions : rs[v].replicas = k(v) /\ k(v) \in Nat
      /\ seen.replicas \in Nat /\ seen.new \in Versions /\ Surge \in Nat
  BY SeenTypes DEF IInv, TypeOK, SeenIsCurrent
<1>2. Requested(rs) = Requested(seen.rs) /\ Requested(rs) \in Nat
  BY <1>1, SumOfThree, SMT DEF Requested, Versions
<1>3. /\ Separate => Requested(seen.rs) - k(seen.stable) + Counts.stable <= bound
      /\ Requested(seen.rs) - k(seen.new) + Counts.new <= bound
  BY CountsWithinLimits DEF IInv
<1>4. rs' \in [Versions -> ReplicaSet] /\ (StableScaled \/ NewScaled \/ OlderScaled)
  BY OneGroup
<1> HIDE DEF bound
<1>5. bound \in Nat /\ Requested(seen.rs) <= bound
  <2>1. \A v \in Versions : MaxValue(0, seen.rs[v].available - seen.rs[v].replicas) \in Nat
    BY SeenTypes, SMT DEF IInv, MaxValue
  <2>2. OnTheirWayOut \in Nat
    BY <2>1, SumOfThree, SMT DEF Versions
  <2> QED
    BY <1>1, <1>2, <2>2, SMT DEF bound, MaxValue
<1>6. \A v \in Versions : rs'[v].replicas \in Nat
  BY <1>4 DEF ReplicaSet
<1>7. /\ Requested(rs') = rs'[V1].replicas + rs'[V2].replicas + rs'[V3].replicas
      /\ Requested(seen.rs) = k(V1) + k(V2) + k(V3)
  BY SumOfThree DEF Requested
(* The total after a change of one count only                              *)
<1>8. ASSUME NEW v \in Versions, \A w \in Versions \ {v} : rs'[w].replicas = k(w)
      PROVE  Requested(rs') = Requested(seen.rs) - k(v) + rs'[v].replicas
  <2> HIDE DEF k
  <2> QED
    BY <1>1, <1>6, <1>7, <1>8, VersionsAssumption, SMT DEF Versions
<1>9. CASE StableScaled
  <2>1. Requested(rs') = Requested(seen.rs) - k(seen.stable) + Counts.stable
    BY <1>8, <1>9 DEF StableScaled
  <2> QED
    BY <1>2, <1>3, <1>4, <1>9, <2>1 DEF bound, StableScaled
<1>10. CASE NewScaled
  <2>1. Requested(rs') = Requested(seen.rs) - k(seen.new) + Counts.new
    BY <1>1, <1>8, <1>10 DEF NewScaled
  <2> QED
    BY <1>2, <1>3, <1>4, <2>1 DEF bound
<1>11. CASE OlderScaled
  <2>1. \A v \in Versions : rs'[v].replicas <= k(v)
    BY <1>11, ReconcileOthersBound DEF IInv, OlderScaled
  <2> HIDE DEF k
  <2>2. Requested(rs') <= Requested(seen.rs) /\ Requested(rs') \in Nat
    BY <1>1, <1>6, <1>7, <2>1, SMT DEF Versions
  <2>3. Requested(rs') <= bound
    BY <1>2, <1>5, <2>2, SMT
  <2> QED
    BY <1>2, <1>4, <2>3 DEF bound
<1> QED
  BY <1>4, <1>9, <1>10, <1>11

(* What the scale-down of the older versions takes: nothing unless more    *)
(* pods are available than have to be; and then the older one that comes   *)
(* first loses what is spare, and another one what is left of that.        *)
LEMMA OlderCountKeeps ==
    ASSUME TypeOK, OnTheirWayOut = 0, NEW v \in Versions, NEW first \in Versions
    PROVE  LET av == seen.rs[v].available
               spare == SumAvailable(seen.rs) - MinAvailable
               taken == MinValue(seen.rs[first].available, spare)
           IN  /\ av <= seen.rs[v].replicas
               /\ spare <= 0 => OlderCount(v, first) = av
               /\ spare > 0 => /\ taken \in 0..spare
                               /\ v = first => OlderCount(v, first) >= av - taken
                               /\ v # first => OlderCount(v, first) >= av - (spare - taken)
<1> DEFINE k(w) == seen.rs[w].replicas
           av(w) == seen.rs[w].available
           spare == SumAvailable(seen.rs) - MinAvailable
           taken == MinValue(av(first), spare)
           left == IF v = first THEN spare ELSE spare - MinValue(CleanedUp(first), spare)
<1>1. /\ \A w \in Versions : k(w) \in Nat /\ av(w) \in Nat
      /\ SumAvailable(seen.rs) = av(V1) + av(V2) + av(V3)
      /\ MinAvailable \in Nat
  <2>1. seen.replicas \in Nat /\ MinAvailable \in 0..(seen.replicas)
    BY SeenTypes
  <2> QED
    BY <2>1, SeenTypes, SumOfThree
<1>2. \A w \in Versions : av(w) <= k(w)
  <2> HIDE DEF k, av
  <2>1. MaxValue(0, av(V1) - k(V1)) + MaxValue(0, av(V2) - k(V2))
          + MaxValue(0, av(V3) - k(V3)) = 0
    BY SumOfThree DEF k, av
  <2> QED
    BY <1>1, <2>1, SMT DEF MaxValue, Versions
<1>3. CleanedUp(v) = av(v) /\ CleanedUp(first) = av(first)
  <2>1. \A w \in Versions : MinValue(k(w), av(w)) = av(w)
    BY <1>1, <1>2, SMT DEF MinValue
  <2> QED
    BY <2>1 DEF CleanedUp
<1>4. spare \in Int
  BY <1>1, SMT DEF Versions
<1>5. OlderCount(v, first) = IF spare <= 0 \/ left <= 0 THEN av(v)
                             ELSE MaxValue(0, av(v) - left)
  BY <1>3 DEF OlderCount, spare
<1>6. left = IF v = first THEN spare ELSE spare - taken
  BY <1>3
<1>7. av(v) \in Nat /\ av(first) \in Nat /\ av(v) <= k(v)
  BY <1>1, <1>2
<1> HIDE DEF k, av, spare, left
<1>8. spare > 0 => taken \in 0..spare /\ (taken = spare \/ taken = av(first))
  BY <1>4, <1>7, SMT DEF MinValue
<1> HIDE DEF taken
<1>9. spare <= 0 => OlderCount(v, first) = av(v)
  BY <1>5
<1>10. ASSUME spare > 0, v = first PROVE OlderCount(v, first) >= av(v) - taken
  <2>1. OlderCount(v, first) = MaxValue(0, av(v) - spare)
    BY <1>4, <1>5, <1>6, <1>10, SMT
  <2> QED
    BY <1>4, <1>7, <1>8, <1>10, <2>1, SMT DEF MaxValue
<1>11. ASSUME spare > 0, v # first PROVE OlderCount(v, first) >= av(v) - (spare - taken)
  <2>1. left = spare - taken
    BY <1>6, <1>11
  <2> QED
    BY <1>4, <1>5, <1>7, <1>8, <1>11, <2>1, SMT DEF MaxValue
<1> QED
  BY <1>7, <1>8, <1>9, <1>10, <1>11 DEF av, k, spare, taken

\* What is at least b is at least the smaller of a and b.
LEMMA FloorOfAtLeast ==
    ASSUME NEW a \in Nat, NEW b \in Nat, NEW c \in Nat, c >= b
    PROVE  c >= MinValue(a, b)
BY SMT DEF MinValue

(* One reconcile: the floor.                                               *)
LEMMA ReconcileFloor ==
    ASSUME IInv, pc = "read", ReconcileReplicaSets,
           OnTheirWayOut = 0 \/ \A v \in Others : rs'[v] = rs[v]
    PROVE  Kept(rs') >= MinValue(Kept(seen.rs), MinAvailable)
<1> DEFINE k(v) == MinValue(seen.rs[v].replicas, seen.rs[v].available)
           l(v) == MinValue(rs'[v].replicas, seen.rs[v].available)
           m == MinAvailable
<1>1. /\ rs \in [Versions -> ReplicaSet]
      /\ \A v \in Versions : /\ rs[v].replicas = seen.rs[v].replicas
                             /\ seen.rs[v].replicas \in Nat /\ seen.rs[v].available \in Nat
      /\ seen.new \in Versions /\ seen.stable \in Versions \cup {None} /\ m \in Nat
  <2>1. seen.replicas \in Nat /\ MinAvailable \in 0..(seen.replicas)
    BY SeenTypes DEF IInv
  <2> QED
    BY <2>1, SeenTypes DEF IInv, TypeOK, SeenIsCurrent
<1>2. rs' \in [Versions -> ReplicaSet] /\ (StableScaled \/ NewScaled \/ OlderScaled)
  BY OneGroup
<1>3. \A v \in Versions : rs'[v].replicas \in Nat
  BY <1>2 DEF ReplicaSet
<1>4. \A v \in Versions : k(v) \in Nat /\ l(v) \in Nat
  BY <1>1, <1>3, SMT DEF MinValue
<1>5. Kept(seen.rs) = k(V1) + k(V2) + k(V3) /\ Kept(rs') = l(V1) + l(V2) + l(V3)
  BY SumOfThree
<1> HIDE DEF m
<1>6. ASSUME NEW v \in Versions, \A w \in Versions \ {v} : l(w) = k(w)
      PROVE  Kept(rs') = Kept(seen.rs) - k(v) + l(v)
  <2> HIDE DEF k, l
  <2> QED
    BY <1>4, <1>5, <1>6, VersionsAssumption, SMT DEF Versions
<1>7. ASSUME \A v \in Versions : l(v) = k(v)
      PROVE  Kept(rs') >= MinValue(Kept(seen.rs), m)
  <2>1. V1 \in Versions /\ V2 \in Versions /\ V3 \in Versions
    BY DEF Versions
  <2>2. Kept(rs') = Kept(seen.rs) /\ Kept(seen.rs) \in Nat
    <3> HIDE DEF k, l
    <3> QED
      BY <1>4, <1>5, <1>7, <2>1, SMT
  <2> QED
    BY <1>1, <2>2, SMT DEF MinValue
(* The pods of the two versions that share the traffic are some of those   *)
(* that are kept.                                                          *)
<1>8. /\ Kept(seen.rs) \in Nat
      /\ Kept(seen.rs) >= k(seen.new) + (IF Separate THEN k(seen.stable) ELSE 0)
  <2> HIDE DEF k, l
  <2>1. seen.new \in {V1, V2, V3} /\ (Separate => seen.stable \in {V1, V2, V3})
    BY <1>1 DEF Separate, Versions
  <2>2. Separate => seen.stable # seen.new
    BY DEF Separate
  <2>3. k(V1) \in Nat /\ k(V2) \in Nat /\ k(V3) \in Nat
    BY <1>4 DEF Versions
  <2>4. CASE Separate
    BY <1>5, <2>1, <2>2, <2>3, <2>4, SMT
  <2>5. CASE ~Separate
    BY <1>5, <2>1, <2>3, <2>5, SMT
  <2> QED
    BY <2>4, <2>5
<1>9. /\ Separate /\ Counts.stable # seen.rs[seen.stable].replicas
         => k(seen.new) + MinValue(Counts.stable, seen.rs[seen.stable].available)
              >= MinValue(k(seen.new) + k(seen.stable), m)
      /\ ~(Separate /\ Counts.stable # seen.rs[seen.stable].replicas)
         => MinValue(Counts.new, seen.rs[seen.new].available)
               + (IF Separate THEN k(seen.stable) ELSE 0)
              >= MinValue(k(seen.new) + (IF Separate THEN k(seen.stable) ELSE 0), m)
  <2> DEFINE n == seen.rs[seen.new]
             s == IF seen.stable = None THEN NoReplicaSet ELSE seen.rs[seen.stable]
  <2>1. KeepsFloor(Counts, m, n, s, Separate)
    BY CountsOfSeen DEF IInv, m
  <2>2. Separate => s = seen.rs[seen.stable]
    BY DEF Separate
  <2>3. k(seen.new) = MinValue(n.replicas, n.available)
    OBVIOUS
  <2>4. Separate => k(seen.stable) = MinValue(s.replicas, s.available)
    BY <2>2
  <2> HIDE DEF k, l, n, s
  <2>5. CASE Separate
    BY <2>1, <2>2, <2>3, <2>4, <2>5 DEF KeepsFloor, n
  <2>6. CASE ~Separate
    BY <2>1, <2>3, <2>6 DEF KeepsFloor, n
  <2> QED
    BY <2>5, <2>6
<1>10. CASE StableScaled
  <2>1. \A v \in Versions \ {seen.stable} : l(v) = k(v)
    BY <1>10 DEF StableScaled
  <2>2. Kept(rs') = Kept(seen.rs) - k(seen.stable) + l(seen.stable)
    BY <1>6, <1>10, <2>1 DEF StableScaled
  <2>3. k(seen.new) + l(seen.stable) >= MinValue(k(seen.new) + k(seen.stable), m)
    BY <1>9, <1>10 DEF StableScaled
  <2>4. Kept(seen.rs) >= k(seen.new) + k(seen.stable)
    BY <1>8, <1>10 DEF StableScaled
  <2>5. k(seen.new) \in Nat /\ k(seen.stable) \in Nat /\ l(seen.stable) \in Nat
    BY <1>1, <1>4, <1>10 DEF StableScaled
  <2> HIDE DEF k, l
  <2> QED
    BY <1>1, <1>8, <2>2, <2>3, <2>4, <2>5, SMT DEF MinValue, m
<1>11. CASE NewScaled
  <2> DEFINE rest == IF Separate THEN k(seen.stable) ELSE 0
  <2>1. \A v \in Versions \ {seen.new} : l(v) = k(v)
    BY <1>11 DEF NewScaled
  <2>2. Kept(rs') = Kept(seen.rs) - k(seen.new) + l(seen.new)
    BY <1>1, <1>6, <2>1
  <2>3. l(seen.new) + rest >= MinValue(k(seen.new) + rest, m)
    BY <1>9, <1>11 DEF NewScaled
  <2>4. Kept(seen.rs) >= k(seen.new) + rest
    BY <1>8
  <2>5. k(seen.new) \in Nat /\ l(seen.new) \in Nat /\ rest \in Nat
    BY <1>1, <1>4 DEF Separate
  <2> HIDE DEF k, l, rest
  <2> QED
    BY <1>1, <1>8, <2>2, <2>3, <2>4, <2>5, SMT DEF MinValue, m
<1>12. CASE OlderScaled
  <2>1. PICK g \in [Versions -> ReplicaSet] :
          /\ \A v \in Versions : g[v].replicas = seen.rs[v].replicas
          /\ \A v \in Others : g[v] = rs[v]
          /\ ReconcileOthers(g)
    BY <1>12 DEF OlderScaled
  <2>2. \A v \in Versions \ Others : rs'[v] = g[v]
    BY <2>1, ReconcileOthersBound DEF IInv
  <2>3. \A v \in Versions \ Others : l(v) = k(v)
    BY <2>1, <2>2
  <2>4. CASE \A v \in Others : rs'[v] = rs[v]
    <3>1. \A v \in Versions : l(v) = k(v)
      BY <1>1, <2>3, <2>4
    <3> QED
      BY <1>7, <3>1 DEF m
  <2>5. CASE OnTheirWayOut = 0
    <3>1. \A v, first \in Versions :
            LET av == seen.rs[v].available
                spare == SumAvailable(seen.rs) - MinAvailable
                taken == MinValue(seen.rs[first].available, spare)
            IN  /\ av <= seen.rs[v].replicas
                /\ spare <= 0 => OlderCount(v, first) = av
                /\ spare > 0 => /\ taken \in 0..spare
                                /\ v = first => OlderCount(v, first) >= av - taken
                                /\ v # first => OlderCount(v, first) >= av - (spare - taken)
      BY <2>5, OlderCountKeeps DEF IInv
    <3>2. \A v \in Versions : k(v) = seen.rs[v].available
      <4>1. \A v \in Versions : /\ seen.rs[v].available <= seen.rs[v].replicas
                               /\ seen.rs[v].available \in Nat
                               /\ seen.rs[v].replicas \in Nat
        BY <1>1, <3>1
      <4>2. \A a, b \in Nat : b <= a => MinValue(a, b) = b
        BY SMT DEF MinValue
      <4> QED
        BY <4>1, <4>2
    <3>3. Surplus = {}
      <4>1. \A v \in Versions : ~(seen.rs[v].available > seen.rs[v].replicas)
        BY <1>1, <3>1, SMT
      <4> QED
        BY <4>1 DEF Surplus, Older, Others
    <3>4. PICK first \in Versions :
            /\ Older # {} => first \in Older
            /\ rs' = [v \in Versions |->
                  IF v \in Older /\ OlderCount(v, first) # seen.rs[v].replicas
                  THEN Scaled(g, v, OlderCount(v, first))[v] ELSE g[v]]
      BY <2>1, <3>3 DEF ReconcileOthers, ScaleOlder
    <3>5. \A v \in Versions \ Older : l(v) = k(v)
      BY <2>1, <3>4
    <3>6. \A v \in Older : v \in Versions /\ v # seen.new
      BY DEF Older, Others
    <3>7. ASSUME NEW v \in Older PROVE rs'[v].replicas = OlderCount(v, first)
      <4>1. OlderCount(v, first) \in Nat
        BY <1>1, <3>6, OlderCountBound DEF IInv
      <4>2. Scaled(g, v, OlderCount(v, first))[v].replicas = OlderCount(v, first)
        BY <3>6, <4>1, SeenTypes, ScaledType DEF IInv
      <4> QED
        BY <2>1, <3>4, <3>6, <4>2
    <3> DEFINE total == SumAvailable(seen.rs)
               spare == total - m
               taken == MinValue(k(first), spare)
    <3>8. total = k(V1) + k(V2) + k(V3)
      BY <3>2, SumOfThree DEF Versions
    <3>9. CASE spare <= 0
      <4>1. \A v \in Older : OlderCount(v, first) = k(v)
        BY <3>1, <3>2, <3>6, <3>9 DEF m
      <4>2. \A v \in Older : l(v) = k(v)
        BY <1>4, <3>2, <3>6, <3>7, <4>1, SMT DEF MinValue
      <4> QED
        BY <1>7, <3>5, <4>2 DEF m
    <3>10. CASE Older = {}
      BY <1>7, <3>5, <3>10 DEF m
    <3>11. CASE spare > 0 /\ Older # {}
      <4>1. first \in Older
        BY <3>4, <3>11
      <4>2. taken \in 0..spare
        BY <3>1, <3>2, <3>11 DEF m
      <4>3. \A v \in Older : /\ v = first => OlderCount(v, first) >= k(v) - taken
                             /\ v # first => OlderCount(v, first) >= k(v) - (spare - taken)
        BY <3>1, <3>2, <3>6, <3>11 DEF m
      <4> HIDE DEF taken
      <4>4. spare \in Int
        BY <1>1, <1>4, <3>8, SMT DEF Versions
      <4> HIDE DEF spare
      <4>5. ASSUME NEW v \in Older
            PROVE  l(v) >= IF v = first THEN k(v) - taken ELSE k(v) - (spare - taken)
        <5>1. l(v) = MinValue(OlderCount(v, first), k(v))
          BY <3>2, <3>6, <3>7
        <5>2. k(v) \in Nat /\ OlderCount(v, first) \in Nat
          <6>1. OlderCount(v, first) \in Nat
            BY <1>1, <3>6, OlderCountBound DEF IInv
          <6> QED
            BY <1>4, <3>6, <6>1
        <5> HIDE DEF k, l
        <5> QED
          BY <3>11, <4>2, <4>3, <4>4, <5>1, <5>2, SMT DEF MinValue
      <4>6. l(first) >= k(first) - taken
        BY <4>1, <4>5
      <4>7. ASSUME NEW v \in Versions, v # first PROVE l(v) >= k(v) - (spare - taken)
        <5>1. CASE v \in Older
          BY <4>5, <4>7, <5>1
        <5>2. CASE v \notin Older
          <6>1. l(v) = k(v) /\ k(v) \in Nat
            BY <1>4, <3>5, <5>2
          <6> HIDE DEF k, l
          <6> QED
            BY <4>2, <4>4, <6>1, SMT
        <5> QED
          BY <5>1, <5>2
      <4>8. l(seen.new) = k(seen.new) /\ seen.new # first
        BY <1>1, <3>5, <3>6, <4>1
      <4> HIDE DEF k, l, total
      <4>9. Kept(rs') >= Kept(seen.rs) - spare
        <5>1. /\ first = V1 \/ first = V2 \/ first = V3
              /\ seen.new = V1 \/ seen.new = V2 \/ seen.new = V3
          BY <1>1 DEF Versions
        <5>2. \A v \in {V1, V2, V3} : k(v) \in Nat /\ l(v) \in Nat
          BY <1>4 DEF Versions
        <5>3. \A v \in {V1, V2, V3} : v # first => l(v) >= k(v) - (spare - taken)
          BY <4>7 DEF Versions
        <5> QED
          BY <1>5, <4>2, <4>4, <4>6, <4>8, <5>1, <5>2, <5>3, VersionsAssumption, SMT
      <4>10. Kept(rs') \in Nat /\ Kept(rs') >= m
        <5>1. V1 \in Versions /\ V2 \in Versions /\ V3 \in Versions
          BY DEF Versions
        <5>2. Kept(rs') \in Nat
          BY <1>4, <1>5, <5>1, SMT
        <5> QED
          BY <1>1, <1>5, <1>8, <3>8, <4>9, <5>2, SMT DEF spare
      <4> QED
        BY <1>1, <1>8, <4>10, FloorOfAtLeast DEF m
    <3> QED
      BY <1>1, <1>4, <3>8, <3>9, <3>10, <3>11, SMT DEF Versions
  <2> QED
    BY <2>4, <2>5
<1> QED
  BY <1>2, <1>10, <1>11, <1>12

(* A reconcile that scales keeps the invariant.                            *)
LEMMA ReconcileStep ==
    ASSUME IInv, Reconcile
    PROVE  /\ IInv'
           /\ Requested(rs') <= MaxValue(Requested(rs), seen.replicas + Surge)
                                + OnTheirWayOut
<1> USE DEF IInv
<1>1. /\ pc = "read" /\ pc' = "idle" /\ seen' = seen /\ used' = used
      /\ limits' = limits /\ replicas' = replicas /\ new' = new
  BY DEF Reconcile, SyncReplicasOnly, BeginUpdate, RolloutCanary, rollout
<1>2. seen.new \in Versions /\ seen.stable \in Versions \cup {None}
  BY DEF TypeOK, Snapshot
<1>3. current' \in Versions \cup {None} /\ stable' \in Versions \cup {None}
  BY <1>2 DEF Reconcile, SyncReplicasOnly, BeginUpdate, RolloutCanary, rollout, TypeOK
<1>4. weight' \in 0..MaxWeight
  BY WeightsAssumption, SMT
     DEF Reconcile, SyncReplicasOnly, BeginUpdate, RolloutCanary, rollout, TypeOK
<1>5. CASE rs' = rs
  <2>1. \A v \in Versions : rs[v].replicas \in Nat
    BY DEF TypeOK, ReplicaSet
  <2>2. Requested(rs) \in Nat
    BY <2>1, SumOfThree, SMT DEF Requested, Versions
  <2>3. \A v \in Versions : MaxValue(0, seen.rs[v].available - seen.rs[v].replicas) \in Nat
    BY SeenTypes, SMT DEF MaxValue
  <2>4. OnTheirWayOut \in Nat
    BY <2>3, SumOfThree, SMT DEF Versions
  <2>5. seen.replicas \in Nat /\ Surge \in Nat
    BY SeenTypes
  <2>6. Requested(rs) <= MaxValue(Requested(rs), seen.replicas + Surge) + OnTheirWayOut
    BY <2>2, <2>4, <2>5, SMT DEF MaxValue
  <2> QED
    BY <1>1, <1>3, <1>4, <1>5, <2>6 DEF TypeOK, SeenIsCurrent
<1>6. CASE ReconcileReplicaSets
  <2>1. /\ rs' \in [Versions -> ReplicaSet]
        /\ Requested(rs') <= MaxValue(Requested(rs), seen.replicas + Surge)
                              + OnTheirWayOut
    BY <1>1, <1>6, ReconcileBound
  <2> QED
    BY <1>1, <1>3, <1>4, <2>1 DEF TypeOK, SeenIsCurrent
<1> QED
  BY <1>5, <1>6 DEF Reconcile, SyncReplicasOnly, BeginUpdate, RolloutCanary

(* The pods of one version change: what was requested stays.               *)
LEMMA PodsStep ==
    ASSUME IInv, NEW v \in Versions,
           PodBecomesAvailable(v) \/ SurplusPodsDeleted(v) \/ PodFails(v)
    PROVE  IInv'
<1> USE DEF IInv
<1>1. /\ rs \in [Versions -> ReplicaSet]
      /\ rs[v].replicas \in Nat /\ rs[v].available \in Nat /\ rs[v].desired \in Nat
  BY DEF TypeOK, ReplicaSet
<1>2. PICK n \in Nat : rs' = [rs EXCEPT ![v].available = n]
  <2> DEFINE With(n) == [rs EXCEPT ![v].available = n]
  <2>1. CASE PodBecomesAvailable(v)
    <3>1. rs' = With(rs[v].available + 1) /\ rs[v].available + 1 \in Nat
      BY <1>1, <2>1, SMT DEF PodBecomesAvailable
    <3> QED
      BY <3>1
  <2>2. CASE SurplusPodsDeleted(v)
    <3>1. rs' = With(rs[v].replicas)
      BY <2>2 DEF SurplusPodsDeleted
    <3> QED
      BY <1>1, <3>1
  <2>3. CASE PodFails(v)
    <3>1. rs' = With(rs[v].available - 1) /\ rs[v].available - 1 \in Nat
      BY <1>1, <2>3, SMT DEF PodFails
    <3> QED
      BY <3>1
  <2> QED
    BY <2>1, <2>2, <2>3
<1>3. /\ rs' \in [Versions -> ReplicaSet]
      /\ \A w \in Versions : rs'[w].replicas = rs[w].replicas
  BY <1>1, <1>2 DEF ReplicaSet
<1>4. UNCHANGED <<rollout, pc, seen>>
  BY DEF PodBecomesAvailable, SurplusPodsDeleted, PodFails
<1>5. used' \in [edits : 0..MaxEdits, weights : 0..MaxWeightChanges,
                pods : 0..MaxPodFailures]
  <2>1. CASE PodFails(v)
    BY <2>1, BoundsAssumption, SMT DEF PodFails, TypeOK
  <2>2. CASE ~PodFails(v)
    BY <2>2 DEF PodBecomesAvailable, SurplusPodsDeleted, TypeOK
  <2> QED
    BY <2>1, <2>2
<1> QED
  BY <1>3, <1>4, <1>5 DEF TypeOK, SeenIsCurrent, rollout

(* The users and the steps.                                                *)
LEMMA UserStep ==
    ASSUME IInv, SetTemplate \/ ScaleRollout \/ ChangeWeight
    PROVE  IInv'
<1> USE DEF IInv
<1>1. UNCHANGED <<limits, current, stable, rs, pc, seen>>
  BY DEF SetTemplate, ScaleRollout, ChangeWeight
<1>2. new' \in Versions /\ replicas' \in Nat /\ weight' \in 0..MaxWeight
  BY CountsAssumption, WeightsAssumption
     DEF SetTemplate, ScaleRollout, ChangeWeight, TypeOK
<1>3. used' \in [edits : 0..MaxEdits, weights : 0..MaxWeightChanges,
                pods : 0..MaxPodFailures]
  <2>1. CASE ChangeWeight
    BY <2>1, BoundsAssumption, SMT DEF ChangeWeight, TypeOK
  <2>2. CASE SetTemplate \/ ScaleRollout
    BY <2>2, BoundsAssumption, SMT DEF SetTemplate, ScaleRollout, TypeOK
  <2> QED
    BY <2>1, <2>2
<1> QED
  BY <1>1, <1>2, <1>3 DEF TypeOK, SeenIsCurrent

LEMMA InitInv == Init => IInv
<1> SUFFICES ASSUME Init PROVE IInv
  OBVIOUS
<1>1. replicas \in Nat /\ new \in Versions /\ current = None /\ stable = None
  BY CountsAssumption DEF Init, Versions
<1>2. weight \in 0..MaxWeight
  BY WeightsAssumption, SMT DEF Init
<1>3. rs \in [Versions -> ReplicaSet]
  BY SMT DEF Init, ReplicaSet
<1>4. seen \in Snapshot
  BY <1>1, <1>2, <1>3 DEF Init, Snapshot
<1>5. used \in [edits : 0..MaxEdits, weights : 0..MaxWeightChanges,
               pods : 0..MaxPodFailures]
  BY BoundsAssumption, SMT DEF Init
<1> QED
  BY <1>1, <1>2, <1>3, <1>4, <1>5 DEF IInv, TypeOK, SeenIsCurrent, Init

LEMMA NextInv == IInv /\ [Next]_vars => IInv'
<1> SUFFICES ASSUME IInv, [Next]_vars PROVE IInv'
  OBVIOUS
<1>1. CASE Read
  <2>1. seen' \in Snapshot
    BY <1>1 DEF Read, Snapshot, IInv, TypeOK
  <2> QED
    BY <1>1, <2>1 DEF Read, rollout, IInv, TypeOK, SeenIsCurrent
<1>2. CASE Reconcile
  BY <1>2, ReconcileStep
<1>3. CASE ChangeWeight \/ User
  BY <1>3, UserStep DEF User
<1>4. CASE Cluster
  BY <1>4, PodsStep DEF Cluster
<1>5. CASE UNCHANGED vars
  BY <1>5 DEF vars, IInv, TypeOK, SeenIsCurrent, Snapshot
<1> QED
  BY <1>1, <1>2, <1>3, <1>4, <1>5 DEF Next

LEMMA Invariance == Spec => []IInv
BY InitInv, NextInv, PTL DEF Spec

-----------------------------------------------------------------------------
(* The types hold for every number of replicas and of pods, every value of *)
(* the limits and every weight: no sequence of scalings, template changes  *)
(* and failures makes a reconcile request a negative number of pods        *)
(* (calculateScaleDownReplicaCount and adjustReplicaWithinLimits subtract  *)
(* from counts that others change).                                        *)
THEOREM TypesHold == Spec => []TypeOK
BY Invariance, PTL DEF IInv

(* No reconcile requests more pods than spec.replicas plus maxSurge, or    *)
(* than were requested before, but for those on their way out that it      *)
(* keeps.                                                                  *)
THEOREM SurgeHolds == Spec => SurgeRespectedButKeptPods
<1>1. IInv /\ [Next]_vars =>
        [Reconcile => Requested(rs') <= MaxValue(Requested(rs), seen.replicas + Surge)
                                        + OnTheirWayOut]_vars
  BY ReconcileStep
<1> QED
  BY <1>1, Invariance, PTL DEF Spec, SurgeRespectedButKeptPods

(* No scaling decision takes a basic canary below its floor: of the pods   *)
(* that were available when the reconcile looked, spec.replicas minus      *)
(* maxUnavailable stay, or all if they were fewer, unless the scale-down   *)
(* of the older versions counted pods on their way out as available.       *)
THEOREM FloorHolds == Spec => FloorRespectedButLeavingPods
<1> DEFINE Floor == (Reconcile /\ (OnTheirWayOut = 0 \/ \A v \in Others : rs'[v] = rs[v]))
                      => Kept(rs') >= MinValue(Kept(seen.rs), MinAvailable)
<1>1. ASSUME IInv, Reconcile, OnTheirWayOut = 0 \/ \A v \in Others : rs'[v] = rs[v]
      PROVE  Kept(rs') >= MinValue(Kept(seen.rs), MinAvailable)
  <2>1. pc = "read" /\ (ReconcileReplicaSets \/ rs' = rs)
    BY <1>1 DEF Reconcile, SyncReplicasOnly, BeginUpdate, RolloutCanary
  <2>2. CASE ReconcileReplicaSets
    BY <1>1, <2>1, <2>2, ReconcileFloor
  <2>3. CASE rs' = rs
    <3>1. \A v \in Versions : /\ rs[v].replicas = seen.rs[v].replicas
                             /\ seen.rs[v].replicas \in Nat /\ seen.rs[v].available \in Nat
      BY <1>1, <2>1, SeenTypes DEF IInv, SeenIsCurrent
    <3>2. \A v \in Versions : MinValue(seen.rs[v].replicas, seen.rs[v].available) \in Nat
      BY <3>1, SMT DEF MinValue
    <3>3. Kept(rs) = Kept(seen.rs) /\ Kept(rs) \in Nat
      BY <3>1, <3>2, SumOfThree, SMT DEF Versions
    <3>4. seen.replicas \in Nat /\ MinAvailable \in 0..(seen.replicas)
      BY <1>1, SeenTypes DEF IInv
    <3>5. Kept(rs') = Kept(rs)
      BY <2>3
    <3> QED
      BY <3>3, <3>4, <3>5, SMT DEF MinValue
  <2> QED
    BY <2>1, <2>2, <2>3
<1>2. IInv /\ [Next]_vars => [Floor]_vars
  BY <1>1
<1> QED
  BY <1>2, Invariance, PTL DEF Spec, FloorRespectedButLeavingPods

-----------------------------------------------------------------------------
(* The division that is closest to the weight, by arithmetic alone.        *)

\* a is q / m rounded up, f rounded down
Rounded(q, m, a, f) ==
    /\ f * m <= q /\ q < f * m + m
    /\ q <= a * m /\ a * m < q + m
    /\ a = f \/ a = f + 1

\* The two quotients that the options are made of
LEMMA Quotients ==
    ASSUME NEW n \in Nat, NEW m \in Nat \ {0}, NEW w \in 0..m
    PROVE  Rounded(n * w, m, CeilDiv(n * w, m), (n * w) \div m)
  <1>. DEFINE q == n * w
              a == (q + m - 1) \div m
              f == q \div m
  <1>1. q \in Nat /\ f \in Nat /\ a \in Nat
    BY SMT
  <1>. HIDE DEF q
  <1>2. m * f <= q /\ q < m * f + m
    BY <1>1, SMT
  <1>3. m * a <= q + m - 1 /\ q + m - 1 < m * a + m
    BY <1>1, SMT
  <1>. HIDE DEF a, f
  <1>4. a = f \/ a = f + 1
    <2>1. CASE a <= f - 1
      <3>1. m * a <= m * (f - 1)
        BY <1>1, <2>1, SMT
      <3>. QED
        BY <1>1, <1>2, <1>3, <3>1, SMT
    <2>2. CASE a >= f + 2
      <3>1. m * a >= m * (f + 2)
        BY <1>1, <2>2, SMT
      <3>. QED
        BY <1>1, <1>2, <1>3, <3>1, SMT
    <2>. QED
      BY <1>1, <2>1, <2>2, SMT
  <1>5. Rounded(q, m, a, f)
    BY <1>1, <1>2, <1>3, <1>4, SMT DEF Rounded
  <1>. QED
    BY <1>5 DEF CeilDiv, q, a, f

\* How far a division d of d.total pods is from the weight, multiplied by the
\* total; the order that Closer makes of it
Distance(w, m, d) == AbsValue(d.canary * m - w * d.total)

NoFarther(w, m, a, b) == Distance(w, m, a) * b.total <= Distance(w, m, b) * a.total

IsOption(d) == d.canary \in Nat /\ d.total \in Nat
IsDivision(d) == d.canary \in Nat /\ d.total \in Nat \ {0}

\* Distances are natural numbers.
LEMMA DistanceType ==
    ASSUME NEW m \in Nat, NEW w \in Nat, NEW d, d.canary \in Nat, d.total \in Nat
    PROVE  Distance(w, m, d) \in Nat
  BY SMT DEF Distance, AbsValue

\* The comparison of the code is strict, and total.
LEMMA NotCloser ==
    ASSUME NEW m \in Nat, NEW w \in Nat, NEW a, NEW b, IsDivision(a), IsDivision(b)
    PROVE  NoFarther(w, m, a, b) <=> ~Closer(w, m, b, a)
  <1>. DEFINE p == Distance(w, m, a) * b.total
              q == Distance(w, m, b) * a.total
  <1>1. p \in Int /\ q \in Int
    <2>1. /\ Distance(w, m, a) \in Nat /\ Distance(w, m, b) \in Nat
          /\ a.total \in Nat /\ b.total \in Nat
      BY DistanceType DEF IsDivision
    <2>. QED
      BY <2>1, SMT
  <1>2. NoFarther(w, m, a, b) <=> p <= q
    BY DEF NoFarther
  <1>3. Closer(w, m, b, a) <=> q < p
    BY DEF Closer, Distance
  <1>. QED
    BY <1>1, <1>2, <1>3, SMT

\* Comparing crosswise, with the totals as factors, is transitive.
LEMMA Transitive ==
    ASSUME NEW m \in Nat, NEW w \in Nat, NEW a, NEW b, NEW c,
           IsDivision(a), IsDivision(b), IsDivision(c),
           NoFarther(w, m, a, b), NoFarther(w, m, b, c)
    PROVE  NoFarther(w, m, a, c)
  <1>1. ASSUME NEW x \in Nat, NEW y \in Nat, NEW z \in Nat,
               NEW r \in Nat \ {0}, NEW s \in Nat \ {0}, NEW t \in Nat \ {0},
               x * s <= y * r, y * t <= z * s
        PROVE  x * t <= z * r
    <2>1. (x * s) * t <= (y * r) * t
      BY <1>1, SMT
    <2>2. (y * t) * r <= (z * s) * r
      BY <1>1, SMT
    <2>3. (x * t) * s <= (z * r) * s
      BY <2>1, <2>2, SMT
    <2>. DEFINE u == x * t
                v == z * r
    <2>4. u \in Nat /\ v \in Nat /\ u * s <= v * s
      BY <2>3, SMT
    <2>. HIDE DEF u, v
    <2>5. SUFFICES ASSUME u >= v + 1 PROVE FALSE
      BY <2>4, SMT DEF u, v
    <2>6. u * s >= (v + 1) * s
      BY <2>4, <2>5, SMT
    <2>. QED
      BY <2>4, <2>6, SMT
  <1>2. /\ Distance(w, m, a) \in Nat /\ Distance(w, m, b) \in Nat /\ Distance(w, m, c) \in Nat
        /\ a.total \in Nat \ {0} /\ b.total \in Nat \ {0} /\ c.total \in Nat \ {0}
    BY DistanceType DEF IsDivision
  <1>. QED
    BY <1>1, <1>2 DEF NoFarther

At(c, t) == [canary |-> c, total |-> t]

\* Of the divisions of n pods, on either side of the weight, the rounded one
\* is the closest.
LEMMA Sides ==
    ASSUME NEW n \in Nat \ {0}, NEW m \in Nat \ {0}, NEW w \in 0..m,
           NEW a \in Nat, NEW f \in Nat, Rounded(n * w, m, a, f), NEW c \in Nat
    PROVE  /\ c >= a => NoFarther(w, m, At(a, n), At(c, n))
           /\ c <= f => NoFarther(w, m, At(f, n), At(c, n))
  <1>. DEFINE q == n * w
  <1>0. w * n = q /\ q \in Nat /\ a * m \in Nat /\ c * m \in Nat /\ f * m \in Nat
    BY SMT
  <1>1. q <= a * m /\ f * m <= q
    BY DEF Rounded
  <1>. HIDE DEF q
  <1>2. ASSUME NEW x \in Nat, NEW y \in Nat, x <= y PROVE x * n <= y * n
    BY <1>2, SMT
  <1>3. ASSUME c >= a PROVE NoFarther(w, m, At(a, n), At(c, n))
    <2>1. a * m <= c * m
      BY <1>3, SMT
    <2>2. Distance(w, m, At(a, n)) = a * m - q /\ Distance(w, m, At(c, n)) = c * m - q
      BY <1>0, <1>1, <2>1, SMT DEF Distance, AbsValue, At
    <2>3. a * m - q \in Nat /\ c * m - q \in Nat /\ a * m - q <= c * m - q
      BY <1>0, <1>1, <2>1, SMT
    <2>. QED
      BY <1>2, <2>2, <2>3 DEF NoFarther, At
  <1>4. ASSUME c <= f PROVE NoFarther(w, m, At(f, n), At(c, n))
    <2>1. c * m <= f * m
      BY <1>4, SMT
    <2>2. Distance(w, m, At(f, n)) = q - f * m /\ Distance(w, m, At(c, n)) = q - c * m
      BY <1>0, <1>1, <2>1, SMT DEF Distance, AbsValue, At
    <2>3. q - f * m \in Nat /\ q - c * m \in Nat /\ q - f * m <= q - c * m
      BY <1>0, <1>1, <2>1, SMT
    <2>. QED
      BY <1>2, <2>2, <2>3 DEF NoFarther, At
  <1>. QED
    BY <1>3, <1>4

\* It is also closer than the divisions of one pod more that are further off
\* than itself.
LEMMA SidesWithSurge ==
    ASSUME NEW n \in Nat \ {0}, NEW m \in Nat \ {0}, NEW w \in 0..m,
           NEW a \in 0..n, NEW f \in Nat, Rounded(n * w, m, a, f), NEW c \in Nat
    PROVE  /\ c >= a + 1 => NoFarther(w, m, At(a, n), At(c, n + 1))
           /\ c <= f => NoFarther(w, m, At(f, n), At(c, n + 1))
  <1>. DEFINE q == n * w
  <1>0. /\ w * n = q /\ w * (n + 1) = q + w
        /\ q \in Nat /\ a * m \in Nat /\ c * m \in Nat /\ f * m \in Nat
    BY SMT
  <1>1. q <= a * m /\ f * m <= q
    BY DEF Rounded
  <1>3. ASSUME c >= a + 1 PROVE NoFarther(w, m, At(a, n), At(c, n + 1))
    <2>1. (a + 1) * m <= c * m /\ (a + 1) * m = a * m + m
      BY <1>3, SMT
    <2>. HIDE DEF q
    <2>2. /\ Distance(w, m, At(a, n)) = a * m - q
          /\ Distance(w, m, At(c, n + 1)) = c * m - (q + w)
      BY <1>0, <1>1, <2>1, SMT DEF Distance, AbsValue, At
    <2>3. a * m * n + m * n - q * n - q <= (c * m - (q + w)) * n
      <3>1. (a * m + m - q - w) * n <= (c * m - (q + w)) * n
        BY <1>0, <2>1, SMT
      <3>2. (a * m + m - q - w) * n = a * m * n + m * n - q * n - q
        BY <1>0, SMT
      <3>. QED
        BY <3>1, <3>2
    <2>4. (a * m - q) * (n + 1) = a * m * n - q * n + a * m - q
      BY <1>0, SMT
    <2>5. a * m <= m * n
      BY SMT
    <2>6. (a * m - q) * (n + 1) <= (c * m - (q + w)) * n
      BY <1>0, <2>3, <2>4, <2>5, SMT
    <2>. QED
      BY <2>2, <2>6 DEF NoFarther, At
  <1>4. ASSUME c <= f PROVE NoFarther(w, m, At(f, n), At(c, n + 1))
    <2>1. c * m <= f * m
      BY <1>4, SMT
    <2>. HIDE DEF q
    <2>2. /\ Distance(w, m, At(f, n)) = q - f * m
          /\ Distance(w, m, At(c, n + 1)) = q + w - c * m
      BY <1>0, <1>1, <2>1, SMT DEF Distance, AbsValue, At
    <2>3. (q + w - f * m) * n <= (q + w - c * m) * n
      BY <1>0, <2>1, SMT
    <2>4. (q + w - f * m) * n = q * n + q - f * m * n
      BY <1>0, SMT
    <2>5. (q - f * m) * (n + 1) = q * n - f * m * n + q - f * m
      BY <1>0, SMT
    <2>6. (q - f * m) * (n + 1) <= (q + w - c * m) * n
      BY <1>0, <2>3, <2>4, <2>5, SMT
    <2>. QED
      BY <2>2, <2>6 DEF NoFarther, At
  <1>. QED
    BY <1>3, <1>4

\* At a tie, rounding down is no better than rounding up, with one pod more
\* if there is none left for the stable version.
LEMMA Ties ==
    ASSUME NEW n \in Nat \ {0}, NEW m \in Nat \ {0}, NEW w \in 0..m,
           NEW a \in 0..n, NEW f \in Nat, Rounded(n * w, m, a, f),
           FloorCeilingTied(w, m, n)
    PROVE  /\ NoFarther(w, m, At(a, n), At(f, n))
           /\ a = n => NoFarther(w, m, At(a, n + 1), At(f, n))
  <1>. DEFINE q == n * w
  <1>0. /\ w * n = q /\ 2 * n * w = 2 * q /\ w * (n + 1) = q + w
        /\ q \in Nat /\ a * m \in Nat /\ f * m \in Nat
    BY SMT
  <1>1. q <= a * m /\ f * m <= q /\ q < f * m + m /\ a * m < q + m /\ (a = f \/ a = f + 1)
    BY DEF Rounded
  <1>. HIDE DEF q
  <1>2. (2 * q) % (2 * m) = m
    BY <1>0 DEF FloorCeilingTied
  <1>3. 2 * q = 2 * (f * m) + m
    <2>. DEFINE k == (2 * q) \div (2 * m)
    <2>1. k \in Nat /\ 2 * q = (2 * m) * k + m
      <3>1. 2 * q \in Nat /\ 2 * m \in Nat \ {0}
        BY <1>0, SMT
      <3>2. \A x \in Nat, y \in Nat \ {0} : x \div y \in Nat /\ x = y * (x \div y) + (x % y)
        BY SMT
      <3>. QED
        BY <1>2, <3>1, <3>2
    <2>. HIDE DEF k
    <2>2. 2 * q = 2 * (k * m) + m /\ k * m \in Nat
      BY <1>0, <2>1, SMT
    <2>3. CASE k <= f - 1
      <3>1. k * m <= (f - 1) * m /\ (f - 1) * m = f * m - m
        BY <2>1, <2>3, SMT
      <3>. QED
        BY <1>0, <1>1, <2>2, <3>1, SMT
    <2>4. CASE k >= f + 1
      <3>1. k * m >= (f + 1) * m /\ (f + 1) * m = f * m + m
        BY <2>1, <2>4, SMT
      <3>. QED
        BY <1>0, <1>1, <2>2, <3>1, SMT
    <2>. QED
      BY <2>1, <2>2, <2>3, <2>4, SMT
  <1>4. a = f + 1 /\ a * m = f * m + m
    BY <1>0, <1>1, <1>3, SMT
  <1>5. /\ Distance(w, m, At(f, n)) = q - f * m /\ Distance(w, m, At(a, n)) = a * m - q
        /\ q - f * m = a * m - q
    BY <1>0, <1>1, <1>3, <1>4, SMT DEF Distance, AbsValue, At
  <1>6. NoFarther(w, m, At(a, n), At(f, n))
    BY <1>5, <1>0, SMT DEF NoFarther, At
  <1>7. CASE a = n
    <2>1. 2 * q = 2 * (n * m) - m
      BY <1>0, <1>3, <1>4, <1>7, SMT
    <2>. DEFINE x == n * m - (q + w)
    <2>2. x \in Int /\ Distance(w, m, At(a, n + 1)) = AbsValue(x)
      BY <1>0, <1>7, SMT DEF Distance, At
    <2>3. 2 * (x * n) = n * m - m \/ 2 * (x * n) = m - n * m
      <3>1. x * n = (n * m) * n - q * n - q
        BY <1>0, SMT
      <3>2. 2 * (x * n) = (2 * (n * m) - 2 * q) * n - 2 * q
        BY <1>0, <3>1, SMT
      <3>3. 2 * (x * n) = m * n - 2 * (n * m) + m
        BY <1>0, <2>1, <3>2, SMT
      <3>. QED
        BY <3>3, SMT
    <2>. HIDE DEF x
    <2>4. AbsValue(x) * n = x * n \/ AbsValue(x) * n = -(x * n)
      BY <2>2, SMT DEF AbsValue
    <2>5. 2 * (AbsValue(x) * n) <= n * m - m \/ 2 * (AbsValue(x) * n) <= m - n * m
      BY <2>2, <2>3, <2>4, SMT
    <2>6. 2 * ((q - f * m) * (n + 1)) = m * n + m
      BY <1>0, <1>3, SMT
    <2>7. n * m >= m /\ m * n = n * m
      BY SMT
    <2>8. AbsValue(x) * n \in Int /\ (q - f * m) * (n + 1) \in Int
      BY <1>0, <2>2, SMT DEF AbsValue
    <2>9. AbsValue(x) * n <= (q - f * m) * (n + 1)
      BY <2>5, <2>6, <2>7, <2>8, SMT
    <2>. QED
      BY <1>5, <1>6, <2>2, <2>9 DEF NoFarther, At
  <1>. QED
    BY <1>6, <1>7

\* r is as good as d, where d is there
AsGood(w, m, r, d) == d.total # 0 => r.total # 0 /\ NoFarther(w, m, r, d)

\* One round of the loop
LEMMA BetterOfTwo ==
    ASSUME NEW m \in Nat, NEW w \in Nat, NEW b, NEW x, IsOption(b), IsOption(x)
    PROVE  LET r == Better(w, m, b, x)
           IN  /\ r = b \/ r = x
               /\ AsGood(w, m, r, b) /\ AsGood(w, m, r, x)
  <1>1. \A d, e : IsOption(d) /\ d.total # 0 /\ IsOption(e) /\ e.total # 0 =>
            /\ NoFarther(w, m, d, e) <=> ~Closer(w, m, e, d)
            /\ NoFarther(w, m, d, e) \/ NoFarther(w, m, e, d)
    <2>. SUFFICES ASSUME NEW d, NEW e, IsDivision(d), IsDivision(e)
                  PROVE  /\ NoFarther(w, m, d, e) <=> ~Closer(w, m, e, d)
                         /\ NoFarther(w, m, d, e) \/ NoFarther(w, m, e, d)
      BY DEF IsOption, IsDivision
    <2>1. /\ Distance(w, m, d) \in Nat /\ Distance(w, m, e) \in Nat
          /\ d.total \in Nat /\ e.total \in Nat
      BY DistanceType DEF IsDivision
    <2>2. \A p, q, r, s \in Nat : p * q <= r * s \/ r * s <= p * q
      BY SMT
    <2>. QED
      BY <2>1, <2>2, NotCloser DEF NoFarther
  <1>. QED
    BY <1>1 DEF Better, AsGood

\* What is as good as the better one is as good as the other.
LEMMA AsGoodAsAll ==
    ASSUME NEW m \in Nat, NEW w \in Nat, NEW a, NEW b, NEW c,
           IsOption(a), IsOption(b), IsOption(c), AsGood(w, m, a, b), AsGood(w, m, b, c)
    PROVE  AsGood(w, m, a, c)
  BY Transitive DEF AsGood, IsOption, IsDivision

\* The loop ends with an option that no other is closer than.
LEMMA BestOfOptions ==
    ASSUME NEW m \in Nat, NEW w \in Nat, NEW o, \A i \in 1..4 : IsOption(o[i])
    PROVE  /\ \E i \in 1..4 : Best(w, m, o) = o[i]
           /\ \A i \in 1..4 : AsGood(w, m, Best(w, m, o), o[i])
  <1>. DEFINE b2 == Better(w, m, o[1], o[2])
              b3 == Better(w, m, b2, o[3])
              b4 == Better(w, m, b3, o[4])
  <1>1. /\ b2 = o[1] \/ b2 = o[2]
        /\ AsGood(w, m, b2, o[1]) /\ AsGood(w, m, b2, o[2])
    BY BetterOfTwo
  <1>2. IsOption(b2)
    BY <1>1
  <1>. HIDE DEF b2
  <1>3. /\ b3 = b2 \/ b3 = o[3]
        /\ AsGood(w, m, b3, b2) /\ AsGood(w, m, b3, o[3])
    BY <1>2, BetterOfTwo
  <1>4. IsOption(b3)
    BY <1>2, <1>3
  <1>. HIDE DEF b3
  <1>5. /\ b4 = b3 \/ b4 = o[4]
        /\ AsGood(w, m, b4, b3) /\ AsGood(w, m, b4, o[4])
    BY <1>4, BetterOfTwo
  <1>6. IsOption(b4)
    BY <1>4, <1>5
  <1>. HIDE DEF b4
  <1>7. AsGood(w, m, b3, o[1]) /\ AsGood(w, m, b3, o[2])
    BY <1>1, <1>2, <1>3, <1>4, AsGoodAsAll
  <1>8. AsGood(w, m, b4, o[1]) /\ AsGood(w, m, b4, o[2]) /\ AsGood(w, m, b4, o[3])
    BY <1>3, <1>4, <1>5, <1>6, <1>7, AsGoodAsAll
  <1>9. Best(w, m, o) = b4
    BY DEF Best, b2, b3, b4
  <1>10. \E i \in 1..4 : b4 = o[i]
    BY <1>1, <1>3, <1>5
  <1>11. \A i \in 1..4 : i = 1 \/ i = 2 \/ i = 3 \/ i = 4
    OBVIOUS
  <1>. QED
    BY <1>5, <1>8, <1>9, <1>10, <1>11

\* The weight wants pods on both sides, and there may be as many.
Partial(n, w, m, s) == w \notin {0, m} /\ n + s > 1

Allowed(n, w, m, s, c, t) ==
    /\ t = n \/ (s > 0 /\ t = n + 1)
    /\ c \in IF Partial(n, w, m, s) THEN 1..(t - 1) ELSE 0..t

\* The four options, and when they are there
LEMMA OptionsAre ==
    ASSUME NEW n \in Nat \ {0}, NEW m \in Nat \ {0}, NEW w \in 0..m, NEW s \in Nat
    PROVE  LET a == CeilDiv(n * w, m)
               f == (n * w) \div m
               o == Options(n, w, m, s)
               some == Partial(n, w, m, s)
           IN  /\ o[1] = At(a, IF a < n \/ ~some THEN n ELSE 0)
               /\ o[2] = At(f, IF ~FloorCeilingTied(w, m, n) /\ (f # 0 \/ ~some) THEN n ELSE 0)
               /\ o[3] = At(a, IF s > 0 THEN n + 1 ELSE 0)
               /\ o[4].canary = f /\ o[4].total \in {0, n + 1}
               /\ o[4].total # 0 => s > 0 /\ (f # 0 \/ ~some)
  <1>1. Partial(n, w, m, s) <=> ~(w \in {0, m} \/ (n = 1 /\ s = 0))
    BY SMT DEF Partial
  <1>. QED
    BY <1>1 DEF Options, At

\* A partial weight rounds up to a pod at least and down to less than all.
LEMMA Ends ==
    ASSUME NEW n \in Nat \ {0}, NEW m \in Nat \ {0}, NEW w \in 0..m, w \notin {0, m}
    PROVE  CeilDiv(n * w, m) >= 1 /\ (n * w) \div m <= n - 1
  <1>. DEFINE q == n * w
              a == CeilDiv(q, m)
              f == q \div m
  <1>1. q > 0 /\ q < n * m /\ q \in Nat
    <2>1. n * m - q = n * (m - w) /\ n * (m - w) > 0 /\ n * w > 0
      BY SMT
    <2>. QED
      BY <2>1, SMT
  <1>2. a \in Nat /\ f \in Nat
    <2>1. a \in 0..n /\ f \in 0..n
      BY CeilDivRange
    <2>. QED
      BY <2>1
  <1>3. f * m <= q /\ q <= a * m
    BY Quotients DEF Rounded
  <1>. HIDE DEF q, a, f
  <1>4. a # 0
    BY <1>1, <1>3, SMT
  <1>5. ~(f >= n)
    <2>. SUFFICES ASSUME f >= n PROVE FALSE
      OBVIOUS
    <2>1. f * m >= n * m
      BY <1>2, SMT
    <2>. QED
      BY <1>1, <1>2, <1>3, <2>1, SMT
  <1>. QED
    BY <1>2, <1>4, <1>5, SMT DEF q, a, f

\* Each option that is there is a division of the kind that is asked for.
LEMMA OptionsAllowed ==
    ASSUME NEW n \in Nat \ {0}, NEW m \in Nat \ {0}, NEW w \in 0..m, NEW s \in Nat,
           NEW i \in 1..4
    PROVE  LET o == Options(n, w, m, s)[i]
           IN  /\ IsOption(o) /\ o = At(o.canary, o.total)
               /\ o.total # 0 => Allowed(n, w, m, s, o.canary, o.total)
  <1>. DEFINE a == CeilDiv(n * w, m)
              f == (n * w) \div m
              o == Options(n, w, m, s)
  <1>1. a \in 0..n /\ f \in 0..n
    BY CeilDivRange
  <1>2. Partial(n, w, m, s) => a >= 1 /\ f <= n - 1
    BY Ends DEF Partial
  <1>3. o[4] = At(o[4].canary, o[4].total)
    BY DEF Options, At
  <1>4. i = 1 \/ i = 2 \/ i = 3 \/ i = 4
    OBVIOUS
  <1>5. /\ o[1] = At(a, IF a < n \/ ~Partial(n, w, m, s) THEN n ELSE 0)
        /\ o[2] = At(f, IF ~FloorCeilingTied(w, m, n) /\ (f # 0 \/ ~Partial(n, w, m, s)) THEN n ELSE 0)
        /\ o[3] = At(a, IF s > 0 THEN n + 1 ELSE 0)
        /\ o[4].canary = f /\ o[4].total \in {0, n + 1}
        /\ o[4].total # 0 => s > 0 /\ (f # 0 \/ ~Partial(n, w, m, s))
    BY OptionsAre
  <1>. HIDE DEF a, f, o
  <1>10. \A x, y : At(x, y).canary = x /\ At(x, y).total = y
    BY DEF At
  <1>11. ASSUME NEW x \in Nat, NEW y \in Nat, o[i] = At(x, y),
                y # 0 => Allowed(n, w, m, s, x, y)
         PROVE  /\ IsOption(o[i]) /\ o[i] = At(o[i].canary, o[i].total)
                /\ o[i].total # 0 => Allowed(n, w, m, s, o[i].canary, o[i].total)
    BY <1>10, <1>11 DEF IsOption
  <1>6. CASE i = 1
    <2>1. a < n \/ ~Partial(n, w, m, s) => Allowed(n, w, m, s, a, n)
      BY <1>1, <1>2, SMT DEF Allowed
    <2>. QED
      BY <1>1, <1>5, <1>6, <1>11, <2>1 DEF o
  <1>7. CASE i = 2
    <2>1. f # 0 \/ ~Partial(n, w, m, s) => Allowed(n, w, m, s, f, n)
      BY <1>1, <1>2, SMT DEF Allowed
    <2>. QED
      BY <1>1, <1>5, <1>7, <1>11, <2>1 DEF o
  <1>8. CASE i = 3
    <2>1. s > 0 => Allowed(n, w, m, s, a, n + 1)
      BY <1>1, <1>2, SMT DEF Allowed
    <2>. QED
      BY <1>1, <1>5, <1>8, <1>11, <2>1 DEF o
  <1>9. CASE i = 4
    <2>1. IsOption(o[4]) /\ (o[4].total # 0 => Allowed(n, w, m, s, o[4].canary, o[4].total))
      BY <1>1, <1>2, <1>5, SMT DEF IsOption, Allowed
    <2>. QED
      BY <1>3, <1>9, <2>1 DEF o
  <1>. QED
    BY <1>4, <1>6, <1>7, <1>8, <1>9 DEF o

\* Some option is no further from the weight than d.
Covered(n, w, m, s, d) ==
    \E i \in 1..4 : LET o == Options(n, w, m, s)[i]
                    IN  o.total # 0 /\ NoFarther(w, m, o, d)

NoneLeft(n, w, m, s) ==
    s = 0 /\ FloorCeilingTied(w, m, n) /\ \A i \in 1..4 : Options(n, w, m, s)[i].total = 0

\* The options cover all divisions, unless there are none at a tie.
LEMMA OptionsCover ==
    ASSUME NEW n \in Nat \ {0}, NEW m \in Nat \ {0}, NEW w \in 0..m, NEW s \in Nat,
           NEW c, NEW t, Allowed(n, w, m, s, c, t), ~NoneLeft(n, w, m, s)
    PROVE  Covered(n, w, m, s, At(c, t))
  <1>. DEFINE a == CeilDiv(n * w, m)
              f == (n * w) \div m
              o == Options(n, w, m, s)
              some == Partial(n, w, m, s)
              tied == FloorCeilingTied(w, m, n)
              Near(x, d) == NoFarther(w, m, x, d)
  <1>1. a \in 0..n /\ f \in 0..n
    BY CeilDivRange
  <1>2. some => a >= 1 /\ f <= n - 1
    BY Ends DEF Partial
  <1>3. Rounded(n * w, m, a, f) /\ (a = f \/ a = f + 1)
    BY Quotients DEF Rounded
  <1>4. /\ a < n \/ ~some => o[1] = At(a, n)
        /\ ~tied /\ (f # 0 \/ ~some) => o[2] = At(f, n)
        /\ s > 0 => o[3] = At(a, n + 1)
        /\ s = 0 => o[3].total = 0 /\ o[4].total = 0
        /\ ~(a < n \/ ~some) => o[1].total = 0
        /\ tied => o[2].total = 0
    <2>1. \A x, y : At(x, y).total = y
      BY DEF At
    <2>2. /\ o[1] = At(a, IF a < n \/ ~some THEN n ELSE 0)
          /\ o[2] = At(f, IF ~tied /\ (f # 0 \/ ~some) THEN n ELSE 0)
          /\ o[3] = At(a, IF s > 0 THEN n + 1 ELSE 0)
          /\ o[4].canary = f /\ o[4].total \in {0, n + 1}
          /\ o[4].total # 0 => s > 0 /\ (f # 0 \/ ~some)
      BY OptionsAre
    <2>. HIDE DEF a, f, o, some, tied
    <2>. QED
      BY <2>1, <2>2
  <1>5. \A x, y, z : x \in Nat /\ y \in Nat \ {0} => IsDivision(At(x, y))
    BY DEF IsDivision, At
  <1>6. \A k \in Nat : /\ k >= a => Near(At(a, n), At(k, n))
                       /\ k <= f => Near(At(f, n), At(k, n))
                       /\ k >= a + 1 => Near(At(a, n), At(k, n + 1))
                       /\ k <= f => Near(At(f, n), At(k, n + 1))
    BY <1>1, <1>3, Sides, SidesWithSurge
  <1>7. tied => Near(At(a, n), At(f, n)) /\ (a = n => Near(At(a, n + 1), At(f, n)))
    BY <1>1, <1>3, Ties
  <1>8. \A x, y, z : IsDivision(x) /\ IsDivision(y) /\ IsDivision(z) /\ Near(x, y) /\ Near(y, z)
            => Near(x, z)
    BY Transitive
  <1>9. \A x : IsDivision(x) => Near(x, x)
    <2>1. \A p, q \in Nat : p * q <= p * q
      BY SMT
    <2>. QED
      BY <2>1, DistanceType DEF NoFarther, IsDivision
  <1>10. ~(s = 0 /\ tied /\ some /\ a = n)
    <2>1. s = 0 /\ tied /\ some /\ a = n => \A i \in {1, 2, 3, 4} : o[i].total = 0
      BY <1>1, <1>4
    <2>2. 1..4 = {1, 2, 3, 4}
      OBVIOUS
    <2>. QED
      BY <2>1, <2>2 DEF NoneLeft
  <1>11. \A i \in {1, 2, 3} : i \in 1..4
    OBVIOUS
  <1>12. /\ At(a, n).total # 0 /\ At(f, n).total # 0 /\ At(a, n + 1).total # 0
         /\ IsDivision(At(a, n)) /\ IsDivision(At(f, n)) /\ IsDivision(At(a, n + 1))
    BY <1>1, <1>5 DEF At
  <1>. HIDE DEF a, f, o, some, tied, Near
  <1>13. ASSUME NEW d, \/ o[1] = At(a, n) /\ Near(At(a, n), d)
                       \/ o[2] = At(f, n) /\ Near(At(f, n), d)
                       \/ o[3] = At(a, n + 1) /\ Near(At(a, n + 1), d)
         PROVE  Covered(n, w, m, s, d)
    BY <1>11, <1>12, <1>13 DEF Covered, o, Near
  <1>14. c \in Nat /\ t \in Nat \ {0} /\ IsDivision(At(c, t))
    BY <1>5, SMT DEF Allowed
  <1>15. ASSUME NEW d, IsDivision(d), Near(At(f, n), d), ~some \/ f # 0
         PROVE  Covered(n, w, m, s, d)
    <2>1. CASE ~tied
      BY <1>4, <1>13, <1>15, <2>1
    <2>2. CASE tied /\ (a < n \/ ~some)
      BY <1>4, <1>7, <1>8, <1>12, <1>13, <1>15, <2>2
    <2>3. CASE tied /\ a = n /\ some
      <3>1. s > 0
        BY <1>10, <2>3
      <3>. QED
        BY <1>4, <1>7, <1>8, <1>12, <1>13, <1>15, <2>3, <3>1
    <2>. QED
      BY <1>1, <2>1, <2>2, <2>3
  <1>16. CASE t = n
    <2>1. c >= a \/ c <= f
      BY <1>1, <1>3, <1>14, SMT
    <2>2. CASE c >= a
      <3>1. a < n \/ ~some
        BY <1>1, <1>14, <1>16, <2>2, SMT DEF Allowed, some
      <3>. QED
        BY <1>4, <1>6, <1>13, <1>14, <1>16, <2>2, <3>1
    <2>3. CASE c <= f
      <3>1. ~some \/ f # 0
        BY <1>1, <1>14, <2>3, SMT DEF Allowed, some
      <3>. QED
        BY <1>6, <1>14, <1>15, <1>16, <2>3, <3>1
    <2>. QED
      BY <2>1, <2>2, <2>3
  <1>17. CASE t = n + 1
    <2>0. s > 0
      BY <1>17 DEF Allowed
    <2>1. c >= a + 1 \/ c = a \/ c <= f
      BY <1>1, <1>3, <1>14, SMT
    <2>2. CASE c >= a + 1
      <3>1. a < n \/ ~some
        BY <1>1, <1>14, <1>17, <2>2, SMT DEF Allowed, some
      <3>. QED
        BY <1>4, <1>6, <1>13, <1>14, <1>17, <2>2, <3>1
    <2>3. CASE c <= f
      <3>1. ~some \/ f # 0
        BY <1>1, <1>14, <2>3, SMT DEF Allowed, some
      <3>. QED
        BY <1>6, <1>14, <1>15, <1>17, <2>3, <3>1
    <2>4. CASE c = a
      BY <1>4, <1>9, <1>12, <1>13, <1>17, <2>0, <2>4
    <2>. QED
      BY <2>1, <2>2, <2>3, <2>4
  <1>. QED
    BY <1>16, <1>17 DEF Allowed

(* For every number of replicas, every weight and every maxSurge, the      *)
(* division that approximateWeightedCanaryStableReplicaCounts picks from   *)
(* its four options is the closest to the weight of all divisions of       *)
(* spec.replicas pods, or of one more where there is a surge.              *)
THEOREM WeightIsClosest == Spec => []ClosestToWeight
  <1>1. TypeOK => ClosestToWeight
    <2>. SUFFICES ASSUME TypeOK, seen.replicas > 0, NEW w \in 0..MaxWeight PROVE Closest(w)
      BY DEF ClosestToWeight
    <2>. DEFINE n == seen.replicas
                m == MaxWeight
                s == Surge
                o == Options(n, w, m, s)
                best == Best(w, m, o)
                found == [canary |-> Division(w).new, total |-> Division(w).new + Division(w).stable]
    <2>1. n \in Nat \ {0} /\ m \in Nat \ {0} /\ s \in Nat
      BY LimitsRange, WeightsAssumption DEF TypeOK, Snapshot, Surge
    <2>2. Division(w) = Divided(n, best)
      BY <2>1 DEF Division, Approximate
    <2>3. \A c, t : Allowed(n, w, m, s, c, t) <=> [canary |-> c, total |-> t] \in Divisions(w)
      BY <2>1 DEF Allowed, Partial, Divisions
    <2>4. \A d \in Divisions(w) : d = At(d.canary, d.total) /\ Allowed(n, w, m, s, d.canary, d.total)
      BY <2>1 DEF Allowed, Partial, Divisions, At
    <2>5. \A i \in 1..4 : /\ IsOption(o[i]) /\ o[i] = At(o[i].canary, o[i].total)
                          /\ o[i].total # 0 => Allowed(n, w, m, s, o[i].canary, o[i].total)
      BY <2>1, OptionsAllowed
    <2>6. w \in 0..m /\ w \in Nat /\ m \in Nat
      BY <2>1
    <2>7. NoCandidate(w) <=> s = 0 /\ Division(w).new = 0 /\ FloorCeilingTied(w, m, n)
      BY DEF NoCandidate
    <2>8. Closest(w) <=> \/ NoCandidate(w)
                         \/ found \in Divisions(w) /\ \A d \in Divisions(w) : ~Closer(w, m, d, found)
      BY DEF Closest
    <2>. HIDE DEF n, m, s, o
    <2>9. /\ \E i \in 1..4 : best = o[i]
          /\ \A i \in 1..4 : AsGood(w, m, best, o[i])
      BY <2>5, <2>6, BestOfOptions
    <2>10. CASE NoneLeft(n, w, m, s)
      <3>1. best.total = 0 /\ s = 0 /\ FloorCeilingTied(w, m, n)
        BY <2>9, <2>10 DEF NoneLeft, o
      <3>. QED
        BY <2>2, <2>7, <2>8, <3>1 DEF Divided
    <2>11. CASE ~NoneLeft(n, w, m, s)
      <3>1. \A c, t : Allowed(n, w, m, s, c, t) => Covered(n, w, m, s, At(c, t))
        BY <2>1, <2>6, <2>11, OptionsCover
      <3>2. \E c, t : Allowed(n, w, m, s, c, t)
        <4>1. CASE ~Partial(n, w, m, s)
          <5>1. Allowed(n, w, m, s, 0, n)
            BY <2>1, <4>1 DEF Allowed
          <5>. QED
            BY <5>1
        <4>2. CASE Partial(n, w, m, s)
          <5>1. Allowed(n, w, m, s, 1, n) \/ Allowed(n, w, m, s, 1, n + 1)
            BY <2>1, <4>2, SMT DEF Allowed, Partial
          <5>. QED
            BY <5>1
        <4>. QED
          BY <4>1, <4>2
      <3>3. best.total # 0
        BY <2>9, <3>1, <3>2 DEF Covered, AsGood, o
      <3>4. /\ best = At(best.canary, best.total) /\ IsDivision(best)
            /\ Allowed(n, w, m, s, best.canary, best.total)
        BY <2>5, <2>9, <3>3 DEF IsOption, IsDivision
      <3>5. Division(w).new = best.canary /\ Division(w).stable = best.total - best.canary
        BY <2>2, <3>3 DEF Divided
      <3>6. found = best
        <4>1. best.canary + (best.total - best.canary) = best.total
          BY <3>4, SMT DEF IsDivision
        <4>. QED
          BY <3>4, <3>5, <4>1 DEF At
      <3>7. best \in Divisions(w)
        BY <2>3, <3>4 DEF At
      <3>8. ASSUME NEW d \in Divisions(w) PROVE ~Closer(w, m, d, best)
        <4>1. Allowed(n, w, m, s, d.canary, d.total) /\ d = At(d.canary, d.total)
          BY <2>4
        <4>2. IsDivision(d)
          BY <2>1, <4>1, SMT DEF Allowed, IsDivision
        <4>3. PICK i \in 1..4 : o[i].total # 0 /\ NoFarther(w, m, o[i], d)
          BY <3>1, <4>1 DEF Covered, o
        <4>4. IsDivision(o[i]) /\ NoFarther(w, m, best, o[i])
          BY <2>5, <2>9, <4>3 DEF IsOption, IsDivision, AsGood
        <4>. QED
          BY <2>6, <3>4, <4>2, <4>3, <4>4, Transitive, NotCloser
      <3>. QED
        BY <2>8, <3>6, <3>7, <3>8
    <2>. QED
      BY <2>10, <2>11 DEF n
  <1>. QED
    BY <1>1, TypesHold, PTL
=============================================================================
