--------------------------- MODULE ExperimentProofs ---------------------------
(***************************************************************************)
(* Proofs about the experiment controller, for every list of templates and *)
(* analyses, every setting, and any number of calls that fail, pods that   *)
(* fail and passes that read an old store: the types, that analyses start  *)
(* after availability, and that one run at a time measures.                *)
(***************************************************************************)
EXTENDS ExperimentProperties, TLAPS

-----------------------------------------------------------------------------
(* What the calls for one template leave behind.                           *)

TemplateOutcome ==
    [rs : ReplicaSet, svc : BOOLEAN, seen : ReplicaSet, error : BOOLEAN, touched : BOOLEAN,
     created : BOOLEAN, faults : Nat, lost : BOOLEAN]

\* Of the ReplicaSet of t, before: pods do not come or go in a pass, and only
\* a ReplicaSet that is not there is replaced.
Follows(t, o) ==
    /\ o \in TemplateOutcome
    /\ o.rs.available = rs[t].available \/ (~rs[t].exists /\ Empty(o.rs))
    /\ o.rs.replicas \in {rs[t].replicas, 0, Replicas}
    /\ rs[t].exists => o.rs.exists
    /\ o.rs.exists \/ o.rs = rs[t]
    /\ o.created => Empty(o.rs) /\ ~o.lost

\* ... and nothing was created, and no other ReplicaSet than the store's seen
Plain(t, o) ==
    Follows(t, o) /\ ~o.created /\ o.seen.available = ctx.rs[t].available

(* The calls start from what is there.                                     *)
LEMMA BeforeType ==
    ASSUME TypeOK, NEW t \in Template
    PROVE  /\ Plain(t, Before(t)) /\ Before(t).rs = rs[t] /\ ~Before(t).lost
           /\ rs[t] \in ReplicaSet
<1>1. rs[t] \in ReplicaSet /\ ctx.rs[t] \in ReplicaSet
  BY SMT DEF TypeOK, Context
<1> DEFINE seen == IF ctx.rs[t].deadline = "none" THEN ctx.rs[t]
                   ELSE [ctx.rs[t] EXCEPT !.deadline = rs[t].deadline]
<1>2. seen \in ReplicaSet /\ seen.available = ctx.rs[t].available
  BY <1>1, SMT DEF ReplicaSet
<1> HIDE DEF seen
<1>3. Before(t) = [rs |-> rs[t], svc |-> t \in svc, seen |-> seen, error |-> FALSE,
                   touched |-> FALSE, created |-> FALSE, faults |-> 0, lost |-> FALSE]
  BY DEF Before, seen
<1>4. (t \in svc) \in BOOLEAN
  OBVIOUS
<1>5. Before(t) \in TemplateOutcome
  BY <1>1, <1>2, <1>3, <1>4, SMT DEF TemplateOutcome
<1>6. Before(t).seen = seen /\ Before(t).rs = rs[t] /\ ~Before(t).created /\ ~Before(t).lost
  BY <1>3
<1> QED
  BY <1>1, <1>2, <1>5, <1>6 DEF Plain, Follows

(* A call that fails changes nothing but that.                             *)
LEMMA FaultType ==
    ASSUME NEW o \in TemplateOutcome
    PROVE  /\ Fault(o) \in TemplateOutcome
           /\ Fault(o).rs = o.rs /\ Fault(o).seen = o.seen
           /\ Fault(o).created = o.created /\ Fault(o).lost = o.lost
<1> DEFINE n == o.faults + 1
<1>1. n \in Nat
  BY SMT DEF TemplateOutcome
<1> HIDE DEF n
<1>2. Fault(o) = [o EXCEPT !.error = TRUE, !.faults = n]
  BY DEF Fault, n
<1>3. Fault(o) \in TemplateOutcome
  BY <1>1, <1>2, Zenon DEF TemplateOutcome
<1>4. Fault(o).rs = o.rs /\ Fault(o).seen = o.seen
  BY <1>2, SMT DEF TemplateOutcome
<1>5. Fault(o).created = o.created
  BY <1>2, SMT DEF TemplateOutcome
<1>6. Fault(o).lost = o.lost
  BY <1>2, SMT DEF TemplateOutcome
<1> QED
  BY <1>3, <1>4, <1>5, <1>6

(* createReplicaSetForTemplate                                             *)
LEMMA CreatedType ==
    ASSUME TypeOK, NEW t \in Template, NEW o \in Created(t)
    PROVE  /\ Follows(t, o) /\ ~o.lost
           /\ o.seen.available \in {0, rs[t].available, ctx.rs[t].available}
<1> DEFINE b == Before(t)
<1>1. Plain(t, b) /\ b.rs = rs[t] /\ ~b.lost /\ rs[t] \in ReplicaSet /\ b \in TemplateOutcome
  BY BeforeType DEF Plain, Follows
<1>2. NewReplicaSet \in ReplicaSet /\ Empty(NewReplicaSet) /\ NewReplicaSet.exists
  BY SMT DEF ReplicaSet, NewReplicaSet, Empty
<1>3. NewReplicaSet.available = 0 /\ NewReplicaSet.replicas = 0
  BY DEF NewReplicaSet
<1>4. o \in {Fault(b)} \cup
        IF b.rs.exists THEN {[b EXCEPT !.seen = b.rs, !.touched = TRUE], [b EXCEPT !.error = TRUE]}
        ELSE {[b EXCEPT !.rs = NewReplicaSet, !.seen = NewReplicaSet, !.touched = TRUE,
                        !.created = TRUE]}
  BY DEF Created, CreateReplicaSet
<1> HIDE DEF b
<1>5. CASE o = Fault(b)
  BY <1>1, <1>5, FaultType DEF Plain, Follows
<1>6. CASE b.rs.exists /\ o = [b EXCEPT !.seen = b.rs, !.touched = TRUE]
  <2>1. o \in TemplateOutcome
    BY <1>1, <1>6, Zenon DEF TemplateOutcome
  <2>2. o.rs = b.rs /\ o.seen = b.rs /\ o.created = b.created /\ o.lost = b.lost
    BY <1>1, <1>6, SMT DEF TemplateOutcome
  <2> QED
    BY <1>1, <2>1, <2>2 DEF Plain, Follows
<1>7. CASE b.rs.exists /\ o = [b EXCEPT !.error = TRUE]
  <2>1. o \in TemplateOutcome
    BY <1>1, <1>7, Zenon DEF TemplateOutcome
  <2>2. o.rs = b.rs /\ o.seen = b.seen /\ o.created = b.created /\ o.lost = b.lost
    BY <1>1, <1>7, SMT DEF TemplateOutcome
  <2> QED
    BY <1>1, <2>1, <2>2 DEF Plain, Follows
<1>8. CASE ~b.rs.exists /\ o = [b EXCEPT !.rs = NewReplicaSet, !.seen = NewReplicaSet,
                                         !.touched = TRUE, !.created = TRUE]
  <2>1. o \in TemplateOutcome
    BY <1>1, <1>2, <1>8, Zenon DEF TemplateOutcome
  <2>2. o.rs = NewReplicaSet /\ o.seen = NewReplicaSet /\ o.lost = b.lost
    BY <1>1, <1>8, SMT DEF TemplateOutcome
  <2> QED
    BY <1>1, <1>2, <1>3, <1>8, <2>1, <2>2 DEF Plain, Follows
<1> QED
  BY <1>4, <1>5, <1>6, <1>7, <1>8

(* createTemplateService and deleteTemplateService                         *)
LEMMA ServiceType ==
    ASSUME NEW t, NEW o \in TemplateOutcome,
           NEW p \in CreateService(t, o) \cup DeleteService(t, o)
    PROVE  /\ p \in TemplateOutcome
           /\ p.rs = o.rs /\ p.seen = o.seen /\ p.created = o.created /\ p.lost = o.lost
<1>1. p \in {o, [o EXCEPT !.svc = TRUE], [o EXCEPT !.svc = FALSE], Fault(o)}
  BY DEF CreateService, DeleteService
<1>2. ASSUME NEW b \in BOOLEAN, p = [o EXCEPT !.svc = b]
      PROVE  /\ p \in TemplateOutcome
             /\ p.rs = o.rs /\ p.seen = o.seen /\ p.created = o.created /\ p.lost = o.lost
  <2>1. p \in TemplateOutcome
    BY <1>2, Zenon DEF TemplateOutcome
  <2>2. p.rs = o.rs /\ p.seen = o.seen /\ p.created = o.created /\ p.lost = o.lost
    BY <1>2, SMT DEF TemplateOutcome
  <2> QED
    BY <2>1, <2>2
<1> QED
  BY <1>1, <1>2, FaultType

(* addScaleDownDelayToTemplateRS                                           *)
LEMMA DelayType ==
    ASSUME NEW t, NEW o, Follows(t, o), ~o.created, rs[t].exists, NEW p \in AddScaleDownDelay(o)
    PROVE  Follows(t, p) /\ ~p.created
<1> DEFINE annotated == [o.rs EXCEPT !.deadline = "pending"]
           n == o.faults + 1
<1>1. o \in TemplateOutcome /\ o.rs \in ReplicaSet
  BY DEF Follows, TemplateOutcome
<1>2. /\ annotated \in ReplicaSet /\ annotated.available = o.rs.available
      /\ annotated.replicas = o.rs.replicas /\ annotated.exists = o.rs.exists
  BY <1>1, SMT DEF ReplicaSet
<1>3. n \in Nat
  BY <1>1, SMT DEF TemplateOutcome
<1>4. p \in {o, [o EXCEPT !.rs = annotated, !.seen = annotated], [o EXCEPT !.faults = n],
             [o EXCEPT !.rs = annotated, !.faults = n]}
  BY DEF AddScaleDownDelay
<1> HIDE DEF annotated, n
<1>5. CASE p = [o EXCEPT !.faults = n]
  <2>1. p \in TemplateOutcome
    BY <1>1, <1>3, <1>5, Zenon DEF TemplateOutcome
  <2>2. p.rs = o.rs /\ p.seen = o.seen /\ p.created = o.created /\ p.lost = o.lost
    BY <1>1, <1>5, SMT DEF TemplateOutcome
  <2> QED
    BY <2>1, <2>2 DEF Follows
<1>6. ASSUME p \in TemplateOutcome, p.rs = annotated, p.created = o.created, p.lost = o.lost
      PROVE  Follows(t, p) /\ ~p.created
  BY <1>2, <1>6 DEF Follows
<1>7. CASE p = [o EXCEPT !.rs = annotated, !.seen = annotated]
  <2>1. p \in TemplateOutcome
    BY <1>1, <1>2, <1>7, Zenon DEF TemplateOutcome
  <2>2. p.rs = annotated /\ p.created = o.created /\ p.lost = o.lost
    BY <1>1, <1>7, SMT DEF TemplateOutcome
  <2> QED
    BY <1>6, <2>1, <2>2
<1>8. CASE p = [o EXCEPT !.rs = annotated, !.faults = n]
  <2>1. p \in TemplateOutcome
    BY <1>1, <1>2, <1>3, <1>8, Zenon DEF TemplateOutcome
  <2>2. p.rs = annotated /\ p.created = o.created /\ p.lost = o.lost
    BY <1>1, <1>8, SMT DEF TemplateOutcome
  <2> QED
    BY <1>6, <2>1, <2>2
<1> QED
  BY <1>4, <1>5, <1>7, <1>8

(* scaleTemplateRS: what was touched, lost or scaled                       *)
LEMMA TouchedType ==
    ASSUME NEW o \in TemplateOutcome, NEW n \in Nat, NEW p,
           p = [o EXCEPT !.touched = TRUE] \/ p = [o EXCEPT !.lost = TRUE, !.faults = n]
    PROVE  p \in TemplateOutcome /\ p.rs = o.rs /\ p.seen = o.seen /\ p.created = o.created
<1>1. CASE p = [o EXCEPT !.touched = TRUE]
  <2>1. p \in TemplateOutcome
    BY <1>1, Zenon DEF TemplateOutcome
  <2>2. p.rs = o.rs /\ p.seen = o.seen /\ p.created = o.created
    BY <1>1, SMT DEF TemplateOutcome
  <2> QED
    BY <2>1, <2>2
<1>2. CASE p = [o EXCEPT !.lost = TRUE, !.faults = n]
  <2>1. p \in TemplateOutcome
    BY <1>2, Zenon DEF TemplateOutcome
  <2>2. p.rs = o.rs /\ p.seen = o.seen /\ p.created = o.created
    BY <1>2, SMT DEF TemplateOutcome
  <2> QED
    BY <2>1, <2>2
<1> QED
  BY <1>1, <1>2

LEMMA ScaledType ==
    ASSUME NEW t, NEW o, Follows(t, o), ~o.created, rs[t].exists, NEW n \in {0, Replicas},
           NEW p, p = [o EXCEPT !.rs.replicas = n]
    PROVE  Follows(t, p) /\ ~p.created /\ p.seen = o.seen
<1> DEFINE scaled == [o.rs EXCEPT !.replicas = n]
<1>0. n \in Nat
  BY SpecAssumption
<1>1. o \in TemplateOutcome /\ o.rs \in ReplicaSet
  BY DEF Follows, TemplateOutcome
<1>2. /\ scaled \in ReplicaSet /\ scaled.available = o.rs.available
      /\ scaled.replicas = n /\ scaled.exists = o.rs.exists
  BY <1>0, <1>1, SMT DEF ReplicaSet
<1>3. p = [o EXCEPT !.rs = scaled]
  BY <1>1 DEF TemplateOutcome
<1> HIDE DEF scaled
<1>4. p \in TemplateOutcome
  BY <1>1, <1>2, <1>3, Zenon DEF TemplateOutcome
<1>5. p.rs = scaled /\ p.seen = o.seen /\ p.created = o.created
  BY <1>1, <1>3, SMT DEF TemplateOutcome
<1> QED
  BY <1>2, <1>4, <1>5 DEF Follows

LEMMA ScaleUpType ==
    ASSUME NEW t, NEW o, Follows(t, o), ~o.created, rs[t].exists, NEW p \in ScaleUp(o)
    PROVE  Follows(t, p) /\ ~p.created /\ p.seen = o.seen
<1> DEFINE up == [o EXCEPT !.touched = TRUE]
           n == up.faults + 1
<1>1. o \in TemplateOutcome
  BY DEF Follows
<1>2. up \in TemplateOutcome /\ up.rs = o.rs /\ up.seen = o.seen /\ up.created = o.created
  BY <1>1, TouchedType
<1>3. Follows(t, up) /\ ~up.created
  BY <1>2 DEF Follows
<1>4. p \in {[up EXCEPT !.lost = TRUE, !.faults = n], up, [up EXCEPT !.faults = n],
             [up EXCEPT !.rs.replicas = Replicas], Fault(up)}
  BY DEF ScaleUp
<1> HIDE DEF up
<1>5. n \in Nat
  BY <1>2, SMT DEF TemplateOutcome
<1> HIDE DEF n
<1>6. CASE p = [up EXCEPT !.lost = TRUE, !.faults = n]
  <2>1. p \in TemplateOutcome /\ p.rs = up.rs /\ p.seen = up.seen /\ p.created = up.created
    BY <1>2, <1>5, <1>6, TouchedType
  <2> QED
    BY <1>2, <1>3, <2>1 DEF Follows
<1>7. CASE p = [up EXCEPT !.rs.replicas = Replicas]
  BY <1>2, <1>3, <1>7, ScaledType
<1>8. CASE p = Fault(up)
  BY <1>2, <1>3, <1>8, FaultType DEF Follows
<1>9. CASE p = [up EXCEPT !.faults = n]
  <2>1. p \in TemplateOutcome
    BY <1>2, <1>5, <1>9, Zenon DEF TemplateOutcome
  <2>2. p.rs = up.rs /\ p.seen = up.seen /\ p.created = up.created
    BY <1>2, <1>9, SMT DEF TemplateOutcome
  <2> QED
    BY <1>2, <1>3, <2>1, <2>2 DEF Follows
<1> QED
  BY <1>2, <1>3, <1>4, <1>6, <1>7, <1>8, <1>9

LEMMA ScaleDownType ==
    ASSUME NEW t, NEW o, Follows(t, o), ~o.created, rs[t].exists, NEW p \in ScaleDown(t, o)
    PROVE  Follows(t, p) /\ ~p.created
<1> DEFINE down == [o EXCEPT !.touched = TRUE]
           scaled == [down EXCEPT !.rs.replicas = 0]
           left == IF o.rs # o.seen THEN down ELSE scaled
<1>1. o \in TemplateOutcome
  BY DEF Follows
<1>2. down \in TemplateOutcome /\ down.rs = o.rs /\ down.created = o.created
  BY <1>1, TouchedType
<1>3. Follows(t, down) /\ ~down.created
  BY <1>2 DEF Follows
<1>4. p \in {down, Fault(down)} \/ p \in DeleteService(t, left)
  BY DEF ScaleDown
<1> HIDE DEF down
<1>5. Follows(t, scaled) /\ ~scaled.created
  BY <1>3, ScaledType
<1> HIDE DEF scaled
<1>6. Follows(t, left) /\ ~left.created
  BY <1>3, <1>5
<1> HIDE DEF left
<1>7. CASE p = Fault(down)
  BY <1>2, <1>3, <1>7, FaultType DEF Follows
<1>8. CASE p \in DeleteService(t, left)
  <2>1. left \in TemplateOutcome
    BY <1>6 DEF Follows
  <2>2. /\ p \in TemplateOutcome /\ p.rs = left.rs /\ p.created = left.created
    BY <1>8, <2>1, ServiceType
  <2> QED
    BY <1>6, <2>2 DEF Follows
<1> QED
  BY <1>3, <1>4, <1>7, <1>8

(* All that reconcileTemplate may leave behind                             *)
TemplateOutcomes(t) ==
    IF ~ctx.rs[t].exists THEN Created(t)
    ELSE IF CalculateTemplateReplicasCount(t) > 0 THEN KeptUp(t) ELSE TakenDown(t)

LEMMA OutcomeType ==
    ASSUME TypeOK, NEW t \in Template, ctx.rs[t].exists => rs[t].exists,
           NEW o \in TemplateOutcomes(t)
    PROVE  /\ Follows(t, o)
           /\ o.lost => ~o.created
           /\ ~ctx.rs[t].exists =>
                 o.seen.available \in {0, rs[t].available, ctx.rs[t].available}
           /\ ctx.rs[t].exists /\ CalculateTemplateReplicasCount(t) > 0 =>
                 o.seen.available = ctx.rs[t].available
<1>1. Plain(t, Before(t)) /\ Before(t).rs = rs[t] /\ rs[t] \in ReplicaSet
  BY BeforeType
<1>2. CASE ~ctx.rs[t].exists
  BY <1>2, CreatedType DEF TemplateOutcomes
<1>3. CASE ctx.rs[t].exists /\ CalculateTemplateReplicasCount(t) > 0
  <2>1. PICK p \in CreateService(t, Before(t)) :
           o \in IF p.seen.replicas = Replicas THEN {p} ELSE ScaleUp(p)
    BY <1>3 DEF TemplateOutcomes, KeptUp
  <2>2. /\ p \in TemplateOutcome /\ p.rs = Before(t).rs
        /\ p.seen = Before(t).seen /\ p.created = Before(t).created
    BY <1>1, ServiceType DEF Plain, Follows
  <2>3. Follows(t, p) /\ ~p.created /\ p.seen.available = ctx.rs[t].available
    BY <1>1, <2>2 DEF Plain, Follows
  <2>4. Follows(t, o) /\ ~o.created /\ o.seen = p.seen
    BY <1>3, <2>1, <2>3, ScaleUpType
  <2> QED
    BY <1>3, <2>3, <2>4
<1>4. CASE ctx.rs[t].exists /\ ~(CalculateTemplateReplicasCount(t) > 0)
  <2>1. PICK p \in AddScaleDownDelay(Before(t)) :
           o \in IF p.seen.replicas = 0 THEN {p} ELSE ScaleDown(t, p)
    BY <1>4 DEF TemplateOutcomes, TakenDown
  <2>2. Follows(t, p) /\ ~p.created
    BY <1>1, <1>4, <2>1, DelayType DEF Plain
  <2>3. Follows(t, o) /\ ~o.created
    BY <1>4, <2>1, <2>2, ScaleDownType
  <2> QED
    BY <1>4, <2>3
<1> QED
  BY <1>2, <1>3, <1>4

-----------------------------------------------------------------------------
(* The records that a pass starts from, and starts over with               *)
LEMMA NothingType ==
    /\ NoStatus \in Status /\ NoReplicaSet \in ReplicaSet /\ Empty(NoReplicaSet)
    /\ NoReplicaSet.available = 0 /\ ~NoReplicaSet.exists
    /\ NoContext \in Context
    /\ NoContext.status = NoStatus /\ NoContext.new = NoStatus
    /\ NoContext.templates = {} /\ NoContext.created = Nothing
    /\ \A a \in Analysis : NoStatus.analyses[a] = [phase |-> "none", run |-> 0]
    /\ ~NoStatus.availableAt
    /\ \A t \in Template : NoStatus.templates[t].status = "none"
<1>1. [status |-> "none", available |-> 0] \in TemplateStatus
  BY SMT DEF TemplateStatus, TemplateStatusCode
<1>2. [phase |-> "none", run |-> 0] \in AnalysisStatus
  BY BoundAssumption, SMT DEF AnalysisStatus, Phase
<1> DEFINE tt == [t \in Template |-> [status |-> "none", available |-> 0]]
           aa == [a \in Analysis |-> [phase |-> "none", run |-> 0]]
           rr == [t \in Template |-> NoReplicaSet]
<1>3. tt \in [Template -> TemplateStatus] /\ aa \in [Analysis -> AnalysisStatus]
  BY <1>1, <1>2
<1>4. NoReplicaSet \in ReplicaSet /\ Empty(NoReplicaSet) /\ ~NoReplicaSet.exists
  BY SMT DEF NoReplicaSet, ReplicaSet, Empty
<1>5. rr \in [Template -> ReplicaSet]
  BY <1>4
<1>6. NoStatus = [phase |-> "none", availableAt |-> FALSE, templates |-> tt, analyses |-> aa]
  BY DEF NoStatus
<1>7. /\ \A a \in Analysis : NoStatus.analyses[a] = [phase |-> "none", run |-> 0]
      /\ ~NoStatus.availableAt
      /\ \A t \in Template : NoStatus.templates[t].status = "none"
  BY <1>6
<1>8. NoContext = [status |-> NoStatus, new |-> NoStatus, terminate |-> FALSE, rs |-> rr,
                   svc |-> {}, lag |-> "none", created |-> Nothing, touched |-> {},
                   templates |-> {}, analyses |-> {}]
  BY DEF NoContext
<1> HIDE DEF tt, aa, rr
<1>9. NoStatus \in Status
  BY <1>3, <1>6, SMT DEF Status, Phase
<1>10. Nothing \in [rs : SUBSET Template, runs : SUBSET Analysis]
  BY SMT DEF Nothing
<1>11. NoContext \in Context
  BY <1>5, <1>8, <1>9, <1>10, SMT DEF Context
<1> QED
  BY <1>4, <1>7, <1>8, <1>9, <1>11 DEF Empty

(* The initial state                                                       *)
LEMMA InitObjects == Init => TypeOK /\ ObjectsInv
<1> SUFFICES ASSUME Init PROVE TypeOK /\ ObjectsInv
  OBVIOUS
<1>1. PICK s \in Settings :
         spec = [duration |-> s.duration, delay |-> s.delay, required |-> s.required,
                 terminate |-> FALSE]
  BY DEF Init
<1>2. spec \in [duration : BOOLEAN, delay : BOOLEAN, required : SUBSET Analysis,
                terminate : BOOLEAN]
  BY <1>1, SpecAssumption, SMT DEF Setting
<1>3. runs \in [Analysis -> Seq(Run)] /\ \A a \in Analysis : runs[a] = << >> /\ Len(runs[a]) = 0
  BY SMT DEF Init
<1>4. old \in [status : Status, rs : SUBSET Template, runs : SUBSET Analysis]
  BY NothingType, SMT DEF Init
<1>5. used \in [faults : Nat, pods : Nat, stale : Nat]
  BY SMT DEF Init
<1>6. rs \in [Template -> ReplicaSet] /\ \A t \in Template : rs[t] = NoReplicaSet
  BY NothingType DEF Init
<1>7. old.status = NoStatus /\ old.rs = {}
  BY DEF Init
<1>8. TypeOK
  <2>1. \A a \in Analysis : Len(runs[a]) <= MaxRuns
    BY <1>3, BoundAssumption, SMT
  <2>2. /\ status \in Status /\ svc \subseteq Template /\ timeUp \in BOOLEAN
        /\ late \subseteq Template /\ pc \in {"idle", "templates", "analyses", "status"}
        /\ ctx \in Context /\ ready \in BOOLEAN
    BY NothingType DEF Init
  <2> QED
    BY <1>2, <1>3, <1>4, <1>5, <1>6, <2>1, <2>2 DEF TypeOK
<1>9. RunsInTurn
  BY <1>3, SMT DEF RunsInTurn
<1>10. RunsNamed
  BY <1>3, <1>7, NothingType DEF Init, RunsNamed
<1>11. PassInTurn /\ ReplicaSetsHold
  <2>1. 0 <= Replicas
    BY SpecAssumption, SMT
  <2>2. ctx.created.rs = {} /\ ctx.templates = {} /\ pc = "idle"
    BY NothingType DEF Init, Nothing
  <2> QED
    BY <1>6, <1>7, <2>1, <2>2, NothingType DEF PassInTurn, ReplicaSetsHold, Empty
<1> QED
  BY <1>8, <1>9, <1>10, <1>11 DEF ObjectsInv

(* A pass reads what is there, or was before the last pass.                *)
LEMMA SyncObjects ==
    ASSUME TypeOK, ObjectsInv, SyncHandler
    PROVE  (TypeOK /\ ObjectsInv)'
<1>1. PICK lag \in {"none", "status", "replicaSets", "runs"} :
        LET read == IF lag = "status" THEN old.status ELSE status
            listed(t) == rs[t].exists /\ ~(lag = "replicaSets" /\ t \in old.rs)
        IN  /\ pc = "idle"
            /\ ctx' = [NoContext EXCEPT
                         !.status = read, !.new = read, !.terminate = spec.terminate,
                         !.rs = [t \in Template |-> IF listed(t) THEN rs[t] ELSE NoReplicaSet],
                         !.svc = svc, !.lag = lag,
                         !.templates = Template, !.analyses = Analysis]
            /\ pc' = "templates"
            /\ used' = [used EXCEPT !.stale = IF lag = "none" THEN @ ELSE @ + 1]
            /\ UNCHANGED <<spec, status, rs, svc, runs, timeUp, late, old, ready>>
  BY DEF SyncHandler
<1> DEFINE read == IF lag = "status" THEN old.status ELSE status
           listed(t) == rs[t].exists /\ ~(lag = "replicaSets" /\ t \in old.rs)
           rr == [t \in Template |-> IF listed(t) THEN rs[t] ELSE NoReplicaSet]
           n == IF lag = "none" THEN used.stale ELSE used.stale + 1
<1>2. read \in Status
  BY SMT DEF TypeOK
<1>3. rr \in [Template -> ReplicaSet]
  BY NothingType DEF TypeOK
<1>4. n \in Nat
  BY SMT DEF TypeOK
<1>5. \A t \in Template : IF rr[t].exists THEN rs[t].exists
                          ELSE Empty(rs[t]) /\ rr[t].available = 0
  BY <1>1, NothingType DEF ObjectsInv, ReplicaSetsHold, Empty
<1>6. read \in {status, old.status}
  OBVIOUS
<1>7. spec.terminate \in BOOLEAN /\ svc \in SUBSET Template
  BY DEF TypeOK
<1>8. ctx' = [NoContext EXCEPT
                !.status = read, !.new = read, !.terminate = spec.terminate, !.rs = rr,
                !.svc = svc, !.lag = lag, !.templates = Template, !.analyses = Analysis]
  BY <1>1
<1>9. used' = [used EXCEPT !.stale = n]
  BY <1>1
<1>10. pc' = "templates" /\ UNCHANGED <<spec, status, rs, svc, runs, timeUp, late, old, ready>>
  BY <1>1
<1> HIDE DEF read, listed, rr, n
<1>11. ctx' \in Context
  BY <1>2, <1>3, <1>7, <1>8, NothingType, Zenon DEF Context
<1>12. ctx'.status = read /\ ctx'.new = read
  BY <1>8, NothingType, SMT DEF Context
<1>13. ctx'.templates = Template
  BY <1>8, NothingType, SMT DEF Context
<1>14. ctx'.rs = rr /\ ctx'.created = NoContext.created
  BY <1>8, NothingType, SMT DEF Context
<1>15. used' \in [faults : Nat, pods : Nat, stale : Nat]
  BY <1>4, <1>9, Zenon DEF TypeOK
<1>16. TypeOK'
  BY <1>10, <1>11, <1>15 DEF TypeOK
<1>17. RunsInTurn' /\ RunsNamed'
  BY <1>6, <1>10, <1>12 DEF ObjectsInv, RunsInTurn, RunsNamed
<1>18. PassInTurn'
  BY <1>10, <1>13, SpecAssumption DEF PassInTurn
<1>19. ReplicaSetsHold'
  <2>1. ctx'.created.rs = {}
    BY <1>14, NothingType DEF Nothing
  <2> QED
    BY <1>1, <1>5, <1>10, <1>13, <1>14, <2>1 DEF ObjectsInv, ReplicaSetsHold, Empty
<1> QED
  BY <1>16, <1>17, <1>18, <1>19 DEF ObjectsInv

(* What the stores may lack after a pass                                   *)
LEMMA SupersededType ==
    ASSUME TypeOK, NEW v \in [status : Status, rs : SUBSET Template, runs : SUBSET Analysis]
    PROVE  /\ Superseded(v) \in [status : Status, rs : SUBSET Template, runs : SUBSET Analysis]
           /\ Superseded(v).status \in {v.status, old.status}
           /\ MaxStale = 0 => Superseded(v) = old
           /\ MaxStale # 0 => Superseded(v) = v
  BY DEF Superseded, TypeOK

(* Where a pass ends or is lost: the new ReplicaSets have no pods yet.     *)
LEMMA BackToIdle ==
    ASSUME TypeOK, ObjectsInv,
           NEW made \in SUBSET Template, NEW c \in SUBSET Analysis, NEW s \in Status,
           \A a \in Analysis : s.analyses[a].run <= Len(runs[a]),
           \A t \in made : Empty(rs[t])',
           old' = Superseded([status |-> s, rs |-> made, runs |-> c]),
           pc' = "idle", ctx' = NoContext,
           rs' \in [Template -> ReplicaSet],
           \A t \in Template :
               /\ (rs[t].replicas \in {0, Replicas} /\ rs[t].available <= Replicas)'
               /\ (~rs[t].exists => Empty(rs[t]))',
           UNCHANGED runs, status' \in Status,
           \A a \in Analysis : status'.analyses[a].run <= Len(runs[a])
    PROVE  /\ ObjectsInv' /\ ctx' \in Context
           /\ old' \in [status : Status, rs : SUBSET Template, runs : SUBSET Analysis]
<1> DEFINE v == [status |-> s, rs |-> made, runs |-> c]
<1>1. /\ v \in [status : Status, rs : SUBSET Template, runs : SUBSET Analysis]
      /\ v.status = s /\ v.rs = made
  OBVIOUS
<1>2. old' = Superseded(v)
  OBVIOUS
<1> HIDE DEF v
<1>3. /\ old' \in [status : Status, rs : SUBSET Template, runs : SUBSET Analysis]
      /\ old'.status \in {s, old.status}
      /\ MaxStale = 0 => old' = old
      /\ MaxStale # 0 => old' = v
  BY <1>1, <1>2, SupersededType
<1>4. RunsInTurn'
  BY DEF ObjectsInv, RunsInTurn
<1>5. RunsNamed'
  <2>1. \A a \in Analysis : NoStatus.analyses[a].run <= Len(runs[a])
    BY NothingType, SMT DEF TypeOK
  <2> QED
    BY <1>3, <2>1, NothingType DEF ObjectsInv, RunsNamed
<1>6. PassInTurn'
  BY DEF PassInTurn
<1>7. ReplicaSetsHold'
  <2>1. ctx'.created.rs = {}
    BY NothingType DEF Nothing
  <2>2. old'.rs = {} \/ old'.rs = made
    BY <1>1, <1>3 DEF ObjectsInv, ReplicaSetsHold
  <2>3. MaxStale = 0 => old'.rs = {}
    BY <1>3 DEF ObjectsInv, ReplicaSetsHold
  <2> QED
    BY <2>1, <2>2, <2>3 DEF ReplicaSetsHold
<1> QED
  BY <1>3, <1>4, <1>5, <1>6, <1>7, NothingType DEF ObjectsInv

-----------------------------------------------------------------------------
(* reconcileTemplate                                                       *)

\* What the pass now knows of the template
SeenStatus(t, o) ==
    LET prev == ctx.status.templates[t]
        moved == o.touched \/ o.seen.available # prev.available
    IN  [status |-> AssessTemplate(t, IF o.error THEN "Error" ELSE prev.status,
                                   o.seen.available, moved),
         available |-> o.seen.available]

LEMMA SeenStatusType ==
    ASSUME TypeOK, NEW t \in Template, NEW o \in TemplateOutcome
    PROVE  SeenStatus(t, o) \in TemplateStatus
<1>1. o.seen.available \in Nat
  BY SMT DEF TemplateOutcome, ReplicaSet
<1>2. ctx.status.templates[t].status \in TemplateStatusCode
  BY SMT DEF TypeOK, Context, Status, TemplateStatus
<1> DEFINE sofar == IF o.error THEN "Error" ELSE ctx.status.templates[t].status
<1>3. sofar \in TemplateStatusCode
  BY <1>2 DEF TemplateStatusCode
<1> HIDE DEF sofar
<1>4. ASSUME NEW x, NEW y PROVE AssessTemplate(t, sofar, x, y) \in TemplateStatusCode
  BY <1>3 DEF AssessTemplate, TemplateStatusCode
<1> QED
  BY <1>1, <1>4, SMT DEF SeenStatus, TemplateStatus, sofar

\* What follows from a step for one template, apart from its outcome
LEMMA TemplateStep ==
    ASSUME TypeOK, ObjectsInv, NEW t \in Template, ReconcileTemplate(t)
    PROVE  /\ pc = "templates" /\ t \in ctx.templates
           /\ ctx.rs[t].exists => rs[t].exists
           /\ \E o \in TemplateOutcomes(t) : \E made \in SUBSET Template :
                 /\ Follows(t, o)
                 /\ made = ctx.created.rs \cup (IF o.created THEN {t} ELSE {})
                 /\ rs' = [rs EXCEPT ![t] = o.rs]
                 /\ rs' \in [Template -> ReplicaSet] /\ svc' \subseteq Template
                 /\ used' \in [faults : Nat, pods : Nat, stale : Nat]
                 /\ used'.faults = used.faults + o.faults
                 /\ UNCHANGED <<spec, status, runs, timeUp, late, ready>>
                 /\ \/ /\ o.lost /\ pc' = "idle" /\ ctx' = NoContext
                       /\ old' = Superseded([status |-> old.status, rs |-> made, runs |-> {}])
                    \/ /\ ~o.lost /\ old' = old
                       /\ pc' \in {"idle", "templates", "analyses", "status"} \ {"idle"}
                       /\ pc' = "templates" <=> ctx.templates \ {t} # {}
                       /\ ctx' \in Context
                       /\ ctx'.templates = ctx.templates \ {t}
                       /\ ctx'.created.rs = made
                       /\ ctx'.status = ctx.status /\ ctx'.terminate = ctx.terminate
                       /\ ctx'.rs = [ctx.rs EXCEPT ![t] = NoReplicaSet]
                       /\ ctx'.lag = ctx.lag /\ ctx'.new.phase = ctx.new.phase
                       /\ ctx'.new.availableAt = ctx.new.availableAt
                       /\ ctx'.new.analyses = ctx.new.analyses
                       /\ ctx'.new.templates = [ctx.new.templates EXCEPT ![t] = SeenStatus(t, o)]
<1>1. pc = "templates" /\ t = FirstOf(ctx.templates)
  BY DEF ReconcileTemplate
<1>2. t \in ctx.templates
  BY <1>1 DEF FirstOf, ObjectsInv, PassInTurn
<1>3. ctx.rs[t].exists => rs[t].exists
  BY <1>1, <1>2 DEF ObjectsInv, ReplicaSetsHold
<1>4. PICK o \in TemplateOutcomes(t) :
        LET prev == ctx.status.templates[t]
            moved == o.touched \/ o.seen.available # prev.available
            code == AssessTemplate(t, IF o.error THEN "Error" ELSE prev.status,
                                   o.seen.available, moved)
            made == ctx.created.rs \cup IF o.created THEN {t} ELSE {}
            rest == ctx.templates \ {t}
        IN  /\ used.faults + o.faults <= MaxFaults
            /\ used' = [used EXCEPT !.faults = @ + o.faults]
            /\ rs' = [rs EXCEPT ![t] = o.rs]
            /\ svc' = IF o.svc THEN svc \cup {t} ELSE svc \ {t}
            /\ IF o.lost
               THEN /\ pc' = "idle" /\ ctx' = NoContext
                    /\ old' = Superseded([status |-> old.status, rs |-> made, runs |-> {}])
               ELSE /\ pc' = IF rest # {} THEN pc ELSE IF Analysis # {} THEN "analyses" ELSE "status"
                    /\ ctx' = [ctx EXCEPT
                          !.templates = rest, !.created.rs = made, !.rs[t] = NoReplicaSet,
                          !.new.templates[t] = [status |-> code, available |-> o.seen.available],
                          !.touched = IF moved THEN @ \cup {t} ELSE @]
                    /\ UNCHANGED old
  BY DEF ReconcileTemplate, TemplateOutcomes
<1>5. Follows(t, o) /\ o \in TemplateOutcome
  BY <1>3, OutcomeType DEF Follows
<1> DEFINE moved == o.touched \/ o.seen.available # ctx.status.templates[t].available
           made == ctx.created.rs \cup IF o.created THEN {t} ELSE {}
           rest == ctx.templates \ {t}
           n == used.faults + o.faults
           theTouched == IF moved THEN ctx.touched \cup {t} ELSE ctx.touched
           theCreated == [ctx.created EXCEPT !.rs = made]
           theRS == [ctx.rs EXCEPT ![t] = NoReplicaSet]
           theTemplates == [ctx.new.templates EXCEPT ![t] = SeenStatus(t, o)]
           theNew == [ctx.new EXCEPT !.templates = theTemplates]
<1>6. /\ ctx \in Context /\ ctx.rs \in [Template -> ReplicaSet] /\ ctx.new \in Status
      /\ ctx.created \in [rs : SUBSET Template, runs : SUBSET Analysis]
      /\ ctx.touched \subseteq Template /\ ctx.templates \subseteq Template
  BY SMT DEF TypeOK, Context
<1>7. n \in Nat /\ used' = [used EXCEPT !.faults = n] /\ used'.faults = n
  BY <1>4, <1>5, SMT DEF TypeOK, TemplateOutcome
<1>8. made \in SUBSET Template /\ rest \in SUBSET Template /\ theTouched \in SUBSET Template
  BY <1>6
<1>9. theRS \in [Template -> ReplicaSet]
  BY <1>6, NothingType
<1>10. SeenStatus(t, o) \in TemplateStatus
  BY <1>5, SeenStatusType
<1>11. ctx.new.templates \in [Template -> TemplateStatus]
  BY <1>6, SMT DEF Status
<1>12. theTemplates \in [Template -> TemplateStatus]
  BY <1>10, <1>11
<1>13. /\ theCreated \in [rs : SUBSET Template, runs : SUBSET Analysis] /\ theCreated.rs = made
  BY <1>6, <1>8, SMT
<1>14. rs' = [rs EXCEPT ![t] = o.rs] /\ o.rs \in ReplicaSet
  BY <1>4, <1>5, SMT DEF TemplateOutcome
<1>15. rs' \in [Template -> ReplicaSet]
  BY <1>14 DEF TypeOK
<1>16. svc' \subseteq Template
  BY <1>4 DEF TypeOK
<1>17. CASE o.lost
  <2>1. old' = Superseded([status |-> old.status, rs |-> made, runs |-> {}])
    BY <1>4, <1>17
  <2>3. used' \in [faults : Nat, pods : Nat, stale : Nat]
    <3> HIDE DEF n
    <3> QED
      BY <1>7, Zenon DEF TypeOK
  <2>4. pc' = "idle" /\ ctx' = NoContext
    BY <1>4, <1>17
  <2>5. UNCHANGED <<spec, status, runs, timeUp, late, ready>>
    BY DEF ReconcileTemplate
  <2>6. made = ctx.created.rs \cup (IF o.created THEN {t} ELSE {})
    BY DEF made
  <2> QED
    BY <1>1, <1>2, <1>3, <1>5, <1>7, <1>8, <1>14, <1>15, <1>16, <1>17, <2>1, <2>3, <2>4, <2>5,
       <2>6
<1>18. CASE ~o.lost
  <2>1. pc' = IF rest # {} THEN pc ELSE IF Analysis # {} THEN "analyses" ELSE "status"
    BY <1>4, <1>18
  <2>2. old' = old
    BY <1>4, <1>18
  <2>3. ctx' = [ctx EXCEPT
                  !.templates = rest, !.created.rs = made, !.rs[t] = NoReplicaSet,
                  !.new.templates[t] = SeenStatus(t, o), !.touched = theTouched]
    BY <1>4, <1>18 DEF SeenStatus
  <2>4. ctx' = [ctx EXCEPT !.templates = rest, !.created = theCreated, !.rs = theRS,
                           !.new = theNew, !.touched = theTouched]
    BY <2>3
  <2>5. UNCHANGED <<spec, status, runs, timeUp, late, ready>>
    BY DEF ReconcileTemplate
  <2>6. made = ctx.created.rs \cup (IF o.created THEN {t} ELSE {})
    OBVIOUS
  <2>7. rest = ctx.templates \ {t}
    OBVIOUS
  <2>8. theRS = [ctx.rs EXCEPT ![t] = NoReplicaSet]
    OBVIOUS
  <2>9. theTemplates = [ctx.new.templates EXCEPT ![t] = SeenStatus(t, o)]
    OBVIOUS
  <2>19. n = used.faults + o.faults
    BY DEF n
  <2> HIDE DEF moved, made, rest, n, theTouched, theCreated, theRS, theTemplates
  <2>10. theNew \in Status
    BY <1>6, <1>12, Zenon DEF Status
  <2>11. /\ theNew.availableAt = ctx.new.availableAt /\ theNew.analyses = ctx.new.analyses
         /\ theNew.templates = theTemplates /\ theNew.phase = ctx.new.phase
    BY <1>6, SMT DEF Status
  <2> HIDE DEF theNew
  <2>12. ctx' \in Context
    BY <1>6, <1>8, <1>9, <1>13, <2>4, <2>10, Zenon DEF Context
  <2>13. ctx'.templates = rest /\ ctx'.created = theCreated
    BY <1>6, <2>4, SMT DEF Context
  <2>14. ctx'.status = ctx.status /\ ctx'.terminate = ctx.terminate /\ ctx'.lag = ctx.lag
    BY <1>6, <2>4, SMT DEF Context
  <2>15. ctx'.rs = theRS /\ ctx'.new = theNew
    BY <1>6, <2>4, SMT DEF Context
  <2>16. used' \in [faults : Nat, pods : Nat, stale : Nat]
    BY <1>7, Zenon DEF TypeOK
  <2>17. /\ pc' \in {"idle", "templates", "analyses", "status"} \ {"idle"}
         /\ pc' = "templates" <=> ctx.templates \ {t} # {}
    BY <1>1, <2>1, <2>7
  <2>18. ctx'.created.rs = made /\ ctx'.new.templates = theTemplates
    BY <1>13, <2>11, <2>13, <2>15
  <2> QED
    BY <1>1, <1>2, <1>3, <1>5, <1>7, <1>8, <1>14, <1>15, <1>16, <1>18, <2>2, <2>5, <2>6, <2>7, <2>8,
       <2>9, <2>11, <2>12, <2>13, <2>14, <2>15, <2>16, <2>17, <2>18, <2>19
<1> QED
  BY <1>17, <1>18

LEMMA TemplateObjects ==
    ASSUME TypeOK, ObjectsInv, NEW t \in Template, ReconcileTemplate(t)
    PROVE  (TypeOK /\ ObjectsInv)'
<1>1. /\ pc = "templates" /\ t \in ctx.templates
      /\ ctx.rs[t].exists => rs[t].exists
  BY TemplateStep
<1>2. PICK o \in TemplateOutcomes(t), made \in SUBSET Template :
        /\ Follows(t, o)
        /\ made = ctx.created.rs \cup (IF o.created THEN {t} ELSE {})
        /\ rs' = [rs EXCEPT ![t] = o.rs]
        /\ rs' \in [Template -> ReplicaSet] /\ svc' \subseteq Template
        /\ used' \in [faults : Nat, pods : Nat, stale : Nat]
        /\ used'.faults = used.faults + o.faults
        /\ UNCHANGED <<spec, status, runs, timeUp, late, ready>>
        /\ \/ /\ o.lost /\ pc' = "idle" /\ ctx' = NoContext
              /\ old' = Superseded([status |-> old.status, rs |-> made, runs |-> {}])
           \/ /\ ~o.lost /\ old' = old
              /\ pc' \in {"idle", "templates", "analyses", "status"} \ {"idle"}
              /\ pc' = "templates" <=> ctx.templates \ {t} # {}
              /\ ctx' \in Context
              /\ ctx'.templates = ctx.templates \ {t}
              /\ ctx'.created.rs = made
              /\ ctx'.status = ctx.status /\ ctx'.terminate = ctx.terminate
              /\ ctx'.rs = [ctx.rs EXCEPT ![t] = NoReplicaSet]
              /\ ctx'.lag = ctx.lag /\ ctx'.new.phase = ctx.new.phase
              /\ ctx'.new.availableAt = ctx.new.availableAt
              /\ ctx'.new.analyses = ctx.new.analyses
              /\ ctx'.new.templates = [ctx.new.templates EXCEPT ![t] = SeenStatus(t, o)]
  BY TemplateStep
<1>3. /\ \A u \in Template : u # t => rs'[u] = rs[u]
      /\ rs'[t] = o.rs /\ rs[t] \in ReplicaSet
  BY <1>2 DEF TypeOK
<1>4. o.rs \in ReplicaSet
  BY <1>2, SMT DEF Follows, TemplateOutcome
<1>5. /\ o.rs.replicas \in {0, Replicas} /\ o.rs.available <= Replicas
      /\ ~o.rs.exists => Empty(o.rs)
      /\ Empty(rs[t]) /\ ~rs[t].exists => o.rs.available = 0
  <2>1. /\ rs[t].replicas \in {0, Replicas} /\ rs[t].available <= Replicas
        /\ ~rs[t].exists => Empty(rs[t])
    BY DEF ObjectsInv, ReplicaSetsHold
  <2>2. 0 <= Replicas
    BY SpecAssumption, SMT
  <2> QED
    BY <1>2, <2>1, <2>2, SMT DEF Follows, Empty
<1>6. \A u \in Template :
        /\ rs'[u].replicas \in {0, Replicas} /\ rs'[u].available <= Replicas
        /\ ~rs'[u].exists => Empty(rs'[u])
  BY <1>3, <1>5 DEF ObjectsInv, ReplicaSetsHold
<1>7. \A u \in made : Empty(rs'[u])
  BY <1>1, <1>2, <1>3 DEF ObjectsInv, ReplicaSetsHold, Follows
<1>8. CASE o.lost
  <2>1. old.status \in Status
    BY SMT DEF TypeOK
  <2>2. \A a \in Analysis : old.status.analyses[a].run <= Len(runs[a])
    BY DEF ObjectsInv, RunsNamed
  <2>3. \A a \in Analysis : status'.analyses[a].run <= Len(runs[a])
    BY <1>2 DEF ObjectsInv, RunsNamed
  <2>4. status' \in Status
    BY <1>2 DEF TypeOK
  <2>5. /\ ObjectsInv' /\ ctx' \in Context
        /\ old' \in [status : Status, rs : SUBSET Template, runs : SUBSET Analysis]
    BY <1>2, <1>6, <1>7, <1>8, <2>1, <2>2, <2>3, <2>4, BackToIdle
  <2> QED
    BY <1>2, <1>8, <2>5 DEF TypeOK
<1>9. CASE ~o.lost
  <2>1. TypeOK'
    BY <1>2, <1>9 DEF TypeOK
  <2>2. RunsInTurn' /\ RunsNamed'
    BY <1>2, <1>9 DEF ObjectsInv, RunsInTurn, RunsNamed
  <2>3. PassInTurn'
    BY <1>2, <1>9 DEF PassInTurn
  <2>4. ReplicaSetsHold'
    <3>1. \A u \in ctx'.created.rs : Empty(rs'[u]) /\ u \notin ctx'.templates
      BY <1>2, <1>7, <1>9 DEF ObjectsInv, ReplicaSetsHold
    <3>2. \A u \in ctx'.templates : u \in Template /\ u # t /\ u \in ctx.templates
                                   /\ ctx'.rs[u] = ctx.rs[u] /\ rs'[u] = rs[u]
      BY <1>2, <1>3, <1>9, SMT DEF TypeOK, Context
    <3>3. \A u \in old'.rs : pc' = "idle" \/ u \in ctx'.templates => Empty(rs'[u])
      BY <1>2, <1>9, <3>2 DEF ObjectsInv, ReplicaSetsHold
    <3>4. \A u \in ctx'.templates :
             IF ctx'.rs[u].exists THEN rs'[u].exists
             ELSE Empty(rs'[u]) /\ ctx'.rs[u].available = 0
      BY <1>1, <3>2 DEF ObjectsInv, ReplicaSetsHold
    <3>5. MaxStale = 0 => old'.rs = {}
      BY <1>2, <1>9 DEF ObjectsInv, ReplicaSetsHold
    <3> QED
      BY <1>6, <3>1, <3>3, <3>4, <3>5 DEF ReplicaSetsHold, Empty
  <2> QED
    BY <2>1, <2>2, <2>3, <2>4 DEF ObjectsInv
<1> QED
  BY <1>8, <1>9

-----------------------------------------------------------------------------
(* reconcileAnalysisRun                                                    *)

LEMMA RunsType ==
    ASSUME TypeOK, NEW a \in Analysis
    PROVE  /\ runs[a] \in Seq(Run) /\ Len(runs[a]) \in Nat /\ Len(runs[a]) <= MaxRuns
           /\ \A i \in 1..Len(runs[a]) : runs[a][i] \in Run /\ runs[a][i].phase \in Phase
<1>1. runs[a] \in Seq(Run) /\ Len(runs[a]) <= MaxRuns
  BY DEF TypeOK
<1>2. \A i \in 1..Len(runs[a]) : runs[a][i] \in Run
  BY <1>1, SMT
<1>3. \A r \in Run : r.phase \in Phase
  BY SMT DEF Run
<1> QED
  BY <1>1, <1>2, <1>3, SMT

(* CreateWithCollisionCounter finds the run that has not ended, or a name  *)
(* after all those that have.                                              *)
LEMMA CreatedRunFound ==
    ASSUME TypeOK, ObjectsInv, NEW a \in Analysis
    PROVE  LET i == CreatedRun(a)
           IN  /\ i \in 1..Len(runs[a]) + 1
               /\ i <= Len(runs[a]) => ~Completed(runs[a][i].phase)
               /\ \A j \in 1..i - 1 : Completed(runs[a][j].phase)
<1> DEFINE Found(i) == /\ i <= Len(runs[a]) => ~Completed(runs[a][i].phase)
                       /\ \A j \in 1..i - 1 : Completed(runs[a][j].phase)
           n == Len(runs[a])
<1>1. n \in Nat
  BY RunsType
<1>2. \A i \in 1..n - 1 : Completed(runs[a][i].phase)
  BY DEF ObjectsInv, RunsInTurn
<1>3. CASE n = 0
  <2>1. Found(1) /\ 1 \in 1..n + 1
    BY <1>3, SMT
  <2> QED
    BY <2>1 DEF CreatedRun
<1>4. CASE n # 0 /\ Completed(runs[a][n].phase)
  <2>1. Found(n + 1) /\ n + 1 \in 1..n + 1
    BY <1>1, <1>2, <1>4, SMT
  <2> QED
    BY <2>1 DEF CreatedRun
<1>5. CASE n # 0 /\ ~Completed(runs[a][n].phase)
  <2>1. Found(n) /\ n \in 1..n + 1
    BY <1>1, <1>2, <1>5, SMT
  <2> QED
    BY <2>1 DEF CreatedRun
<1> QED
  BY <1>3, <1>4, <1>5

\* What comes of one analysis
Sound(a, o) ==
    /\ o.status \in AnalysisStatus /\ o.status.run <= Len(o.runs)
    /\ o.runs \in Seq(Run) /\ Len(runs[a]) <= Len(o.runs) /\ Len(o.runs) <= MaxRuns
    /\ \A i \in 1..Len(o.runs) - 1 : Completed(o.runs[i].phase)
    /\ o.faults \in Nat
    /\ o.runs # << >> => runs[a] # << >> \/ ctx.status.availableAt

LEMMA SoundUnchanged ==
    ASSUME TypeOK, ObjectsInv, NEW a \in Analysis, NEW phase \in Phase, NEW f \in Nat
    PROVE  /\ Sound(a, AnalysisOutcome([ctx.status.analyses[a] EXCEPT !.phase = phase], runs[a], f))
           /\ Sound(a, AnalysisOutcome(ctx.status.analyses[a], runs[a], f))
<1> DEFINE now == ctx.status.analyses[a]
           other == [now EXCEPT !.phase = phase]
<1>1. now \in AnalysisStatus /\ now.run <= Len(runs[a])
  BY SMT DEF TypeOK, Context, Status, ObjectsInv, RunsNamed
<1>2. other \in AnalysisStatus /\ other.run = now.run
  BY <1>1, SMT DEF AnalysisStatus
<1>3. runs[a] \in Seq(Run) /\ Len(runs[a]) \in Nat /\ Len(runs[a]) <= MaxRuns
  BY RunsType
<1>4. \A i \in 1..Len(runs[a]) - 1 : Completed(runs[a][i].phase)
  BY DEF ObjectsInv, RunsInTurn
<1>5. ASSUME NEW s \in AnalysisStatus, s.run = now.run
      PROVE  Sound(a, AnalysisOutcome(s, runs[a], f))
  <2> DEFINE o == AnalysisOutcome(s, runs[a], f)
  <2>1. o.status = s /\ o.runs = runs[a] /\ o.faults = f
    BY DEF AnalysisOutcome
  <2> HIDE DEF o
  <2>2. Len(runs[a]) <= Len(runs[a])
    BY <1>3, SMT
  <2>3. Sound(a, o)
    BY <1>1, <1>3, <1>4, <1>5, <2>1, <2>2 DEF Sound
  <2> QED
    BY <2>3 DEF o
<1> HIDE DEF other
<1>6. Sound(a, AnalysisOutcome(other, runs[a], f))
  BY <1>2, <1>5
<1>7. Sound(a, AnalysisOutcome(now, runs[a], f))
  BY <1>1, <1>5
<1> QED
  BY <1>6, <1>7 DEF other

LEMMA SoundCreated ==
    ASSUME TypeOK, ObjectsInv, NEW a \in Analysis, ctx.status.availableAt,
           NEW o \in CreateAnalysisRun(a)
    PROVE  Sound(a, o)
<1> DEFINE i == CreatedRun(a)
           r == [phase |-> "none", terminate |-> FALSE]
           made == IF i > Len(runs[a]) THEN Append(runs[a], r) ELSE runs[a]
           now == [phase |-> "Pending", run |-> i]
<1>1. /\ i \in 1..Len(runs[a]) + 1
      /\ \A j \in 1..i - 1 : Completed(runs[a][j].phase)
  BY CreatedRunFound
<1>2. /\ runs[a] \in Seq(Run) /\ Len(runs[a]) \in Nat /\ Len(runs[a]) <= MaxRuns
      /\ \A j \in 1..Len(runs[a]) - 1 : Completed(runs[a][j].phase)
  BY RunsType DEF ObjectsInv, RunsInTurn
<1>3. \/ o = AnalysisOutcome([ctx.status.analyses[a] EXCEPT !.phase = "Error"], runs[a], 1)
      \/ i <= MaxRuns /\ o = AnalysisOutcome(now, made, 0)
  BY <1>1, <1>2, BoundAssumption, SMT DEF CreateAnalysisRun
<1>4. CASE o = AnalysisOutcome([ctx.status.analyses[a] EXCEPT !.phase = "Error"], runs[a], 1)
  BY <1>4, SoundUnchanged, "Error" \in Phase, 1 \in Nat DEF Phase, Outcome, Bad
<1>5. CASE i <= MaxRuns /\ o = AnalysisOutcome(now, made, 0)
  <2>1. o.status = now /\ o.runs = made /\ o.faults = 0
    BY <1>5 DEF AnalysisOutcome
  <2>2. r \in Run
    BY SMT DEF Run, Phase
  <2> HIDE DEF i, r
  <2>3. now \in AnalysisStatus /\ now.run = i
    BY <1>1, <1>2, <1>5, SMT DEF AnalysisStatus, Phase
  <2>4. CASE i > Len(runs[a])
    <3>1. made = Append(runs[a], r) /\ i = Len(runs[a]) + 1
      BY <1>1, <1>2, <2>4, SMT
    <3>2. /\ made \in Seq(Run) /\ Len(made) = Len(runs[a]) + 1
          /\ \A j \in 1..Len(runs[a]) : made[j] = runs[a][j]
      BY <1>2, <2>2, <3>1, SMT
    <3>3. \A j \in 1..Len(made) - 1 : Completed(made[j].phase)
      BY <1>1, <1>2, <3>1, <3>2, SMT
    <3> HIDE DEF made, now
    <3>4. Len(runs[a]) <= Len(made) /\ Len(made) <= MaxRuns /\ i <= Len(made)
      BY <1>2, <1>5, <3>1, <3>2, SMT
    <3> QED
      BY <2>1, <2>3, <3>2, <3>3, <3>4 DEF Sound
  <2>5. CASE ~(i > Len(runs[a]))
    <3>1. made = runs[a] /\ i <= Len(runs[a]) /\ Len(runs[a]) <= Len(runs[a])
      BY <1>1, <1>2, <2>5, SMT
    <3> HIDE DEF made, now
    <3> QED
      BY <1>2, <2>1, <2>3, <3>1 DEF Sound
  <2> QED
    BY <2>4, <2>5
<1> QED
  BY <1>3, <1>4, <1>5

LEMMA SoundTerminated ==
    ASSUME TypeOK, ObjectsInv, NEW a \in Analysis, ctx.status.analyses[a].run # 0,
           NEW o \in TerminateRun(a)
    PROVE  Sound(a, o)
<1> DEFINE now == ctx.status.analyses[a]
           k == now.run
           r == [runs[a][k] EXCEPT !.terminate = TRUE]
           left == [runs[a] EXCEPT ![k] = r]
<1>1. k \in 1..Len(runs[a])
  <2>1. now \in AnalysisStatus /\ now.run <= Len(runs[a])
    BY SMT DEF TypeOK, Context, Status, ObjectsInv, RunsNamed
  <2> QED
    BY <2>1, RunsType, BoundAssumption, SMT DEF AnalysisStatus
<1>2. /\ runs[a] \in Seq(Run) /\ Len(runs[a]) \in Nat /\ Len(runs[a]) <= MaxRuns
      /\ \A j \in 1..Len(runs[a]) - 1 : Completed(runs[a][j].phase)
      /\ runs[a][k] \in Run
  BY <1>1, RunsType DEF ObjectsInv, RunsInTurn
<1>3. now \in AnalysisStatus
  BY SMT DEF TypeOK, Context, Status
<1>4. \/ o = AnalysisOutcome(now, runs[a], 0)
      \/ o = AnalysisOutcome([now EXCEPT !.phase = "Error"], runs[a], 1)
      \/ o = AnalysisOutcome(now, [runs[a] EXCEPT ![now.run].terminate = TRUE], 0)
  BY DEF TerminateRun
<1>5. CASE o = AnalysisOutcome(now, [runs[a] EXCEPT ![now.run].terminate = TRUE], 0)
  <2>1. o.status = now /\ o.runs = left /\ o.faults = 0
    <3>1. /\ o.status = now /\ o.faults = 0
          /\ o.runs = [runs[a] EXCEPT ![now.run].terminate = TRUE]
      BY <1>5, Zenon DEF AnalysisOutcome
    <3> QED
      BY <1>1, <1>2, <3>1
  <2>2. r.phase = runs[a][k].phase
    BY <1>2, SMT DEF Run
  <2>3. r \in Run
    BY <1>2, Zenon DEF Run
  <2> HIDE DEF r
  <2>4. left \in Seq(Run) /\ Len(left) = Len(runs[a])
    BY <1>1, <1>2, <2>3, SMT
  <2>5. \A j \in 1..Len(runs[a]) : left[j].phase = runs[a][j].phase
    BY <1>1, <1>2, <2>2, SMT
  <2>6. \A j \in 1..Len(left) - 1 : Completed(left[j].phase)
    BY <1>2, <2>4, <2>5, SMT
  <2>7. k <= Len(left) /\ Len(runs[a]) <= Len(left) /\ runs[a] # << >>
    BY <1>1, <1>2, <2>4, SMT
  <2> HIDE DEF left, now
  <2> QED
    BY <1>2, <1>3, <2>1, <2>4, <2>6, <2>7 DEF Sound
<1> QED
  BY <1>4, <1>5, SoundUnchanged, "Error" \in Phase, 0 \in Nat, 1 \in Nat DEF Phase, Outcome, Bad

LEMMA AnalysisSound ==
    ASSUME TypeOK, ObjectsInv, NEW a \in Analysis, NEW o \in AnalysisOutcomes(a)
    PROVE  Sound(a, o)
<1> DEFINE now == ctx.status.analyses[a]
<1>1. "Error" \in Phase /\ 0 \in Nat /\ 1 \in Nat
  BY DEF Phase, Outcome, Bad
<1>2. now.run # 0 => runs[a][now.run].phase \in Phase
  <2>1. now \in AnalysisStatus /\ now.run <= Len(runs[a])
    BY SMT DEF TypeOK, Context, Status, ObjectsInv, RunsNamed
  <2>2. now.run # 0 => now.run \in 1..Len(runs[a])
    BY <2>1, RunsType, BoundAssumption, SMT DEF AnalysisStatus
  <2> QED
    BY <2>2, RunsType
<1>3. \/ \E f \in {0, 1} : o = AnalysisOutcome(now, runs[a], f)
      \/ \E f \in {0, 1} : o = AnalysisOutcome([now EXCEPT !.phase = "Error"], runs[a], f)
      \/ ctx.status.availableAt /\ o \in CreateAnalysisRun(a)
      \/ now.run # 0 /\ o \in TerminateRun(a)
      \/ now.run # 0 /\ o = AnalysisOutcome([now EXCEPT !.phase = runs[a][now.run].phase], runs[a], 0)
  BY DEF AnalysisOutcomes, BeforeAvailable
<1> QED
  BY <1>1, <1>2, <1>3, SoundUnchanged, SoundCreated, SoundTerminated

\* What follows from a step for one analysis
LEMMA AnalysisStep ==
    ASSUME TypeOK, ObjectsInv, NEW a \in Analysis, ReconcileAnalysisRun(a)
    PROVE  /\ pc = "analyses" /\ pc' \in {"analyses", "status"}
           /\ \E o \in AnalysisOutcomes(a) :
                 /\ Sound(a, o) /\ runs' = [runs EXCEPT ![a] = o.runs]
                 /\ used' \in [faults : Nat, pods : Nat, stale : Nat]
                 /\ used'.faults = used.faults + o.faults
                 /\ UNCHANGED <<spec, status, rs, svc, timeUp, late, old, ready>>
                 /\ ctx' \in Context
                 /\ ctx'.status = ctx.status /\ ctx'.terminate = ctx.terminate
                 /\ ctx'.rs = ctx.rs /\ ctx'.templates = ctx.templates
                 /\ ctx'.created.rs = ctx.created.rs
                 /\ ctx'.lag = ctx.lag /\ ctx'.new.phase = ctx.new.phase
                 /\ ctx'.new.availableAt = ctx.new.availableAt
                 /\ ctx'.new.templates = ctx.new.templates
                 /\ ctx'.new.analyses = [ctx.new.analyses EXCEPT ![a] = o.status]
<1>1. PICK o \in AnalysisOutcomes(a) :
        /\ used.faults + o.faults <= MaxFaults
        /\ used' = [used EXCEPT !.faults = @ + o.faults]
        /\ runs' = [runs EXCEPT ![a] = o.runs]
        /\ pc' = IF ctx.analyses = {a} THEN "status" ELSE pc
        /\ ctx' = [ctx EXCEPT !.analyses = @ \ {a}, !.new.analyses[a] = o.status,
                              !.created.runs = IF Len(o.runs) > Len(runs[a]) THEN @ \cup {a} ELSE @]
  BY DEF ReconcileAnalysisRun
<1>2. pc = "analyses" /\ UNCHANGED <<spec, status, rs, svc, timeUp, late, old, ready>>
  BY DEF ReconcileAnalysisRun
<1>3. Sound(a, o)
  BY AnalysisSound
<1> DEFINE left == ctx.analyses \ {a}
           n == used.faults + o.faults
           made == IF Len(o.runs) > Len(runs[a]) THEN ctx.created.runs \cup {a} ELSE ctx.created.runs
           theCreated == [ctx.created EXCEPT !.runs = made]
           theAnalyses == [ctx.new.analyses EXCEPT ![a] = o.status]
           theNew == [ctx.new EXCEPT !.analyses = theAnalyses]
<1>4. /\ ctx \in Context /\ ctx.new \in Status /\ ctx.analyses \subseteq Analysis
      /\ ctx.created \in [rs : SUBSET Template, runs : SUBSET Analysis]
  BY SMT DEF TypeOK, Context
<1>5. n \in Nat /\ used' = [used EXCEPT !.faults = n] /\ used'.faults = n
  BY <1>1, <1>3, SMT DEF TypeOK, Sound
<1>6. left \in SUBSET Analysis /\ made \in SUBSET Analysis
  <2>1. ctx.created.runs \in SUBSET Analysis
    BY <1>4
  <2> QED
    BY <1>4, <2>1
<1>7. theAnalyses \in [Analysis -> AnalysisStatus]
  BY <1>3, <1>4, SMT DEF Status, Sound
<1>8. ctx' = [ctx EXCEPT !.analyses = left, !.new = theNew, !.created = theCreated]
  BY <1>1
<1>9. theAnalyses = [ctx.new.analyses EXCEPT ![a] = o.status] /\ n = used.faults + o.faults
  OBVIOUS
<1> HIDE DEF left, n, made, theAnalyses
<1>10. /\ theCreated \in [rs : SUBSET Template, runs : SUBSET Analysis]
       /\ theCreated.rs = ctx.created.rs
  BY <1>4, <1>6, SMT
<1>11. theNew \in Status
  BY <1>4, <1>7, Zenon DEF Status
<1>12. /\ theNew.availableAt = ctx.new.availableAt /\ theNew.templates = ctx.new.templates
       /\ theNew.analyses = theAnalyses /\ theNew.phase = ctx.new.phase
  BY <1>4, SMT DEF Status
<1> HIDE DEF theCreated, theNew
<1>13. ctx' \in Context
  BY <1>4, <1>6, <1>8, <1>10, <1>11, Zenon DEF Context
<1>14. ctx'.status = ctx.status /\ ctx'.terminate = ctx.terminate /\ ctx'.lag = ctx.lag
  BY <1>4, <1>8, SMT DEF Context
<1>15. ctx'.rs = ctx.rs /\ ctx'.templates = ctx.templates
  BY <1>4, <1>8, SMT DEF Context
<1>16. ctx'.created = theCreated /\ ctx'.new = theNew
  BY <1>4, <1>8, SMT DEF Context
<1>17. used' \in [faults : Nat, pods : Nat, stale : Nat]
  BY <1>5, Zenon DEF TypeOK
<1>18. pc' \in {"analyses", "status"}
  BY <1>1, <1>2
<1> QED
  BY <1>1, <1>2, <1>3, <1>5, <1>9, <1>10, <1>12, <1>13, <1>14, <1>15, <1>16, <1>17, <1>18

LEMMA AnalysisObjects ==
    ASSUME TypeOK, ObjectsInv, NEW a \in Analysis, ReconcileAnalysisRun(a)
    PROVE  (TypeOK /\ ObjectsInv)'
<1>1. PICK o \in AnalysisOutcomes(a) :
        /\ pc = "analyses" /\ pc' \in {"analyses", "status"}
        /\ Sound(a, o) /\ runs' = [runs EXCEPT ![a] = o.runs]
        /\ used' \in [faults : Nat, pods : Nat, stale : Nat]
        /\ UNCHANGED <<spec, status, rs, svc, timeUp, late, old, ready>>
        /\ ctx' \in Context
        /\ ctx'.status = ctx.status
        /\ ctx'.rs = ctx.rs /\ ctx'.templates = ctx.templates
        /\ ctx'.created.rs = ctx.created.rs
        /\ ctx'.new.analyses = [ctx.new.analyses EXCEPT ![a] = o.status]
  BY AnalysisStep
<1>2. /\ \A b \in Analysis : b # a => runs'[b] = runs[b]
      /\ runs'[a] = o.runs /\ runs' \in [Analysis -> Seq(Run)]
  BY <1>1 DEF TypeOK, Sound
<1>3. \A b \in Analysis : Len(runs[b]) <= Len(runs'[b]) /\ Len(runs'[b]) <= MaxRuns
                          /\ Len(runs[b]) \in Nat /\ Len(runs'[b]) \in Nat
  <2>1. \A b \in Analysis : Len(runs[b]) \in Nat /\ Len(runs[b]) <= MaxRuns
    BY RunsType
  <2>2. Len(o.runs) \in Nat
    BY <1>1, SMT DEF Sound
  <2>3. \A b \in Analysis : Len(runs[b]) <= Len(runs[b])
    BY <2>1, SMT
  <2> QED
    BY <1>1, <1>2, <2>1, <2>2, <2>3 DEF Sound
<1>4. TypeOK'
  BY <1>1, <1>2, <1>3 DEF TypeOK
<1>5. RunsInTurn'
  BY <1>1, <1>2 DEF ObjectsInv, RunsInTurn, Sound
<1>6. RunsNamed'
  <2>1. ASSUME NEW s \in Status, NEW b \in Analysis, s.analyses[b].run <= Len(runs[b])
        PROVE  s.analyses[b].run <= Len(runs'[b])
    <3>1. s.analyses[b].run \in 0..MaxRuns
      BY SMT DEF Status, AnalysisStatus
    <3> QED
      BY <1>3, <2>1, <3>1, BoundAssumption, SMT
  <2>2. status \in Status /\ old.status \in Status /\ ctx.status \in Status /\ ctx.new \in Status
    BY SMT DEF TypeOK, Context
  <2>3. \A s \in {status, old.status, ctx.status, ctx.new} : \A b \in Analysis :
           s.analyses[b].run <= Len(runs'[b])
    BY <2>1, <2>2 DEF ObjectsInv, RunsNamed
  <2>4. ctx'.new.analyses[a].run <= Len(runs'[a])
    BY <1>1, <1>2, <2>2, SMT DEF Status, Sound
  <2>5. \A b \in Analysis : b # a => ctx'.new.analyses[b] = ctx.new.analyses[b]
    BY <1>1, <2>2, SMT DEF Status
  <2>6. \A b \in Analysis : ctx'.new.analyses[b].run <= Len(runs'[b])
    BY <2>3, <2>4, <2>5
  <2> QED
    BY <1>1, <2>3, <2>6 DEF RunsNamed
<1>7. PassInTurn' /\ ReplicaSetsHold'
  BY <1>1 DEF ObjectsInv, PassInTurn, ReplicaSetsHold, Empty
<1> QED
  BY <1>4, <1>5, <1>6, <1>7 DEF ObjectsInv

-----------------------------------------------------------------------------
(* calculateStatus                                                         *)

(* Worst takes the first of the list that is there.                        *)
LEMMA WorstOfFour ==
    ASSUME NEW a, NEW b, NEW c, NEW d, NEW phases, NEW best
    PROVE  Worst(<<a, b, c, d>>, phases, best) =
              IF a \in phases THEN a ELSE IF b \in phases THEN b
              ELSE IF c \in phases THEN c ELSE IF d \in phases THEN d ELSE best
<1> DEFINE order == <<a, b, c, d>>
           First(i) == /\ order[i] \in phases
                       /\ \A j \in 1..i - 1 : order[j] \notin phases
           i0 == CHOOSE i \in DOMAIN order : First(i)
<1>1. /\ DOMAIN order = 1..4 /\ order[1] = a /\ order[2] = b /\ order[3] = c /\ order[4] = d
  OBVIOUS
<1>2. Worst(order, phases, best) = IF \E i \in DOMAIN order : order[i] \in phases
                                   THEN order[i0] ELSE best
  BY DEF Worst
<1> HIDE DEF order
<1>3. ASSUME NEW k \in DOMAIN order, First(k)
      PROVE  Worst(order, phases, best) = order[k]
  <2>1. i0 \in DOMAIN order /\ First(i0)
    BY <1>3
  <2>2. i0 = k
    <3> HIDE DEF i0
    <3>1. ~(k < i0)
      BY <1>1, <1>3, <2>1, SMT
    <3>2. ~(i0 < k)
      BY <1>1, <1>3, <2>1, SMT
    <3> QED
      BY <1>1, <2>1, <3>1, <3>2, SMT
  <2> QED
    BY <1>2, <1>3, <2>2
<1>4. CASE a \in phases
  <2>1. 1 \in DOMAIN order /\ First(1)
    BY <1>1, <1>4, SMT
  <2> QED
    BY <1>1, <1>3, <1>4, <2>1 DEF order
<1>5. CASE a \notin phases /\ b \in phases
  <2>1. 2 \in DOMAIN order /\ First(2)
    BY <1>1, <1>5, SMT
  <2> QED
    BY <1>1, <1>3, <1>5, <2>1 DEF order
<1>6. CASE a \notin phases /\ b \notin phases /\ c \in phases
  <2>1. 3 \in DOMAIN order /\ First(3)
    BY <1>1, <1>6, SMT
  <2> QED
    BY <1>1, <1>3, <1>6, <2>1 DEF order
<1>7. CASE a \notin phases /\ b \notin phases /\ c \notin phases /\ d \in phases
  <2>1. 4 \in DOMAIN order /\ First(4)
    BY <1>1, <1>7, SMT
  <2> QED
    BY <1>1, <1>3, <1>7, <2>1 DEF order
<1>8. CASE a \notin phases /\ b \notin phases /\ c \notin phases /\ d \notin phases
  <2>1. ~\E i \in DOMAIN order : order[i] \in phases
    BY <1>1, <1>8, SMT
  <2> QED
    BY <1>2, <1>8, <2>1 DEF order
<1> QED
  BY <1>4, <1>5, <1>6, <1>7, <1>8

LEMMA WorstOfFive ==
    ASSUME NEW a, NEW b, NEW c, NEW d, NEW e, NEW phases, NEW best
    PROVE  Worst(<<a, b, c, d, e>>, phases, best) =
              IF a \in phases THEN a ELSE IF b \in phases THEN b
              ELSE IF c \in phases THEN c ELSE IF d \in phases THEN d
              ELSE IF e \in phases THEN e ELSE best
<1> DEFINE order == <<a, b, c, d, e>>
           First(i) == /\ order[i] \in phases
                       /\ \A j \in 1..i - 1 : order[j] \notin phases
           i0 == CHOOSE i \in DOMAIN order : First(i)
<1>1. /\ DOMAIN order = 1..5 /\ order[1] = a /\ order[2] = b /\ order[3] = c /\ order[4] = d
      /\ order[5] = e
  OBVIOUS
<1>2. Worst(order, phases, best) = IF \E i \in DOMAIN order : order[i] \in phases
                                   THEN order[i0] ELSE best
  BY DEF Worst
<1> HIDE DEF order
<1>3. ASSUME NEW k \in DOMAIN order, First(k)
      PROVE  Worst(order, phases, best) = order[k]
  <2>1. i0 \in DOMAIN order /\ First(i0)
    BY <1>3
  <2>2. i0 = k
    <3> HIDE DEF i0
    <3>1. ~(k < i0)
      BY <1>1, <1>3, <2>1, SMT
    <3>2. ~(i0 < k)
      BY <1>1, <1>3, <2>1, SMT
    <3> QED
      BY <1>1, <2>1, <3>1, <3>2, SMT
  <2> QED
    BY <1>2, <1>3, <2>2
<1>4. CASE a \in phases
  <2>1. 1 \in DOMAIN order /\ First(1)
    BY <1>1, <1>4, SMT
  <2> QED
    BY <1>1, <1>3, <1>4, <2>1 DEF order
<1>5. CASE a \notin phases /\ b \in phases
  <2>1. 2 \in DOMAIN order /\ First(2)
    BY <1>1, <1>5, SMT
  <2> QED
    BY <1>1, <1>3, <1>5, <2>1 DEF order
<1>6. CASE a \notin phases /\ b \notin phases /\ c \in phases
  <2>1. 3 \in DOMAIN order /\ First(3)
    BY <1>1, <1>6, SMT
  <2> QED
    BY <1>1, <1>3, <1>6, <2>1 DEF order
<1>7. CASE a \notin phases /\ b \notin phases /\ c \notin phases /\ d \in phases
  <2>1. 4 \in DOMAIN order /\ First(4)
    BY <1>1, <1>7, SMT
  <2> QED
    BY <1>1, <1>3, <1>7, <2>1 DEF order
<1>8. CASE /\ a \notin phases /\ b \notin phases /\ c \notin phases /\ d \notin phases
           /\ e \in phases
  <2>1. 5 \in DOMAIN order /\ First(5)
    BY <1>1, <1>8, SMT
  <2> QED
    BY <1>1, <1>3, <1>8, <2>1 DEF order
<1>9. CASE /\ a \notin phases /\ b \notin phases /\ c \notin phases /\ d \notin phases
           /\ e \notin phases
  <2>1. ~\E i \in DOMAIN order : order[i] \in phases
    BY <1>1, <1>9, SMT
  <2> QED
    BY <1>2, <1>9, <2>1 DEF order
<1> QED
  BY <1>4, <1>5, <1>6, <1>7, <1>8, <1>9

LEMMA AssessedType ==
    ASSUME NEW new
    PROVE  AssessTemplates(new) \in Phase /\ AssessAnalysisRuns(new) \in Phase
<1>1. AssessTemplates(new) \in Phase
  BY WorstOfFour DEF AssessTemplates, Phase, Outcome, Bad
<1>2. AssessAnalysisRuns(new) \in Phase
  BY WorstOfFive DEF AssessAnalysisRuns, Phase, Outcome, Bad
<1> QED
  BY <1>1, <1>2

LEMMA CalculatedType ==
    ASSUME TypeOK
    PROVE  /\ CalculateStatus \in Status
           /\ CalculateStatus.templates = ctx.new.templates
           /\ CalculateStatus.analyses = ctx.new.analyses
           /\ CalculateStatus.availableAt =
                 (\/ ctx.new.availableAt
                  \/ /\ ctx.new.phase \in {"Pending", "Running"}
                     /\ AssessTemplates(ctx.new) = "Running")
<1> DEFINE decided == DecidedPhase(ctx.new)
           known == \/ ctx.new.availableAt
                    \/ /\ ctx.new.phase \in {"Pending", "Running"}
                       /\ AssessTemplates(ctx.new) = "Running"
<1>1. ctx.new \in Status
  BY SMT DEF TypeOK, Context
<1>2. ctx.new.phase \in Phase /\ ctx.new.availableAt \in BOOLEAN
  BY <1>1, SMT DEF Status
<1>3. decided \in Phase
  <2>1. "Pending" \in Phase
    BY DEF Phase
  <2> QED
    BY <1>2, <2>1, AssessedType DEF DecidedPhase
<1>4. known \in BOOLEAN
  BY <1>2
<1>5. CalculateStatus = [ctx.new EXCEPT !.phase = decided, !.availableAt = known]
  BY DEF CalculateStatus
<1> HIDE DEF decided, known
<1>6. CalculateStatus \in Status
  BY <1>1, <1>3, <1>4, <1>5, Zenon DEF Status
<1>7. /\ CalculateStatus.templates = ctx.new.templates
      /\ CalculateStatus.analyses = ctx.new.analyses
  BY <1>1, <1>5, SMT DEF Status
<1>8. CalculateStatus.availableAt = known
  BY <1>1, <1>5, Zenon DEF Status
<1> QED
  BY <1>6, <1>7, <1>8 DEF known

LEMMA PersistStep ==
    ASSUME TypeOK, PersistExperimentStatus
    PROVE  /\ pc = "status" /\ pc' = "idle" /\ ctx' = NoContext
           /\ status' \in Status
           /\ status'.availableAt =>
                 \/ status.availableAt \/ ctx.new.availableAt
                 \/ AssessTemplates(ctx.new) = "Running"
           /\ status'.templates = status.templates \/ status'.templates = ctx.new.templates
           /\ status'.analyses = status.analyses \/ status'.analyses = ctx.new.analyses
           /\ late' \subseteq Template /\ timeUp' \in BOOLEAN
           /\ old' = Superseded([status |-> status, rs |-> ctx.created.rs,
                                 runs |-> ctx.created.runs])
           /\ UNCHANGED <<spec, rs, svc, runs, used, ready>>
<1> DEFINE new == CalculateStatus
           relisted == new.templates # ctx.status.templates \/ ctx.touched # {}
           phase == IF new.phase # ctx.status.phase THEN new.phase ELSE status.phase
           availableAt == new.availableAt \/ status.availableAt
           templates == IF relisted THEN new.templates ELSE status.templates
           analyses == IF new.analyses # ctx.status.analyses THEN new.analyses ELSE status.analyses
<1>1. /\ new \in Status /\ new.templates = ctx.new.templates
      /\ new.analyses = ctx.new.analyses
      /\ new.availableAt => ctx.new.availableAt \/ AssessTemplates(ctx.new) = "Running"
  BY CalculatedType
<1>2. status' = [phase |-> phase, availableAt |-> availableAt, templates |-> templates,
                 analyses |-> analyses]
  BY DEF PersistExperimentStatus
<1>3. /\ pc = "status" /\ pc' = "idle" /\ ctx' = NoContext
      /\ late' = late \ ctx.touched
      /\ timeUp' = (timeUp /\ ~(new.availableAt /\ ~ctx.status.availableAt))
      /\ old' = Superseded([status |-> status, rs |-> ctx.created.rs, runs |-> ctx.created.runs])
      /\ UNCHANGED <<spec, rs, svc, runs, used, ready>>
  BY DEF PersistExperimentStatus
<1> HIDE DEF new
<1>4. status \in Status /\ late \subseteq Template
  BY DEF TypeOK
<1>5. phase \in Phase /\ availableAt \in BOOLEAN
  BY <1>1, <1>4, SMT DEF Status
<1>6. templates \in [Template -> TemplateStatus] /\ analyses \in [Analysis -> AnalysisStatus]
  BY <1>1, <1>4, SMT DEF Status
<1>7. /\ templates \in {status.templates, ctx.new.templates}
      /\ analyses \in {status.analyses, ctx.new.analyses}
      /\ availableAt => \/ status.availableAt \/ ctx.new.availableAt
                        \/ AssessTemplates(ctx.new) = "Running"
  BY <1>1
<1>8. late' \subseteq Template /\ timeUp' \in BOOLEAN
  BY <1>3, <1>4
<1> HIDE DEF phase, availableAt, templates, analyses
<1>9. status' \in Status
  BY <1>2, <1>5, <1>6, Zenon DEF Status
<1>10. status'.availableAt = availableAt /\ status'.templates = templates
       /\ status'.analyses = analyses
  BY <1>2
<1> QED
  BY <1>3, <1>7, <1>8, <1>9, <1>10

LEMMA PersistObjects ==
    ASSUME TypeOK, ObjectsInv, PersistExperimentStatus
    PROVE  (TypeOK /\ ObjectsInv)'
<1>1. /\ pc' = "idle" /\ ctx' = NoContext /\ status' \in Status
      /\ status'.analyses = status.analyses \/ status'.analyses = ctx.new.analyses
      /\ late' \subseteq Template /\ timeUp' \in BOOLEAN
      /\ old' = Superseded([status |-> status, rs |-> ctx.created.rs, runs |-> ctx.created.runs])
      /\ UNCHANGED <<spec, rs, svc, runs, used, ready>>
  BY PersistStep
<1>2. ctx.created.rs \in SUBSET Template /\ ctx.created.runs \in SUBSET Analysis
  BY SMT DEF TypeOK, Context
<1>3. /\ status \in Status
      /\ \A a \in Analysis : status.analyses[a].run <= Len(runs[a])
      /\ \A a \in Analysis : status'.analyses[a].run <= Len(runs[a])
  BY <1>1 DEF TypeOK, ObjectsInv, RunsNamed
<1>4. /\ rs' \in [Template -> ReplicaSet]
      /\ \A t \in ctx.created.rs : Empty(rs[t])'
      /\ \A t \in Template :
            /\ (rs[t].replicas \in {0, Replicas} /\ rs[t].available <= Replicas)'
            /\ (~rs[t].exists => Empty(rs[t]))'
  BY <1>1 DEF TypeOK, ObjectsInv, ReplicaSetsHold, Empty
<1>5. /\ ObjectsInv' /\ ctx' \in Context
      /\ old' \in [status : Status, rs : SUBSET Template, runs : SUBSET Analysis]
  BY <1>1, <1>2, <1>3, <1>4, BackToIdle
<1> QED
  BY <1>1, <1>5 DEF TypeOK

(* A pass that is lost leaves what it wrote so far.                        *)
LEMMA LostObjects ==
    ASSUME TypeOK, ObjectsInv, ReconcileLost
    PROVE  (TypeOK /\ ObjectsInv)'
<1>1. /\ pc' = "idle" /\ ctx' = NoContext
      /\ old' = Superseded([status |-> old.status, rs |-> ctx.created.rs,
                            runs |-> ctx.created.runs])
      /\ used' = [used EXCEPT !.faults = @ + 1]
      /\ UNCHANGED <<spec, status, rs, svc, runs, timeUp, late, ready>>
  BY DEF ReconcileLost
<1>2. ctx.created.rs \in SUBSET Template /\ ctx.created.runs \in SUBSET Analysis
  BY SMT DEF TypeOK, Context
<1>3. old.status \in Status /\ status' \in Status
  BY <1>1, SMT DEF TypeOK
<1>4. /\ \A a \in Analysis : old.status.analyses[a].run <= Len(runs[a])
      /\ \A a \in Analysis : status'.analyses[a].run <= Len(runs[a])
  BY <1>1 DEF ObjectsInv, RunsNamed
<1>5. /\ rs' \in [Template -> ReplicaSet]
      /\ \A t \in ctx.created.rs : Empty(rs[t])'
      /\ \A t \in Template :
            /\ (rs[t].replicas \in {0, Replicas} /\ rs[t].available <= Replicas)'
            /\ (~rs[t].exists => Empty(rs[t]))'
  BY <1>1 DEF TypeOK, ObjectsInv, ReplicaSetsHold, Empty
<1>6. /\ ObjectsInv' /\ ctx' \in Context
      /\ old' \in [status : Status, rs : SUBSET Template, runs : SUBSET Analysis]
  BY <1>1, <1>2, <1>3, <1>4, <1>5, BackToIdle
<1>7. used' \in [faults : Nat, pods : Nat, stale : Nat]
  <2> DEFINE n == used.faults + 1
  <2>1. n \in Nat /\ used' = [used EXCEPT !.faults = n]
    BY <1>1, SMT DEF TypeOK
  <2> HIDE DEF n
  <2> QED
    BY <2>1, Zenon DEF TypeOK
<1> QED
  BY <1>1, <1>6, <1>7 DEF TypeOK

-----------------------------------------------------------------------------
(* The clock, the pods, the AnalysisRuns and the user                      *)

(* Pods come and go under a ReplicaSet that keeps its size.                *)
LEMMA OneReplicaSet ==
    ASSUME TypeOK, ObjectsInv, NEW t \in Template, NEW r \in ReplicaSet,
           rs' = [rs EXCEPT ![t] = r],
           r.exists = rs[t].exists, r.replicas = rs[t].replicas,
           r.available <= Replicas, Empty(rs[t]) => Empty(r),
           ready' \in BOOLEAN, used' \in [faults : Nat, pods : Nat, stale : Nat],
           UNCHANGED <<spec, status, svc, runs, timeUp, late, old, pc, ctx>>
    PROVE  (TypeOK /\ ObjectsInv)'
<1>1. /\ \A u \in Template : u # t => rs'[u] = rs[u]
      /\ rs'[t] = r /\ rs' \in [Template -> ReplicaSet]
  BY DEF TypeOK
<1>2. TypeOK'
  BY <1>1 DEF TypeOK
<1>3. \A u \in Template :
        /\ rs'[u].exists = rs[u].exists /\ rs'[u].replicas = rs[u].replicas
        /\ rs'[u].available <= Replicas
        /\ Empty(rs[u]) => Empty(rs'[u])
  BY <1>1 DEF ObjectsInv, ReplicaSetsHold
<1>4. ctx.created.rs \subseteq Template /\ old.rs \subseteq Template /\ ctx.templates \subseteq Template
  BY SMT DEF TypeOK, Context
<1>5. ReplicaSetsHold'
  BY <1>3, <1>4 DEF ObjectsInv, ReplicaSetsHold, Empty
<1>6. RunsInTurn' /\ RunsNamed' /\ PassInTurn'
  BY DEF ObjectsInv, RunsInTurn, RunsNamed, PassInTurn
<1> QED
  BY <1>2, <1>5, <1>6 DEF ObjectsInv

LEMMA ReplicaSetFields ==
    ASSUME TypeOK, ObjectsInv, NEW t \in Template
    PROVE  /\ rs[t] \in ReplicaSet /\ rs[t].available \in Nat /\ rs[t].replicas \in {0, Replicas}
           /\ rs[t].available <= Replicas /\ 0 <= Replicas /\ Replicas \in Nat /\ Replicas # 0
<1>1. rs[t] \in ReplicaSet
  BY DEF TypeOK
<1>2. rs[t].available \in Nat
  BY <1>1, SMT DEF ReplicaSet
<1>3. rs[t].replicas \in {0, Replicas} /\ rs[t].available <= Replicas
  BY DEF ObjectsInv, ReplicaSetsHold
<1>4. 0 <= Replicas /\ Replicas \in Nat /\ Replicas # 0
  BY SpecAssumption, SMT
<1> QED
  BY <1>1, <1>2, <1>3, <1>4

\* A step of the pods or of their deadline
PodStep(t) ==
    \/ ScaleDownDeadlinePasses(t) \/ PodBecomesAvailable(t)
    \/ SurplusPodsDeleted(t) \/ PodFails(t)

LEMMA PodChange ==
    ASSUME TypeOK, ObjectsInv, NEW t \in Template, PodStep(t)
    PROVE  /\ \E r \in ReplicaSet :
                 /\ rs' = [rs EXCEPT ![t] = r]
                 /\ r.exists = rs[t].exists /\ r.replicas = rs[t].replicas
                 /\ r.available <= Replicas
                 /\ Empty(rs[t]) => Empty(r)
                 /\ r.available > rs[t].available => PodBecomesAvailable(t)
                 /\ r.available \in Nat
           /\ ready' \in BOOLEAN /\ used' \in [faults : Nat, pods : Nat, stale : Nat]
           /\ UNCHANGED <<spec, status, svc, runs, timeUp, late, old, pc, ctx>>
           /\ ready' = ready \/ PodBecomesAvailable(t)
<1>1. /\ rs[t] \in ReplicaSet /\ rs[t].available \in Nat /\ rs[t].replicas \in {0, Replicas}
      /\ rs[t].available <= Replicas /\ 0 <= Replicas /\ Replicas \in Nat /\ Replicas # 0
  BY ReplicaSetFields
<1>2. ready \in BOOLEAN /\ used \in [faults : Nat, pods : Nat, stale : Nat]
  BY DEF TypeOK
<1>3. ASSUME NEW n \in Nat, rs' = [rs EXCEPT ![t].available = n], n <= Replicas,
             Empty(rs[t]) => n = 0, n > rs[t].available => PodBecomesAvailable(t)
      PROVE  \E r \in ReplicaSet :
                 /\ rs' = [rs EXCEPT ![t] = r]
                 /\ r.exists = rs[t].exists /\ r.replicas = rs[t].replicas
                 /\ r.available <= Replicas
                 /\ Empty(rs[t]) => Empty(r)
                 /\ r.available > rs[t].available => PodBecomesAvailable(t)
                 /\ r.available \in Nat
  <2> DEFINE r == [rs[t] EXCEPT !.available = n]
  <2>1. r \in ReplicaSet /\ r.exists = rs[t].exists /\ r.replicas = rs[t].replicas
        /\ r.available = n
    BY <1>1, SMT DEF ReplicaSet
  <2>2. rs' = [rs EXCEPT ![t] = r]
    BY <1>3
  <2> HIDE DEF r
  <2> QED
    BY <1>3, <2>1, <2>2 DEF Empty
<1>4. CASE ScaleDownDeadlinePasses(t)
  <2> DEFINE r == [rs[t] EXCEPT !.deadline = "passed"]
  <2>1. r \in ReplicaSet /\ r.exists = rs[t].exists /\ r.replicas = rs[t].replicas
        /\ r.available = rs[t].available
    BY <1>1, SMT DEF ReplicaSet
  <2>2. /\ rs' = [rs EXCEPT ![t] = r]
        /\ UNCHANGED <<spec, status, svc, runs, timeUp, late, old, pc, ctx, used, ready>>
    BY <1>4 DEF ScaleDownDeadlinePasses
  <2> HIDE DEF r
  <2>3. ~(r.available > rs[t].available)
    BY <1>1, <2>1, SMT
  <2> QED
    BY <1>1, <1>2, <2>1, <2>2, <2>3 DEF Empty
<1>5. CASE PodBecomesAvailable(t)
  <2> DEFINE n == rs[t].available + 1
  <2>1. n \in Nat /\ n <= Replicas /\ ~Empty(rs[t])
    BY <1>1, <1>5, SMT DEF PodBecomesAvailable, Empty
  <2>2. rs' = [rs EXCEPT ![t].available = n]
    BY <1>5 DEF PodBecomesAvailable
  <2>3. ready' \in BOOLEAN /\ UNCHANGED <<spec, status, svc, runs, timeUp, late, old, pc, ctx, used>>
    BY <1>2, <1>5 DEF PodBecomesAvailable
  <2> HIDE DEF n
  <2> QED
    BY <1>2, <1>3, <1>5, <2>1, <2>2, <2>3
<1>6. CASE SurplusPodsDeleted(t)
  <2> DEFINE n == rs[t].replicas
  <2>1. n \in Nat /\ n <= Replicas /\ ~Empty(rs[t]) /\ ~(n > rs[t].available)
    BY <1>1, <1>6, SMT DEF SurplusPodsDeleted, Empty
  <2>2. rs' = [rs EXCEPT ![t].available = n]
    BY <1>6 DEF SurplusPodsDeleted
  <2>3. UNCHANGED <<spec, status, svc, runs, timeUp, late, old, pc, ctx, used, ready>>
    BY <1>6 DEF SurplusPodsDeleted
  <2> HIDE DEF n
  <2> QED
    BY <1>2, <1>3, <2>1, <2>2, <2>3
<1>7. CASE PodFails(t)
  <2> DEFINE n == rs[t].available - 1
             m == used.pods + 1
  <2>1. n \in Nat /\ n <= Replicas /\ ~Empty(rs[t]) /\ ~(n > rs[t].available)
    BY <1>1, <1>7, SMT DEF PodFails, Empty
  <2>2. rs' = [rs EXCEPT ![t].available = n]
    BY <1>7 DEF PodFails
  <2>3. UNCHANGED <<spec, status, svc, runs, timeUp, late, old, pc, ctx, ready>>
    BY <1>7 DEF PodFails
  <2>4. m \in Nat /\ used' = [used EXCEPT !.pods = m]
    BY <1>2, <1>7, SMT DEF PodFails
  <2> HIDE DEF n, m
  <2>5. used' \in [faults : Nat, pods : Nat, stale : Nat]
    BY <1>2, <2>4, Zenon
  <2> QED
    BY <1>2, <1>3, <2>1, <2>2, <2>3, <2>5
<1> QED
  BY <1>4, <1>5, <1>6, <1>7 DEF PodStep

LEMMA PodObjects ==
    ASSUME TypeOK, ObjectsInv, NEW t \in Template, PodStep(t)
    PROVE  (TypeOK /\ ObjectsInv)'
<1>1. PICK r \in ReplicaSet :
        /\ rs' = [rs EXCEPT ![t] = r]
        /\ r.exists = rs[t].exists /\ r.replicas = rs[t].replicas
        /\ r.available <= Replicas
        /\ Empty(rs[t]) => Empty(r)
  BY PodChange
<1>2. /\ ready' \in BOOLEAN /\ used' \in [faults : Nat, pods : Nat, stale : Nat]
      /\ UNCHANGED <<spec, status, svc, runs, timeUp, late, old, pc, ctx>>
  BY PodChange
<1> QED
  BY <1>1, <1>2, OneReplicaSet

(* Time passes for the Experiment, or the user terminates it.              *)
LEMMA ClockObjects ==
    ASSUME TypeOK, ObjectsInv,
           DurationPasses \/ Terminate \/ \E t \in Template : ProgressDeadlinePasses(t)
    PROVE  (TypeOK /\ ObjectsInv)'
<1>1. UNCHANGED <<status, rs, svc, runs, old, pc, ctx, used, ready>>
  BY DEF DurationPasses, Terminate, ProgressDeadlinePasses
<1>2. timeUp' \in BOOLEAN /\ late' \subseteq Template
  BY DEF DurationPasses, Terminate, ProgressDeadlinePasses, TypeOK
<1>3. spec' \in [duration : BOOLEAN, delay : BOOLEAN, required : SUBSET Analysis,
                 terminate : BOOLEAN]
  <2>1. spec' = spec \/ spec' = [spec EXCEPT !.terminate = TRUE]
    BY DEF DurationPasses, Terminate, ProgressDeadlinePasses
  <2> QED
    BY <2>1, Zenon DEF TypeOK
<1>4. TypeOK'
  BY <1>1, <1>2, <1>3 DEF TypeOK
<1>5. ObjectsInv'
  BY <1>1 DEF ObjectsInv, RunsInTurn, RunsNamed, PassInTurn, ReplicaSetsHold, Empty
<1> QED
  BY <1>4, <1>5

(* A run starts or ends: it has not ended before.                          *)
LEMMA RunObjects ==
    ASSUME TypeOK, ObjectsInv, NEW a \in Analysis, NEW i, NEW phase \in Phase, RunMoves(a, i, phase)
    PROVE  /\ (TypeOK /\ ObjectsInv)'
           /\ \A b \in Analysis : runs'[b] # << >> => runs[b] # << >>
           /\ UNCHANGED <<spec, status, rs, svc, timeUp, late, old, pc, ctx, used, ready>>
<1> DEFINE r == [runs[a][i] EXCEPT !.phase = phase]
           left == [runs[a] EXCEPT ![i] = r]
<1>1. /\ runs[a] \in Seq(Run) /\ Len(runs[a]) \in Nat /\ Len(runs[a]) <= MaxRuns
      /\ \A j \in 1..Len(runs[a]) - 1 : Completed(runs[a][j].phase)
  BY RunsType DEF ObjectsInv, RunsInTurn
<1>2. i \in 1..Len(runs[a]) /\ ~Completed(runs[a][i].phase)
  BY <1>1, SMT DEF RunMoves
<1>3. runs[a][i] \in Run
  BY <1>1, <1>2, SMT
<1>4. r \in Run
  BY <1>3, Zenon DEF Run
<1>5. runs' = [runs EXCEPT ![a][i].phase = phase]
  BY DEF RunMoves
<1>6. runs' = [runs EXCEPT ![a] = left]
  BY <1>5
<1>7. UNCHANGED <<spec, status, rs, svc, timeUp, late, old, pc, ctx, used, ready>>
  BY DEF RunMoves
<1> HIDE DEF r
<1>8. /\ left \in Seq(Run) /\ Len(left) = Len(runs[a])
      /\ \A j \in 1..Len(runs[a]) : j # i => left[j] = runs[a][j]
  BY <1>1, <1>2, <1>4, SMT
<1>9. \A j \in 1..Len(left) - 1 : Completed(left[j].phase)
  <2>1. ASSUME NEW j \in 1..Len(left) - 1 PROVE Completed(left[j].phase)
    <3>1. j \in 1..Len(runs[a]) - 1 /\ j \in 1..Len(runs[a])
      BY <1>1, <1>8, SMT
    <3>2. j # i
      BY <1>1, <1>2, <3>1
    <3> QED
      BY <1>1, <1>8, <3>1, <3>2
  <2> QED
    BY <2>1
<1> HIDE DEF left
<1>10. /\ \A b \in Analysis : b # a => runs'[b] = runs[b]
       /\ runs'[a] = left /\ runs' \in [Analysis -> Seq(Run)]
  BY <1>6, <1>8 DEF TypeOK
<1>11. \A b \in Analysis : Len(runs'[b]) = Len(runs[b])
  BY <1>8, <1>10
<1>12. TypeOK'
  BY <1>7, <1>10, <1>11 DEF TypeOK
<1>13. RunsInTurn'
  BY <1>9, <1>10 DEF ObjectsInv, RunsInTurn
<1>14. RunsNamed' /\ PassInTurn'
  BY <1>7, <1>11 DEF ObjectsInv, RunsNamed, PassInTurn
<1>15. ReplicaSetsHold'
  BY <1>7 DEF ObjectsInv, ReplicaSetsHold, Empty
<1>16. \A b \in Analysis : runs'[b] # << >> => runs[b] # << >>
  <2>1. runs[a] # << >>
    BY <1>1, <1>2, SMT
  <2> QED
    BY <1>10, <2>1
<1> QED
  BY <1>7, <1>12, <1>13, <1>14, <1>15, <1>16 DEF ObjectsInv

-----------------------------------------------------------------------------
(* The steps together                                                      *)

\* The steps of Next, by what they change
LEMMA NextCases ==
    ASSUME Next
    PROVE  \/ SyncHandler \/ PersistExperimentStatus \/ ReconcileLost
           \/ \E t \in Template : ReconcileTemplate(t)
           \/ \E a \in Analysis : ReconcileAnalysisRun(a)
           \/ DurationPasses \/ Terminate \/ \E t \in Template : ProgressDeadlinePasses(t)
           \/ \E t \in Template : PodStep(t)
           \/ \E a \in Analysis, i \in 1..MaxRuns, phase \in Phase : RunMoves(a, i, phase)
<1>1. \A a \in Analysis, i \in 1..MaxRuns : RunStarts(a, i) \/ RunEnds(a, i)
         => \E phase \in Phase : RunMoves(a, i, phase)
  BY DEF RunStarts, RunEnds, Phase
<1> QED
  BY <1>1 DEF Next, Reconcile, Deadlines, PodStep

LEMMA ObjectsStep ==
    TypeOK /\ ObjectsInv /\ [Next]_vars => (TypeOK /\ ObjectsInv)'
<1> SUFFICES ASSUME TypeOK, ObjectsInv, [Next]_vars PROVE (TypeOK /\ ObjectsInv)'
  OBVIOUS
<1>1. CASE Next
  <2>1. CASE SyncHandler
    BY <2>1, SyncObjects
  <2>2. CASE PersistExperimentStatus
    BY <2>2, PersistObjects
  <2>3. CASE ReconcileLost
    BY <2>3, LostObjects
  <2>4. CASE \E t \in Template : ReconcileTemplate(t)
    BY <2>4, TemplateObjects
  <2>5. CASE \E a \in Analysis : ReconcileAnalysisRun(a)
    BY <2>5, AnalysisObjects
  <2>6. CASE DurationPasses \/ Terminate \/ \E t \in Template : ProgressDeadlinePasses(t)
    BY <2>6, ClockObjects
  <2>7. CASE \E t \in Template : PodStep(t)
    BY <2>7, PodObjects
  <2>8. CASE \E a \in Analysis, i \in 1..MaxRuns, phase \in Phase : RunMoves(a, i, phase)
    BY <2>8, RunObjects
  <2> QED
    BY <1>1, NextCases, <2>1, <2>2, <2>3, <2>4, <2>5, <2>6, <2>7, <2>8
<1>2. CASE UNCHANGED vars
  BY <1>2 DEF vars, TypeOK, ObjectsInv, RunsInTurn, RunsNamed, PassInTurn, ReplicaSetsHold, Empty
<1> QED
  BY <1>1, <1>2

(***************************************************************************)
(* Every variable keeps its type, and the runs that a status names, old or *)
(* new, are there: the experiment controller never loses track of a run.   *)
(***************************************************************************)
THEOREM ObjectsCorrect == Spec => [](TypeOK /\ ObjectsInv)
  BY InitObjects, ObjectsStep, PTL DEF Spec

(***************************************************************************)
(* CreateWithCollisionCounter: no analysis has two AnalysisRuns that       *)
(* measure at once, however passes are lost and whatever they read.        *)
(***************************************************************************)
THEOREM OneRunAtATime == Spec => []OneOpenRun
<1>1. TypeOK /\ ObjectsInv => OneOpenRun
  <2> SUFFICES ASSUME TypeOK, ObjectsInv, NEW a \in Analysis,
                      NEW i \in DOMAIN runs[a], NEW j \in DOMAIN runs[a],
                      ~Completed(runs[a][i].phase), ~Completed(runs[a][j].phase)
               PROVE  i = j
    BY DEF OneOpenRun
  <2>1. runs[a] \in Seq(Run) /\ Len(runs[a]) \in Nat
    BY RunsType
  <2>2. i \in 1..Len(runs[a]) /\ j \in 1..Len(runs[a])
    BY <2>1, SMT
  <2>3. i \notin 1..Len(runs[a]) - 1 /\ j \notin 1..Len(runs[a]) - 1
    BY DEF ObjectsInv, RunsInTurn
  <2> QED
    BY <2>1, <2>2, <2>3, SMT
<1> QED
  BY <1>1, ObjectsCorrect, PTL

=============================================================================
