-------------------------------- MODULE Canary --------------------------------
(***************************************************************************)
(* The canary strategy with traffic routing (rollout/canary.go,            *)
(* trafficrouting.go and what they call): one worker reconciles one        *)
(* Rollout.  As in BlueGreen, a reconcile decides on a snapshot (ctx) and  *)
(* writes the live objects one group of API calls after another.           *)
(*                                                                         *)
(* The traffic router sends `route` out of MaxWeight to the canary Service *)
(* and the rest to the stable Service; a version gets the traffic of the   *)
(* Services that select it.                                                *)
(***************************************************************************)
EXTENDS CanaryReplicas, Sequences, FiniteSets

CONSTANTS
    Hash,               \* pod templates, and the ReplicaSets made of them
    None,               \* no hash
    Replicas,           \* spec.replicas
    Steps,              \* the steps: a sequence of records of CanaryStep
    MaxWeight,          \* trafficRouting.maxTrafficWeight
    DynamicStableScale, \* spec.strategy.canary.dynamicStableScale
    MinPods,            \* minPodsPerReplicaSet, 1 when it is not set
    MaxDown,            \* maxUnavailable, as a number of pods
    Background,         \* is background analysis configured?
    StartingStep,       \* the step at which it starts
    AbortDelay,         \* abortScaleDownDelaySeconds: "default" (nil), "set",
                        \* "long" (more than the resync period), "never" (0)
    ScaleDownDelay,     \* scaleDownDelaySeconds: "set" (or nil), "zero"
    RevisionLimit,      \* scaleDownDelayRevisionLimit
    VerifyWeights,      \* does the traffic router verify weights?
    UserActions,        \* the commands users give
    MaxEdits,           \* bound: user commands in a behaviour
    MaxPodFailures,     \* bound: pods that become unavailable
    MaxErrors           \* bound: reconciles cut short by an error or a crash

Commands == {"template", "pause", "promote", "skip", "skipAll", "promoteFull",
             "abort", "retry"}

\* A step; `value` is a weight or a number of replicas, `by` is the field that
\* a setCanaryScale step sets, `timed` says that a pause has a duration.
CanaryStep ==
    [kind : {"setWeight", "setCanaryScale", "pause", "analysis", "experiment"},
     value : Nat, by : {"none", "replicas", "weight", "matchTrafficWeight"},
     timed : BOOLEAN]

ASSUME HashAssumption == None \notin Hash
ASSUME ReplicasAssumption ==
    /\ Replicas \in Nat \ {0} /\ MaxWeight \in Nat \ {0}
    /\ MinPods \in Nat \ {0} /\ MaxDown \in 0..Replicas
ASSUME StepsAssumption ==
    /\ Steps \in Seq(CanaryStep)
    /\ \A i \in 1..Len(Steps) :
          Steps[i].kind = "setWeight" => Steps[i].value <= MaxWeight
ASSUME StrategyAssumption ==
    /\ DynamicStableScale \in BOOLEAN /\ VerifyWeights \in BOOLEAN
    /\ Background \in BOOLEAN /\ StartingStep \in Nat
    /\ AbortDelay \in {"default", "set", "long", "never"}
    /\ ScaleDownDelay \in {"set", "zero"}
    /\ RevisionLimit \in Nat
ASSUME BoundsAssumption ==
    /\ UserActions \subseteq Commands
    /\ MaxEdits \in Nat /\ MaxPodFailures \in Nat /\ MaxErrors \in Nat

VARIABLES
    spec,       \* the Rollout's spec: its template and spec.paused
    status,     \* the Rollout's status
    rs,         \* the ReplicaSets
    order,      \* the hashes that have a ReplicaSet, by revision
    svc,        \* the pod-template-hash selector of the two Services
    route,      \* the weight the traffic router sends to the canary Service
    run,        \* the AnalysisRun or Experiment of each kind the status names
    fresh,      \* the last one of each kind that it does not name
    elapsed,    \* has the duration of the pause passed since it began?
    pc,         \* where the reconcile stands
    ctx,        \* the rolloutContext: the snapshot and what was decided on it
    used,       \* the part of each bound used so far
    passed,     \* history: the steps of this update that ended as they should
    excused     \* history: the steps of this update that a user ended, and those
                \* of them that were ended since the reconcile began

objects == <<spec, status, rs, order, svc, route, run, fresh, elapsed>>
history == <<used, passed, excused>>
vars == <<spec, status, rs, order, svc, route, run, fresh, elapsed, pc, ctx,
          used, passed, excused>>

-----------------------------------------------------------------------------
OptHash == Hash \cup {None}
StepCount == Len(Steps)
StepIndex == 0..(StepCount + 1)     \* a full promotion can step past the end
Kind == {"step", "background", "experiment"}
Outcome == {"Successful", "Failed", "Inconclusive"}
PauseReason == {"CanaryPauseStep", "InconclusiveAnalysisRun", "InconclusiveExperiment"}
Stages == {"services", "traffic", "runs", "deadlines", "stable", "new", "others",
           "pause", "sync"}

Spec_ == [template : OptHash, paused : BOOLEAN]

\* status.canary.weights; canaryHash is None while there are none
Weights == [canary : Nat, canaryHash : OptHash, stableHash : OptHash]

Status_ == [stableRS : OptHash, currentPodHash : OptHash, stepIndex : StepIndex,
            weights : Weights, pauses : SUBSET PauseReason,
            controllerPause : BOOLEAN, abort : BOOLEAN, abortedAt : BOOLEAN,
            promoteFull : BOOLEAN, inconclusive : BOOLEAN]

ReplicaSet == [exists : BOOLEAN, replicas : Nat, available : Nat,
               deadline : {"none", "far", "pending", "expired"}]

Run_ == [hash : OptHash, index : StepIndex, phase : {"none", "Running"} \cup Outcome,
         terminate : BOOLEAN]

Pause_ == [add : SUBSET PauseReason, remove : BOOLEAN, clear : BOOLEAN,
           addAbort : BOOLEAN, removeAbort : BOOLEAN]

Context == [spec : Spec_, status : Status_, rs : [Hash -> ReplicaSet],
            run : [Kind -> Run_], fresh : [Kind -> Run_], weights : Weights,
            verified : BOOLEAN, named : [Kind -> {"none", "kept", "created"}],
            pause : Pause_]

NoWeights == [canary |-> 0, canaryHash |-> None, stableHash |-> None]
NoStatus == [stableRS |-> None, currentPodHash |-> None, stepIndex |-> 0,
             weights |-> NoWeights, pauses |-> {}, controllerPause |-> FALSE,
             abort |-> FALSE, abortedAt |-> FALSE, promoteFull |-> FALSE,
             inconclusive |-> FALSE]
NewReplicaSet == [exists |-> FALSE, replicas |-> 0, available |-> 0, deadline |-> "none"]
NoRun == [hash |-> None, index |-> 0, phase |-> "none", terminate |-> FALSE]
NoPause == [add |-> {}, remove |-> FALSE, clear |-> FALSE,
            addAbort |-> FALSE, removeAbort |-> FALSE]

\* The context between two reconciles: nothing of the last one is kept.
NoContext == [spec |-> [template |-> None, paused |-> FALSE],
              status |-> NoStatus, rs |-> [h \in Hash |-> NewReplicaSet],
              run |-> [k \in Kind |-> NoRun], fresh |-> [k \in Kind |-> NoRun],
              weights |-> NoWeights, verified |-> TRUE,
              named |-> [k \in Kind |-> "none"], pause |-> NoPause]

TypeOK ==
    /\ spec \in Spec_
    /\ status \in Status_
    /\ rs \in [Hash -> ReplicaSet]
    /\ order \in Seq(Hash)
    /\ svc \in [stable : OptHash, canary : OptHash]
    /\ route \in Nat
    /\ run \in [Kind -> Run_]
    /\ fresh \in [Kind -> Run_]
    /\ elapsed \in BOOLEAN
    /\ pc \in Stages \cup {"idle"}
    /\ ctx \in Context
    /\ used \in [edits : 0..MaxEdits, pods : 0..MaxPodFailures, errors : 0..MaxErrors]
    /\ passed \subseteq StepIndex
    /\ excused \in [steps : SUBSET StepIndex, recent : SUBSET StepIndex]

-----------------------------------------------------------------------------
(* Reads of the context.                                                   *)

New == ctx.spec.template            \* c.newRS
Stable == ctx.status.stableRS       \* c.stableRS
Index == ctx.status.stepIndex

Available(h) == ctx.rs[h].available
HasScaleDownDeadline(h) == ctx.rs[h].deadline # "none"

\* GetCurrentCanaryStep
HasStep == Index < StepCount
AtStep(kind) == HasStep /\ Steps[Index + 1].kind = kind

IsFullyPromoted == Stable = ctx.status.currentPodHash

\* PodTemplateOrStepsChanged; the steps of a Rollout do not change
Changed == ctx.status.currentPodHash # New

\* pauseContext.IsAborted, of the decisions p taken so far
IsAborted(p) == ~p.removeAbort /\ (p.addAbort \/ ctx.status.abort)

\* haltProgress
Halted == ctx.spec.paused \/ "InconclusiveAnalysisRun" \in ctx.status.pauses

ShouldDelayScaleDownOnAbort ==
    /\ IsAborted(ctx.pause)
    /\ Stable # None
    /\ AbortDelay # "never"
    /\ DynamicStableScale => AbortDelay # "default"

\* isDynamicallyRollingBackToStable
RollingBack ==
    /\ IsFullyPromoted
    /\ DynamicStableScale
    /\ ctx.status.weights # NoWeights
    /\ ctx.status.weights.canaryHash # New
    /\ Available(New) < Replicas

-----------------------------------------------------------------------------
(* Counts and weights.                                                     *)

\* The steps of a kind among the steps i ..0, and the last of them
StepsUpTo(kind, i) == {j \in 0..i : j < StepCount /\ Steps[j + 1].kind = kind}
Last(S) == CHOOSE j \in S : \A k \in S : k <= j

LastSetWeight(i) ==
    LET S == StepsUpTo("setWeight", i)
    IN  IF S = {} THEN 0 ELSE Steps[Last(S) + 1].value

GetCurrentSetWeight ==
    IF ctx.status.abort THEN 0
    ELSE IF ~HasStep THEN MaxWeight
    ELSE LastSetWeight(Index)

\* UseSetCanaryScale: "none", or the field of the step that applies
UseSetCanaryScale ==
    LET S == StepsUpTo("setCanaryScale", Index)
    IN  IF (ctx.status.abort /\ AbortDelay # "never") \/ ~HasStep \/ S = {}
           \/ Steps[Last(S) + 1].by = "matchTrafficWeight"
        THEN [by |-> "none", value |-> 0]
        ELSE [by |-> Steps[Last(S) + 1].by, value |-> Steps[Last(S) + 1].value]

\* GetCanaryReplicasOrWeight: the replicas asked for, or -1, and the weight
ReplicasOrWeightBy(scale) ==
    IF scale.by = "replicas" THEN [replicas |-> scale.value, weight |-> 0]
    ELSE [replicas |-> -1,
          weight |-> IF scale.by = "weight" THEN scale.value ELSE GetCurrentSetWeight]

GetCanaryReplicasOrWeight ==
    IF ctx.status.promoteFull \/ Stable = None \/ IsFullyPromoted
    THEN [replicas |-> -1, weight |-> MaxWeight]
    ELSE ReplicasOrWeightBy(UseSetCanaryScale)

ReplicasFor(weight) == TrafficWeightToReplicas(Replicas, weight, MaxWeight)
AtLeastMinPods(count) == CheckMinPodsPerReplicaSet(count, MinPods)

CanaryCount(want) ==
    IF want.replicas >= 0 THEN want.replicas ELSE AtLeastMinPods(ReplicasFor(want.weight))

\* With dynamicStableScale, both versions keep the pods for the weights served
DynamicCounts(want, weights) ==
    LET served == weights # NoWeights
        kept == IF served /\ ctx.status.abort
                THEN MaxValue(CanaryCount(want), ReplicasFor(weights.canary))
                ELSE CanaryCount(want)
        stable == ReplicasFor(MaxWeight - want.weight)
    IN  [canary |-> AtLeastMinPods(kept),
         stable |-> AtLeastMinPods(
             IF served THEN MaxValue(stable, ReplicasFor(MaxWeight - weights.canary))
                       ELSE stable)]

\* Mutant: the stable version is scaled dynamically without being asked to
ReplicaCounts_AlwaysDynamic(weights) == DynamicCounts(GetCanaryReplicasOrWeight, NoWeights)

\* CalculateReplicaCountsForTrafficRoutedCanary
ReplicaCounts(weights) ==
    IF DynamicStableScale THEN DynamicCounts(GetCanaryReplicasOrWeight, weights)
    ELSE [canary |-> CanaryCount(GetCanaryReplicasOrWeight), stable |-> Replicas]

\* AtDesiredReplicaCountsForCanary; the pods of a ReplicaSet that are created
\* are taken to be those it asks for
AtCounts(want) ==
    /\ ctx.rs[New].replicas = want.canary /\ Available(New) = want.canary
    /\ ~DynamicStableScale =>
          Stable # None /\ ctx.rs[Stable].replicas = want.stable

AtDesiredReplicaCounts(weights) == AtCounts(ReplicaCounts(weights))

\* Mutant: the larger of the two weights
ReturnWeight_Larger ==
    LET spare == MaxValue(0, MaxWeight - (MaxWeight * Available(Stable)) \div Replicas)
    IN  IF ~DynamicStableScale THEN 0
        ELSE IF ctx.status.weights = NoWeights THEN spare
        ELSE MaxValue(spare, ctx.status.weights.canary)

\* calculateDesiredWeightOnAbortOrStableRollback
ReturnWeight ==
    LET spare == MaxValue(0, MaxWeight - (MaxWeight * Available(Stable)) \div Replicas)
    IN  IF ~DynamicStableScale THEN 0
        ELSE IF ctx.status.weights = NoWeights THEN spare
        ELSE MinValue(spare, ctx.status.weights.canary)

\* The weight of a full promotion that was asked for
FullPromotionWeight ==
    IF DynamicStableScale THEN (MaxWeight * Available(New)) \div Replicas
                          ELSE ctx.status.weights.canary

\* Mutant: an aborted dynamic canary loses its traffic at once
DesiredWeight_AbortAtOnce(p) ==
    IF RollingBack THEN ReturnWeight
    ELSE IF IsFullyPromoted \/ IsAborted(p) \/ Available(New) = 0 THEN 0
    ELSE IF ctx.status.promoteFull THEN FullPromotionWeight
    ELSE IF StepCount = 0 THEN 0
    ELSE IF ~AtDesiredReplicaCounts(NoWeights) THEN LastSetWeight(Index - 1)
    ELSE IF Index # StepCount THEN GetCurrentSetWeight
    ELSE MaxWeight

\* The desired weight of reconcileTrafficRouting
DesiredWeight(p) ==
    IF RollingBack THEN ReturnWeight
    ELSE IF IsFullyPromoted THEN 0
    ELSE IF IsAborted(p) THEN ReturnWeight
    ELSE IF Available(New) = 0 THEN 0
    ELSE IF ctx.status.promoteFull THEN FullPromotionWeight
    ELSE IF StepCount = 0 THEN 0
    ELSE IF ~AtDesiredReplicaCounts(NoWeights) THEN LastSetWeight(Index - 1)
    ELSE IF Index # StepCount THEN GetCurrentSetWeight
    ELSE MaxWeight

-----------------------------------------------------------------------------
(* Writes of the reconcile.                                                *)

\* The live ReplicaSet after scaleReplicaSet(h, n) of the context's copy: an
\* Update, or a patch when the live object was written since (see BlueGreen).
Scaled(h, n, conflict) ==
    LET copy == IF n = 0 /\ ~ShouldDelayScaleDownOnAbort
                THEN "none" ELSE ctx.rs[h].deadline
        aged == IF copy # "none" /\ rs[h].deadline # "none" THEN rs[h].deadline ELSE copy
    IN  IF ctx.rs[h].replicas = n THEN rs[h]
        ELSE [rs[h] EXCEPT !.replicas = n,
                           !.deadline = IF conflict /\ copy = "none" THEN @ ELSE aged]

\* ReplicaSets whose live object differs from the copy; others may, unseen
Written == {h \in Hash : rs[h] # ctx.rs[h]}
Conflicts == {C \in SUBSET Hash : Written \subseteq C}

Annotated(r, long) == [r EXCEPT !.deadline = IF long THEN "far" ELSE "pending"]

\* The pause part of the status: CalculatePauseStatus, of the decisions p
PauseStatus(p) ==
    LET prev == ctx.status
        kept == IF p.remove THEN prev.pauses \ {"CanaryPauseStep"} ELSE prev.pauses
        added == p.add \ prev.pauses
        none == [pauses |-> {}, controllerPause |-> FALSE, abort |-> FALSE, abortedAt |-> FALSE]
    IN  IF p.addAbort \/ (~p.removeAbort /\ prev.abort)
        THEN [none EXCEPT !.abort = TRUE, !.abortedAt = TRUE]
        ELSE IF p.clear \/ kept \cup added = {} THEN none
        ELSE [none EXCEPT !.pauses = kept \cup added,
                          !.controllerPause = prev.controllerPause \/ added # {}]

\* A field of the merge patch: what the reconcile did not change, it does not write
Patched(live, old, new) == IF new = old THEN live ELSE new

-----------------------------------------------------------------------------
(* One reconcile, one action per group of API calls.                       *)

\* The hashes by revision, when h gets the newest one
Newest(seq, h) ==
    LET at == CHOOSE i \in 1..Len(seq) : seq[i] = h
    IN  IF \A i \in 1..Len(seq) : seq[i] # h THEN Append(seq, h)
        ELSE [i \in 1..Len(seq) |-> IF i < at THEN seq[i]
                                    ELSE IF i < Len(seq) THEN seq[i + 1] ELSE h]

\* syncHandler and newRolloutContext: read everything, create the ReplicaSet
\* of a new template or give an older one the newest revision, drop the abort
\* of a fully promoted rollout.  A new template goes straight to the status.
StartSync ==
    LET template == spec.template
        created == [rs EXCEPT ![template].exists = TRUE]
        promoted == status.stableRS = status.currentPodHash
    IN  /\ pc = "idle"
        /\ pc' = IF status.currentPodHash # template THEN "sync" ELSE "services"
        /\ rs' = created
        /\ order' = Newest(order, template)
        /\ ctx' = [NoContext EXCEPT
              !.spec = spec, !.status = status, !.rs = created, !.run = run,
              !.fresh = fresh, !.weights = status.weights,
              !.pause.removeAbort = promoted /\ status.abort]
        /\ excused' = [excused EXCEPT !.recent = {}]
        /\ UNCHANGED <<spec, status, svc, route, run, fresh, elapsed, used, passed>>

\* ensureSVCTargets: does the Service, selecting `now`, switch to h?
Switches(now, h) ==
    /\ h # None /\ now # h
    /\ Available(h) > 0
    /\ now = None => ctx.rs[h].replicas # 0 /\ ctx.rs[h].replicas <= Available(h)

\* reconcileStableAndCanaryService
ReconcileServices ==
    /\ pc = "services"
    /\ svc' = [stable |-> IF Switches(svc.stable, Stable) THEN Stable ELSE svc.stable,
               canary |-> IF ~RollingBack /\ Switches(svc.canary, New)
                          THEN New ELSE svc.canary]
    /\ pc' = "traffic"
    /\ UNCHANGED <<spec, status, rs, order, route, run, fresh, elapsed, ctx, history>>

\* An aborted dynamic canary without a stable version: the weight is computed
\* from the pods of a nil ReplicaSet.
Panics ==
    /\ ~RollingBack /\ ~IsFullyPromoted
    /\ IsAborted(ctx.pause) /\ DynamicStableScale /\ Stable = None

\* reconcileTrafficRouting: set the weight, and ask the router whether it holds
\* ("failed": the question could not be asked).
ReconcileTrafficRouting ==
    LET weight == DesiredWeight(ctx.pause)
        aborted == ~RollingBack /\ ~IsFullyPromoted /\ IsAborted(ctx.pause)
        back == aborted /\ Stable # None /\ (~DynamicStableScale \/ weight = 0)
        end == weight = MaxWeight /\ Index <= StepCount
    IN  /\ pc = "traffic"
        /\ ~Panics
        /\ svc' = IF back THEN [svc EXCEPT !.canary = Stable] ELSE svc
        /\ route' = weight
        /\ \E answer \in IF VerifyWeights THEN {"yes", "no", "failed"} ELSE {"yes"} :
              IF answer = "no" /\ end
              THEN pc' = "idle" /\ ctx' = NoContext
              ELSE /\ pc' = "runs"
                   /\ ctx' = [ctx EXCEPT
                         !.weights = [canary |-> weight,
                                      canaryHash |-> IF RollingBack
                                                     THEN ctx.status.weights.canaryHash
                                                     ELSE New,
                                      stableHash |-> Stable],
                         !.verified = answer = "yes"]
        /\ UNCHANGED <<spec, status, rs, order, run, fresh, elapsed, history>>

ReconcilePanics ==
    /\ pc = "traffic"
    /\ Panics
    /\ pc' = "idle"
    /\ ctx' = NoContext
    /\ UNCHANGED <<objects, history>>

-----------------------------------------------------------------------------
(* Experiments and AnalysisRuns.                                           *)

Cancelled(r) == IF r.phase = "Running" THEN [r EXCEPT !.terminate = TRUE] ELSE r

\* One that has not completed is claimed, terminating or not, by the name it has
Claimable(r, index) == r.phase = "Running" /\ r.hash = New /\ r.index = index
Started(k, index) ==
    IF Claimable(fresh[k], index) THEN fresh[k]
    ELSE [hash |-> New, index |-> index, phase |-> "Running", terminate |-> FALSE]

\* What becomes of the run of kind k that the status names, of the other one,
\* of the names the status will have, and of the pauses.
Keep(k) == [run |-> run[k], fresh |-> Cancelled(fresh[k]), seen |-> ctx.run[k],
            named |-> IF ctx.run[k] = NoRun THEN "none" ELSE "kept", acts |-> FALSE]
Drop(k) == [Keep(k) EXCEPT !.named = "none"]
Cancel(k) == [Keep(k) EXCEPT !.run = Cancelled(run[k]), !.named = "none"]
Start(k, index) ==
    IF Claimable(run[k], index) THEN [Keep(k) EXCEPT !.seen = run[k]]
    ELSE [Keep(k) EXCEPT !.fresh = Started(k, index), !.seen = Started(k, index),
                         !.named = "created"]
Watch(k) == [Keep(k) EXCEPT !.acts = TRUE]

\* reconcileExperiments
ReconcileExperiments ==
    LET k == "experiment"
    IN  IF IsAborted(ctx.pause) \/ ctx.status.promoteFull THEN Cancel(k)
        ELSE IF "InconclusiveAnalysisRun" \in ctx.status.pauses
        THEN [Drop(k) EXCEPT !.fresh = fresh[k]]
        ELSE IF ~AtStep("experiment") THEN Cancel(k)
        ELSE IF ctx.run[k] = NoRun
        THEN IF Stable = None THEN [Drop(k) EXCEPT !.fresh = fresh[k]]
             ELSE Start(k, Index)
        ELSE IF ctx.run[k].phase = "Running" THEN Keep(k)
        ELSE [Watch(k) EXCEPT !.named = "none"]

NeedsNewRun(k) ==
    IF ctx.run[k] = NoRun THEN TRUE
    ELSE IF ctx.status.controllerPause THEN ctx.run[k].phase = "Inconclusive"
    ELSE ctx.status.abortedAt

SkipAnalysis(p) ==
    IsAborted(p) \/ ctx.status.promoteFull \/ HasScaleDownDeadline(New) \/ Stable = None

\* reconcileStepBasedAnalysisRun
ReconcileStepRun ==
    IF ctx.status.pauses # {} \/ ctx.status.abort THEN Keep("step")
    ELSE IF \/ ~AtStep("analysis")
            \/ ctx.run["step"] # NoRun /\ ctx.run["step"].index # Index
    THEN Cancel("step")
    ELSE IF NeedsNewRun("step") THEN Start("step", Index)
    ELSE Watch("step")

\* reconcileBackgroundAnalysisRun
ReconcileBackgroundRun ==
    LET k == "background"
    IN  IF ~Background THEN Cancel(k)
        ELSE IF IsFullyPromoted \/ (HasStep /\ Index < StartingStep) THEN Drop(k)
        ELSE IF "InconclusiveAnalysisRun" \in ctx.status.pauses THEN Keep(k)
        ELSE IF NeedsNewRun(k) THEN Start(k, 0)
        ELSE Watch(k)

\* reconcileExperiments, then reconcileAnalysisRuns on its decisions
ReconcileRuns ==
    LET ex == ReconcileExperiments
        exEnds == ex.acts /\ ctx.run["experiment"].phase = "Failed"
        exPauses == ex.acts /\ ctx.run["experiment"].phase = "Inconclusive"
        skip == SkipAnalysis([ctx.pause EXCEPT !.addAbort = @ \/ exEnds])
        Skipped(k) == [Keep(k) EXCEPT !.run = Cancelled(run[k])]
        plan == [k \in Kind |-> IF k = "experiment" THEN ex
                                ELSE IF skip THEN Skipped(k)
                                ELSE IF k = "step" THEN ReconcileStepRun
                                ELSE ReconcileBackgroundRun]
        phases == {ctx.run[k].phase : k \in {j \in Kind \ {"experiment"} : plan[j].acts}}
        add == (IF exPauses THEN {"InconclusiveExperiment"} ELSE {})
                   \cup (IF "Inconclusive" \in phases THEN {"InconclusiveAnalysisRun"} ELSE {})
    IN  /\ pc = "runs"
        /\ run' = [k \in Kind |-> plan[k].run]
        /\ fresh' = [k \in Kind |-> plan[k].fresh]
        /\ ctx' = [ctx EXCEPT !.run = [k \in Kind |-> plan[k].seen],
                              !.named = [k \in Kind |-> plan[k].named],
                              !.pause.add = add,
                              !.pause.addAbort = exEnds \/ "Failed" \in phases]
        /\ pc' = IF add # {} THEN "sync" ELSE "deadlines"
        /\ UNCHANGED <<spec, status, rs, order, svc, route, elapsed, history>>

-----------------------------------------------------------------------------
(* reconcileCanaryReplicaSets.                                             *)

Proceed(stage) == pc' = stage /\ UNCHANGED ctx
KeepsButReplicaSets ==
    UNCHANGED <<spec, status, order, svc, route, run, fresh, elapsed, history>>

\* removeScaleDownDeadlines, of the live objects and not of the copies
RemoveScaleDownDeadlines ==
    LET toRemove == (IF ShouldDelayScaleDownOnAbort THEN {} ELSE {New})
                        \cup ({Stable} \ {None})
    IN  /\ pc = "deadlines"
        /\ rs' = [h \in Hash |-> IF ~Halted /\ h \in toRemove /\ HasScaleDownDeadline(h)
                                 THEN [rs[h] EXCEPT !.deadline = "none"] ELSE rs[h]]
        /\ Proceed(IF Halted THEN "pause" ELSE "stable")
        /\ KeepsButReplicaSets

\* reconcileCanaryStableReplicaSet, by the weights of the last reconcile
ReconcileStableReplicaSet ==
    LET count == ReplicaCounts(ctx.status.weights).stable
        scales == Stable \notin {None, New} /\ ctx.rs[Stable].replicas # count
    IN  /\ pc = "stable"
        /\ \E C \in Conflicts :
              rs' = IF scales THEN [rs EXCEPT ![Stable] = Scaled(Stable, count, Stable \in C)]
                    ELSE rs
        /\ Proceed(IF scales THEN "sync" ELSE "new")
        /\ KeepsButReplicaSets

\* Mutant: a version without a deadline is scaled, and not kept for one
ReconcileNewReplicaSet_Unannotated ==
    LET deadline == ctx.rs[New].deadline
        annotate == /\ ShouldDelayScaleDownOnAbort /\ deadline = "none"
                    /\ Available(Stable) = Replicas
        wait == ShouldDelayScaleDownOnAbort /\ (annotate \/ deadline = "pending")
        count == IF ShouldDelayScaleDownOnAbort /\ deadline = "expired" THEN 0
                 ELSE ReplicaCounts(ctx.weights).canary
        scales == ~wait /\ ctx.rs[New].replicas # count
    IN  /\ pc = "new"
        /\ \E C \in Conflicts :
              rs' = [rs EXCEPT ![New] = IF annotate THEN Annotated(@, AbortDelay = "long")
                                        ELSE IF scales THEN Scaled(New, count, New \in C)
                                        ELSE @]
        /\ Proceed(IF scales THEN "sync" ELSE "others")
        /\ KeepsButReplicaSets

\* reconcileNewReplicaSet: an aborted update keeps its ReplicaSet until the
\* stable one is available and the abort delay has passed.  A deadline further
\* away than the resync period holds nothing back.
ReconcileNewReplicaSet ==
    LET deadline == ctx.rs[New].deadline
        annotate == /\ ShouldDelayScaleDownOnAbort /\ deadline = "none"
                    /\ Available(Stable) = Replicas
        wait == ShouldDelayScaleDownOnAbort /\ deadline \in {"none", "pending"}
        count == IF ShouldDelayScaleDownOnAbort /\ deadline = "expired" THEN 0
                 ELSE ReplicaCounts(ctx.weights).canary
        scales == ~wait /\ ctx.rs[New].replicas # count
    IN  /\ pc = "new"
        /\ \E C \in Conflicts :
              rs' = [rs EXCEPT ![New] = IF annotate THEN Annotated(@, AbortDelay = "long")
                                        ELSE IF scales THEN Scaled(New, count, New \in C)
                                        ELSE @]
        /\ Proceed(IF scales THEN "sync" ELSE "others")
        /\ KeepsButReplicaSets

\* isReplicaSetReferenced: by the status that was read, or by a Service now
IsReferenced(h) ==
    h \in {Stable, ctx.status.currentPodHash, ctx.status.weights.canaryHash,
           ctx.status.weights.stableHash, svc.stable, svc.canary}

OldReplicaSets == {h \in Hash \ {New, Stable} : ctx.rs[h].replicas > 0}

\* cleanupUnhealthyReplicas: down to the available pods, unless a ReplicaSet
\* has more of them than it asks for
Surplus == \E h \in OldReplicaSets : Available(h) > ctx.rs[h].replicas

AvailablePods[i \in 0..Len(order)] ==
    IF i = 0 THEN 0 ELSE AvailablePods[i - 1] + Available(order[i])

\* Mutant: with dynamicStableScale the former stable version is left as it is
ScaledDownOld_LeftAlone(s, h) ==
    LET none == [s EXCEPT !.count[h] = 0]
        keep == [s EXCEPT !.count[h] = Available(h), !.marked = @ + 1]
        within == s.marked < RevisionLimit
    IN  IF ~IsFullyPromoted /\ ~HasScaleDownDeadline(h) THEN none
        ELSE IF DynamicStableScale THEN s
        ELSE IF HasScaleDownDeadline(h)
        THEN IF within /\ ctx.rs[h].deadline # "expired" THEN keep
             ELSE [none EXCEPT !.marked = @ + 1]
        ELSE IF within THEN [keep EXCEPT !.annotate = @ \cup {h}]
        ELSE none

\* scaleDownOldReplicaSetsForCanary, of one ReplicaSet, with
\* scaleDownDelayHelper: the pods it keeps, the deadlines counted so far
ScaledDownOld(s, h) ==
    LET none == [s EXCEPT !.count[h] = 0]
        keep == [s EXCEPT !.count[h] = Available(h), !.marked = @ + 1]
        within == s.marked < RevisionLimit
    IN  IF (~IsFullyPromoted /\ ~HasScaleDownDeadline(h)) \/ DynamicStableScale THEN none
        ELSE IF HasScaleDownDeadline(h)
        THEN IF within /\ ctx.rs[h].deadline # "expired" THEN keep
             ELSE [none EXCEPT !.marked = @ + 1]
        ELSE IF within THEN [keep EXCEPT !.annotate = @ \cup {h}]
        ELSE none

\* The old ReplicaSets that are looked at, the newest revision first; what is
\* spare are the available pods beyond those maxUnavailable asks for
OldPlan[i \in 0..Len(order)] ==
    IF i = 0
    THEN [spare |-> AvailablePods[Len(order)] - (Replicas - MaxDown), marked |-> 0,
          annotate |-> {}, count |-> [h \in Hash |-> Available(h)]]
    ELSE LET s == OldPlan[i - 1]
             h == order[Len(order) + 1 - i]
             t == ScaledDownOld(s, h)
         IN  IF \/ h \notin OldReplicaSets \/ IsReferenced(h)
                \/ s.spare <= 0 \/ Available(h) = 0
             THEN s
             ELSE [t EXCEPT !.spare = @ - (Available(h) - t.count[h])]

OldScaled(plan, h, conflict) ==
    LET r == Scaled(h, plan.count[h], conflict)
    IN  IF h \in plan.annotate /\ ScaleDownDelay = "set" THEN Annotated(r, FALSE) ELSE r

\* reconcileOtherReplicaSets
ReconcileOtherReplicaSets ==
    LET plan == OldPlan[Len(order)]
        scales == /\ ~Surplus /\ OldPlan[0].spare > 0
                  /\ \E h \in OldReplicaSets : plan.count[h] < ctx.rs[h].replicas
    IN  /\ pc = "others"
        /\ \E C \in Conflicts, clean \in SUBSET OldReplicaSets :
              rs' = [h \in Hash |->
                        IF h \notin OldReplicaSets THEN rs[h]
                        ELSE IF ~Surplus THEN OldScaled(plan, h, h \in C)
                        ELSE IF h \in clean /\ Available(h) < ctx.rs[h].replicas
                        THEN Scaled(h, Available(h), h \in C)
                        ELSE rs[h]]
        /\ Proceed(IF scales THEN "sync" ELSE "pause")
        /\ KeepsButReplicaSets

\* A write fails after some were made: the error is swallowed
ReconcileOthersFails ==
    LET plan == OldPlan[Len(order)]
    IN  /\ pc = "others"
        /\ used.errors < MaxErrors
        /\ used' = [used EXCEPT !.errors = @ + 1]
        /\ \E C \in Conflicts, done \in SUBSET OldReplicaSets :
              /\ done # OldReplicaSets
              /\ rs' = [h \in Hash |-> IF h \in done /\ ~Surplus
                                       THEN OldScaled(plan, h, h \in C) ELSE rs[h]]
        /\ pc' = "pause"
        /\ UNCHANGED <<spec, status, order, svc, route, run, fresh, elapsed, ctx,
                       passed, excused>>

-----------------------------------------------------------------------------
(* syncRolloutStatusCanary.                                                *)

\* reconcileCanaryPause, on the decisions p; not reached when something else
\* is still to be reconciled
DecidedPause(p) ==
    IF \/ pc # "pause" \/ ctx.spec.paused \/ ctx.status.promoteFull \/ ~AtStep("pause")
       \/ "CanaryPauseStep" \in ctx.status.pauses
       \/ ctx.status.controllerPause
    THEN p ELSE [p EXCEPT !.add = @ \cup {"CanaryPauseStep"}]

\* Mutant: only a user ends a pause
CompletedCanaryPauseStep_Untimed ==
    ctx.status.controllerPause /\ "CanaryPauseStep" \notin ctx.status.pauses

CompletedCanaryPauseStep ==
    \/ ctx.status.controllerPause /\ "CanaryPauseStep" \notin ctx.status.pauses
    \/ Steps[Index + 1].timed /\ "CanaryPauseStep" \in ctx.status.pauses /\ elapsed

\* Mutant: an analysis step is complete when its run is, whatever the outcome
CompletedCurrentCanaryStep_AnyOutcome ==
    /\ ~ctx.spec.paused
    /\ HasStep
    /\ CASE AtStep("pause") -> CompletedCanaryPauseStep
         [] AtStep("setCanaryScale") -> AtDesiredReplicaCounts(ctx.weights)
         [] AtStep("setWeight") -> AtDesiredReplicaCounts(ctx.weights) /\ ctx.verified
         [] AtStep("experiment") -> ctx.run["experiment"].phase = "Successful"
         [] AtStep("analysis") -> /\ ctx.named["step"] # "none"
                                  /\ ctx.run["step"].phase \in Outcome

CompletedCurrentCanaryStep ==
    /\ ~ctx.spec.paused
    /\ HasStep
    /\ CASE AtStep("pause") -> CompletedCanaryPauseStep
         [] AtStep("setCanaryScale") -> AtDesiredReplicaCounts(ctx.weights)
         [] AtStep("setWeight") -> AtDesiredReplicaCounts(ctx.weights) /\ ctx.verified
         [] AtStep("experiment") -> ctx.run["experiment"].phase = "Successful"
         [] AtStep("analysis") -> /\ ctx.named["step"] # "none"
                                  /\ ctx.run["step"].phase = "Successful"

\* shouldFullPromote, of the decisions p
ShouldFullPromote(p) ==
    \/ Stable = None
    \/ /\ ~IsAborted(p)
       /\ Available(New) = Replicas
       /\ ctx.status.promoteFull \/ Index = StepCount

\* The decisions at the status update: a new template and a full promotion
\* drop the pauses and the abort, and so does the promotion to stable.
Dropped ==
    LET drop == Changed \/ ctx.status.promoteFull
    IN  [DecidedPause(ctx.pause) EXCEPT !.clear = drop, !.removeAbort = @ \/ drop]

Promotes == ~Changed /\ ShouldFullPromote(Dropped)

Completes ==
    ~Changed /\ ~Promotes /\ ~IsAborted(Dropped) /\ CompletedCurrentCanaryStep

Decided == [Dropped EXCEPT !.clear = @ \/ Promotes, !.removeAbort = @ \/ Promotes,
                           !.remove = Completes]

\* Mutant: a new template starts where the last one stood
NextStepIndex_Kept ==
    IF Changed THEN IF New = Stable THEN StepCount ELSE Index
    ELSE IF Promotes THEN StepCount
    ELSE IF IsAborted(Dropped) THEN IF IsFullyPromoted THEN StepCount ELSE 0
    ELSE (IF ctx.status.promoteFull THEN StepCount ELSE Index)
         + (IF Completes THEN 1 ELSE 0)

NextStepIndex ==
    IF Changed THEN IF New = Stable THEN StepCount ELSE 0
    ELSE IF Promotes THEN StepCount
    ELSE IF IsAborted(Dropped) THEN IF IsFullyPromoted THEN StepCount ELSE 0
    ELSE (IF ctx.status.promoteFull THEN StepCount ELSE Index)
         + (IF Completes THEN 1 ELSE 0)

\* Is the run of kind k named by the new status?
StillNamed(k) ==
    /\ ~Changed
    /\ ctx.named[k] # "none"
    /\ ~(k = "step" /\ Completes)

NewStatus ==
    LET pause == PauseStatus(Decided)
    IN  [stableRS |-> IF Promotes THEN New ELSE Stable,
         currentPodHash |-> New,
         stepIndex |-> NextStepIndex,
         weights |-> ctx.weights,
         pauses |-> pause.pauses,
         controllerPause |-> pause.controllerPause,
         abort |-> pause.abort,
         abortedAt |-> pause.abortedAt,
         promoteFull |-> ctx.status.promoteFull /\ ~Changed /\ ~Promotes,
         inconclusive |-> StillNamed("step") /\ ctx.run["step"].phase = "Inconclusive"]

\* persistRolloutStatus: the patch holds the fields that differ from the
\* status the reconcile read, and is applied to whatever the status is now.
Merged(live, old, new) ==
    [stableRS |-> Patched(live.stableRS, old.stableRS, new.stableRS),
     currentPodHash |-> Patched(live.currentPodHash, old.currentPodHash, new.currentPodHash),
     stepIndex |-> Patched(live.stepIndex, old.stepIndex, new.stepIndex),
     weights |-> Patched(live.weights, old.weights, new.weights),
     pauses |-> Patched(live.pauses, old.pauses, new.pauses),
     controllerPause |-> Patched(live.controllerPause, old.controllerPause, new.controllerPause),
     abort |-> Patched(live.abort, old.abort, new.abort),
     abortedAt |-> Patched(live.abortedAt, old.abortedAt, new.abortedAt),
     promoteFull |-> Patched(live.promoteFull, old.promoteFull, new.promoteFull),
     inconclusive |-> Patched(live.inconclusive, old.inconclusive, new.inconclusive)]

\* History: did the step that is complete end as it should?
EndsAsItShould ==
    CASE AtStep("analysis") ->
            ctx.run["step"] = [hash |-> New, index |-> Index, phase |-> "Successful",
                               terminate |-> ctx.run["step"].terminate]
      [] AtStep("pause") ->
            Steps[Index + 1].timed /\ "CanaryPauseStep" \in ctx.status.pauses /\ elapsed
      [] OTHER -> TRUE

SyncRolloutStatus ==
    /\ pc \in {"pause", "sync"}
    /\ status' = Merged(status, ctx.status, NewStatus)
    /\ elapsed' = (elapsed /\ "CanaryPauseStep" \in status'.pauses \cap ctx.status.pauses)
    \* a run that is no longer named is left to the next reconcile
    /\ run' = [k \in Kind |-> IF ~StillNamed(k) THEN NoRun
                              ELSE IF ctx.named[k] = "created" THEN fresh[k] ELSE run[k]]
    /\ fresh' = [k \in Kind |-> IF ctx.named[k] = "created"
                                THEN IF StillNamed(k) THEN NoRun ELSE fresh[k]
                                ELSE IF ~StillNamed(k) /\ run[k].phase = "Running"
                                THEN run[k] ELSE fresh[k]]
    /\ passed' = IF Changed \/ IsAborted(Dropped) THEN {}
                 ELSE IF Completes /\ EndsAsItShould THEN passed \cup {Index} ELSE passed
    /\ excused' = IF Changed \/ IsAborted(Dropped)
                  THEN [excused EXCEPT !.steps = excused.recent] ELSE excused
    /\ ctx' = NoContext
    /\ pc' = "idle"
    /\ UNCHANGED <<spec, rs, order, svc, route, used>>

\* An API call fails, or the controller dies; the rest of the reconcile is lost
ReconcileFails ==
    /\ pc # "idle"
    /\ used.errors < MaxErrors
    /\ used' = [used EXCEPT !.errors = @ + 1]
    /\ pc' = "idle"
    /\ ctx' = NoContext
    /\ UNCHANGED <<objects, passed, excused>>

Reconcile ==
    \/ StartSync
    \/ ReconcileServices
    \/ ReconcileTrafficRouting
    \/ ReconcilePanics
    \/ ReconcileRuns
    \/ RemoveScaleDownDeadlines
    \/ ReconcileStableReplicaSet
    \/ ReconcileNewReplicaSet
    \/ ReconcileOtherReplicaSets
    \/ SyncRolloutStatus

-----------------------------------------------------------------------------
(* The cluster: the ReplicaSet, AnalysisRun and Experiment controllers, time *)

PodBecomesAvailable(h) ==
    /\ rs[h].available < rs[h].replicas
    /\ rs' = [rs EXCEPT ![h].available = @ + 1]
    /\ UNCHANGED <<spec, status, order, svc, route, run, fresh, elapsed, pc, ctx, history>>

SurplusPodsDeleted(h) ==
    /\ rs[h].available > rs[h].replicas
    /\ rs' = [rs EXCEPT ![h].available = rs[h].replicas]
    /\ UNCHANGED <<spec, status, order, svc, route, run, fresh, elapsed, pc, ctx, history>>

PodFails(h) ==
    /\ rs[h].available > 0
    /\ used.pods < MaxPodFailures
    /\ used' = [used EXCEPT !.pods = @ + 1]
    /\ rs' = [rs EXCEPT ![h].available = @ - 1]
    /\ UNCHANGED <<spec, status, order, svc, route, run, fresh, elapsed, pc, ctx,
                   passed, excused>>

\* A deadline comes within the resync period, and passes
DeadlinePasses(h) ==
    /\ rs[h].deadline \in {"far", "pending"}
    /\ rs' = [rs EXCEPT ![h].deadline = IF @ = "far" THEN "pending" ELSE "expired"]
    /\ UNCHANGED <<spec, status, order, svc, route, run, fresh, elapsed, pc, ctx, history>>

PauseElapses ==
    /\ ~elapsed
    /\ "CanaryPauseStep" \in status.pauses
    /\ elapsed' = TRUE
    /\ UNCHANGED <<spec, status, rs, order, svc, route, run, fresh, pc, ctx, history>>

RunCompletes(k) ==
    /\ \/ /\ run[k].phase = "Running"
          /\ \E outcome \in Outcome : run' = [run EXCEPT ![k].phase = outcome]
          /\ UNCHANGED fresh
       \/ /\ fresh[k].phase = "Running"
          /\ \E outcome \in Outcome : fresh' = [fresh EXCEPT ![k].phase = outcome]
          /\ UNCHANGED run
    /\ UNCHANGED <<spec, status, rs, order, svc, route, elapsed, pc, ctx, history>>

Cluster ==
    \/ \E h \in Hash : PodBecomesAvailable(h) \/ SurplusPodsDeleted(h) \/ DeadlinePasses(h)
    \/ PauseElapses
    \/ \E k \in Kind : RunCompletes(k)

-----------------------------------------------------------------------------
(* Users: kubectl and the kubectl plugin patch the live Rollout            *)

Edit(command) ==
    /\ command \in UserActions
    /\ used.edits < MaxEdits
    /\ used' = [used EXCEPT !.edits = @ + 1]
    /\ UNCHANGED <<rs, order, svc, route, run, fresh, elapsed, pc, ctx, passed>>

SetTemplate(h) ==
    /\ Edit("template")
    /\ h # spec.template
    /\ spec' = [spec EXCEPT !.template = h]
    /\ UNCHANGED <<status, excused>>

PauseRollout ==
    /\ Edit("pause")
    /\ ~spec.paused
    /\ spec' = [spec EXCEPT !.paused = TRUE]
    /\ UNCHANGED <<status, excused>>

\* Mutant: the last step has a following one
FollowingStep_PastTheEnd == status.stepIndex + 1


FollowingStep == IF status.stepIndex < StepCount THEN status.stepIndex + 1
                                                 ELSE status.stepIndex

\* History: a user ends these steps
Excuse(steps) ==
    excused' = [steps |-> excused.steps \cup steps, recent |-> excused.recent \cup steps]

\* promote: unpause the spec, and either clear the pauses or skip the step;
\* both when the analysis of the step was inconclusive.
PromoteRollout ==
    LET paused == status.pauses # {}
        stuck == status.inconclusive /\ paused /\ status.controllerPause
    IN  /\ Edit("promote")
        /\ spec.paused \/ paused \/ FollowingStep # status.stepIndex
        /\ spec' = [spec EXCEPT !.paused = FALSE]
        /\ status' = [status EXCEPT
              !.pauses = {},
              !.controllerPause = @ /\ ~stuck,
              !.stepIndex = IF stuck \/ ~paused THEN FollowingStep ELSE @]
        /\ Excuse({status.stepIndex})

\* promote --skip-current-step
SkipCurrentStep ==
    /\ Edit("skip")
    /\ FollowingStep # status.stepIndex
    /\ status' = [status EXCEPT !.stepIndex = FollowingStep]
    /\ Excuse({status.stepIndex})
    /\ UNCHANGED spec

\* promote --skip-all-steps
SkipAllSteps ==
    /\ Edit("skipAll")
    /\ status.stepIndex # StepCount
    /\ status' = [status EXCEPT !.stepIndex = StepCount]
    /\ Excuse(StepIndex)
    /\ UNCHANGED spec

\* promote --full
PromoteRolloutFull ==
    /\ Edit("promoteFull")
    /\ status.currentPodHash # status.stableRS
    /\ status' = [status EXCEPT !.promoteFull = TRUE]
    /\ Excuse(StepIndex)
    /\ UNCHANGED spec

AbortRollout ==
    /\ Edit("abort")
    /\ ~status.abort
    /\ status' = [status EXCEPT !.abort = TRUE]
    /\ UNCHANGED <<spec, excused>>

RetryRollout ==
    /\ Edit("retry")
    /\ status.abort
    /\ status' = [status EXCEPT !.abort = FALSE]
    /\ UNCHANGED <<spec, excused>>

User ==
    \/ \E h \in Hash : SetTemplate(h)
    \/ PauseRollout
    \/ PromoteRollout
    \/ SkipCurrentStep
    \/ SkipAllSteps
    \/ PromoteRolloutFull
    \/ AbortRollout
    \/ RetryRollout

Failure ==
    \/ \E h \in Hash : PodFails(h)
    \/ ReconcileOthersFails
    \/ ReconcileFails

-----------------------------------------------------------------------------
Init ==
    /\ spec \in [template : Hash, paused : {FALSE}]
    /\ status = NoStatus
    /\ rs = [h \in Hash |-> NewReplicaSet]
    /\ order = <<>>
    /\ svc = [stable |-> None, canary |-> None]
    /\ route = 0
    /\ run = [k \in Kind |-> NoRun]
    /\ fresh = [k \in Kind |-> NoRun]
    /\ elapsed = FALSE
    /\ pc = "idle"
    /\ ctx = NoContext
    /\ used = [edits |-> 0, pods |-> 0, errors |-> 0]
    /\ passed = {}
    /\ excused = [steps |-> {}, recent |-> {}]

Next == Reconcile \/ Cluster \/ User \/ Failure

Spec == Init /\ [][Next]_vars

\* The workqueue resyncs every Rollout again and again, and the controllers
\* and clocks of the cluster do not stop; users and failures owe nothing.
Fairness ==
    /\ WF_vars(Reconcile)
    /\ \A h \in Hash : /\ WF_vars(PodBecomesAvailable(h))
                       /\ WF_vars(SurplusPodsDeleted(h))
                       /\ WF_vars(DeadlinePasses(h))
    /\ WF_vars(PauseElapses)
    /\ \A k \in Kind : WF_vars(RunCompletes(k))

FairSpec == Spec /\ Fairness
=============================================================================
