------------------------------ MODULE BlueGreen ------------------------------
(***************************************************************************)
(* The blue-green half of the Argo Rollouts controller (rollout/*.go): one *)
(* worker reconciles one Rollout against the objects of the cluster it     *)
(* works on.  A reconcile reads a snapshot of those objects (the           *)
(* rolloutContext), decides on the snapshot, and writes the live objects   *)
(* one API call after another; between two of its calls pods come and go,  *)
(* analysis runs finish, deadlines pass and users patch the Rollout.       *)
(*                                                                         *)
(* A pod template is a member of Hash, a ReplicaSet is named by its        *)
(* template's hash, and a time is kept only as "passed" or "not passed".   *)
(***************************************************************************)
EXTENDS Naturals, FiniteSets

CONSTANTS
    Hash,                   \* pod templates, and the ReplicaSets made of them
    None,                   \* no hash, no count
    Replicas,               \* spec.replicas
    AutoPromotion,          \* "enabled", "delayed" (autoPromotionSeconds > 0), "manual"
    PrePromotion,           \* is prePromotionAnalysis configured?
    PostPromotion,          \* is postPromotionAnalysis configured?
    PreviewReplicaCount,    \* previewReplicaCount, or None
    ScaleDownDelay,         \* scaleDownDelaySeconds: "default" (nil), "set", "zero"
    AbortDelay,             \* FALSE: abortScaleDownDelaySeconds is 0
    ProgressDeadlineAbort,  \* spec.progressDeadlineAbort
    UserActions,            \* the commands users give
    MaxEdits,               \* bound: user commands in a behaviour
    MaxPodFailures,         \* bound: pods that become unavailable
    MaxErrors               \* bound: reconciles cut short by an error or a crash

Commands == {"template", "pause", "promote", "promoteFull", "abort", "retry"}

ASSUME HashAssumption == None \notin Hash /\ None \notin Nat
ASSUME ReplicasAssumption == Replicas \in Nat \ {0}
ASSUME StrategyAssumption ==
    /\ AutoPromotion \in {"enabled", "delayed", "manual"}
    /\ PrePromotion \in BOOLEAN /\ PostPromotion \in BOOLEAN
    /\ PreviewReplicaCount \in (Nat \ {0}) \cup {None}
    /\ ScaleDownDelay \in {"default", "set", "zero"}
    /\ AbortDelay \in BOOLEAN /\ ProgressDeadlineAbort \in BOOLEAN
ASSUME BoundsAssumption ==
    /\ UserActions \subseteq Commands
    /\ MaxEdits \in Nat /\ MaxPodFailures \in Nat /\ MaxErrors \in Nat

VARIABLES
    spec,       \* the Rollout's spec: its template and spec.paused
    status,     \* the Rollout's status
    rs,         \* the ReplicaSets
    svc,        \* the pod-template-hash selector of the two Services
    run,        \* the AnalysisRun of each kind that the status names
    fresh,      \* the last AnalysisRun of each kind that it does not name yet
    elapsed,    \* has autoPromotionSeconds passed since the pause began?
    pc,         \* where the reconcile stands
    ctx,        \* the rolloutContext: the snapshot and what was decided on it
    used,       \* the part of each bound used so far
    wasActive,  \* history: hashes the active Service has selected
    resumed     \* history: the hash whose pause a user ended

objects == <<spec, status, rs, svc, run, fresh, elapsed>>
history == <<used, wasActive, resumed>>
vars == <<spec, status, rs, svc, run, fresh, elapsed, pc, ctx, used, wasActive, resumed>>

-----------------------------------------------------------------------------
OptHash == Hash \cup {None}
RunKind == {"pre", "post"}
Outcome == {"Successful", "Failed", "Inconclusive"}
PauseReason == {"BlueGreenPause", "InconclusiveAnalysisRun"}
Stages == {"preview", "deadlines", "stable", "new", "others", "active",
           "analysis", "sync"}

Spec_ == [template : OptHash, paused : BOOLEAN]

Status_ == [stableRS : OptHash, currentPodHash : OptHash,
            activeSelector : OptHash, previewSelector : OptHash,
            pauses : SUBSET PauseReason, controllerPause : BOOLEAN,
            abort : BOOLEAN, abortedAt : BOOLEAN, promoteFull : BOOLEAN,
            checkpoint : BOOLEAN]

ReplicaSet == [exists : BOOLEAN, replicas : Nat, available : Nat,
               deadline : {"none", "pending", "expired"}]

Run_ == [hash : OptHash, phase : {"none", "Running"} \cup Outcome,
         terminate : BOOLEAN, cancelled : BOOLEAN]

Pause_ == [add : SUBSET PauseReason, remove : BOOLEAN, clear : BOOLEAN,
           addAbort : BOOLEAN, removeAbort : BOOLEAN]

Context == [spec : Spec_, status : Status_, rs : [Hash -> ReplicaSet],
            run : [RunKind -> Run_], fresh : [RunKind -> Run_],
            created : SUBSET RunKind, pause : Pause_]

NoStatus == [stableRS |-> None, currentPodHash |-> None,
             activeSelector |-> None, previewSelector |-> None,
             pauses |-> {}, controllerPause |-> FALSE,
             abort |-> FALSE, abortedAt |-> FALSE, promoteFull |-> FALSE,
             checkpoint |-> FALSE]
NoReplicaSet == [exists |-> FALSE, replicas |-> 0, available |-> 0, deadline |-> "none"]
NoRun == [hash |-> None, phase |-> "none", terminate |-> FALSE, cancelled |-> FALSE]
NoPause == [add |-> {}, remove |-> FALSE, clear |-> FALSE,
            addAbort |-> FALSE, removeAbort |-> FALSE]

\* The context between two reconciles: nothing of the last one is kept.
NoContext == [spec |-> [template |-> None, paused |-> FALSE],
              status |-> NoStatus, rs |-> [h \in Hash |-> NoReplicaSet],
              run |-> [k \in RunKind |-> NoRun], fresh |-> [k \in RunKind |-> NoRun],
              created |-> {}, pause |-> NoPause]

TypeOK ==
    /\ spec \in Spec_
    /\ status \in Status_
    /\ rs \in [Hash -> ReplicaSet]
    /\ svc \in [active : OptHash, preview : OptHash]
    /\ run \in [RunKind -> Run_]
    /\ fresh \in [RunKind -> Run_]
    /\ elapsed \in BOOLEAN
    /\ pc \in Stages \cup {"idle"}
    /\ ctx \in Context
    /\ used \in [edits : 0..MaxEdits, pods : 0..MaxPodFailures, errors : 0..MaxErrors]
    /\ wasActive \subseteq Hash
    /\ resumed \in OptHash

-----------------------------------------------------------------------------
(* Reads of the context.                                                   *)

New == ctx.spec.template            \* c.newRS
Stable == ctx.status.stableRS       \* c.stableRS

HasScaleDownDeadline(h) == ctx.rs[h].deadline # "none"

\* Mutant: every pause halts the reconcile of the Services, aborted or not
Halted_AnyPause == ctx.spec.paused \/ ctx.status.pauses # {} \/ ctx.status.abortedAt

Halted ==
    \/ ctx.spec.paused
    \/ "InconclusiveAnalysisRun" \in ctx.status.pauses

\* Mutant: a rollback to the stable version is not a new update
CheckPodSpecChange_NotRollback ==
    /\ ctx.status.currentPodHash # None /\ ctx.status.currentPodHash # New
    /\ New # Stable

CheckPodSpecChange ==
    ctx.status.currentPodHash # None /\ ctx.status.currentPodHash # New

\* pauseContext.IsAborted, of the decisions p taken so far
IsAborted(p) == ~p.removeAbort /\ (p.addAbort \/ ctx.status.abort)

ShouldDelayScaleDownOnAbort ==
    IsAborted(ctx.pause) /\ Stable # None /\ AbortDelay

\* Mutant: previewReplicaCount is used without a test for nil
NewRSNewReplicas_NilCount ==
    IF \/ ctx.status.activeSelector \in {None, New}
       \/ ctx.status.promoteFull
       \/ /\ ctx.status.currentPodHash = New
          /\ ~ctx.spec.paused /\ ctx.status.pauses = {}
          /\ ctx.status.checkpoint
    THEN Replicas
    ELSE PreviewReplicaCount

NewRSNewReplicas ==
    IF \/ PreviewReplicaCount = None
       \/ ctx.status.activeSelector \in {None, New}
       \/ ctx.status.promoteFull
       \/ /\ ctx.status.currentPodHash = New
          /\ ~ctx.spec.paused /\ ctx.status.pauses = {}
          /\ ctx.status.checkpoint
    THEN Replicas
    ELSE PreviewReplicaCount

FullyAvailable(h, n) == ctx.rs[h].replicas = n /\ ctx.rs[h].available = n

ReadyForPause == FullyAvailable(New, NewRSNewReplicas)

\* Mutant: a version is saturated when all the pods it has are available
IsSaturated_OwnCount(h) == FullyAvailable(h, ctx.rs[h].replicas)

\* The desired-replicas annotation is spec.replicas on every scaled ReplicaSet.
IsSaturated(h) == FullyAvailable(h, Replicas)

NeedsPause == AutoPromotion # "enabled"

IsFastTracked ==
    \/ HasScaleDownDeadline(New)
    \/ ctx.status.promoteFull
    \/ svc.active \in {None, New}

CurrentRunSuccessful(k) == ctx.run[k].phase = "Successful"

CompletedPrePromotion == PrePromotion => CurrentRunSuccessful("pre")

\* Mutant: a controller pause counts as ended whatever conditions are left,
\* and a delay as passed once it began
CompletedPause_AnyPause(p) ==
    /\ p.add = {}
    /\ \/ ctx.status.checkpoint
       \/ ~NeedsPause
       \/ ctx.status.controllerPause

\* CompletedBlueGreenPause, of the decisions p taken so far
CompletedPause(p) ==
    /\ p.add = {}
    /\ \/ ctx.status.checkpoint
       \/ ~NeedsPause
       \/ /\ AutoPromotion = "delayed"
          /\ "BlueGreenPause" \in ctx.status.pauses
          /\ elapsed
       \/ /\ AutoPromotion = "manual"
          /\ ctx.status.controllerPause
          /\ "BlueGreenPause" \notin ctx.status.pauses

-----------------------------------------------------------------------------
(* Writes of the reconcile.                                                *)

\* The live ReplicaSet after scaleReplicaSet(h, n).  An Update of the copy in
\* the context replaces the deadline annotation; when the live object was
\* written since, the Update conflicts and the fallback patch can set the
\* annotation the copy has, and can remove none.
Scaled(h, n, conflict) ==
    LET copy == IF n = 0 /\ ~ShouldDelayScaleDownOnAbort
                THEN "none" ELSE ctx.rs[h].deadline
        aged == IF copy = "pending" /\ rs[h].deadline = "expired"
                THEN "expired" ELSE copy
    IN  IF ctx.rs[h].replicas = n THEN rs[h]
        ELSE [rs[h] EXCEPT !.replicas = n,
                           !.deadline = IF conflict /\ copy = "none" THEN @ ELSE aged]

\* ReplicaSets whose live object is known to differ from the context's copy;
\* any other may have changed in a field that is not modelled.
Written == {h \in Hash : rs[h] # ctx.rs[h]}
Conflicts == {C \in SUBSET Hash : Written \subseteq C}

Annotated(h) == [rs[h] EXCEPT !.deadline = "pending"]

\* Mutant: cleared pause conditions leave controllerPause set
PauseStatus_KeepsControllerPause(p) ==
    LET prev == ctx.status
        kept == IF p.remove THEN prev.pauses \ {"BlueGreenPause"} ELSE prev.pauses
        added == p.add \ prev.pauses
        none == [pauses |-> {}, controllerPause |-> FALSE, abort |-> FALSE, abortedAt |-> FALSE]
    IN  IF p.addAbort \/ (~p.removeAbort /\ prev.abort)
        THEN [none EXCEPT !.abort = TRUE, !.abortedAt = TRUE]
        ELSE IF p.clear THEN [none EXCEPT !.controllerPause = prev.controllerPause]
        ELSE [none EXCEPT !.pauses = kept \cup added,
                          !.controllerPause = prev.controllerPause \/ added # {}]

\* The pause part of the status: CalculatePauseStatus, of the decisions p
PauseStatus(p) ==
    LET prev == ctx.status
        kept == IF p.remove THEN prev.pauses \ {"BlueGreenPause"} ELSE prev.pauses
        added == p.add \ prev.pauses
        none == [pauses |-> {}, controllerPause |-> FALSE, abort |-> FALSE, abortedAt |-> FALSE]
    IN  IF p.addAbort \/ (~p.removeAbort /\ prev.abort)
        THEN [none EXCEPT !.abort = TRUE, !.abortedAt = TRUE]
        ELSE IF p.clear \/ kept \cup added = {} THEN none
        ELSE [none EXCEPT !.pauses = kept \cup added,
                          !.controllerPause = prev.controllerPause \/ added # {}]

\* Mutant: the status is written whole, and not as a patch
Patched_Whole(live, old, new) == new

\* A field of the merge patch: what the reconcile did not change, it does not write
Patched(live, old, new) == IF new = old THEN live ELSE new

-----------------------------------------------------------------------------
(* One reconcile, one action per group of API calls.                       *)

\* Mutant: an abort of a fully promoted rollout is obeyed
StartSync_AbortsPromoted ==
    LET created == [rs EXCEPT ![spec.template].exists = TRUE]
    IN  /\ pc = "idle"
        /\ pc' = "preview"
        /\ rs' = created
        /\ ctx' = [spec |-> spec, status |-> status, rs |-> created, run |-> run,
                   fresh |-> fresh, created |-> {}, pause |-> NoPause]
        /\ UNCHANGED <<spec, status, svc, run, fresh, elapsed, used, wasActive, resumed>>

\* syncHandler and newRolloutContext: read everything, create the ReplicaSet
\* of a new template, drop the abort of a fully promoted rollout.
StartSync ==
    LET created == [rs EXCEPT ![spec.template].exists = TRUE]
        promoted == status.stableRS = status.currentPodHash
    IN  /\ pc = "idle"
        /\ pc' = "preview"
        /\ rs' = created
        /\ ctx' = [spec |-> spec, status |-> status, rs |-> created, run |-> run,
                   fresh |-> fresh, created |-> {},
                   pause |-> [NoPause EXCEPT !.removeAbort = promoted /\ status.abort]]
        /\ UNCHANGED <<spec, status, svc, run, fresh, elapsed, used, wasActive, resumed>>

\* reconcilePreviewService; a new template then goes straight to the status
ReconcilePreviewService ==
    /\ pc = "preview"
    /\ svc' = IF Halted THEN svc ELSE [svc EXCEPT !.preview = New]
    /\ pc' = IF CheckPodSpecChange THEN "sync" ELSE "deadlines"
    /\ UNCHANGED <<spec, status, rs, run, fresh, elapsed, ctx, used, wasActive, resumed>>

\* removeScaleDownDeadlines: the patches change the live objects, and the
\* copies in the context keep the annotation they were read with.
RemoveScaleDownDeadlines ==
    LET toRemove == (IF ShouldDelayScaleDownOnAbort THEN {} ELSE {New})
                        \cup ({Stable} \ {None})
    IN  /\ pc = "deadlines"
        /\ rs' = [h \in Hash |-> IF h \in toRemove /\ HasScaleDownDeadline(h)
                                 THEN [rs[h] EXCEPT !.deadline = "none"] ELSE rs[h]]
        /\ pc' = "stable"
        /\ UNCHANGED <<spec, status, svc, run, fresh, elapsed, ctx, used, wasActive, resumed>>

ReconcileStableReplicaSet ==
    /\ pc = "stable"
    /\ \E C \in Conflicts :
          rs' = IF Stable = None THEN rs
                ELSE [rs EXCEPT ![Stable] = Scaled(Stable, Replicas, Stable \in C)]
    /\ pc' = "new"
    /\ UNCHANGED <<spec, status, svc, run, fresh, elapsed, ctx, used, wasActive, resumed>>

\* reconcileNewReplicaSet: an aborted update keeps its ReplicaSet until the
\* stable one is available and the abort delay has passed.
ReconcileNewReplicaSet ==
    LET deadline == ctx.rs[New].deadline
        wait == ShouldDelayScaleDownOnAbort /\ deadline # "expired"
        annotate == /\ deadline = "none"
                    /\ ctx.rs[Stable].available = Replicas
        count == IF ShouldDelayScaleDownOnAbort THEN 0 ELSE NewRSNewReplicas
    IN  /\ pc = "new"
        /\ \E C \in Conflicts :
              rs' = [rs EXCEPT ![New] = IF ~wait THEN Scaled(New, count, New \in C)
                                        ELSE IF annotate THEN Annotated(New) ELSE @]
        /\ pc' = "others"
        /\ UNCHANGED <<spec, status, svc, run, fresh, elapsed, ctx, used, wasActive, resumed>>

SkipPostPromotion ==
    \/ Stable = New
    \/ ctx.status.activeSelector # New
    \/ ~IsSaturated(New)

\* isReplicaSetReferenced: by the status that was read, or by a Service now
IsReferenced(h) ==
    h \in {ctx.status.stableRS, ctx.status.currentPodHash,
           ctx.status.activeSelector, ctx.status.previewSelector,
           svc.active, svc.preview}

\* Mutant: skipping post-promotion analysis is no reason to scale down
MayScaleDownOld_NoSkip ==
    /\ "InconclusiveAnalysisRun" \notin ctx.status.pauses
    /\ ~PostPromotion \/ ScaleDownDelay # "default" \/ CurrentRunSuccessful("post")

\* scaleDownOldReplicaSetsForBlueGreen waits for the answer of the analysis
MayScaleDownOld ==
    /\ "InconclusiveAnalysisRun" \notin ctx.status.pauses
    /\ \/ ~PostPromotion \/ ScaleDownDelay # "default" \/ SkipPostPromotion
       \/ CurrentRunSuccessful("post")

\* Mutant: an old version without a deadline is scaled down at once
ScaledDownOld_NoDelay(h, conflict) ==
    Scaled(h, IF ctx.rs[h].deadline = "pending" THEN Replicas ELSE 0, conflict)

\* What it does to an old ReplicaSet, with scaleDownDelayHelper
ScaledDownOld(h, conflict) ==
    CASE ctx.rs[h].deadline = "none" ->
            IF ScaleDownDelay = "zero" THEN rs[h] ELSE Annotated(h)
      [] ctx.rs[h].deadline = "pending" -> Scaled(h, Replicas, conflict)
      [] ctx.rs[h].deadline = "expired" -> Scaled(h, 0, conflict)

OldReplicaSets ==
    {h \in Hash \ {New, Stable} : ctx.rs[h].replicas > 0 /\ ~IsReferenced(h)}

ReconcileOtherReplicaSets ==
    /\ pc = "others"
    /\ \E C \in Conflicts :
          rs' = [h \in Hash |-> IF MayScaleDownOld /\ h \in OldReplicaSets
                                THEN ScaledDownOld(h, h \in C) ELSE rs[h]]
    /\ pc' = "active"
    /\ UNCHANGED <<spec, status, svc, run, fresh, elapsed, ctx, used, wasActive, resumed>>

\* A write for one of them fails: the rest are left as they are, and
\* reconcileOtherReplicaSets swallows the error
ReconcileOthersFails ==
    /\ pc = "others"
    /\ MayScaleDownOld
    /\ used.errors < MaxErrors
    /\ used' = [used EXCEPT !.errors = @ + 1]
    /\ \E C \in Conflicts, done \in SUBSET OldReplicaSets :
          /\ done # OldReplicaSets
          /\ rs' = [h \in Hash |-> IF h \in done THEN ScaledDownOld(h, h \in C) ELSE rs[h]]
    /\ pc' = "active"
    /\ UNCHANGED <<spec, status, svc, run, fresh, elapsed, ctx, wasActive, resumed>>

\* reconcileBlueGreenPause, on the decisions p
DecidedPause(p) ==
    LET paused == "BlueGreenPause" \in ctx.status.pauses
        skip == IsFastTracked \/ ctx.status.checkpoint \/ ~NeedsPause
    IN  IF ctx.status.abort \/ ~ReadyForPause \/ Halted THEN p
        ELSE IF skip THEN [p EXCEPT !.remove = TRUE]
        ELSE IF ~CompletedPrePromotion THEN p
        ELSE IF paused THEN [p EXCEPT !.remove = @ \/ CompletedPause(p)]
        ELSE IF ctx.status.controllerPause THEN p
        ELSE [p EXCEPT !.add = @ \cup {"BlueGreenPause"}]

\* reconcileBlueGreenPause, then reconcileActiveService on its decision
ReconcileActiveService ==
    LET p == DecidedPause(ctx.pause)
        target == IF ctx.status.abort THEN Stable
                  ELSE IF IsFastTracked \/ (CompletedPause(p) /\ CompletedPrePromotion)
                  THEN New ELSE svc.active
        active == IF ~Halted /\ ReadyForPause /\ IsSaturated(New)
                  THEN target ELSE svc.active
    IN  /\ pc = "active"
        /\ ctx' = [ctx EXCEPT !.pause = p]
        /\ svc' = [svc EXCEPT !.active = active]
        /\ wasActive' = wasActive \cup ({active} \ {None})
        /\ pc' = "analysis"
        /\ UNCHANGED <<spec, status, rs, run, fresh, elapsed, used, resumed>>

SkipAnalysis ==
    \/ IsAborted(ctx.pause)
    \/ ctx.status.promoteFull
    \/ HasScaleDownDeadline(New)
    \/ Stable = None

\* skipPrePromotionAnalysisRun
SkipPrePromotion ==
    \/ Stable = New
    \/ ctx.status.activeSelector \in {None, New}
    \/ ~FullyAvailable(New, IF PreviewReplicaCount = None THEN Replicas ELSE PreviewReplicaCount)

Configured(k) == IF k = "pre" THEN PrePromotion ELSE PostPromotion

Skip(k) == IF k = "pre" THEN SkipPrePromotion ELSE SkipPostPromotion

NeedsNewRun(k) ==
    IF ctx.run[k] = NoRun THEN TRUE
    ELSE IF ctx.status.controllerPause /\ "BlueGreenPause" \notin ctx.status.pauses
    THEN ctx.run[k].phase = "Inconclusive"
    ELSE ctx.status.abortedAt

Cancelled(r) == IF r.phase = "Running" THEN [r EXCEPT !.terminate = TRUE] ELSE r

\* Does this reconcile call createAnalysisRun for kind k?
Creates(k) ==
    /\ ~SkipAnalysis /\ Configured(k) /\ ~Skip(k)
    /\ "InconclusiveAnalysisRun" \notin ctx.status.pauses
    /\ NeedsNewRun(k)

\* A run of the same name and spec that has not completed is claimed instead,
\* terminating or not: first the one the status names, then the other.
Claimable(r) == r.phase = "Running" /\ r.hash = New
Names(k) == Creates(k) /\ ~Claimable(run[k])
Named(k) == IF Claimable(fresh[k]) THEN fresh[k]
            ELSE [hash |-> New, phase |-> "Running", terminate |-> FALSE, cancelled |-> FALSE]

\* The current run is cancelled when its analysis is skipped
CancelsCurrent(k) == SkipAnalysis \/ ~Configured(k) \/ Skip(k)

\* reconcileAnalysisRuns, with setPauseOrAbort of the runs that are current;
\* a run that the status does not name, nor will now, is always cancelled
ReconcileAnalysisRuns ==
    LET current == {k \in RunKind : ~SkipAnalysis /\ Configured(k) /\ ~Creates(k)}
        phases == {ctx.run[k].phase : k \in current}
    IN  /\ pc = "analysis"
        /\ run' = [k \in RunKind |-> IF CancelsCurrent(k) /\ ctx.run[k].phase = "Running"
                                      THEN Cancelled(run[k]) ELSE run[k]]
        /\ fresh' = [k \in RunKind |-> IF Names(k) THEN Named(k)
                                        ELSE IF ctx.fresh[k].phase = "Running"
                                        THEN Cancelled(fresh[k]) ELSE fresh[k]]
        /\ ctx' = [ctx EXCEPT
              !.created = {k \in RunKind : Names(k)},
              !.run = [k \in RunKind |-> IF Names(k) THEN Named(k)
                                         ELSE IF Creates(k) THEN run[k] ELSE @[k]],
              !.pause.add = IF "Inconclusive" \in phases
                            THEN @ \cup {"InconclusiveAnalysisRun"} ELSE @,
              !.pause.addAbort = @ \/ "Failed" \in phases]
        /\ pc' = "sync"
        /\ UNCHANGED <<spec, status, rs, svc, elapsed, used, wasActive, resumed>>

\* Mutant: post-promotion analysis that has not begun does not hold promotion
ShouldFullPromote_NotRunning(p) ==
    \/ Stable = None
    \/ svc.active = None
    \/ /\ svc.active = New
       /\ \/ ctx.status.promoteFull
          \/ ~IsAborted(p) /\ (PostPromotion => ctx.run["post"].phase # "Running")

\* shouldFullPromote, of the decisions p
ShouldFullPromote(p) ==
    \/ Stable = None
    \/ svc.active = None
    \/ /\ svc.active = New
       /\ \/ ctx.status.promoteFull
          \/ /\ ~IsAborted(p)
             /\ \/ ~PostPromotion
                \/ HasScaleDownDeadline(New)
                \/ CurrentRunSuccessful("post")

ScaleUpPreviewCheckPoint(p) ==
    /\ PreviewReplicaCount # None
    /\ \/ ctx.status.checkpoint
       \/ /\ CompletedPrePromotion
          /\ CompletedPause(p)
          /\ ctx.rs[New].available = PreviewReplicaCount

\* RolloutTimedOut can be true only of an update that is under way and made
\* no progress this time; how long ago it last did is not modelled.
MayTimeOut(p) ==
    /\ ~IsAborted(p)
    /\ ~ctx.spec.paused /\ ctx.status.pauses = {}
    /\ svc.active = ctx.status.activeSelector /\ svc.preview = ctx.status.previewSelector
    /\ ~(svc.active = New /\ svc.preview = New /\ ctx.rs[New].available = Replicas)
    /\ \A h \in Hash \ {New, Stable} : ctx.rs[h].deadline = "none"

\* The decisions at the status update: a new template and a full promotion
\* drop the pauses and the abort, and so does the promotion to stable.
Dropped ==
    LET drop == CheckPodSpecChange \/ ctx.status.promoteFull
    IN  [ctx.pause EXCEPT !.clear = @ \/ drop, !.removeAbort = @ \/ drop]

Promotes == ShouldFullPromote(Dropped)

Decided == [Dropped EXCEPT !.clear = @ \/ Promotes, !.removeAbort = @ \/ Promotes]

MayAbortOnTimeOut == ProgressDeadlineAbort /\ MayTimeOut(Decided)

\* syncRolloutStatusBlueGreen up to the patch: the new status, and whether the
\* progress deadline was found to have passed
NewStatus(timedOut) ==
    LET pause == PauseStatus([Decided EXCEPT !.addAbort = @ \/ timedOut])
    IN  [stableRS |-> IF Promotes THEN New ELSE Stable,
         currentPodHash |-> New,
         activeSelector |-> svc.active,
         previewSelector |-> svc.preview,
         pauses |-> pause.pauses,
         controllerPause |-> pause.controllerPause,
         abort |-> pause.abort,
         abortedAt |-> pause.abortedAt,
         promoteFull |-> ctx.status.promoteFull /\ ~CheckPodSpecChange /\ ~Promotes,
         checkpoint |-> ~Promotes /\ ScaleUpPreviewCheckPoint(Dropped)]

\* persistRolloutStatus: the patch holds the fields that differ from the
\* status the reconcile read, and is applied to whatever the status is now.
Merged(live, old, new) ==
    [stableRS |-> Patched(live.stableRS, old.stableRS, new.stableRS),
     currentPodHash |-> Patched(live.currentPodHash, old.currentPodHash, new.currentPodHash),
     activeSelector |-> Patched(live.activeSelector, old.activeSelector, new.activeSelector),
     previewSelector |-> Patched(live.previewSelector, old.previewSelector, new.previewSelector),
     pauses |-> Patched(live.pauses, old.pauses, new.pauses),
     controllerPause |-> Patched(live.controllerPause, old.controllerPause, new.controllerPause),
     abort |-> Patched(live.abort, old.abort, new.abort),
     abortedAt |-> Patched(live.abortedAt, old.abortedAt, new.abortedAt),
     promoteFull |-> Patched(live.promoteFull, old.promoteFull, new.promoteFull),
     checkpoint |-> Patched(live.checkpoint, old.checkpoint, new.checkpoint)]

SyncRolloutStatus ==
    /\ pc = "sync"
    /\ \E timedOut \in BOOLEAN :
          /\ timedOut => MayAbortOnTimeOut
          /\ status' = Merged(status, ctx.status, NewStatus(timedOut))
    /\ elapsed' = (elapsed /\ "BlueGreenPause" \in status'.pauses \cap ctx.status.pauses)
    \* the runs of the last template are forgotten; they are cancelled as others
    /\ run' = [k \in RunKind |-> IF CheckPodSpecChange THEN NoRun
                                  ELSE IF k \in ctx.created THEN fresh[k] ELSE run[k]]
    /\ fresh' = [k \in RunKind |-> IF CheckPodSpecChange \/ k \in ctx.created
                                    THEN NoRun ELSE fresh[k]]
    /\ resumed' = IF CheckPodSpecChange THEN None ELSE resumed
    /\ ctx' = NoContext
    /\ pc' = "idle"
    /\ UNCHANGED <<spec, rs, svc, used, wasActive>>

\* An API call fails, or the controller dies; the rest of the reconcile is lost
ReconcileFails ==
    /\ pc # "idle"
    /\ used.errors < MaxErrors
    /\ used' = [used EXCEPT !.errors = @ + 1]
    /\ pc' = "idle"
    /\ ctx' = NoContext
    /\ UNCHANGED <<objects, wasActive, resumed>>

Reconcile ==
    \/ StartSync
    \/ ReconcilePreviewService
    \/ RemoveScaleDownDeadlines
    \/ ReconcileStableReplicaSet
    \/ ReconcileNewReplicaSet
    \/ ReconcileOtherReplicaSets
    \/ ReconcileActiveService
    \/ ReconcileAnalysisRuns
    \/ SyncRolloutStatus

-----------------------------------------------------------------------------
(* The cluster: the ReplicaSet controller, the AnalysisRun controller, time *)

PodBecomesAvailable(h) ==
    /\ rs[h].available < rs[h].replicas
    /\ rs' = [rs EXCEPT ![h].available = @ + 1]
    /\ UNCHANGED <<spec, status, svc, run, fresh, elapsed, pc, ctx, history>>

SurplusPodsDeleted(h) ==
    /\ rs[h].available > rs[h].replicas
    /\ rs' = [rs EXCEPT ![h].available = rs[h].replicas]
    /\ UNCHANGED <<spec, status, svc, run, fresh, elapsed, pc, ctx, history>>

PodFails(h) ==
    /\ rs[h].available > 0
    /\ used.pods < MaxPodFailures
    /\ used' = [used EXCEPT !.pods = @ + 1]
    /\ rs' = [rs EXCEPT ![h].available = @ - 1]
    /\ UNCHANGED <<spec, status, svc, run, fresh, elapsed, pc, ctx, wasActive, resumed>>

DeadlinePasses(h) ==
    /\ rs[h].deadline = "pending"
    /\ rs' = [rs EXCEPT ![h].deadline = "expired"]
    /\ UNCHANGED <<spec, status, svc, run, fresh, elapsed, pc, ctx, history>>

PauseElapses ==
    /\ AutoPromotion = "delayed"
    /\ ~elapsed
    /\ "BlueGreenPause" \in status.pauses
    /\ elapsed' = TRUE
    /\ UNCHANGED <<spec, status, rs, svc, run, fresh, pc, ctx, history>>

\* A terminated run that had not failed completes as Successful.
Completes(r) ==
    {[r EXCEPT !.phase = outcome,
               !.cancelled = @ \/ (r.terminate /\ outcome = "Successful")] : outcome \in Outcome}

RunCompletes(k) ==
    /\ \/ /\ run[k].phase = "Running"
          /\ \E r \in Completes(run[k]) : run' = [run EXCEPT ![k] = r]
          /\ UNCHANGED fresh
       \/ /\ fresh[k].phase = "Running"
          /\ \E r \in Completes(fresh[k]) : fresh' = [fresh EXCEPT ![k] = r]
          /\ UNCHANGED run
    /\ UNCHANGED <<spec, status, rs, svc, elapsed, pc, ctx, history>>

Cluster ==
    \/ \E h \in Hash : PodBecomesAvailable(h) \/ SurplusPodsDeleted(h) \/ DeadlinePasses(h)
    \/ PauseElapses
    \/ \E k \in RunKind : RunCompletes(k)

-----------------------------------------------------------------------------
(* Users: kubectl and the kubectl plugin patch the live Rollout            *)

Edit(command) ==
    /\ command \in UserActions
    /\ used.edits < MaxEdits
    /\ used' = [used EXCEPT !.edits = @ + 1]
    /\ UNCHANGED <<rs, svc, run, fresh, elapsed, pc, ctx, wasActive>>

SetTemplate(h) ==
    /\ Edit("template")
    /\ h # spec.template
    /\ spec' = [spec EXCEPT !.template = h]
    /\ UNCHANGED <<status, resumed>>

PauseRollout ==
    /\ Edit("pause")
    /\ ~spec.paused
    /\ spec' = [spec EXCEPT !.paused = TRUE]
    /\ UNCHANGED <<status, resumed>>

\* promote: unpause the spec, and end the pauses that are in the status
PromoteRollout ==
    /\ Edit("promote")
    /\ spec.paused \/ status.pauses # {}
    /\ spec' = [spec EXCEPT !.paused = FALSE]
    /\ status' = [status EXCEPT !.pauses = {}]
    /\ resumed' = IF status.pauses # {} THEN status.currentPodHash ELSE resumed

\* promote --full
PromoteRolloutFull ==
    /\ Edit("promoteFull")
    /\ status.currentPodHash # status.stableRS
    /\ status' = [status EXCEPT !.promoteFull = TRUE]
    /\ UNCHANGED <<spec, resumed>>

AbortRollout ==
    /\ Edit("abort")
    /\ ~status.abort
    /\ status' = [status EXCEPT !.abort = TRUE]
    /\ UNCHANGED <<spec, resumed>>

RetryRollout ==
    /\ Edit("retry")
    /\ status.abort
    /\ status' = [status EXCEPT !.abort = FALSE]
    /\ UNCHANGED <<spec, resumed>>

User ==
    \/ \E h \in Hash : SetTemplate(h)
    \/ PauseRollout
    \/ PromoteRollout
    \/ PromoteRolloutFull
    \/ AbortRollout
    \/ RetryRollout

Failure ==
    \/ \E h \in Hash : PodFails(h)
    \/ ReconcileOthersFails
    \/ ReconcileFails

-----------------------------------------------------------------------------
Init ==
    /\ spec \in [template : Hash, paused : {FALSE}]
    /\ status = NoStatus
    /\ rs = [h \in Hash |-> NoReplicaSet]
    /\ svc = [active |-> None, preview |-> None]
    /\ run = [k \in RunKind |-> NoRun]
    /\ fresh = [k \in RunKind |-> NoRun]
    /\ elapsed = FALSE
    /\ pc = "idle"
    /\ ctx = NoContext
    /\ used = [edits |-> 0, pods |-> 0, errors |-> 0]
    /\ wasActive = {}
    /\ resumed = None

Next == Reconcile \/ Cluster \/ User \/ Failure

Spec == Init /\ [][Next]_vars

\* The workqueue resyncs every Rollout again and again, and the controllers
\* and clocks of the cluster do not stop; users and failures owe nothing.
Fairness ==
    /\ WF_vars(Reconcile)
    /\ \A h \in Hash : /\ WF_vars(PodBecomesAvailable(h))
                       /\ WF_vars(SurplusPodsDeleted(h))
                       /\ WF_vars(DeadlinePasses(h))
    /\ WF_vars(PauseElapses)
    /\ \A k \in RunKind : WF_vars(RunCompletes(k))

FairSpec == Spec /\ Fairness
=============================================================================
