------------------------- MODULE BlueGreenProperties -------------------------
(***************************************************************************)
(* What the blue-green controller owes its users, stated about the steps   *)
(* and the behaviours of BlueGreen; at the end, what the documentation and *)
(* the comments of the code say of it that its behaviours refute.          *)
(***************************************************************************)
EXTENDS BlueGreen

ActiveSwitches == svc.active # None /\ svc'.active # svc.active

AnalysisPassed(kind, h) == run[kind].hash = h /\ run[kind].phase = "Successful"

PauseServed(h) ==
    CASE AutoPromotion = "enabled" -> TRUE
      [] AutoPromotion = "delayed" -> elapsed
      [] AutoPromotion = "manual" -> resumed = h

GateServed(h) == (PrePromotion => AnalysisPassed("pre", h)) /\ PauseServed(h)

Exempt(h) == HasScaleDownDeadline(h) \/ ctx.status.promoteFull

(* The active Service moves to another version only after that version's   *)
(* pre-promotion analysis succeeded and its pause was served, by time or   *)
(* by a user, unless the version carries a scale-down deadline or a full   *)
(* promotion was asked for; or it goes back to the stable version of an    *)
(* aborted update.  With previewReplicaCount the checkpoint stands for the *)
(* pause, never for the analysis (reconcileActiveService,                  *)
(* CompletedBlueGreenPause).                                               *)
PromotionGated ==
    [][ActiveSwitches =>
          LET h == svc'.active
          IN  \/ ctx.status.abort /\ h = status.stableRS
              \/ Exempt(h)
              \/ /\ PrePromotion => AnalysisPassed("pre", h)
                 /\ PauseServed(h) \/ (PreviewReplicaCount # None /\ ctx.status.checkpoint)]_vars

(* The checkpoint, which stands for the pause from then on, is set for a   *)
(* version only once its analysis succeeded and its pause was served,      *)
(* unless this reconcile sees a new template or an inconclusive analysis   *)
(* holds it (calculateScaleUpPreviewCheckPoint).                           *)
CheckpointEarned ==
    [][~status.checkpoint /\ status'.checkpoint =>
          \/ GateServed(New)
          \/ CheckPodSpecChange
          \/ "InconclusiveAnalysisRun" \in ctx.status.pauses]_vars

ServesInFull(h) ==
    /\ rs[h].replicas = Replicas
    /\ rs[h].available + used.pods >= Replicas

(* The active Service only moves to a version that is scaled to            *)
(* spec.replicas, preview count or not, and, but for the way back of an    *)
(* abort, with every pod available that did not fail since (IsSaturated,   *)
(* on a snapshot taken earlier; the stable version it does not look at).   *)
SwitchTargetScaled ==
    [][ActiveSwitches /\ svc'.active # None =>
          /\ rs[svc'.active].replicas = Replicas
          /\ ctx.status.abort \/ ServesInFull(svc'.active)]_vars

(* A version becomes stable only while the active Service selects it, and, *)
(* with post-promotion analysis, only after that version's own run         *)
(* succeeded (shouldFullPromote, promoteStable).  Before the first switch  *)
(* of the active Service the stable version just follows the template.     *)
StableGated ==
    [][status'.stableRS # status.stableRS /\ status.stableRS # None /\ svc.active # None =>
          LET h == status'.stableRS
          IN  /\ svc.active = h
              /\ Exempt(h) \/ (PostPromotion => AnalysisPassed("post", h))]_vars

\* The one exception to what follows: h is rolled out while another version
\* is active, as a new one would be, with previewReplicaCount pods.
ScaledForPreview(h) ==
    /\ h = New
    /\ PreviewReplicaCount # None /\ rs'[h].replicas = PreviewReplicaCount
    /\ ctx.status.activeSelector \notin {None, h}

(* No reconcile takes pods away from the stable version, the one every     *)
(* abort returns to, that spec.replicas asks for, unless the template went *)
(* back to it before the active Service did (isReplicaSetReferenced,       *)
(* reconcileStableReplicaSet, NewRSNewReplicas).                           *)
StableNeverScaledDown ==
    [][\A h \in Hash :
          h = status.stableRS /\ rs'[h].replicas < rs[h].replicas
          => rs'[h].replicas >= Replicas \/ ScaledForPreview(h)]_vars

(* A version that has served keeps the pods that spec.replicas asks for    *)
(* until its deadline has passed, with the same exception                  *)
(* (scaleDownDelayHelper, and the fallback patch of a conflicting Update). *)
DelayedScaleDown ==
    [][\A h \in wasActive :
          rs'[h].replicas < rs[h].replicas
          => \/ rs[h].deadline = "expired"
             \/ rs'[h].replicas >= Replicas
             \/ ScaledForPreview(h)]_vars

(* An abort that a user gives is dropped only when the version it stops is *)
(* already stable, or was replaced, or is promoted in full by the user     *)
(* (CalculatePauseStatus, and the merge patch of persistRolloutStatus).    *)
AbortKept ==
    [][status.abort /\ ~status'.abort /\ pc' # pc =>
          \/ status'.stableRS = status'.currentPodHash
          \/ status'.currentPodHash # status.currentPodHash
          \/ ctx.status.promoteFull]_vars

-----------------------------------------------------------------------------
(* The inductive invariant behind StableGated and StableNeverScaledDown.   *)

\* What a reconcile may still rely on of the snapshot it took: nobody else
\* writes these fields, and a completed run does not change.
SnapshotHolds ==
    pc # "idle" =>
        /\ New \in Hash
        /\ ctx.status.stableRS = status.stableRS
        /\ ctx.status.currentPodHash = status.currentPodHash
        /\ ctx.status.activeSelector = status.activeSelector
        /\ \A k \in RunKind : ctx.run[k].phase \in Outcome => run[k] = ctx.run[k]

\* What the stages of a reconcile have decided so far
DecisionsHold ==
    /\ pc \notin {"idle", "preview", "sync"} => ~CheckPodSpecChange
    /\ pc \notin {"idle", "analysis", "sync"} =>
          /\ ~ctx.pause.addAbort
          /\ Stable = ctx.status.currentPodHash /\ ctx.status.abort => ctx.pause.removeAbort
    /\ IF pc # "sync" THEN ctx.created = {} ELSE
          \A k \in ctx.created :
              /\ New = status.currentPodHash /\ status.stableRS # None
              /\ fresh[k].hash = New
              /\ k = "post" => svc.active \in {New, Stable}

\* Nothing but the template that is being rolled out, or the stable one, has
\* the active Service while the status says it has it.
StatusHolds ==
    /\ spec.template \in Hash
    /\ status.currentPodHash = None => status.stableRS = None
    /\ status.currentPodHash # None /\ status.activeSelector = status.currentPodHash =>
          svc.active \in {status.currentPodHash, status.stableRS}

\* The runs that the status names are runs of the current template.
RunsHold ==
    \A k \in RunKind :
        run[k].phase # "none" =>
            /\ run[k].hash = status.currentPodHash
            /\ status.stableRS # None
            /\ k = "post" => svc.active \in {status.currentPodHash, status.stableRS}

(* The snapshot, the decisions taken on it, the status and the analysis    *)
(* runs never drift apart in what the promotion to stable depends on,      *)
(* whatever users, failures and the cluster do between two API calls.      *)
PromotionInv ==
    /\ SnapshotHolds
    /\ DecisionsHold
    /\ StatusHolds
    /\ RunsHold

(* What ends a pause: between two reconciles, a controller pause without a  *)
(* pause condition is one that a user ended for the current version, and   *)
(* so is any pause that a reconcile finds changed when it writes the       *)
(* status (CompletedBlueGreenPause, the merge patch of persistRollout-     *)
(* Status).  The checkpoint stands in for it with previewReplicaCount, and *)
(* is nobody's but the reconcile's.                                        *)
PauseInv ==
    /\ status.currentPodHash = None => status.pauses = {} /\ ~status.controllerPause
    /\ status.controllerPause /\ status.pauses = {} => resumed = status.currentPodHash
    /\ pc # "idle" =>
          /\ ctx.status.controllerPause = status.controllerPause
          /\ ctx.status.controllerPause /\ ctx.status.pauses = {} => resumed = status.currentPodHash
          /\ ctx.status.pauses # status.pauses =>
                resumed = status.currentPodHash /\ resumed # None
          /\ ctx.status.checkpoint = status.checkpoint
    /\ PreviewReplicaCount = None => ~status.checkpoint /\ ~ctx.status.checkpoint

\* A reconcile drops an abort on its own only from a promoted rollout.
DropsHold == pc # "idle" /\ ctx.pause.removeAbort => Stable = ctx.status.currentPodHash

BeforeSwitch == {"preview", "deadlines", "stable", "new", "others", "active"}

\* What a reconcile read of the pods of the new version is still so when it
\* moves the active Service, but for those that failed.
SaturationHolds ==
    pc \in BeforeSwitch /\ ~ctx.status.abort /\ ReadyForPause /\ IsSaturated(New)
        => ServesInFull(New)

\* The stable version is scaled up before the active Service can return to it.
StableScaled ==
    Stable # None =>
        /\ pc \in {"preview", "deadlines", "stable"} => rs[Stable].replicas = ctx.rs[Stable].replicas
        /\ /\ pc \in {"new", "others", "active"}
           /\ Stable = New => NewRSNewReplicas = Replicas
           => rs[Stable].replicas = Replicas

\* May this reconcile scale h down once the deadline of h has passed?
MayExpire(h) ==
    /\ h # Stable
    /\ h = New => ShouldDelayScaleDownOnAbort /\ pc # "others"

\* A deadline that a reconcile found expired still is when it does.
DeadlinesHold ==
    pc \in BeforeSwitch \ {"active"} =>
        \A h \in Hash :
            MayExpire(h) /\ ctx.rs[h].deadline = "expired" => rs[h].deadline = "expired"

-----------------------------------------------------------------------------
Waiting == spec.paused \/ status.pauses # {} \/ status.abort

Settled ==
    /\ svc.active = spec.template /\ svc.preview = spec.template
    /\ status.stableRS = spec.template /\ status.currentPodHash = spec.template
    /\ \A h \in Hash : rs[h].available = IF h = spec.template THEN Replicas ELSE 0

(* Once users and failures stop, the rollout ends waiting for a user, or   *)
(* with the desired version stable, active and the only one running (the   *)
(* whole reconcile, and every requeue it relies on).                       *)
Converges == <>[](Waiting \/ Settled)

(* After an abort, and unless the user undoes it or pauses the rollout,    *)
(* the active Service ends at the stable version: "The previous ReplicaSet *)
(* will be active" (abort.go, reconcileActiveService).                     *)
AbortReverts ==
    [](status.abort /\ svc.active # None =>
          <>(svc.active = status.stableRS \/ ~status.abort \/ spec.paused))

-----------------------------------------------------------------------------
(* Statements of the documentation and of comments in the code.            *)

(* "The Rollout will not switch traffic to the new version until the       *)
(* analysis run finishes successfully": a run that the controller itself   *)
(* cut short has not, and opens no gate (completedPrePromotionAnalysis; a  *)
(* terminated run that had not failed is Successful).                      *)
CancelledRunOpensNoGate ==
    [][ActiveSwitches /\ AnalysisPassed("pre", svc'.active) /\ ~Exempt(svc'.active) =>
          ~run["pre"].cancelled \/ ctx.status.abort]_vars

(* "It get reset to false when the pod template changes": the reconcile of *)
(* a new template leaves scaleUpPreviewCheckPoint false                    *)
(* (calculateScaleUpPreviewCheckPoint, resetRolloutStatus).                *)
CheckpointResets ==
    [][status'.currentPodHash # status.currentPodHash => ~status'.checkpoint]_vars

(* A ReplicaSet that a Service references is not one that "can safely be   *)
(* scaled to zero" (isReplicaSetReferenced; reconcileNewReplicaSet of an   *)
(* aborted update does not ask it).                                        *)
ServingNeverScaledDown ==
    [][\A h \in Hash : h = svc.active => rs'[h].replicas > 0 \/ rs[h].replicas = 0]_vars
=============================================================================
