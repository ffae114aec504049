--------------------------- MODULE BlueGreenProofs ---------------------------
(***************************************************************************)
(* Machine-checked proofs about BlueGreen, for any set of templates, any   *)
(* number of replicas and users, pods and API calls that fail without      *)
(* bound: the type of every variable, the stable version and its pods, the *)
(* gate in front of the active Service and the pods behind it, delayed     *)
(* scale-downs, and aborts.                                                *)
(***************************************************************************)
EXTENDS BlueGreenProperties, TLAPS

USE HashAssumption, ReplicasAssumption, StrategyAssumption, BoundsAssumption
    DEF RunKind, Outcome, PauseReason, Stages, Commands

LEMMA StartSyncTyped == TypeOK /\ spec.template \in Hash /\ StartSync => TypeOK'
<1> SUFFICES ASSUME TypeOK, spec.template \in Hash, StartSync PROVE TypeOK'
  OBVIOUS
<1> USE DEF TypeOK
<1>1. rs' \in [Hash -> ReplicaSet]
  <2>1. rs[spec.template] \in ReplicaSet
    OBVIOUS
  <2>2. [rs[spec.template] EXCEPT !.exists = TRUE] \in ReplicaSet
    BY <2>1 DEF ReplicaSet
  <2> QED BY <2>2 DEF StartSync
<1>2. ctx' \in Context
  <2>1. [NoPause EXCEPT !.removeAbort = status.stableRS = status.currentPodHash /\ status.abort] \in Pause_
    BY DEF NoPause, Pause_
  <2> QED BY <1>1, <2>1 DEF StartSync, Context
<1> QED BY <1>1, <1>2 DEF StartSync

LEMMA WritesTyped ==
    ASSUME TypeOK, NEW h \in Hash, NEW n \in Nat, NEW conflict \in BOOLEAN
    PROVE  Scaled(h, n, conflict) \in ReplicaSet /\ Annotated(h) \in ReplicaSet
<1>1. rs[h] \in ReplicaSet /\ ctx.rs[h] \in ReplicaSet
  BY DEF TypeOK, Context
<1> QED BY <1>1 DEF Scaled, Annotated, ReplicaSet

LEMMA RemoveDeadlinesTyped == TypeOK /\ RemoveScaleDownDeadlines => TypeOK'
<1> SUFFICES ASSUME TypeOK, RemoveScaleDownDeadlines PROVE TypeOK'
  OBVIOUS
<1>1. \A h \in Hash : rs[h] \in ReplicaSet /\ [rs[h] EXCEPT !.deadline = "none"] \in ReplicaSet
  <2> SUFFICES ASSUME NEW h \in Hash
               PROVE  rs[h] \in ReplicaSet /\ [rs[h] EXCEPT !.deadline = "none"] \in ReplicaSet
    OBVIOUS
  <2>1. rs[h] \in ReplicaSet
    BY DEF TypeOK
  <2> QED BY <2>1 DEF ReplicaSet
<1>2. rs' \in [Hash -> ReplicaSet]
  BY <1>1 DEF RemoveScaleDownDeadlines
<1> QED BY <1>2 DEF RemoveScaleDownDeadlines, TypeOK

LEMMA ReplicaSetStagesTyped ==
    ASSUME TypeOK, New \in Hash,
           ReconcileStableReplicaSet \/ ReconcileNewReplicaSet
           \/ ReconcileOtherReplicaSets \/ ReconcileOthersFails
    PROVE  TypeOK'
<1>1. NewRSNewReplicas \in Nat
  BY DEF NewRSNewReplicas
<1>2. \A h \in Hash, C \in Conflicts :
          /\ rs[h] \in ReplicaSet
          /\ Annotated(h) \in ReplicaSet
          /\ \A n \in Nat : Scaled(h, n, h \in C) \in ReplicaSet
  <2> SUFFICES ASSUME NEW h \in Hash, NEW C \in Conflicts, NEW n \in Nat
               PROVE  /\ rs[h] \in ReplicaSet
                      /\ Annotated(h) \in ReplicaSet
                      /\ Scaled(h, n, h \in C) \in ReplicaSet
    BY Zenon
  <2>1. rs[h] \in ReplicaSet
    BY DEF TypeOK
  <2>2. (h \in C) \in BOOLEAN
    OBVIOUS
  <2> QED BY <2>1, <2>2, WritesTyped, Zenon
<1>3. \A h \in Hash, C \in Conflicts : ScaledDownOld(h, h \in C) \in ReplicaSet
  <2> SUFFICES ASSUME NEW h \in Hash, NEW C \in Conflicts
               PROVE  ScaledDownOld(h, h \in C) \in ReplicaSet
    OBVIOUS
  <2>1. ctx.rs[h].deadline \in {"none", "pending", "expired"}
    BY DEF TypeOK, Context, ReplicaSet
  <2> QED BY <1>2, <2>1 DEF ScaledDownOld
<1>4. CASE ReconcileStableReplicaSet
  <2>1. Stable \in OptHash
    BY DEF TypeOK, Context, Status_, Stable
  <2>2. rs' \in [Hash -> ReplicaSet]
    BY <1>2, <1>4, <2>1 DEF ReconcileStableReplicaSet, TypeOK, OptHash
  <2> QED BY <1>4, <2>2 DEF ReconcileStableReplicaSet, TypeOK
<1>5. CASE ReconcileNewReplicaSet
  <2>1. rs' \in [Hash -> ReplicaSet]
    BY <1>1, <1>2, <1>5 DEF ReconcileNewReplicaSet, TypeOK
  <2> QED BY <1>5, <2>1 DEF ReconcileNewReplicaSet, TypeOK
<1>6. CASE ReconcileOtherReplicaSets
  <2>1. rs' \in [Hash -> ReplicaSet]
    BY <1>2, <1>3, <1>6 DEF ReconcileOtherReplicaSets
  <2> QED BY <1>6, <2>1 DEF ReconcileOtherReplicaSets, TypeOK
<1>7. CASE ReconcileOthersFails
  <2>1. rs' \in [Hash -> ReplicaSet]
    BY <1>2, <1>3, <1>7 DEF ReconcileOthersFails
  <2>2. used' \in [edits : 0..MaxEdits, pods : 0..MaxPodFailures, errors : 0..MaxErrors]
    BY <1>7 DEF ReconcileOthersFails, TypeOK
  <2> QED BY <1>7, <2>1, <2>2 DEF ReconcileOthersFails, TypeOK
<1> QED BY <1>4, <1>5, <1>6, <1>7

LEMMA ActiveServiceTyped ==
    ASSUME TypeOK, New \in Hash, ReconcileActiveService
    PROVE  TypeOK'
<1>1. ctx.pause \in Pause_ /\ Stable \in OptHash /\ svc.active \in OptHash
  BY DEF TypeOK, Context, Status_, Stable
<1>2. DecidedPause(ctx.pause) \in Pause_
  <2>1. [ctx.pause EXCEPT !.remove = TRUE] \in Pause_
    BY <1>1 DEF Pause_
  <2>2. [ctx.pause EXCEPT !.remove = @ \/ CompletedPause(ctx.pause)] \in Pause_
    BY <1>1 DEF Pause_
  <2>3. [ctx.pause EXCEPT !.add = @ \cup {"BlueGreenPause"}] \in Pause_
    BY <1>1 DEF Pause_
  <2> QED BY <1>1, <2>1, <2>2, <2>3 DEF DecidedPause
<1>3. ctx' \in Context
  BY <1>2 DEF ReconcileActiveService, TypeOK, Context
<1>4. svc' \in [active : OptHash, preview : OptHash] /\ wasActive' \subseteq Hash
  BY <1>1 DEF ReconcileActiveService, TypeOK, OptHash
<1> QED BY <1>3, <1>4 DEF ReconcileActiveService, TypeOK

LEMMA NamedTyped ==
    ASSUME TypeOK, New \in Hash, NEW k \in RunKind
    PROVE  /\ run[k] \in Run_ /\ fresh[k] \in Run_
           /\ Named(k) \in Run_
           /\ Cancelled(run[k]) \in Run_ /\ Cancelled(fresh[k]) \in Run_
<1>1. run[k] \in Run_ /\ fresh[k] \in Run_
  BY DEF TypeOK
<1>2. Named(k) \in Run_
  BY <1>1 DEF Named, Run_, OptHash
<1>3. \A r \in Run_ : Cancelled(r) \in Run_
  BY DEF Cancelled, Run_
<1> QED BY <1>1, <1>2, <1>3

LEMMA AnalysisRunsTyped ==
    ASSUME TypeOK, New \in Hash, ReconcileAnalysisRuns
    PROVE  TypeOK'
<1>1. run' \in [RunKind -> Run_]
  BY NamedTyped DEF ReconcileAnalysisRuns
<1>2. fresh' \in [RunKind -> Run_]
  BY NamedTyped DEF ReconcileAnalysisRuns
<1>3. ctx'.run \in [RunKind -> Run_]
  BY NamedTyped DEF ReconcileAnalysisRuns, TypeOK, Context
<1>4. ctx'.pause \in Pause_
  BY DEF ReconcileAnalysisRuns, TypeOK, Context, Pause_
<1>5. ctx' \in Context
  BY <1>3, <1>4 DEF ReconcileAnalysisRuns, TypeOK, Context
<1> QED BY <1>1, <1>2, <1>5 DEF ReconcileAnalysisRuns, TypeOK

LEMMA PauseStatusTyped ==
    ASSUME TypeOK, NEW p \in Pause_
    PROVE  PauseStatus(p) \in [pauses : SUBSET PauseReason, controllerPause : BOOLEAN,
                               abort : BOOLEAN, abortedAt : BOOLEAN]
<1>1. ctx.status \in Status_
  BY DEF TypeOK, Context
<1> QED BY <1>1 DEF PauseStatus, Status_, Pause_

LEMMA NewStatusTyped ==
    ASSUME TypeOK, New \in Hash, NEW timedOut \in BOOLEAN
    PROVE  NewStatus(timedOut) \in Status_
<1>1. ctx.pause \in Pause_ /\ ctx.status \in Status_ /\ svc \in [active : OptHash, preview : OptHash]
  BY DEF TypeOK, Context
<1>2. Dropped \in Pause_
  BY <1>1 DEF Dropped, Pause_
<1>3. Decided \in Pause_
  BY <1>2 DEF Decided, Pause_
<1>4. [Decided EXCEPT !.addAbort = @ \/ timedOut] \in Pause_
  BY <1>3 DEF Pause_
<1>5. PauseStatus([Decided EXCEPT !.addAbort = @ \/ timedOut])
        \in [pauses : SUBSET PauseReason, controllerPause : BOOLEAN,
             abort : BOOLEAN, abortedAt : BOOLEAN]
  BY <1>4, PauseStatusTyped
<1>6. Stable \in OptHash /\ New \in OptHash
  BY <1>1 DEF Stable, Status_, OptHash
<1> QED BY <1>1, <1>5, <1>6 DEF NewStatus, Status_

LEMMA NoContextTyped == NoContext \in Context
  BY DEF NoContext, Context, Spec_, NoStatus, Status_, NoReplicaSet, ReplicaSet,
         NoRun, Run_, NoPause, Pause_, OptHash

LEMMA SyncTyped ==
    ASSUME TypeOK, New \in Hash, SyncRolloutStatus
    PROVE  TypeOK'
<1>1. ctx.status \in Status_ /\ status \in Status_
  BY DEF TypeOK, Context
<1>2. status' \in Status_
  <2>1. PICK timedOut \in BOOLEAN : status' = Merged(status, ctx.status, NewStatus(timedOut))
    BY DEF SyncRolloutStatus
  <2>2. NewStatus(timedOut) \in Status_
    BY NewStatusTyped
  <2> QED BY <1>1, <2>1, <2>2 DEF Merged, Patched, Status_
<1>3. NoRun \in Run_
  BY DEF NoRun, Run_, OptHash
<1>4. run' \in [RunKind -> Run_] /\ fresh' \in [RunKind -> Run_]
  BY <1>3 DEF SyncRolloutStatus, TypeOK
<1> QED BY <1>2, <1>4, NoContextTyped DEF SyncRolloutStatus, TypeOK, OptHash

LEMMA ClusterTyped == TypeOK /\ Cluster => TypeOK'
<1> SUFFICES ASSUME TypeOK, Cluster PROVE TypeOK'
  OBVIOUS
<1>1. ASSUME NEW h \in Hash, PodBecomesAvailable(h) \/ SurplusPodsDeleted(h) \/ DeadlinePasses(h)
      PROVE  TypeOK'
  <2>1. rs[h] \in ReplicaSet
    BY DEF TypeOK
  <2>2. [rs[h] EXCEPT !.available = @ + 1] \in ReplicaSet
    BY <2>1 DEF ReplicaSet
  <2>3. [rs[h] EXCEPT !.available = rs[h].replicas] \in ReplicaSet
    BY <2>1 DEF ReplicaSet
  <2>4. [rs[h] EXCEPT !.deadline = "expired"] \in ReplicaSet
    BY <2>1 DEF ReplicaSet
  <2>5. rs' \in [Hash -> ReplicaSet]
    BY <1>1, <2>2, <2>3, <2>4 DEF TypeOK, PodBecomesAvailable, SurplusPodsDeleted, DeadlinePasses
  <2> QED BY <1>1, <2>5 DEF TypeOK, PodBecomesAvailable, SurplusPodsDeleted, DeadlinePasses, history
<1>2. CASE PauseElapses
  BY <1>2 DEF PauseElapses, TypeOK, history
<1>3. ASSUME NEW k \in RunKind, RunCompletes(k)
      PROVE  TypeOK'
  <2>1. ASSUME NEW r \in Run_, NEW c \in Completes(r)
        PROVE  c \in Run_
    <3>1. PICK outcome \in Outcome :
              c = [r EXCEPT !.phase = outcome,
                            !.cancelled = @ \/ (r.terminate /\ outcome = "Successful")]
      BY Zenon DEF Completes
    <3> QED BY <3>1 DEF Run_
  <2>2. run[k] \in Run_ /\ fresh[k] \in Run_
    BY DEF TypeOK
  <2>3. ASSUME NEW r \in Run_
        PROVE  [run EXCEPT ![k] = r] \in [RunKind -> Run_] /\ [fresh EXCEPT ![k] = r] \in [RunKind -> Run_]
    BY DEF TypeOK
  <2>4. \/ run' = run \/ \E r \in Run_ : run' = [run EXCEPT ![k] = r]
    BY <1>3, <2>1, <2>2 DEF RunCompletes
  <2>5. \/ fresh' = fresh \/ \E r \in Run_ : fresh' = [fresh EXCEPT ![k] = r]
    BY <1>3, <2>1, <2>2 DEF RunCompletes
  <2>6. run' \in [RunKind -> Run_] /\ fresh' \in [RunKind -> Run_]
    BY <2>3, <2>4, <2>5 DEF TypeOK
  <2> QED BY <1>3, <2>6 DEF RunCompletes, TypeOK, history
<1> QED BY <1>1, <1>2, <1>3 DEF Cluster

LEMMA UserTyped == TypeOK /\ User => TypeOK'
<1> SUFFICES ASSUME TypeOK, User PROVE TypeOK'
  OBVIOUS
<1>1. \A command : Edit(command) =>
          used' \in [edits : 0..MaxEdits, pods : 0..MaxPodFailures, errors : 0..MaxErrors]
  BY DEF Edit, TypeOK
<1>2. ASSUME NEW h \in Hash, SetTemplate(h) PROVE TypeOK'
  BY <1>1, <1>2 DEF SetTemplate, Edit, TypeOK, Spec_, OptHash
<1>3. CASE PauseRollout
  BY <1>1, <1>3 DEF PauseRollout, Edit, TypeOK, Spec_
<1>4. CASE PromoteRollout
  <2>1. status' \in Status_ /\ resumed' \in OptHash /\ spec' \in Spec_
    BY <1>4 DEF PromoteRollout, TypeOK, Status_, Spec_
  <2> QED BY <1>1, <1>4, <2>1 DEF PromoteRollout, Edit, TypeOK
<1>5. CASE PromoteRolloutFull
  <2>1. status' \in Status_
    BY <1>5 DEF PromoteRolloutFull, TypeOK, Status_
  <2> QED BY <1>1, <1>5, <2>1 DEF PromoteRolloutFull, Edit, TypeOK
<1>6. CASE AbortRollout
  <2>1. status' \in Status_
    BY <1>6 DEF AbortRollout, TypeOK, Status_
  <2> QED BY <1>1, <1>6, <2>1 DEF AbortRollout, Edit, TypeOK
<1>7. CASE RetryRollout
  <2>1. status' \in Status_
    BY <1>7 DEF RetryRollout, TypeOK, Status_
  <2> QED BY <1>1, <1>7, <2>1 DEF RetryRollout, Edit, TypeOK
<1> QED BY <1>2, <1>3, <1>4, <1>5, <1>6, <1>7 DEF User

LEMMA PodFailsTyped ==
    ASSUME TypeOK, NEW h \in Hash, PodFails(h)
    PROVE  TypeOK'
<1>1. rs[h] \in ReplicaSet
  BY DEF TypeOK
<1>2. [rs[h] EXCEPT !.available = @ - 1] \in ReplicaSet
  BY <1>1 DEF ReplicaSet, PodFails
<1>3. used' \in [edits : 0..MaxEdits, pods : 0..MaxPodFailures, errors : 0..MaxErrors]
  BY DEF PodFails, TypeOK
<1> QED BY <1>2, <1>3 DEF PodFails, TypeOK

LEMMA ReconcileFailsTyped == TypeOK /\ ReconcileFails => TypeOK'
<1> SUFFICES ASSUME TypeOK, ReconcileFails PROVE TypeOK'
  OBVIOUS
<1>1. used' \in [edits : 0..MaxEdits, pods : 0..MaxPodFailures, errors : 0..MaxErrors]
  BY DEF ReconcileFails, TypeOK
<1> QED BY <1>1, NoContextTyped DEF ReconcileFails, TypeOK, objects

-----------------------------------------------------------------------------
(* The snapshot, the decisions and the status: PromotionInv is inductive.  *)

IInv == TypeOK /\ PromotionInv

LEMMA InitInv == Init => IInv
<1> SUFFICES ASSUME Init PROVE IInv
  OBVIOUS
<1>1. TypeOK
  <2>1. NoRun \in Run_ /\ NoStatus \in Status_ /\ NoReplicaSet \in ReplicaSet
    BY DEF NoRun, Run_, NoStatus, Status_, NoReplicaSet, ReplicaSet, OptHash
  <2>2. spec \in Spec_ /\ status \in Status_ /\ rs \in [Hash -> ReplicaSet]
    BY <2>1 DEF Init, Spec_, OptHash
  <2>3. run \in [RunKind -> Run_] /\ fresh \in [RunKind -> Run_] /\ ctx \in Context
    BY <2>1, NoContextTyped DEF Init
  <2>4. used \in [edits : 0..MaxEdits, pods : 0..MaxPodFailures, errors : 0..MaxErrors]
    BY DEF Init
  <2> QED BY <2>2, <2>3, <2>4 DEF Init, TypeOK, OptHash
<1>2. PromotionInv
  BY DEF Init, PromotionInv, SnapshotHolds, DecisionsHold, StatusHolds, RunsHold,
         NoStatus, NoRun, NoContext
<1> QED BY <1>1, <1>2 DEF IInv

LEMMA StartSyncInv == IInv /\ StartSync => IInv'
<1> SUFFICES ASSUME IInv, StartSync PROVE IInv'
  OBVIOUS
<1>1. TypeOK'
  BY StartSyncTyped DEF IInv, PromotionInv, StatusHolds
<1>2. SnapshotHolds'
  BY DEF IInv, PromotionInv, StatusHolds, StartSync, SnapshotHolds, New
<1>3. DecisionsHold'
  BY DEF StartSync, DecisionsHold, Stable, NoPause
<1>4. StatusHolds' /\ RunsHold'
  BY DEF IInv, PromotionInv, StartSync, StatusHolds, RunsHold
<1> QED BY <1>1, <1>2, <1>3, <1>4 DEF IInv, PromotionInv

\* The stages that decide nothing that PromotionInv is about
LEMMA WriteStagesInv ==
    ASSUME IInv,
           ReconcilePreviewService \/ RemoveScaleDownDeadlines
           \/ ReconcileStableReplicaSet \/ ReconcileNewReplicaSet
           \/ ReconcileOtherReplicaSets \/ ReconcileOthersFails
    PROVE  IInv'
<1>1. New \in Hash
  BY DEF IInv, PromotionInv, SnapshotHolds, ReconcilePreviewService, RemoveScaleDownDeadlines,
         ReconcileStableReplicaSet, ReconcileNewReplicaSet, ReconcileOtherReplicaSets,
         ReconcileOthersFails
<1>2. TypeOK'
  <2>1. CASE ReconcilePreviewService
    BY <1>1, <2>1 DEF IInv, ReconcilePreviewService, TypeOK, OptHash
  <2> QED BY <2>1, <1>1, RemoveDeadlinesTyped, ReplicaSetStagesTyped DEF IInv
<1>3. svc'.active = svc.active
  BY DEF ReconcilePreviewService, RemoveScaleDownDeadlines,
         ReconcileStableReplicaSet, ReconcileNewReplicaSet, ReconcileOtherReplicaSets,
         ReconcileOthersFails, IInv, TypeOK
<1>4. /\ UNCHANGED <<spec, status, run, fresh, ctx>>
      /\ pc \notin {"idle", "analysis", "sync"} /\ pc' # "idle"
      /\ pc' # "sync" => ~CheckPodSpecChange
  BY DEF ReconcilePreviewService, RemoveScaleDownDeadlines,
         ReconcileStableReplicaSet, ReconcileNewReplicaSet, ReconcileOtherReplicaSets,
         ReconcileOthersFails, IInv, PromotionInv, DecisionsHold
<1>5. SnapshotHolds'
  BY <1>4 DEF IInv, PromotionInv, SnapshotHolds, New
<1>6. DecisionsHold'
  BY <1>4 DEF IInv, PromotionInv, DecisionsHold, Stable, CheckPodSpecChange, New
<1>7. StatusHolds' /\ RunsHold'
  BY <1>3, <1>4 DEF IInv, PromotionInv, StatusHolds, RunsHold
<1> QED BY <1>2, <1>5, <1>6, <1>7 DEF IInv, PromotionInv

\* The active Service is left alone, or moves to the new or the stable version
LEMMA ActiveServiceInv == IInv /\ ReconcileActiveService => IInv'
<1> SUFFICES ASSUME IInv, ReconcileActiveService PROVE IInv'
  OBVIOUS
<1>1. New \in Hash /\ ~CheckPodSpecChange
  BY DEF IInv, PromotionInv, SnapshotHolds, DecisionsHold, ReconcileActiveService
<1>2. TypeOK'
  BY <1>1, ActiveServiceTyped DEF IInv
<1>3. svc'.active \in {svc.active, New, Stable}
  BY DEF ReconcileActiveService, IInv, TypeOK
<1>4. /\ UNCHANGED <<spec, status, run, fresh>>
      /\ pc = "active" /\ pc' = "analysis"
      /\ ctx'.spec = ctx.spec /\ ctx'.status = ctx.status
      /\ ctx'.run = ctx.run /\ ctx'.created = ctx.created
  BY DEF ReconcileActiveService, IInv, TypeOK, Context
<1>5. SnapshotHolds'
  BY <1>4 DEF IInv, PromotionInv, SnapshotHolds, New
<1>6. DecisionsHold'
  BY <1>1, <1>4 DEF IInv, PromotionInv, DecisionsHold, CheckPodSpecChange, New
<1>7. StatusHolds' /\ RunsHold'
  BY <1>1, <1>3, <1>4
     DEF IInv, PromotionInv, SnapshotHolds, StatusHolds, RunsHold, CheckPodSpecChange, New, Stable
<1> QED BY <1>2, <1>5, <1>6, <1>7 DEF IInv, PromotionInv

\* A run is created for the version that the status and the Service agree on
LEMMA AnalysisRunsInv == IInv /\ ReconcileAnalysisRuns => IInv'
<1> SUFFICES ASSUME IInv, ReconcileAnalysisRuns PROVE IInv'
  OBVIOUS
<1>1. New \in Hash /\ ~CheckPodSpecChange
  BY DEF IInv, PromotionInv, SnapshotHolds, DecisionsHold, ReconcileAnalysisRuns
<1>2. TypeOK'
  BY <1>1, AnalysisRunsTyped DEF IInv
<1>3. /\ UNCHANGED <<spec, status, svc>>
      /\ pc = "analysis" /\ pc' = "sync"
      /\ ctx'.spec = ctx.spec /\ ctx'.status = ctx.status
      /\ ctx'.created = {k \in RunKind : Names(k)}
  BY DEF ReconcileAnalysisRuns, IInv, TypeOK, Context
<1>4. ASSUME NEW k \in RunKind
      PROVE  /\ run'[k] = IF CancelsCurrent(k) /\ ctx.run[k].phase = "Running"
                          THEN Cancelled(run[k]) ELSE run[k]
             /\ Names(k) => fresh'[k] = Named(k)
             /\ ctx'.run[k] = IF Names(k) THEN Named(k)
                              ELSE IF Creates(k) THEN run[k] ELSE ctx.run[k]
  BY DEF ReconcileAnalysisRuns, IInv, TypeOK, Context
<1>5. \A r \in Run_ : Cancelled(r).phase = r.phase /\ Cancelled(r).hash = r.hash
  BY DEF Cancelled, Run_
<1>6. \A k \in RunKind : run[k] \in Run_ /\ run'[k].phase = run[k].phase /\ run'[k].hash = run[k].hash
  BY <1>4, <1>5 DEF IInv, TypeOK
<1>7. \A k \in RunKind : Named(k).phase = "Running" /\ Named(k).hash = New
  BY DEF Named, Claimable
<1>8. SnapshotHolds'
  <2>1. ASSUME NEW k \in RunKind, ctx'.run[k].phase \in Outcome
        PROVE  run'[k] = ctx'.run[k]
    <3>1. ctx'.run[k] # Named(k) /\ ~Names(k)
      BY <1>4, <1>7, <2>1
    <3>2. CASE Creates(k)
      BY <1>4, <2>1, <3>1, <3>2 DEF Names, Claimable
    <3>3. CASE ~Creates(k)
      <4>1. ctx'.run[k] = ctx.run[k] /\ ctx.run[k].phase # "Running"
        BY <1>4, <2>1, <3>1, <3>3
      <4> QED BY <1>4, <2>1, <4>1, <1>3 DEF IInv, PromotionInv, SnapshotHolds
    <3> QED BY <3>2, <3>3
  <2> QED BY <1>3, <2>1 DEF IInv, PromotionInv, SnapshotHolds, New
<1>9. DecisionsHold'
  <2>1. ASSUME NEW k \in RunKind, Names(k)
        PROVE  /\ New = status.currentPodHash /\ status.stableRS # None
               /\ fresh'[k].hash = New
               /\ k = "post" => svc.active \in {New, Stable}
    <3>1. Stable # None /\ ~Skip(k)
      BY <2>1 DEF Names, Creates, SkipAnalysis
    <3>2. Stable = status.stableRS /\ ctx.status.currentPodHash = status.currentPodHash
          /\ ctx.status.activeSelector = status.activeSelector
      BY <1>3 DEF IInv, PromotionInv, SnapshotHolds, Stable
    <3>3. New = status.currentPodHash
      BY <1>1, <3>1, <3>2 DEF IInv, PromotionInv, StatusHolds, CheckPodSpecChange
    <3>4. k = "post" => ctx.status.activeSelector = New
      BY <3>1 DEF Skip, SkipPostPromotion
    <3>5. k = "post" => svc.active \in {New, Stable}
      BY <1>1, <3>2, <3>3, <3>4 DEF IInv, PromotionInv, StatusHolds
    <3> QED BY <1>4, <1>7, <2>1, <3>1, <3>2, <3>3, <3>5
  <2> QED BY <1>3, <2>1 DEF DecisionsHold, New, Stable
<1>10. StatusHolds' /\ RunsHold'
  BY <1>3, <1>6 DEF IInv, PromotionInv, StatusHolds, RunsHold
<1> QED BY <1>2, <1>8, <1>9, <1>10 DEF IInv, PromotionInv

\* Three fields of the status nobody but the reconcile writes
LEMMA SyncedStatus ==
    ASSUME IInv, SyncRolloutStatus
    PROVE  /\ status'.stableRS = IF Promotes THEN New ELSE status.stableRS
           /\ status'.currentPodHash = New
           /\ status'.activeSelector = svc.active
<1>1. PICK timedOut \in BOOLEAN : status' = Merged(status, ctx.status, NewStatus(timedOut))
  BY DEF SyncRolloutStatus
<1>2. /\ ctx.status.stableRS = status.stableRS
      /\ ctx.status.currentPodHash = status.currentPodHash
      /\ ctx.status.activeSelector = status.activeSelector
  BY DEF IInv, PromotionInv, SnapshotHolds, SyncRolloutStatus
<1>3. /\ NewStatus(timedOut).stableRS = IF Promotes THEN New ELSE Stable
      /\ NewStatus(timedOut).currentPodHash = New
      /\ NewStatus(timedOut).activeSelector = svc.active
  BY DEF NewStatus
<1> QED BY <1>1, <1>2, <1>3 DEF Merged, Patched, Stable

\* Why a version is promoted, when another one was stable
LEMMA PromotedVersion ==
    ASSUME IInv, SyncRolloutStatus, Promotes, Stable # None, svc.active # None
    PROVE  /\ svc.active = New
           /\ \/ Exempt(New)
              \/ PostPromotion => CurrentRunSuccessful("post")
BY DEF Promotes, ShouldFullPromote, Exempt

LEMMA SyncInv == IInv /\ SyncRolloutStatus => IInv'
<1> SUFFICES ASSUME IInv, SyncRolloutStatus PROVE IInv'
  OBVIOUS
<1>1. /\ New \in Hash /\ pc = "sync" /\ pc' = "idle"
      /\ Stable = status.stableRS
      /\ ctx.status.currentPodHash = status.currentPodHash
  BY DEF IInv, PromotionInv, SnapshotHolds, SyncRolloutStatus, Stable
<1>2. TypeOK'
  BY <1>1, SyncTyped DEF IInv
<1>3. SnapshotHolds'
  BY <1>1 DEF SnapshotHolds
<1>4. DecisionsHold'
  BY <1>1 DEF DecisionsHold, SyncRolloutStatus, NoContext
<1>5. StatusHolds'
  BY <1>1, SyncedStatus DEF IInv, PromotionInv, StatusHolds, SyncRolloutStatus
<1>6. RunsHold'
  <2> SUFFICES ASSUME NEW k \in RunKind, run'[k].phase # "none"
               PROVE  /\ run'[k].hash = status'.currentPodHash
                      /\ status'.stableRS # None
                      /\ k = "post" => svc'.active \in {status'.currentPodHash, status'.stableRS}
    BY DEF RunsHold
  <2>1. ~CheckPodSpecChange /\ svc' = svc
        /\ run'[k] = IF k \in ctx.created THEN fresh[k] ELSE run[k]
    BY DEF SyncRolloutStatus, NoRun
  <2>2. status.stableRS # None /\ status.currentPodHash = New /\ run'[k].hash = New
        /\ (k = "post" => svc.active \in {New, Stable})
    <3>1. CASE k \in ctx.created
      BY <1>1, <2>1, <3>1 DEF IInv, PromotionInv, DecisionsHold
    <3>2. CASE k \notin ctx.created
      BY <1>1, <2>1, <3>2 DEF IInv, PromotionInv, RunsHold, StatusHolds, CheckPodSpecChange
    <3> QED BY <3>1, <3>2
  <2>3. CASE Promotes
    <3>1. k = "post" => svc.active # None
      BY <1>1, <2>2
    <3> QED BY <1>1, <2>1, <2>2, <2>3, <3>1, SyncedStatus, PromotedVersion
  <2>4. CASE ~Promotes
    BY <1>1, <2>1, <2>2, <2>4, SyncedStatus
  <2> QED BY <2>3, <2>4
<1> QED BY <1>2, <1>3, <1>4, <1>5, <1>6 DEF IInv, PromotionInv

LEMMA FailuresInv ==
    ASSUME IInv, ReconcileFails \/ \E h \in Hash : PodFails(h)
    PROVE  IInv'
<1>1. TypeOK'
  BY ReconcileFailsTyped, PodFailsTyped DEF IInv
<1>2. CASE ReconcileFails
  BY <1>1, <1>2 DEF IInv, PromotionInv, SnapshotHolds, DecisionsHold, StatusHolds, RunsHold,
                    ReconcileFails, objects, NoContext
<1>3. ASSUME NEW h \in Hash, PodFails(h) PROVE IInv'
  BY <1>1, <1>3 DEF IInv, PromotionInv, SnapshotHolds, DecisionsHold, StatusHolds, RunsHold,
                    PodFails, New, Stable, CheckPodSpecChange
<1> QED BY <1>2, <1>3

LEMMA ClusterInv == IInv /\ Cluster => IInv'
<1> SUFFICES ASSUME IInv, Cluster PROVE IInv'
  OBVIOUS
<1>1. TypeOK'
  BY ClusterTyped DEF IInv
<1>2. UNCHANGED <<spec, status, svc, pc, ctx>>
  BY DEF Cluster, PodBecomesAvailable, SurplusPodsDeleted, DeadlinePasses, PauseElapses, RunCompletes
<1>3. ASSUME NEW k \in RunKind
      PROVE  /\ run'[k].hash = run[k].hash /\ fresh'[k].hash = fresh[k].hash
             /\ run[k].phase # "Running" => run'[k] = run[k]
             /\ run'[k].phase # "none" => run[k].phase # "none"
  <2>1. ASSUME NEW r \in Run_, NEW c \in Completes(r) PROVE c.hash = r.hash
    <3>1. PICK outcome \in Outcome :
              c = [r EXCEPT !.phase = outcome,
                            !.cancelled = @ \/ (r.terminate /\ outcome = "Successful")]
      BY Zenon DEF Completes
    <3> QED BY <3>1 DEF Run_
  <2>2. ASSUME NEW j \in RunKind, RunCompletes(j)
        PROVE  /\ run'[k].hash = run[k].hash /\ fresh'[k].hash = fresh[k].hash
               /\ run[k].phase # "Running" => run'[k] = run[k]
               /\ run'[k].phase # "none" => run[k].phase # "none"
    <3>1. run[j] \in Run_ /\ fresh[j] \in Run_
      BY DEF IInv, TypeOK
    <3>2. \/ run' = run
          \/ run[j].phase = "Running" /\ \E r \in Completes(run[j]) : run' = [run EXCEPT ![j] = r]
      BY <2>2 DEF RunCompletes
    <3>3. fresh' = fresh \/ \E r \in Completes(fresh[j]) : fresh' = [fresh EXCEPT ![j] = r]
      BY <2>2 DEF RunCompletes
    <3> QED BY <2>1, <3>1, <3>2, <3>3 DEF IInv, TypeOK
  <2>3. CASE UNCHANGED <<run, fresh>>
    BY <2>3
  <2> QED BY <2>2, <2>3 DEF Cluster, PodBecomesAvailable, SurplusPodsDeleted, DeadlinePasses, PauseElapses
<1>4. SnapshotHolds'
  BY <1>2, <1>3 DEF IInv, PromotionInv, SnapshotHolds, New
<1>5. DecisionsHold'
  <2>1. ctx.created \subseteq RunKind
    BY DEF IInv, TypeOK, Context
  <2> QED BY <1>2, <1>3, <2>1 DEF IInv, PromotionInv, DecisionsHold, New, Stable, CheckPodSpecChange
<1>6. StatusHolds' /\ RunsHold'
  BY <1>2, <1>3 DEF IInv, PromotionInv, StatusHolds, RunsHold
<1> QED BY <1>1, <1>4, <1>5, <1>6 DEF IInv, PromotionInv

\* Users write nothing that the invariant is about but the template
LEMMA UserInv == IInv /\ User => IInv'
<1> SUFFICES ASSUME IInv, User PROVE IInv'
  OBVIOUS
<1>1. TypeOK'
  BY UserTyped DEF IInv
<1>2. /\ UNCHANGED <<svc, run, fresh, pc, ctx>>
      /\ spec'.template \in Hash
      /\ status'.stableRS = status.stableRS
      /\ status'.currentPodHash = status.currentPodHash
      /\ status'.activeSelector = status.activeSelector
  BY DEF User, SetTemplate, PauseRollout, PromoteRollout, PromoteRolloutFull, AbortRollout,
         RetryRollout, Edit, IInv, PromotionInv, StatusHolds, TypeOK, Spec_, Status_
<1>3. SnapshotHolds'
  BY <1>2 DEF IInv, PromotionInv, SnapshotHolds, New
<1>4. DecisionsHold'
  BY <1>2 DEF IInv, PromotionInv, DecisionsHold, New, Stable, CheckPodSpecChange
<1>5. StatusHolds' /\ RunsHold'
  BY <1>2 DEF IInv, PromotionInv, StatusHolds, RunsHold
<1> QED BY <1>1, <1>3, <1>4, <1>5 DEF IInv, PromotionInv

LEMMA NextInv == IInv /\ [Next]_vars => IInv'
<1> SUFFICES ASSUME IInv, [Next]_vars PROVE IInv'
  OBVIOUS
<1>1. CASE UNCHANGED vars
  BY <1>1 DEF vars, IInv, TypeOK, PromotionInv, SnapshotHolds, DecisionsHold, StatusHolds,
              RunsHold, New, Stable, CheckPodSpecChange
<1>2. CASE Reconcile
  BY <1>2, StartSyncInv, WriteStagesInv, ActiveServiceInv, AnalysisRunsInv, SyncInv DEF Reconcile
<1>3. CASE Failure
  BY <1>3, FailuresInv, WriteStagesInv DEF Failure
<1> QED BY <1>1, <1>2, <1>3, ClusterInv, UserInv DEF Next

LEMMA Invariance == Spec => []IInv
<1> QED BY InitInv, NextInv, PTL DEF Spec

-----------------------------------------------------------------------------
(* Every reachable state of the rollout, and of the reconcile that works   *)
(* on it, has the declared types.                                          *)
THEOREM TypeCorrect == Spec => []TypeOK
<1>1. IInv => TypeOK
  BY DEF IInv
<1> QED BY <1>1, Invariance, PTL

(* Snapshot, decisions, status and analysis runs agree in what a promotion *)
(* depends on, for any number of templates, users and failures.            *)
THEOREM PromotionInvariant == Spec => []PromotionInv
<1>1. IInv => PromotionInv
  BY DEF IInv
<1> QED BY <1>1, Invariance, PTL

\* Only the status update of a reconcile writes status.stableRS
LEMMA StableWriters ==
    ASSUME IInv, [Next]_vars, status'.stableRS # status.stableRS
    PROVE  SyncRolloutStatus
<1>1. status \in Status_
  BY DEF IInv, TypeOK
<1>2. ~(UNCHANGED status)
  OBVIOUS
<1> QED BY <1>1, <1>2
     DEF Next, vars, Reconcile, Cluster, User, Failure, StartSync, ReconcilePreviewService,
         RemoveScaleDownDeadlines, ReconcileStableReplicaSet, ReconcileNewReplicaSet,
         ReconcileOtherReplicaSets, ReconcileActiveService, ReconcileAnalysisRuns,
         ReconcileFails, ReconcileOthersFails, PodBecomesAvailable, SurplusPodsDeleted, PodFails,
         DeadlinePasses, PauseElapses, RunCompletes, SetTemplate, PauseRollout, PromoteRollout,
         PromoteRolloutFull, AbortRollout, RetryRollout, Status_, objects

(* No interleaving of users, failures and the cluster with a reconcile     *)
(* makes a version stable that does not have the active Service, or whose  *)
(* post-promotion analysis, where there is one, has not succeeded.         *)
THEOREM StableIsGated == Spec => StableGated
<1>1. ASSUME IInv, [Next]_vars, status'.stableRS # status.stableRS,
             status.stableRS # None, svc.active # None
      PROVE  /\ svc.active = status'.stableRS
             /\ \/ Exempt(status'.stableRS)
                \/ PostPromotion => AnalysisPassed("post", status'.stableRS)
  <2>1. SyncRolloutStatus
    BY <1>1, StableWriters
  <2>2. /\ New \in Hash /\ Stable = status.stableRS
        /\ ctx.status.currentPodHash = status.currentPodHash
        /\ ctx.run["post"].phase = "Successful" => run["post"] = ctx.run["post"]
    BY <1>1, <2>1 DEF IInv, PromotionInv, SnapshotHolds, SyncRolloutStatus, Stable
  <2>3. Promotes /\ status'.stableRS = New /\ New # Stable
    BY <1>1, <2>1, <2>2, SyncedStatus
  <2>4. svc.active = New /\ (Exempt(New) \/ (PostPromotion => CurrentRunSuccessful("post")))
    BY <1>1, <2>1, <2>2, <2>3, PromotedVersion
  <2>5. CurrentRunSuccessful("post") => AnalysisPassed("post", New)
    BY <1>1, <2>2, <2>3, <2>4
       DEF IInv, PromotionInv, RunsHold, CurrentRunSuccessful, AnalysisPassed
  <2> QED BY <2>3, <2>4, <2>5
<1>2. IInv /\ [Next]_vars =>
        [status'.stableRS # status.stableRS /\ status.stableRS # None /\ svc.active # None =>
          LET h == status'.stableRS
          IN  /\ svc.active = h
              /\ Exempt(h) \/ (PostPromotion => AnalysisPassed("post", h))]_vars
  BY <1>1
<1> QED BY <1>2, Invariance, PTL DEF Spec, StableGated

-----------------------------------------------------------------------------
(* The gate in front of the active Service: PauseInv is inductive and,     *)
(* with IInv, implies PromotionGated.                                      *)

\* The fields that PauseInv is about
pauseVars == <<status, resumed, ctx.status, pc = "idle">>

\* All but a handful of steps leave them alone.
LEMMA PauseWriters ==
    ASSUME IInv, [Next]_vars
    PROVE  \/ UNCHANGED pauseVars
           \/ StartSync \/ SyncRolloutStatus \/ ReconcileFails \/ User
<1>1. CASE ReconcileActiveService \/ ReconcileAnalysisRuns
  BY <1>1 DEF ReconcileActiveService, ReconcileAnalysisRuns, pauseVars, IInv, TypeOK, Context
<1>2. CASE Cluster \/ (\E h \in Hash : PodFails(h)) \/ UNCHANGED vars
  BY <1>2 DEF Cluster, PodBecomesAvailable, SurplusPodsDeleted, DeadlinePasses, PodFails,
              PauseElapses, RunCompletes, vars, history, pauseVars
<1>3. CASE ReconcilePreviewService \/ RemoveScaleDownDeadlines \/ ReconcileStableReplicaSet
           \/ ReconcileNewReplicaSet \/ ReconcileOtherReplicaSets \/ ReconcileOthersFails
  BY <1>3 DEF ReconcilePreviewService, RemoveScaleDownDeadlines, ReconcileStableReplicaSet,
              ReconcileNewReplicaSet, ReconcileOtherReplicaSets, ReconcileOthersFails, pauseVars
<1> QED BY <1>1, <1>2, <1>3 DEF Next, Reconcile, Failure

LEMMA UserPauses == IInv /\ PauseInv /\ User => PauseInv'
<1> SUFFICES ASSUME IInv, PauseInv, User PROVE PauseInv'
  OBVIOUS
<1>1. status \in Status_
  BY DEF IInv, TypeOK
<1>2. CASE PromoteRollout
  BY <1>1, <1>2 DEF PromoteRollout, Edit, PauseInv, Status_
<1>3. CASE ~PromoteRollout
  <2>1. /\ UNCHANGED <<ctx, pc, resumed>>
        /\ status'.currentPodHash = status.currentPodHash
        /\ status'.pauses = status.pauses
        /\ status'.controllerPause = status.controllerPause
        /\ status'.checkpoint = status.checkpoint
    BY <1>1, <1>3 DEF User, SetTemplate, PauseRollout, PromoteRolloutFull, AbortRollout,
                      RetryRollout, Edit, Status_
  <2> QED BY <2>1 DEF PauseInv
<1> QED BY <1>2, <1>3

\* What the status update decides about pauses
LEMMA NewPauses ==
    ASSUME IInv, New \in Hash, NEW timedOut \in BOOLEAN
    PROVE  LET new == NewStatus(timedOut)
           IN  /\ new.controllerPause => new.pauses # {} /\ ~CheckPodSpecChange
               /\ PreviewReplicaCount = None => ~new.checkpoint
<1> DEFINE p == [Decided EXCEPT !.addAbort = @ \/ timedOut]
<1>1. ctx.pause \in Pause_ /\ ctx.status \in Status_
  BY DEF IInv, TypeOK, Context
<1>2. Dropped \in Pause_ /\ (CheckPodSpecChange => Dropped.clear)
  BY <1>1 DEF Dropped, Pause_
<1>3. Decided \in Pause_ /\ (CheckPodSpecChange => Decided.clear)
  BY <1>2 DEF Decided, Pause_
<1>4. p \in Pause_ /\ (CheckPodSpecChange => p.clear)
  BY <1>3 DEF Pause_
<1>5. NewStatus(timedOut).controllerPause = PauseStatus(p).controllerPause
      /\ NewStatus(timedOut).pauses = PauseStatus(p).pauses
  BY DEF NewStatus
<1> HIDE DEF p
<1>6. PauseStatus(p).controllerPause => PauseStatus(p).pauses # {} /\ ~p.clear
  BY <1>1, <1>4 DEF PauseStatus, Pause_, Status_
<1>7. PreviewReplicaCount = None => ~NewStatus(timedOut).checkpoint
  BY DEF NewStatus, ScaleUpPreviewCheckPoint
<1> QED BY <1>4, <1>5, <1>6, <1>7

LEMMA SyncPauses == IInv /\ PauseInv /\ SyncRolloutStatus => PauseInv'
<1> SUFFICES ASSUME IInv, PauseInv, SyncRolloutStatus PROVE PauseInv'
  OBVIOUS
<1>1. /\ New \in Hash /\ pc # "idle" /\ pc' = "idle" /\ ctx' = NoContext
      /\ ctx.status.currentPodHash = status.currentPodHash
      /\ resumed' = IF CheckPodSpecChange THEN None ELSE resumed
  BY DEF IInv, PromotionInv, SnapshotHolds, SyncRolloutStatus
<1>2. PICK timedOut \in BOOLEAN : status' = Merged(status, ctx.status, NewStatus(timedOut))
  BY DEF SyncRolloutStatus
<1>3. status'.currentPodHash = New
  BY SyncedStatus
<1> DEFINE new == NewStatus(timedOut)
<1>4. /\ new.controllerPause => new.pauses # {} /\ ~CheckPodSpecChange
      /\ PreviewReplicaCount = None => ~new.checkpoint
  BY <1>1, NewPauses
<1>5. /\ status'.pauses = IF new.pauses = ctx.status.pauses THEN status.pauses ELSE new.pauses
      /\ status'.controllerPause = IF new.controllerPause = ctx.status.controllerPause
                                   THEN status.controllerPause ELSE new.controllerPause
      /\ status'.checkpoint = IF new.checkpoint = ctx.status.checkpoint
                              THEN status.checkpoint ELSE new.checkpoint
  BY <1>2 DEF Merged, Patched
<1>6. status'.controllerPause = new.controllerPause
  BY <1>1, <1>5 DEF PauseInv
<1>7. ASSUME status'.controllerPause, status'.pauses = {}
      PROVE  resumed' = status'.currentPodHash
  <2>1. new.pauses # {} /\ ~CheckPodSpecChange
    BY <1>4, <1>6, <1>7
  <2>2. ctx.status.pauses # status.pauses
    BY <1>5, <1>7, <2>1
  <2>3. resumed = status.currentPodHash /\ resumed # None
    BY <1>1, <2>2 DEF PauseInv
  <2>4. status.currentPodHash = New
    BY <1>1, <2>1, <2>3 DEF CheckPodSpecChange
  <2> QED BY <1>1, <1>3, <2>1, <2>3, <2>4
<1>8. PreviewReplicaCount = None => ~status'.checkpoint
  BY <1>4, <1>5 DEF PauseInv
<1> QED BY <1>1, <1>3, <1>7, <1>8 DEF PauseInv, NoContext, NoStatus

(* A pause is over only because a user ended it for the version that the   *)
(* controller now works on: CompletedBlueGreenPause and the merge patch of *)
(* persistRolloutStatus never let a pause of one version, or one that a    *)
(* user ended for another, open the active Service to the next.            *)
THEOREM PauseInvariance == Spec => []PauseInv
<1>1. Init => PauseInv
  BY DEF Init, PauseInv, NoStatus, NoContext
<1>2. IInv /\ PauseInv /\ [Next]_vars => PauseInv'
  <2> SUFFICES ASSUME IInv, PauseInv, [Next]_vars PROVE PauseInv'
    OBVIOUS
  <2>1. CASE UNCHANGED pauseVars
    BY <2>1 DEF pauseVars, PauseInv
  <2>2. CASE StartSync
    BY <2>2 DEF StartSync, PauseInv
  <2>3. CASE ReconcileFails
    BY <2>3 DEF ReconcileFails, PauseInv, objects, NoContext, NoStatus
  <2> QED BY <2>1, <2>2, <2>3, PauseWriters, SyncPauses, UserPauses
<1> QED BY <1>1, <1>2, Invariance, PTL DEF Spec

-----------------------------------------------------------------------------
\* Only one stage of a reconcile moves the active Service
LEMMA ActiveWriters ==
    ASSUME IInv, [Next]_vars, svc'.active # svc.active
    PROVE  ReconcileActiveService
<1>1. ~(UNCHANGED svc) /\ ~ReconcilePreviewService
  BY DEF ReconcilePreviewService, IInv, TypeOK
<1> QED BY <1>1
     DEF Next, vars, Reconcile, Cluster, User, Failure, StartSync,
         RemoveScaleDownDeadlines, ReconcileStableReplicaSet, ReconcileNewReplicaSet,
         ReconcileOtherReplicaSets, ReconcileAnalysisRuns, SyncRolloutStatus,
         ReconcileFails, ReconcileOthersFails, PodBecomesAvailable, SurplusPodsDeleted, PodFails,
         DeadlinePasses, PauseElapses, RunCompletes, SetTemplate, PauseRollout, PromoteRollout,
         PromoteRolloutFull, AbortRollout, RetryRollout, Edit, objects

\* What a reconcile takes for a pause and an analysis that are over is so.
LEMMA GateOfPause ==
    ASSUME IInv, PauseInv, pc \in {"active", "sync"}, ~CheckPodSpecChange,
           "InconclusiveAnalysisRun" \notin ctx.status.pauses,
           NEW p, CompletedPause(p), CompletedPrePromotion
    PROVE  /\ PrePromotion => AnalysisPassed("pre", New)
           /\ GateServed(New) \/ (PreviewReplicaCount # None /\ ctx.status.checkpoint)
<1>1. /\ New \in Hash /\ Stable = status.stableRS
      /\ ctx.status.currentPodHash = status.currentPodHash
      /\ ctx.run["pre"].phase = "Successful" => run["pre"] = ctx.run["pre"]
      /\ ctx.status.pauses \subseteq PauseReason
  BY DEF IInv, PromotionInv, SnapshotHolds, Stable, TypeOK, Context, Status_
<1>2. PrePromotion => AnalysisPassed("pre", New)
  <2>1. SUFFICES ASSUME PrePromotion PROVE AnalysisPassed("pre", New)
    OBVIOUS
  <2>2. run["pre"].phase = "Successful"
    BY <1>1, <2>1 DEF CompletedPrePromotion, CurrentRunSuccessful
  <2>3. run["pre"].hash = status.currentPodHash /\ status.stableRS # None
    BY <2>2 DEF IInv, PromotionInv, RunsHold
  <2>4. status.currentPodHash = New
    BY <1>1, <2>3 DEF CheckPodSpecChange, IInv, PromotionInv, StatusHolds
  <2> QED BY <2>2, <2>3, <2>4 DEF AnalysisPassed
<1>3. \/ PreviewReplicaCount # None /\ ctx.status.checkpoint
      \/ ~NeedsPause
      \/ AutoPromotion = "delayed" /\ elapsed
      \/ /\ AutoPromotion = "manual" /\ ctx.status.controllerPause
         /\ "BlueGreenPause" \notin ctx.status.pauses
  BY DEF CompletedPause, PauseInv
<1>4. CASE AutoPromotion = "manual" /\ ctx.status.controllerPause
           /\ "BlueGreenPause" \notin ctx.status.pauses
  <2>1. ctx.status.pauses = {}
    BY <1>1, <1>4 DEF PauseReason
  <2>2. status.controllerPause /\ resumed = status.currentPodHash
    BY <1>4, <2>1 DEF PauseInv
  <2>3. status.currentPodHash = New
    BY <1>1, <2>2 DEF PauseInv, CheckPodSpecChange
  <2> QED BY <1>2, <1>4, <2>2, <2>3 DEF PauseServed, GateServed
<1>5. CASE ~NeedsPause \/ (AutoPromotion = "delayed" /\ elapsed)
  BY <1>2, <1>5 DEF NeedsPause, PauseServed, GateServed
<1> QED BY <1>2, <1>3, <1>4, <1>5

(* The active Service never moves to a version whose analysis has not      *)
(* succeeded or whose pause nobody ended (but for a checkpoint, with       *)
(* previewReplicaCount), other than back to stable after an abort or by    *)
(* one of the two exemptions, whatever interleaving of commands, failures  *)
(* and clock the reconcile meets.                                          *)
THEOREM PromotionIsGated == Spec => PromotionGated
<1>1. ASSUME IInv, PauseInv, [Next]_vars, ActiveSwitches
      PROVE  LET h == svc'.active
             IN  \/ ctx.status.abort /\ h = status.stableRS
                 \/ Exempt(h)
                 \/ /\ PrePromotion => AnalysisPassed("pre", h)
                    /\ \/ PauseServed(h)
                       \/ PreviewReplicaCount # None /\ ctx.status.checkpoint
  <2>1. svc.active # None /\ svc'.active # svc.active /\ ReconcileActiveService
    BY <1>1, ActiveWriters DEF ActiveSwitches
  <2>2. /\ New \in Hash /\ Stable = status.stableRS /\ ~CheckPodSpecChange
        /\ ctx.status.currentPodHash = status.currentPodHash
        /\ ctx.run["pre"].phase = "Successful" => run["pre"] = ctx.run["pre"]
        /\ ctx.status.pauses \subseteq PauseReason
    BY <1>1, <2>1 DEF IInv, PromotionInv, SnapshotHolds, DecisionsHold, ReconcileActiveService,
                      Stable, TypeOK, Context, Status_
  <2> DEFINE p == DecidedPause(ctx.pause)
  <2>3. /\ ~Halted
        /\ svc'.active = IF ctx.status.abort THEN Stable
                         ELSE IF IsFastTracked \/ (CompletedPause(p) /\ CompletedPrePromotion)
                         THEN New ELSE svc.active
    BY <1>1, <2>1 DEF ReconcileActiveService, IInv, TypeOK
  <2>4. CASE ctx.status.abort
    BY <2>2, <2>3, <2>4
  <2>5. CASE ~ctx.status.abort /\ IsFastTracked
    BY <2>1, <2>3, <2>5 DEF IsFastTracked, Exempt
  <2>6. CASE ~ctx.status.abort /\ ~IsFastTracked
    <3>1. svc'.active = New /\ CompletedPause(p) /\ CompletedPrePromotion
      BY <2>1, <2>3, <2>6
    <3>2. /\ PrePromotion => AnalysisPassed("pre", New)
          /\ GateServed(New) \/ (PreviewReplicaCount # None /\ ctx.status.checkpoint)
      BY <1>1, <2>1, <2>2, <2>3, <3>1, GateOfPause DEF ReconcileActiveService, Halted
    <3> QED BY <3>1, <3>2 DEF GateServed
  <2> QED BY <2>4, <2>5, <2>6
<1>2. IInv /\ PauseInv /\ [Next]_vars =>
        [ActiveSwitches =>
          LET h == svc'.active
          IN  \/ ctx.status.abort /\ h = status.stableRS
              \/ Exempt(h)
              \/ /\ PrePromotion => AnalysisPassed("pre", h)
                 /\ \/ PauseServed(h)
                    \/ PreviewReplicaCount # None /\ ctx.status.checkpoint]_vars
  BY <1>1
<1> QED BY <1>2, PauseInvariance, Invariance, PTL DEF Spec, PromotionGated

(* The checkpoint that lets a reconcile past the pause is set for a version *)
(* only when its own analysis and pause are over, but for the two cases    *)
(* that CheckpointEarned names: then it may open the gate to a version     *)
(* that nobody let through.                                                *)
THEOREM CheckpointIsEarned == Spec => CheckpointEarned
<1>1. ASSUME IInv, PauseInv, [Next]_vars, ~status.checkpoint, status'.checkpoint,
             ~CheckPodSpecChange, "InconclusiveAnalysisRun" \notin ctx.status.pauses
      PROVE  GateServed(New)
  <2>1. SyncRolloutStatus
    <3>1. ~User
      BY <1>1 DEF User, Edit, SetTemplate, PauseRollout, PromoteRollout, PromoteRolloutFull,
                  AbortRollout, RetryRollout, IInv, TypeOK, Status_
    <3> QED BY <1>1, <3>1
         DEF Next, vars, Reconcile, Cluster, Failure, StartSync, ReconcilePreviewService,
             RemoveScaleDownDeadlines, ReconcileStableReplicaSet, ReconcileNewReplicaSet,
             ReconcileOtherReplicaSets, ReconcileActiveService, ReconcileAnalysisRuns,
             ReconcileFails, ReconcileOthersFails, PodBecomesAvailable, SurplusPodsDeleted,
             PodFails, DeadlinePasses, PauseElapses, RunCompletes, objects
  <2>2. PICK timedOut \in BOOLEAN : status' = Merged(status, ctx.status, NewStatus(timedOut))
    BY <2>1 DEF SyncRolloutStatus
  <2>3. ~ctx.status.checkpoint /\ NewStatus(timedOut).checkpoint
    BY <1>1, <2>1, <2>2 DEF Merged, Patched, PauseInv, SyncRolloutStatus
  <2>4. CompletedPrePromotion /\ CompletedPause(Dropped)
    BY <2>3 DEF NewStatus, ScaleUpPreviewCheckPoint
  <2>5. pc \in {"active", "sync"}
    BY <2>1 DEF SyncRolloutStatus
  <2> QED BY <1>1, <2>3, <2>4, <2>5, GateOfPause
<1>2. IInv /\ PauseInv /\ [Next]_vars =>
        [~status.checkpoint /\ status'.checkpoint =>
            \/ GateServed(New)
            \/ CheckPodSpecChange
            \/ "InconclusiveAnalysisRun" \in ctx.status.pauses]_vars
  BY <1>1
<1> QED BY <1>2, PauseInvariance, Invariance, PTL DEF Spec, CheckpointEarned

-----------------------------------------------------------------------------
(* The pods a reconcile counted and the deadlines it read: PodsInv is      *)
(* inductive, and gives SwitchTargetScaled and DelayedScaleDown.           *)

PodsInv == SaturationHolds /\ StableScaled /\ DeadlinesHold

Scaling ==
    \/ ReconcileStableReplicaSet \/ ReconcileNewReplicaSet
    \/ ReconcileOtherReplicaSets \/ ReconcileOthersFails

\* Every step but these leaves the size of every ReplicaSet alone
LEMMA ScalingOnly ==
    ASSUME IInv, [Next]_vars, NEW h \in Hash, ~Scaling
    PROVE  rs'[h].replicas = rs[h].replicas
<1>1. \A g \in Hash : rs[g] \in ReplicaSet
  BY DEF IInv, TypeOK
<1>2. CASE StartSync \/ RemoveScaleDownDeadlines
  BY <1>1, <1>2 DEF StartSync, RemoveScaleDownDeadlines, IInv, TypeOK, ReplicaSet
<1>3. ASSUME NEW g \in Hash,
             PodBecomesAvailable(g) \/ SurplusPodsDeleted(g) \/ DeadlinePasses(g) \/ PodFails(g)
      PROVE  rs'[h].replicas = rs[h].replicas
  BY <1>1, <1>3 DEF PodBecomesAvailable, SurplusPodsDeleted, DeadlinePasses, PodFails, IInv,
                    TypeOK, ReplicaSet
<1>4. CASE UNCHANGED rs
  BY <1>4
<1> QED BY <1>2, <1>3, <1>4
     DEF Scaling, Next, vars, Reconcile, Cluster, User, Failure, ReconcilePreviewService,
         ReconcileActiveService, ReconcileAnalysisRuns, SyncRolloutStatus, ReconcileFails,
         PauseElapses, RunCompletes, SetTemplate, PauseRollout, PromoteRollout,
         PromoteRolloutFull, AbortRollout, RetryRollout, Edit, objects

\* What is read of the context alone stays as it is with the context.
LEMMA SameContext ==
    ASSUME ctx' = ctx
    PROVE  /\ New' = New /\ Stable' = Stable
           /\ ctx'.status = ctx.status /\ ctx'.rs = ctx.rs
           /\ ShouldDelayScaleDownOnAbort' = ShouldDelayScaleDownOnAbort
           /\ NewRSNewReplicas' = NewRSNewReplicas
           /\ ReadyForPause' = ReadyForPause
           /\ IsSaturated(New)' = IsSaturated(New)
BY DEF New, Stable, ShouldDelayScaleDownOnAbort, IsAborted, NewRSNewReplicas, ReadyForPause,
       FullyAvailable, IsSaturated

\* The ReplicaSet that each stage writes, and the count that it writes
LEMMA StageWrites ==
    ASSUME IInv, Scaling, NEW h \in Hash
    PROVE  /\ rs'[h].available = rs[h].available
           /\ \/ rs'[h].replicas = rs[h].replicas
              \/ /\ rs'[h].replicas # ctx.rs[h].replicas
                 /\ \/ rs'[h].replicas = Replicas
                    \/ /\ h = New /\ ~ShouldDelayScaleDownOnAbort
                       /\ rs'[h].replicas = NewRSNewReplicas
                    \/ /\ MayExpire(h) /\ ctx.rs[h].deadline = "expired"
                       /\ rs'[h].replicas = 0
           /\ \/ rs'[h] = rs[h]
              \/ pc = "stable" /\ h = Stable
              \/ pc = "new" /\ h = New
              \/ pc = "others" /\ h \notin {New, Stable}
           /\ pc = "stable" /\ h = Stable /\ ctx.rs[h].replicas # Replicas
                => rs'[h].replicas = Replicas
<1>1. /\ New \in Hash /\ Stable = status.stableRS
      /\ ctx.status.currentPodHash = status.currentPodHash
      /\ ~CheckPodSpecChange /\ ~ctx.pause.addAbort
      /\ Stable = ctx.status.currentPodHash /\ ctx.status.abort => ctx.pause.removeAbort
  BY DEF IInv, PromotionInv, SnapshotHolds, DecisionsHold, Stable, Scaling,
         ReconcileStableReplicaSet, ReconcileNewReplicaSet, ReconcileOtherReplicaSets,
         ReconcileOthersFails
<1>2. rs[h] \in ReplicaSet /\ ctx.rs[h] \in ReplicaSet
  BY DEF IInv, TypeOK, Context
<1>3. ShouldDelayScaleDownOnAbort => New # Stable
  BY <1>1 DEF ShouldDelayScaleDownOnAbort, IsAborted, CheckPodSpecChange, IInv, PromotionInv,
              StatusHolds
<1>4. ASSUME NEW n, NEW c
      PROVE  /\ Scaled(h, n, c).available = rs[h].available
             /\ IF ctx.rs[h].replicas = n THEN Scaled(h, n, c) = rs[h]
                                          ELSE Scaled(h, n, c).replicas = n
  BY <1>2 DEF Scaled, ReplicaSet
<1>5. Annotated(h).available = rs[h].available /\ Annotated(h).replicas = rs[h].replicas
  BY <1>2 DEF Annotated, ReplicaSet
<1>6. CASE ReconcileStableReplicaSet
  <2>1. PICK C \in Conflicts :
            rs' = IF Stable = None THEN rs
                  ELSE [rs EXCEPT ![Stable] = Scaled(Stable, Replicas, Stable \in C)]
    BY <1>6 DEF ReconcileStableReplicaSet
  <2>2. rs'[h] = IF h = Stable THEN Scaled(h, Replicas, h \in C) ELSE rs[h]
    BY <2>1 DEF IInv, TypeOK
  <2> QED BY <1>4, <1>6, <2>2 DEF ReconcileStableReplicaSet
<1>7. CASE ReconcileNewReplicaSet
  <2>1. PICK C \in Conflicts :
            \/ rs'[h] = rs[h]
            \/ h = New /\ rs'[h] = Annotated(h)
            \/ /\ h = New
               /\ ShouldDelayScaleDownOnAbort => ctx.rs[h].deadline = "expired"
               /\ rs'[h] = Scaled(h, IF ShouldDelayScaleDownOnAbort THEN 0 ELSE NewRSNewReplicas,
                                  h \in C)
    BY <1>1, <1>7 DEF ReconcileNewReplicaSet, IInv, TypeOK
  <2>2. pc = "new"
    BY <1>7 DEF ReconcileNewReplicaSet
  <2>3. CASE rs'[h] \in {rs[h], Annotated(h)}
    BY <1>5, <2>1, <2>2, <2>3
  <2>4. CASE /\ h = New
             /\ ShouldDelayScaleDownOnAbort => ctx.rs[h].deadline = "expired"
             /\ rs'[h] = Scaled(h, IF ShouldDelayScaleDownOnAbort THEN 0 ELSE NewRSNewReplicas,
                                h \in C)
    BY <1>3, <1>4, <2>2, <2>4 DEF MayExpire
  <2> QED BY <2>1, <2>3, <2>4
<1>8. CASE ReconcileOtherReplicaSets \/ ReconcileOthersFails
  <2>1. PICK C \in Conflicts :
            rs'[h] = rs[h] \/ (h \in OldReplicaSets /\ rs'[h] = ScaledDownOld(h, h \in C))
    BY <1>8 DEF ReconcileOtherReplicaSets, ReconcileOthersFails
  <2>2. pc = "others" /\ (h \in OldReplicaSets => h \notin {New, Stable})
    BY <1>8 DEF OldReplicaSets, ReconcileOtherReplicaSets, ReconcileOthersFails
  <2>3. \/ ScaledDownOld(h, h \in C) \in {rs[h], Annotated(h), Scaled(h, Replicas, h \in C)}
        \/ /\ ctx.rs[h].deadline = "expired"
           /\ ScaledDownOld(h, h \in C) = Scaled(h, 0, h \in C)
    BY <1>2 DEF ScaledDownOld, ReplicaSet
  <2> QED BY <1>4, <1>5, <2>1, <2>2, <2>3 DEF MayExpire
<1> QED BY <1>6, <1>7, <1>8 DEF Scaling

\* What users, the cluster and failing pods leave of it
LEMMA QuietSteps ==
    ASSUME IInv, NEW h \in Hash,
           Cluster \/ User \/ (\E g \in Hash : PodFails(g)) \/ UNCHANGED vars
    PROVE  /\ UNCHANGED <<pc, ctx>>
           /\ rs'[h].replicas = rs[h].replicas
           /\ rs[h].deadline = "expired" => rs'[h].deadline = "expired"
           /\ ServesInFull(h) => ServesInFull(h)'
<1>1. /\ \A g \in Hash : rs[g] \in ReplicaSet
      /\ used \in [edits : 0..MaxEdits, pods : 0..MaxPodFailures, errors : 0..MaxErrors]
  BY DEF IInv, TypeOK
<1>2. rs \in [Hash -> ReplicaSet] /\ used.pods \in Nat
  BY <1>1 DEF IInv, TypeOK
<1>3. ASSUME NEW g \in Hash, PodBecomesAvailable(g) \/ SurplusPodsDeleted(g)
      PROVE  /\ UNCHANGED <<pc, ctx, used>>
             /\ rs'[h].replicas = rs[h].replicas /\ rs'[h].deadline = rs[h].deadline
             /\ rs'[h].available >= rs[h].available \/ rs'[h].available = rs[h].replicas
  BY <1>1, <1>2, <1>3 DEF PodBecomesAvailable, SurplusPodsDeleted, history, ReplicaSet
<1>4. ASSUME NEW g \in Hash, DeadlinePasses(g)
      PROVE  /\ UNCHANGED <<pc, ctx, used>>
             /\ rs'[h].replicas = rs[h].replicas /\ rs'[h].available = rs[h].available
             /\ rs'[h].deadline \in {rs[h].deadline, "expired"}
  BY <1>1, <1>2, <1>4 DEF DeadlinePasses, history, ReplicaSet
<1>5. ASSUME NEW g \in Hash, PodFails(g)
      PROVE  /\ UNCHANGED <<pc, ctx>>
             /\ used'.pods = used.pods + 1
             /\ rs'[h].replicas = rs[h].replicas /\ rs'[h].deadline = rs[h].deadline
             /\ rs'[h].available + 1 >= rs[h].available
  <2>1. used'.pods = used.pods + 1
    BY <1>1, <1>5 DEF PodFails
  <2>2. rs'[h].replicas = rs[h].replicas /\ rs'[h].deadline = rs[h].deadline
        /\ rs'[h].available + 1 >= rs[h].available
    BY <1>1, <1>2, <1>5 DEF PodFails, ReplicaSet
  <2> QED BY <1>5, <2>1, <2>2 DEF PodFails
<1>6. CASE User \/ PauseElapses \/ (\E k \in RunKind : RunCompletes(k)) \/ UNCHANGED vars
  <2>1. UNCHANGED <<pc, ctx, rs>> /\ used'.pods = used.pods
    BY <1>1, <1>6 DEF User, SetTemplate, PauseRollout, PromoteRollout, PromoteRolloutFull,
                      AbortRollout, RetryRollout, Edit, PauseElapses, RunCompletes, history, vars
  <2> QED BY <2>1 DEF ServesInFull
<1>7. rs[h].replicas \in Nat /\ rs[h].available \in Nat /\ rs'[h].available \in Nat
  <2>1. rs' \in [Hash -> ReplicaSet]
    BY ClusterTyped, UserTyped, PodFailsTyped DEF IInv, TypeOK, vars
  <2> QED BY <1>1, <2>1 DEF ReplicaSet
<1>8. CASE \E g \in Hash : PodBecomesAvailable(g) \/ SurplusPodsDeleted(g)
  BY <1>2, <1>3, <1>7, <1>8 DEF ServesInFull
<1>9. CASE \E g \in Hash : DeadlinePasses(g)
  BY <1>2, <1>4, <1>7, <1>9 DEF ServesInFull
<1>10. CASE \E g \in Hash : PodFails(g)
  BY <1>2, <1>5, <1>7, <1>10 DEF ServesInFull
<1> QED BY <1>6, <1>8, <1>9, <1>10 DEF Cluster

LEMMA QuietPods ==
    ASSUME IInv, PodsInv,
           Cluster \/ User \/ (\E g \in Hash : PodFails(g)) \/ UNCHANGED vars
    PROVE  PodsInv'
<1>1. \A h \in Hash :
          /\ rs'[h].replicas = rs[h].replicas
          /\ rs[h].deadline = "expired" => rs'[h].deadline = "expired"
          /\ ServesInFull(h) => ServesInFull(h)'
  BY QuietSteps
<1>2. UNCHANGED <<pc, ctx>>
  <2>1. spec.template \in Hash
    BY DEF IInv, PromotionInv, StatusHolds
  <2> QED BY <2>1, QuietSteps
<1>3. (pc # "idle" => New \in Hash) /\ (Stable # None => Stable \in Hash)
  BY DEF IInv, PromotionInv, SnapshotHolds, TypeOK, Context, Status_, OptHash, Stable
<1>4. SaturationHolds'
  <2>1. New' = New /\ ReadyForPause' = ReadyForPause /\ IsSaturated(New)' = IsSaturated(New)
    BY <1>2, SameContext
  <2>2. pc \in BeforeSwitch => New \in Hash
    BY <1>3 DEF BeforeSwitch
  <2> QED BY <1>1, <1>2, <2>1, <2>2 DEF PodsInv, SaturationHolds
<1>5. StableScaled'
  <2>1. New' = New /\ Stable' = Stable /\ NewRSNewReplicas' = NewRSNewReplicas /\ ctx'.rs = ctx.rs
    BY <1>2, SameContext
  <2> QED BY <1>1, <1>2, <1>3, <2>1 DEF PodsInv, StableScaled
<1>6. DeadlinesHold'
  BY <1>1, <1>2, SameContext DEF PodsInv, DeadlinesHold, MayExpire
<1> QED BY <1>4, <1>5, <1>6 DEF PodsInv

LEMMA ScalingPods == IInv /\ PodsInv /\ Scaling => PodsInv'
<1> SUFFICES ASSUME IInv, PodsInv, Scaling PROVE PodsInv'
  OBVIOUS
<1>1. /\ New \in Hash /\ ~ctx.pause.addAbort /\ Replicas \in Nat
      /\ Stable # None => Stable \in Hash
  BY DEF IInv, PromotionInv, SnapshotHolds, DecisionsHold, TypeOK, Context, Status_, OptHash,
         Stable, Scaling, ReconcileStableReplicaSet, ReconcileNewReplicaSet,
         ReconcileOtherReplicaSets, ReconcileOthersFails
<1>2. /\ ctx' = ctx /\ used'.pods = used.pods
      /\ \/ pc = "stable" /\ pc' = "new"
         \/ pc = "new" /\ pc' = "others"
         \/ pc = "others" /\ pc' = "active"
  BY DEF IInv, TypeOK, Scaling, ReconcileStableReplicaSet, ReconcileNewReplicaSet,
         ReconcileOtherReplicaSets, ReconcileOthersFails
<1>3. ~ctx.status.abort => ~ShouldDelayScaleDownOnAbort
  BY <1>1 DEF ShouldDelayScaleDownOnAbort, IsAborted
<1>4. SaturationHolds'
  <2>1. SUFFICES ASSUME ~ctx.status.abort, ReadyForPause, IsSaturated(New)
                 PROVE  ServesInFull(New)'
    BY <1>2, SameContext DEF SaturationHolds
  <2>2. ServesInFull(New)
    BY <1>2, <2>1 DEF PodsInv, SaturationHolds, BeforeSwitch
  <2>3. ctx.rs[New].replicas = Replicas /\ NewRSNewReplicas = Replicas
    BY <2>1 DEF ReadyForPause, IsSaturated, FullyAvailable
  <2>4. ~MayExpire(New)
    BY <1>3, <2>1 DEF MayExpire
  <2>5. rs'[New].available = rs[New].available /\ rs'[New].replicas = rs[New].replicas
    BY <1>1, <2>3, <2>4, StageWrites
  <2>6. New' = New
    BY <1>2 DEF New
  <2> QED BY <1>2, <2>2, <2>5, <2>6 DEF ServesInFull
<1>5. StableScaled'
  <2>1. SUFFICES ASSUME Stable # None, Stable = New => NewRSNewReplicas = Replicas
                 PROVE  rs'[Stable].replicas = Replicas
    BY <1>2, SameContext DEF StableScaled
  <2>2. Stable \in Hash /\ ~MayExpire(Stable)
    BY <1>1, <2>1 DEF MayExpire
  <2>3. CASE pc = "stable"
    <3>1. rs[Stable].replicas = ctx.rs[Stable].replicas
      BY <2>1, <2>3 DEF PodsInv, StableScaled
    <3> QED BY <2>1, <2>2, <2>3, <3>1, StageWrites
  <2>4. CASE pc \in {"new", "others"}
    <3>1. rs[Stable].replicas = Replicas
      BY <2>1, <2>4 DEF PodsInv, StableScaled
    <3> QED BY <2>1, <2>2, <3>1, StageWrites
  <2> QED BY <1>2, <2>3, <2>4
<1>6. DeadlinesHold'
  <2>1. SUFFICES ASSUME pc' \in {"new", "others"}, NEW h \in Hash, MayExpire(h)',
                        ctx.rs[h].deadline = "expired"
                 PROVE  rs'[h].deadline = "expired"
    BY <1>2 DEF DeadlinesHold, BeforeSwitch
  <2>2. MayExpire(h) /\ h # Stable /\ (pc = "new" => h # New)
    BY <1>2, <2>1, SameContext DEF MayExpire
  <2>3. rs[h].deadline = "expired"
    BY <1>2, <2>1, <2>2 DEF PodsInv, DeadlinesHold, BeforeSwitch
  <2> QED BY <1>2, <2>1, <2>2, <2>3, StageWrites
<1> QED BY <1>4, <1>5, <1>6 DEF PodsInv

LEMMA StartPods == IInv /\ StartSync => PodsInv'
<1> SUFFICES ASSUME IInv, StartSync PROVE PodsInv'
  OBVIOUS
<1>1. /\ pc' = "preview" /\ ctx'.rs = rs' /\ used' = used
      /\ rs' \in [Hash -> ReplicaSet] /\ used'.pods \in Nat
  <2>1. TypeOK'
    BY StartSyncTyped DEF IInv, PromotionInv, StatusHolds
  <2> QED BY <2>1 DEF StartSync, TypeOK
<1>2. New' \in Hash
  BY DEF StartSync, New, IInv, PromotionInv, StatusHolds
<1>3. rs'[New'] \in ReplicaSet
  BY <1>1, <1>2
<1>4. SaturationHolds'
  BY <1>1, <1>3 DEF SaturationHolds, IsSaturated, FullyAvailable, ServesInFull, ReplicaSet
<1>5. StableScaled' /\ DeadlinesHold'
  BY <1>1 DEF StableScaled, DeadlinesHold
<1> QED BY <1>4, <1>5 DEF PodsInv

LEMMA DeadlinePods ==
    IInv /\ PodsInv /\ (ReconcilePreviewService \/ RemoveScaleDownDeadlines) => PodsInv'
<1> SUFFICES ASSUME IInv, PodsInv, ReconcilePreviewService \/ RemoveScaleDownDeadlines
             PROVE  PodsInv'
  OBVIOUS
<1>1. /\ ctx' = ctx /\ used' = used
      /\ pc \in {"preview", "deadlines"} /\ pc' \in {"deadlines", "stable", "sync"}
      /\ New \in Hash /\ (Stable # None => Stable \in Hash)
  BY DEF IInv, PromotionInv, SnapshotHolds, TypeOK, Context, Status_, OptHash, Stable,
         ReconcilePreviewService, RemoveScaleDownDeadlines
<1>2. ASSUME NEW h \in Hash
      PROVE  /\ rs'[h].replicas = rs[h].replicas /\ rs'[h].available = rs[h].available
             /\ h # Stable /\ (h = New => ShouldDelayScaleDownOnAbort)
                  => rs'[h].deadline = rs[h].deadline
  <2>1. rs[h] \in ReplicaSet
    BY DEF IInv, TypeOK
  <2> QED BY <2>1 DEF ReconcilePreviewService, RemoveScaleDownDeadlines, ReplicaSet
<1>3. SaturationHolds'
  <2>1. New' = New /\ ReadyForPause' = ReadyForPause /\ IsSaturated(New)' = IsSaturated(New)
    BY <1>1, SameContext
  <2>2. ServesInFull(New) => ServesInFull(New)'
    BY <1>1, <1>2, <2>1 DEF ServesInFull
  <2> QED BY <1>1, <2>1, <2>2 DEF PodsInv, SaturationHolds, BeforeSwitch
<1>4. StableScaled'
  BY <1>1, <1>2, SameContext DEF PodsInv, StableScaled
<1>5. DeadlinesHold'
  BY <1>1, <1>2, SameContext DEF PodsInv, DeadlinesHold, MayExpire, BeforeSwitch
<1> QED BY <1>3, <1>4, <1>5 DEF PodsInv

(* Until a reconcile moves the active Service, the pods it counted and the *)
(* deadlines it read are still as it read them, but for pods that failed.  *)
LEMMA PodsInvariance == Spec => []PodsInv
<1>1. Init => PodsInv
  BY DEF Init, PodsInv, SaturationHolds, StableScaled, DeadlinesHold, BeforeSwitch, Stable,
         NoContext, NoStatus
<1>2. IInv /\ PodsInv /\ [Next]_vars => PodsInv'
  <2> SUFFICES ASSUME IInv, PodsInv, [Next]_vars PROVE PodsInv'
    OBVIOUS
  <2>1. CASE ReconcileActiveService \/ ReconcileAnalysisRuns \/ SyncRolloutStatus \/ ReconcileFails
    <3>1. pc' \in {"analysis", "sync", "idle"}
      BY <2>1 DEF ReconcileActiveService, ReconcileAnalysisRuns, SyncRolloutStatus,
                  ReconcileFails
    <3> QED BY <3>1 DEF PodsInv, SaturationHolds, StableScaled, DeadlinesHold, BeforeSwitch
  <2> QED BY <2>1, QuietPods, ScalingPods, StartPods, DeadlinePods
       DEF Next, Reconcile, Failure, Scaling
<1> QED BY <1>1, <1>2, Invariance, PTL DEF Spec

(* The active Service only ever moves to a version that is scaled to       *)
(* spec.replicas and, unless an abort takes it back, has all its pods but  *)
(* those that failed since, whatever happens between the snapshot, the     *)
(* scaling of four sets of pods and the switch (IsSaturated).              *)
THEOREM SwitchTargetIsScaled == Spec => SwitchTargetScaled
<1>1. ASSUME IInv, PodsInv, [Next]_vars, ActiveSwitches, svc'.active # None
      PROVE  /\ rs[svc'.active].replicas = Replicas
             /\ ctx.status.abort \/ ServesInFull(svc'.active)
  <2>1. svc'.active # svc.active /\ ReconcileActiveService
    BY <1>1, ActiveWriters DEF ActiveSwitches
  <2>2. /\ ReadyForPause /\ IsSaturated(New)
        /\ svc'.active = IF ctx.status.abort THEN Stable ELSE New
    BY <1>1, <2>1 DEF ReconcileActiveService, IInv, TypeOK
  <2>3. NewRSNewReplicas = Replicas
    BY <2>2 DEF ReadyForPause, IsSaturated, FullyAvailable
  <2>4. CASE ctx.status.abort
    BY <1>1, <2>1, <2>2, <2>3, <2>4 DEF PodsInv, StableScaled, ReconcileActiveService
  <2>5. CASE ~ctx.status.abort
    BY <1>1, <2>1, <2>2, <2>5
       DEF PodsInv, SaturationHolds, ServesInFull, BeforeSwitch, ReconcileActiveService
  <2> QED BY <2>4, <2>5
<1>2. IInv /\ PodsInv /\ [Next]_vars =>
        [ActiveSwitches /\ svc'.active # None =>
          /\ rs[svc'.active].replicas = Replicas
          /\ ctx.status.abort \/ ServesInFull(svc'.active)]_vars
  BY <1>1
<1> QED BY <1>2, PodsInvariance, Invariance, PTL DEF Spec, SwitchTargetScaled

\* What a stage writes is spec.replicas or the count of a new version, or
\* the end of a version whose deadline had passed.
LEMMA CountsWritten ==
    ASSUME IInv, Scaling, NEW h \in Hash, rs'[h].replicas < rs[h].replicas
    PROVE  \/ rs'[h].replicas >= Replicas
           \/ ScaledForPreview(h)
           \/ MayExpire(h) /\ ctx.rs[h].deadline = "expired"
<1>1. rs[h].replicas \in Nat /\ Replicas \in Nat
  BY ReplicasAssumption DEF IInv, TypeOK, ReplicaSet
<1>2. CASE h = New /\ rs'[h].replicas = NewRSNewReplicas
  BY <1>1, <1>2 DEF NewRSNewReplicas, ScaledForPreview
<1> QED BY <1>1, <1>2, StageWrites

\* No ReplicaSet is ever asked for more pods than the greater of the counts.
ReplicasBounded ==
    \A h \in Hash :
        \/ rs[h].replicas <= Replicas
        \/ PreviewReplicaCount # None /\ rs[h].replicas <= PreviewReplicaCount

(* No version is ever scaled above spec.replicas, or above the preview     *)
(* count where that is greater (scaleReplicaSet and all its callers).      *)
THEOREM CountsAreBounded == Spec => []ReplicasBounded
<1>1. Init => ReplicasBounded
  BY ReplicasAssumption DEF Init, ReplicasBounded, NoReplicaSet
<1>2. ASSUME IInv, ReplicasBounded, [Next]_vars, NEW h \in Hash
      PROVE  \/ rs'[h].replicas <= Replicas
             \/ PreviewReplicaCount # None /\ rs'[h].replicas <= PreviewReplicaCount
  <2>1. CASE rs'[h].replicas = rs[h].replicas
    BY <1>2, <2>1 DEF ReplicasBounded
  <2>2. CASE Scaling /\ rs'[h].replicas \in {0, Replicas, NewRSNewReplicas}
    BY <2>2, ReplicasAssumption, StrategyAssumption DEF NewRSNewReplicas
  <2> QED BY <1>2, <2>1, <2>2, ScalingOnly, StageWrites
<1>3. IInv /\ ReplicasBounded /\ [Next]_vars => ReplicasBounded'
  BY <1>2 DEF ReplicasBounded
<1> QED BY <1>1, <1>3, Invariance, PTL DEF Spec

(* The stable version loses pods to no stage of a reconcile: not for an    *)
(* abort, not as an old ReplicaSet whose deadline passed, not on any       *)
(* snapshot it may have taken, other than those beyond spec.replicas and,  *)
(* with previewReplicaCount, when it is rolled out again.                  *)
THEOREM StableKeepsItsPods == Spec => StableNeverScaledDown
<1>1. ASSUME IInv, [Next]_vars, NEW h \in Hash, h = status.stableRS,
             rs'[h].replicas < rs[h].replicas
      PROVE  rs'[h].replicas >= Replicas \/ ScaledForPreview(h)
  <2>1. rs[h].replicas \in Nat
    BY <1>1 DEF IInv, TypeOK, ReplicaSet
  <2>2. Scaling
    BY <1>1, <2>1, ScalingOnly
  <2>3. h = Stable
    BY <1>1, <2>2 DEF IInv, PromotionInv, SnapshotHolds, Stable, Scaling,
       ReconcileStableReplicaSet, ReconcileNewReplicaSet, ReconcileOtherReplicaSets,
       ReconcileOthersFails
  <2> QED BY <1>1, <2>2, <2>3, CountsWritten DEF MayExpire
<1>2. IInv /\ [Next]_vars =>
        [\A h \in Hash :
            h = status.stableRS /\ rs'[h].replicas < rs[h].replicas
            => rs'[h].replicas >= Replicas \/ ScaledForPreview(h)]_vars
  BY <1>1
<1> QED BY <1>2, Invariance, PTL DEF Spec, StableNeverScaledDown

(* A version that has served loses the pods of spec.replicas only after    *)
(* its scale-down deadline passed, to no stage of a reconcile, no abort    *)
(* and no conflicting write earlier (scaleDownDelayHelper), except that    *)
(* with previewReplicaCount it may be rolled out again.                    *)
THEOREM ScaleDownIsDelayed == Spec => DelayedScaleDown
<1>1. ASSUME IInv, PodsInv, [Next]_vars,
             NEW h \in wasActive, rs'[h].replicas < rs[h].replicas
      PROVE  \/ rs[h].deadline = "expired"
             \/ rs'[h].replicas >= Replicas
             \/ ScaledForPreview(h)
  <2>1. h \in Hash /\ rs[h].replicas \in Nat
    BY <1>1 DEF IInv, TypeOK, ReplicaSet
  <2>2. Scaling
    BY <1>1, <2>1, ScalingOnly
  <2>3. pc \in BeforeSwitch \ {"active"}
    BY <2>2 DEF BeforeSwitch, Scaling, ReconcileStableReplicaSet, ReconcileNewReplicaSet,
                ReconcileOtherReplicaSets, ReconcileOthersFails
  <2> QED BY <1>1, <2>1, <2>2, <2>3, CountsWritten DEF PodsInv, DeadlinesHold
<1>2. IInv /\ PodsInv /\ [Next]_vars =>
        [\A h \in wasActive :
            rs'[h].replicas < rs[h].replicas
            => \/ rs[h].deadline = "expired"
               \/ rs'[h].replicas >= Replicas
               \/ ScaledForPreview(h)]_vars
  BY <1>1
<1> QED BY <1>2, PodsInvariance, Invariance, PTL DEF Spec, DelayedScaleDown

-----------------------------------------------------------------------------
(* What takes an abort back.                                               *)

LEMMA DropsInvariance == Spec => []DropsHold
<1>1. Init => DropsHold
  BY DEF Init, DropsHold
<1>2. IInv /\ DropsHold /\ [Next]_vars => DropsHold'
  <2> SUFFICES ASSUME IInv, DropsHold, [Next]_vars PROVE DropsHold'
    OBVIOUS
  <2>1. CASE StartSync
    BY <2>1 DEF StartSync, DropsHold, Stable, NoPause
  <2>2. CASE SyncRolloutStatus \/ ReconcileFails
    BY <2>2 DEF SyncRolloutStatus, ReconcileFails, DropsHold
  <2>3. CASE ReconcileActiveService
    <3>1. ctx.pause \in Pause_
      BY DEF IInv, TypeOK, Context
    <3>2. DecidedPause(ctx.pause).removeAbort = ctx.pause.removeAbort
      BY <3>1 DEF DecidedPause, Pause_
    <3>3. ctx'.status = ctx.status /\ ctx'.pause.removeAbort = ctx.pause.removeAbort /\ pc # "idle"
      BY <2>3, <3>2 DEF ReconcileActiveService, IInv, TypeOK, Context
    <3> QED BY <3>3 DEF DropsHold, Stable
  <2>4. CASE ReconcileAnalysisRuns
    <3>1. ctx'.status = ctx.status /\ ctx'.pause.removeAbort = ctx.pause.removeAbort /\ pc # "idle"
      BY <2>4 DEF ReconcileAnalysisRuns, IInv, TypeOK, Context, Pause_
    <3> QED BY <3>1 DEF DropsHold, Stable
  <2>5. CASE UNCHANGED <<pc, ctx>>
    BY <2>5 DEF DropsHold, Stable
  <2>6. CASE ReconcilePreviewService \/ RemoveScaleDownDeadlines \/ Scaling
    <3>1. UNCHANGED ctx /\ pc # "idle"
      BY <2>6 DEF ReconcilePreviewService, RemoveScaleDownDeadlines, Scaling,
                  ReconcileStableReplicaSet, ReconcileNewReplicaSet, ReconcileOtherReplicaSets,
                  ReconcileOthersFails
    <3> QED BY <3>1 DEF DropsHold, Stable
  <2>7. spec.template \in Hash
    BY DEF IInv, PromotionInv, StatusHolds
  <2> QED BY <2>1, <2>2, <2>3, <2>4, <2>5, <2>6, <2>7, QuietSteps
       DEF Next, Reconcile, Failure, Scaling
<1> QED BY <1>1, <1>2, Invariance, PTL DEF Spec

\* Why the status update of a reconcile would drop the abort that it read
LEMMA DroppedAborts ==
    ASSUME IInv, DropsHold, SyncRolloutStatus, NEW timedOut \in BOOLEAN,
           ctx.status.abort, ~NewStatus(timedOut).abort
    PROVE  \/ Stable = ctx.status.currentPodHash
           \/ CheckPodSpecChange \/ Promotes
           \/ ctx.status.promoteFull
<1> DEFINE p == [Decided EXCEPT !.addAbort = @ \/ timedOut]
<1>1. ctx.pause \in Pause_ /\ ctx.status \in Status_ /\ pc # "idle"
  BY DEF IInv, TypeOK, Context, SyncRolloutStatus
<1>2. /\ Dropped \in Pause_
      /\ Dropped.removeAbort =
            (ctx.pause.removeAbort \/ CheckPodSpecChange \/ ctx.status.promoteFull)
  BY <1>1 DEF Dropped, Pause_
<1>3. /\ Decided \in Pause_
      /\ Decided.removeAbort = (Dropped.removeAbort \/ Promotes)
  BY <1>2 DEF Decided, Pause_
<1>4. p \in Pause_ /\ p.removeAbort = Decided.removeAbort
  BY <1>3 DEF Pause_
<1>5. NewStatus(timedOut).abort = PauseStatus(p).abort
  BY DEF NewStatus
<1> HIDE DEF p
<1>6. p.removeAbort
  BY <1>5 DEF PauseStatus
<1> QED BY <1>1, <1>2, <1>3, <1>4, <1>6 DEF DropsHold

(* An abort survives every status update of the controller until what it   *)
(* stops is stable, replaced or promoted in full: neither the merge patch  *)
(* of a reconcile that read the status earlier nor the dropping of a       *)
(* promoted rollout's abort loses one (CalculatePauseStatus).              *)
THEOREM AbortIsKept == Spec => AbortKept
<1>1. ASSUME IInv, DropsHold, [Next]_vars, status.abort, ~status'.abort, pc' # pc
      PROVE  \/ status'.stableRS = status'.currentPodHash
             \/ status'.currentPodHash # status.currentPodHash
             \/ ctx.status.promoteFull
  <2>1. SyncRolloutStatus
    <3>1. status' # status /\ pc' # pc
      BY <1>1
    <3> QED BY <1>1, <3>1
         DEF Next, vars, Reconcile, Cluster, User, Failure, StartSync, ReconcilePreviewService,
             RemoveScaleDownDeadlines, ReconcileStableReplicaSet, ReconcileNewReplicaSet,
             ReconcileOtherReplicaSets, ReconcileActiveService, ReconcileAnalysisRuns,
             ReconcileFails, ReconcileOthersFails, PodBecomesAvailable, SurplusPodsDeleted,
             PodFails, DeadlinePasses, PauseElapses, RunCompletes, SetTemplate, PauseRollout,
             PromoteRollout, PromoteRolloutFull, AbortRollout, RetryRollout, Edit, objects
  <2>2. PICK timedOut \in BOOLEAN : status' = Merged(status, ctx.status, NewStatus(timedOut))
    BY <2>1 DEF SyncRolloutStatus
  <2>3. /\ New \in Hash /\ Stable = status.stableRS
        /\ ctx.status.currentPodHash = status.currentPodHash
    BY <1>1, <2>1 DEF IInv, PromotionInv, SnapshotHolds, SyncRolloutStatus, Stable
  <2>4. /\ status'.stableRS = IF Promotes THEN New ELSE status.stableRS
        /\ status'.currentPodHash = New
    BY <1>1, <2>1, SyncedStatus
  <2>5. ~NewStatus(timedOut).abort /\ ctx.status.abort
    <3>1. status'.abort = IF NewStatus(timedOut).abort = ctx.status.abort
                          THEN status.abort ELSE NewStatus(timedOut).abort
      BY <2>2 DEF Merged, Patched
    <3>2. ctx.status.abort \in BOOLEAN /\ NewStatus(timedOut).abort \in BOOLEAN
      BY <1>1 DEF IInv, TypeOK, Context, Status_, NewStatus, PauseStatus
    <3> QED BY <1>1, <3>1, <3>2
  <2>6. \/ Stable = ctx.status.currentPodHash
        \/ CheckPodSpecChange \/ Promotes
        \/ ctx.status.promoteFull
    BY <1>1, <2>1, <2>5, DroppedAborts
  <2>7. Stable = ctx.status.currentPodHash =>
           status'.currentPodHash # status.currentPodHash \/ status'.stableRS = status'.currentPodHash
    BY <2>3, <2>4
  <2> QED BY <2>3, <2>4, <2>6, <2>7 DEF CheckPodSpecChange
<1>2. IInv /\ DropsHold /\ [Next]_vars =>
        [status.abort /\ ~status'.abort /\ pc' # pc =>
          \/ status'.stableRS = status'.currentPodHash
          \/ status'.currentPodHash # status.currentPodHash
          \/ ctx.status.promoteFull]_vars
  BY <1>1
<1> QED BY <1>2, DropsInvariance, Invariance, PTL DEF Spec, AbortKept
=============================================================================
