------------------------ MODULE CanaryPromotionProofs ------------------------
(***************************************************************************)
(* A version of a traffic-routed canary passes its analyses and pauses     *)
(* before it gets the traffic of the steps behind them and before it       *)
(* replaces the stable one, a version whose update was aborted keeps its   *)
(* pods and gives its traffic back before they go, and no version is left  *)
(* with fewer pods than its traffic needs, for every sequence of steps and *)
(* every number of versions, users' commands, lost reconciles and retries. *)
(***************************************************************************)
EXTENDS CanaryProofs

-----------------------------------------------------------------------------
(* The runs and the pauses that a reconcile works with.                    *)

\* A run keeps its version and its step while it goes on
SameRun(r, s) == (s = r \/ (s # NoRun /\ r # NoRun)) /\ s.hash = r.hash /\ s.index = r.index

LEMMA SameRunOfStep ==
    ASSUME NEW r, NEW s, NEW hash, SameRun(r, s), RunOfStep(r, hash)
    PROVE  RunOfStep(s, hash) /\ (r # NoRun => s # NoRun)
BY DEF SameRun, RunOfStep

LEMMA CancelledSameRun ==
    ASSUME NEW r \in Run_
    PROVE  SameRun(r, Cancelled(r))
BY DEF Run_, Cancelled, SameRun, NoRun

LEMMA CompletedSameRun ==
    ASSUME NEW r \in Run_, r.phase = "Running", NEW outcome \in Outcome
    PROVE  SameRun(r, [r EXCEPT !.phase = outcome])
BY DEF Run_, SameRun, NoRun, Outcome

(* What becomes of the run of an analysis step.                            *)
LEMMA StepPlan ==
    ASSUME TypeOK, RunsHeld, pc = "runs", New = ctx.status.currentPodHash,
           NEW p, p \in {ReconcileStepRun, [Keep("step") EXCEPT !.run = Cancelled(run["step"])]}
    PROVE  /\ SameRun(run["step"], p.run)
           /\ RunOfStep(p.seen, ctx.status.currentPodHash)
           /\ p.named # "none" => p.seen # NoRun
           /\ p.named = "created" => p.fresh # NoRun /\ RunOfStep(p.fresh, New)
           /\ p.acts => AtStep("analysis")
<1>1. run["step"] \in Run_ /\ fresh["step"] \in Run_ /\ ctx.run["step"] \in Run_
  BY ContextTypes DEF TypeOK, Kind
<1>2. SameRun(run["step"], run["step"]) /\ SameRun(run["step"], Cancelled(run["step"]))
  BY <1>1, CancelledSameRun DEF SameRun
<1>3. RunOfStep(ctx.run["step"], ctx.status.currentPodHash)
  BY DEF RunsHeld
<1> DEFINE Fits(q) == /\ SameRun(run["step"], q.run)
                      /\ RunOfStep(q.seen, ctx.status.currentPodHash)
                      /\ q.named # "none" => q.seen # NoRun
                      /\ q.named = "created" => q.fresh # NoRun /\ RunOfStep(q.fresh, New)
                      /\ q.acts => AtStep("analysis")
<1>4. Fits(Keep("step"))
  BY <1>2, <1>3 DEF Keep
<1>5. Fits(Cancel("step")) /\ Fits([Keep("step") EXCEPT !.run = Cancelled(run["step"])])
  BY <1>2, <1>3 DEF Keep, Cancel
<1>6. AtStep("analysis") => Fits(Watch("step"))
  BY <1>2, <1>3 DEF Keep, Watch
<1>7. ASSUME AtStep("analysis") PROVE Fits(Start("step", Index))
  <2>1. Index < StepCount /\ StepKind(Index) = "analysis"
    BY <1>7 DEF AtStep, HasStep, StepKind
  <2>2. CASE Claimable(run["step"], Index)
    <3>1. RunOfStep(run["step"], New) /\ run["step"] # NoRun
      BY <2>1, <2>2 DEF Claimable, RunOfStep, NoRun
    <3>2. Start("step", Index) = [Keep("step") EXCEPT !.seen = run["step"]]
      BY <2>2 DEF Start
    <3> QED
      BY <1>2, <3>1, <3>2 DEF Keep
  <2>3. CASE ~Claimable(run["step"], Index)
    <3> DEFINE s == Started("step", Index)
    <3>1. RunOfStep(s, New) /\ s # NoRun
      BY <2>1 DEF Started, Claimable, RunOfStep, NoRun
    <3> HIDE DEF s
    <3>2. Start("step", Index) =
             [Keep("step") EXCEPT !.fresh = s, !.seen = s, !.named = "created"]
      BY <2>3 DEF Start, s
    <3>3. Start("step", Index) = [run |-> run["step"], fresh |-> s, seen |-> s,
                                  named |-> "created", acts |-> FALSE]
      BY <3>2 DEF Keep
    <3>4. RunOfStep(s, ctx.status.currentPodHash)
      BY <3>1
    <3> QED
      BY <1>2, <3>1, <3>3, <3>4
  <2> QED
    BY <2>2, <2>3
<1>8. Fits(ReconcileStepRun)
  BY <1>4, <1>5, <1>6, <1>7, Zenon DEF ReconcileStepRun
<1> QED
  BY <1>5, <1>8

(* What a reconcile pauses for: the background analysis, or the step.      *)
LEMMA ActingRuns ==
    /\ ReconcileExperiments.acts => AtStep("experiment")
    /\ ReconcileBackgroundRun.acts => Background
<1>1. /\ ~Keep("experiment").acts /\ ~Drop("experiment").acts /\ ~Cancel("experiment").acts
      /\ ~Start("experiment", Index).acts
      /\ ~[Drop("experiment") EXCEPT !.fresh = fresh["experiment"]].acts
      /\ ~Keep("background").acts /\ ~Drop("background").acts /\ ~Cancel("background").acts
  BY DEF Keep, Drop, Cancel, Start
<1>2. ReconcileExperiments.acts => AtStep("experiment")
  BY <1>1 DEF ReconcileExperiments
<1>3. ReconcileBackgroundRun.acts => Background
  BY <1>1 DEF ReconcileBackgroundRun
<1> QED
  BY <1>2, <1>3

LEMMA ReconcileRunsHolds ==
    ASSUME TypeOK, SnapshotHeld, RunsHeld, AddsHeld, ReconcileRuns
    PROVE  RunsHeld' /\ AddsHeld'
<1> DEFINE ex == ReconcileExperiments
           exEnds == ex.acts /\ ctx.run["experiment"].phase = "Failed"
           exPauses == ex.acts /\ ctx.run["experiment"].phase = "Inconclusive"
           skip == SkipAnalysis([ctx.pause EXCEPT !.addAbort = @ \/ exEnds])
           Skipped(k) == [Keep(k) EXCEPT !.run = Cancelled(run[k])]
           plan == [k \in Kind |-> IF k = "experiment" THEN ex
                                   ELSE IF skip THEN Skipped(k)
                                   ELSE IF k = "step" THEN ReconcileStepRun
                                   ELSE ReconcileBackgroundRun]
           phases == {ctx.run[k].phase : k \in {j \in Kind \ {"experiment"} : plan[j].acts}}
           add == (IF exPauses THEN {"InconclusiveExperiment"} ELSE {})
                   \cup (IF "Inconclusive" \in phases THEN {"InconclusiveAnalysisRun"} ELSE {})
<1>1. /\ run' = [k \in Kind |-> plan[k].run]
      /\ fresh' = [k \in Kind |-> plan[k].fresh]
      /\ ctx' = [ctx EXCEPT !.run = [k \in Kind |-> plan[k].seen],
                            !.named = [k \in Kind |-> plan[k].named],
                            !.pause.add = add,
                            !.pause.addAbort = exEnds \/ "Failed" \in phases]
      /\ pc = "runs" /\ pc' # "idle" /\ UNCHANGED status
  BY Zenon DEF ReconcileRuns
<1>2. Kind = {"step", "background", "experiment"}
  BY DEF Kind
<1>3. plan["step"] \in {ReconcileStepRun, Skipped("step")}
  BY <1>2
<1>4. plan["background"] \in {ReconcileBackgroundRun, Skipped("background")}
  BY <1>2
<1>5. ~Skipped("background").acts
  BY DEF Keep
<1>6. New = ctx.status.currentPodHash /\ ctx.status.currentPodHash = status.currentPodHash
  BY <1>1 DEF SnapshotHeld, New
<1>7. add # {} => Background \/ AtStep("analysis") \/ AtStep("experiment")
  <2>1. plan["step"].acts => AtStep("analysis")
    BY <1>1, <1>3, <1>6, StepPlan
  <2>2. plan["background"].acts => Background
    BY <1>4, <1>5, ActingRuns
  <2>3. exPauses => AtStep("experiment")
    BY ActingRuns
  <2>4. phases # {} => plan["step"].acts \/ plan["background"].acts
    BY <1>2
  <2> QED
    BY <2>1, <2>2, <2>3, <2>4
<1>8. "CanaryPauseStep" \notin add
  OBVIOUS
<1> HIDE DEF plan, phases, add, exEnds, exPauses, skip, ex, Skipped
<1> DEFINE runs == [k \in Kind |-> plan[k].seen]
           names == [k \in Kind |-> plan[k].named]
           ends == exEnds \/ "Failed" \in phases
<1>9. runs["step"] = plan["step"].seen /\ names["step"] = plan["step"].named
      /\ run'["step"] = plan["step"].run /\ fresh'["step"] = plan["step"].fresh
  BY <1>1, <1>2
<1>10. ctx' = [ctx EXCEPT !.run = runs, !.named = names, !.pause.add = add,
                          !.pause.addAbort = ends]
  BY <1>1 DEF runs, names, ends
<1> HIDE DEF runs, names, ends
<1>11. /\ ctx'.run = runs /\ ctx'.named = names /\ ctx'.status = ctx.status
       /\ ctx'.spec = ctx.spec
       /\ ctx'.pause = [ctx.pause EXCEPT !.add = add, !.addAbort = ends]
  BY <1>10 DEF TypeOK, Context
<1>12. ctx'.pause.add = add /\ ctx'.pause.remove = ctx.pause.remove
       /\ ctx'.pause.clear = ctx.pause.clear
  BY <1>11, ContextTypes DEF Pause_
<1>13. RunsHeld'
  <2>1. /\ SameRun(run["step"], plan["step"].run)
        /\ RunOfStep(plan["step"].seen, ctx.status.currentPodHash)
        /\ plan["step"].named # "none" => plan["step"].seen # NoRun
        /\ plan["step"].named = "created" =>
              plan["step"].fresh # NoRun /\ RunOfStep(plan["step"].fresh, New)
    BY <1>1, <1>3, <1>6, StepPlan DEF Skipped
  <2>2. RunOfStep(run["step"], status.currentPodHash)
    BY DEF RunsHeld
  <2>3. RunOfStep(run'["step"], status'.currentPodHash)
    BY <1>1, <1>9, <2>1, <2>2, SameRunOfStep
  <2> QED
    BY <1>6, <1>9, <1>11, <2>1, <2>3 DEF RunsHeld, New
<1>14. AddsHeld'
  <2>1. AtStep("analysis") \/ AtStep("experiment") =>
           (AtStep("analysis") \/ AtStep("experiment"))'
    BY <1>11 DEF AtStep, HasStep, Index
  <2> QED
    BY <1>6, <1>7, <1>8, <1>11, <1>12, <2>1 DEF AddsHeld, New
<1> QED
  BY <1>13, <1>14

LEMMA SyncRunsHolds ==
    ASSUME TypeOK, SnapshotHeld, RunsHeld, SyncRolloutStatus
    PROVE  RunsHeld' /\ AddsHeld'
<1>1. pc # "idle" /\ pc' = "idle" /\ ctx' = NoContext
  BY DEF SyncRolloutStatus
<1>2. run'["step"] = IF ~StillNamed("step") THEN NoRun
                     ELSE IF ctx.named["step"] = "created" THEN fresh["step"] ELSE run["step"]
  BY DEF SyncRolloutStatus, Kind
<1>3. StillNamed("step") => status'.currentPodHash = status.currentPodHash
  <2>1. status'.currentPodHash = Patched(status.currentPodHash, ctx.status.currentPodHash, New)
    BY DEF SyncRolloutStatus, Merged, NewStatus
  <2> QED
    BY <2>1 DEF Patched, StillNamed, Changed
<1>4. RunOfStep(run'["step"], status'.currentPodHash)
  <2>1. CASE ~StillNamed("step")
    BY <1>2, <2>1 DEF RunOfStep
  <2>2. CASE StillNamed("step")
    <3>1. ctx.spec.template = status.currentPodHash
      BY <1>1, <2>2 DEF StillNamed, Changed, SnapshotHeld, New
    <3> QED
      BY <1>1, <1>2, <1>3, <2>2, <3>1 DEF RunsHeld
  <2> QED
    BY <2>1, <2>2
<1> QED
  BY <1>1, <1>4 DEF RunsHeld, AddsHeld, NoContext, NoPause

(* The status names a run of the version being released, of an analysis    *)
(* step, and a reconcile pauses for a run it acts on.                      *)
LEMMA RunsKept ==
    ASSUME TypeOK, SnapshotHeld, RunsHeld, AddsHeld, [Next]_vars
    PROVE  RunsHeld' /\ AddsHeld'
<1>1. CASE StartSync
  <2>1. /\ ctx'.run = run /\ ctx'.status = status /\ ctx'.named["step"] = "none"
        /\ ctx'.pause.add = {} /\ ~ctx'.pause.remove /\ ~ctx'.pause.clear
    BY <1>1 DEF StartSync, NoContext, NoPause, Kind
  <2> QED
    BY <1>1, <2>1 DEF StartSync, RunsHeld, AddsHeld
<1>2. CASE UNCHANGED <<status, run, fresh, pc, ctx>>
  BY <1>2 DEF RunsHeld, AddsHeld, AtStep, HasStep, Index
<1>3. CASE ReconcileTrafficRouting
  <2>1. \/ ctx' = NoContext /\ pc' = "idle"
        \/ pc' # "idle" /\ \E b, w : ctx' = [ctx EXCEPT !.weights = w, !.verified = b]
    BY <1>3 DEF ReconcileTrafficRouting
  <2>2. UNCHANGED <<status, run, fresh>> /\ pc # "idle"
    BY <1>3 DEF ReconcileTrafficRouting
  <2>3. CASE ctx' = NoContext /\ pc' = "idle"
    BY <2>2, <2>3 DEF RunsHeld, AddsHeld, NoContext, NoPause
  <2>4. ASSUME pc' # "idle", NEW b, NEW w, ctx' = [ctx EXCEPT !.weights = w, !.verified = b]
        PROVE  RunsHeld' /\ AddsHeld'
    <3>1. /\ ctx'.status = ctx.status /\ ctx'.run = ctx.run /\ ctx'.named = ctx.named
          /\ ctx'.spec = ctx.spec /\ ctx'.pause = ctx.pause
      BY <2>4 DEF TypeOK, Context
    <3> QED
      BY <2>2, <2>4, <3>1 DEF RunsHeld, AddsHeld, AtStep, HasStep, Index
  <2> QED
    BY <2>1, <2>3, <2>4
<1>4. CASE UNCHANGED <<status, run, fresh, ctx>> /\ pc # "idle"
  BY <1>4 DEF RunsHeld, AddsHeld, AtStep, HasStep, Index
<1>5. CASE Stops
  BY <1>5 DEF Stops, RunsHeld, AddsHeld, NoContext, NoPause
<1>6. CASE User
  <2>1. status'.currentPodHash = status.currentPodHash /\ UNCHANGED <<ctx, pc, run, fresh>>
    BY <1>6, UserPatches DEF UserPatch
  <2> QED
    BY <2>1 DEF RunsHeld, AddsHeld, AtStep, HasStep, Index
<1>7. ASSUME NEW k \in Kind, RunCompletes(k)
      PROVE  RunsHeld' /\ AddsHeld'
  <2>1. run["step"] \in Run_ /\ fresh["step"] \in Run_ /\ run[k] \in Run_ /\ fresh[k] \in Run_
    BY DEF TypeOK, Kind
  <2>2. SameRun(run["step"], run'["step"]) /\ SameRun(fresh["step"], fresh'["step"])
    <3>1. SameRun(run["step"], run["step"]) /\ SameRun(fresh["step"], fresh["step"])
      BY DEF SameRun
    <3>2. CASE k = "step"
      <4>1. \/ run["step"].phase = "Running"
               /\ \E o \in Outcome : run'["step"] = [run["step"] EXCEPT !.phase = o]
               /\ UNCHANGED fresh
            \/ fresh["step"].phase = "Running"
               /\ \E o \in Outcome : fresh'["step"] = [fresh["step"] EXCEPT !.phase = o]
               /\ UNCHANGED run
        BY <1>7, <3>2 DEF RunCompletes, TypeOK
      <4> QED
        BY <2>1, <3>1, <4>1, CompletedSameRun
    <3>3. CASE k # "step"
      <4>1. run'["step"] = run["step"] /\ fresh'["step"] = fresh["step"]
        BY <1>7, <3>3 DEF RunCompletes, TypeOK, Kind
      <4> QED
        BY <3>1, <4>1
    <3> QED
      BY <3>2, <3>3
  <2>3. UNCHANGED <<status, pc, ctx>>
    BY <1>7 DEF RunCompletes
  <2>4. RunOfStep(run'["step"], status.currentPodHash)
    BY <2>2, SameRunOfStep DEF RunsHeld
  <2>5. pc # "idle" /\ ctx.named["step"] = "created" =>
           fresh'["step"] # NoRun /\ RunOfStep(fresh'["step"], ctx.spec.template)
    BY <2>2, SameRunOfStep DEF RunsHeld
  <2> QED
    BY <2>3, <2>4, <2>5 DEF RunsHeld, AddsHeld, AtStep, HasStep, Index
<1>8. CASE ReconcileServices
  BY <1>4, <1>8 DEF ReconcileServices
<1>9. CASE \/ RemoveScaleDownDeadlines \/ ReconcileStableReplicaSet
           \/ ReconcileNewReplicaSet \/ ReconcileOtherReplicaSets
  BY <1>4, <1>9 DEF RemoveScaleDownDeadlines, ReconcileStableReplicaSet,
     ReconcileNewReplicaSet, ReconcileOtherReplicaSets, Proceed, KeepsButReplicaSets
<1>10. CASE ReconcileOthersFails
  BY <1>4, <1>10 DEF ReconcileOthersFails
<1>11. CASE ReconcileFails \/ ReconcilePanics
  BY <1>5, <1>11 DEF ReconcileFails, ReconcilePanics, Stops, objects, history
<1>12. ASSUME NEW h \in Hash,
              \/ PodBecomesAvailable(h) \/ SurplusPodsDeleted(h) \/ DeadlinePasses(h)
              \/ PodFails(h)
       PROVE  UNCHANGED <<status, run, fresh, pc, ctx>>
  BY <1>12 DEF PodBecomesAvailable, SurplusPodsDeleted, DeadlinePasses, PodFails
<1>13. PauseElapses \/ UNCHANGED vars => UNCHANGED <<status, run, fresh, pc, ctx>>
  BY DEF PauseElapses, vars
<1> QED
  BY <1>1, <1>2, <1>3, <1>5, <1>6, <1>7, <1>8, <1>9, <1>10, <1>11, <1>12, <1>13,
     ReconcileRunsHolds, SyncRunsHolds DEF Next, Reconcile, Cluster, Failure

-----------------------------------------------------------------------------
(* The gates a version has passed.                                         *)

(* A full promotion, a new template and an abort clear the pause; a step   *)
(* that is complete drops its own.                                         *)
LEMMA NewPause ==
    ASSUME TypeOK, AddsHeld
    PROVE  /\ Changed \/ ctx.status.promoteFull \/ IsAborted(Dropped)
                 => ~NewStatus.controllerPause
           /\ NewStatus.controllerPause =>
                 \/ ctx.status.controllerPause
                 \/ /\ pc = "pause" /\ AtStep("pause")
                    /\ "CanaryPauseStep" \notin ctx.status.pauses
                    /\ "CanaryPauseStep" \in NewStatus.pauses
                 \/ ctx.pause.add # {}
           /\ NewStatus.controllerPause /\ ~Completes =>
                 ctx.status.pauses \subseteq NewStatus.pauses
<1>1. ctx.pause \in Pause_ /\ DecidedPause(ctx.pause) \in Pause_ /\ Dropped \in Pause_
      /\ Decided \in Pause_
  BY ContextTypes, DecisionTypes
<1> DEFINE drop == Changed \/ ctx.status.promoteFull
<1>2. /\ Dropped.add = DecidedPause(ctx.pause).add
      /\ Dropped.clear = drop /\ Dropped.addAbort = DecidedPause(ctx.pause).addAbort
      /\ Dropped.removeAbort = (DecidedPause(ctx.pause).removeAbort \/ drop)
  BY <1>1 DEF Dropped, Pause_
<1>3. /\ Decided.add = Dropped.add /\ Decided.addAbort = Dropped.addAbort
      /\ Decided.clear = (Dropped.clear \/ Promotes)
      /\ Decided.removeAbort = (Dropped.removeAbort \/ Promotes)
      /\ Decided.remove = Completes
  BY <1>1 DEF Decided, Pause_
<1>4. /\ NewStatus.controllerPause = PauseStatus(Decided).controllerPause
      /\ NewStatus.pauses = PauseStatus(Decided).pauses
  BY DEF NewStatus
<1> DEFINE kept == IF Decided.remove THEN ctx.status.pauses \ {"CanaryPauseStep"}
                   ELSE ctx.status.pauses
           added == Decided.add \ ctx.status.pauses
<1>5. NewStatus.controllerPause =>
         /\ ~Decided.clear /\ ~Decided.addAbort
         /\ ~ (~Decided.removeAbort /\ ctx.status.abort)
         /\ NewStatus.pauses = kept \cup added
         /\ ctx.status.controllerPause \/ added # {}
  BY <1>4 DEF PauseStatus
<1>6. DecidedPause(ctx.pause).add =
         IF DecidedPause(ctx.pause) = ctx.pause THEN ctx.pause.add
         ELSE ctx.pause.add \cup {"CanaryPauseStep"}
  BY <1>1 DEF DecidedPause, Pause_
<1>7. DecidedPause(ctx.pause) # ctx.pause =>
         pc = "pause" /\ AtStep("pause") /\ "CanaryPauseStep" \notin ctx.status.pauses
  BY DEF DecidedPause
<1> HIDE DEF kept, added
<1>8. Changed \/ ctx.status.promoteFull => ~NewStatus.controllerPause
  BY <1>2, <1>3, <1>5
<1>9. IsAborted(Dropped) => ~NewStatus.controllerPause
  BY <1>3, <1>5 DEF IsAborted
<1>10. NewStatus.controllerPause =>
                 \/ ctx.status.controllerPause
                 \/ /\ pc = "pause" /\ AtStep("pause")
                    /\ "CanaryPauseStep" \notin ctx.status.pauses
                    /\ "CanaryPauseStep" \in NewStatus.pauses
                 \/ ctx.pause.add # {}
  BY <1>2, <1>3, <1>5, <1>6, <1>7 DEF added
<1>11. NewStatus.controllerPause /\ ~Completes => ctx.status.pauses \subseteq NewStatus.pauses
  BY <1>3, <1>5 DEF kept
<1> QED
  BY <1>8, <1>9, <1>10, <1>11

\* What a status update finds and leaves, in the terms of the gates
SyncFacts ==
    /\ status'.stableRS = NewStatus.stableRS /\ status'.currentPodHash = New
    /\ status'.stepIndex = IF NextStepIndex = Index THEN status.stepIndex ELSE NextStepIndex
    /\ status'.promoteFull =>
          (ctx.status.promoteFull /\ ~Changed) \/ Gates \subseteq excused.recent
    /\ status'.controllerPause => NewStatus.controllerPause
    /\ status'.controllerPause /\ ctx.status.controllerPause => status.controllerPause
    /\ status'.pauses = IF NewStatus.pauses = ctx.status.pauses THEN status.pauses
                        ELSE NewStatus.pauses
    /\ Index <= status.stepIndex \/ StepCount <= status.stepIndex
    /\ \A i \in Gates : Index <= i /\ i < status.stepIndex => i \in excused.recent
    /\ excused'.recent = excused.recent
    /\ Changed \/ IsAborted(Dropped) => passed' = {} /\ excused'.steps = excused.recent
    /\ ~Changed /\ ~IsAborted(Dropped) =>
          /\ excused'.steps = excused.steps
          /\ passed' = IF Completes /\ EndsAsItShould THEN passed \cup {Index} ELSE passed

LEMMA SyncStep ==
    ASSUME TypeOK, SnapshotHeld, SyncRolloutStatus
    PROVE  SyncFacts
<1>1. pc # "idle" /\ status' = Merged(status, ctx.status, NewStatus)
  BY DEF SyncRolloutStatus
<1>2. /\ ctx.status.stableRS = status.stableRS
      /\ ctx.status.currentPodHash = status.currentPodHash
      /\ ctx.status.stepIndex <= status.stepIndex \/ StepCount <= status.stepIndex
      /\ status.controllerPause => ctx.status.controllerPause
      /\ \A i \in Gates : ctx.status.stepIndex <= i /\ i < status.stepIndex
                             => i \in excused.recent
      /\ status.promoteFull /\ ~ctx.status.promoteFull => Gates \subseteq excused.recent
  BY <1>1 DEF SnapshotHeld
<1>3. /\ NewStatus.currentPodHash = New /\ NewStatus.stepIndex = NextStepIndex
      /\ NewStatus.promoteFull = (ctx.status.promoteFull /\ ~Changed /\ ~Promotes)
  BY DEF NewStatus
<1>4. NewStatus \in Status_ /\ status \in Status_ /\ ctx.status \in Status_
  BY NewStatusType, ContextTypes DEF TypeOK
<1>5. /\ status'.stableRS = NewStatus.stableRS /\ status'.currentPodHash = New
      /\ status'.stepIndex = IF NextStepIndex = Index THEN status.stepIndex ELSE NextStepIndex
      /\ status'.pauses = IF NewStatus.pauses = ctx.status.pauses THEN status.pauses
                          ELSE NewStatus.pauses
  BY <1>1, <1>2, <1>3 DEF Merged, Patched, Index
<1>6. /\ status'.controllerPause => NewStatus.controllerPause
      /\ status'.controllerPause /\ ctx.status.controllerPause => status.controllerPause
  <2>1. /\ status'.controllerPause = Patched(status.controllerPause,
              ctx.status.controllerPause, NewStatus.controllerPause)
        /\ status.controllerPause \in BOOLEAN /\ ctx.status.controllerPause \in BOOLEAN
        /\ NewStatus.controllerPause \in BOOLEAN
    BY <1>1, <1>4 DEF Merged, Status_
  <2> QED
    BY <1>2, <2>1 DEF Patched
<1>7. status'.promoteFull =>
        (ctx.status.promoteFull /\ ~Changed) \/ Gates \subseteq excused.recent
  <2>1. /\ status'.promoteFull = Patched(status.promoteFull,
              ctx.status.promoteFull, NewStatus.promoteFull)
        /\ status.promoteFull \in BOOLEAN /\ ctx.status.promoteFull \in BOOLEAN
        /\ NewStatus.promoteFull \in BOOLEAN
    BY <1>1, <1>4 DEF Merged, Status_
  <2> QED
    BY <1>2, <1>3, <2>1 DEF Patched
<1>8. /\ excused'.recent = excused.recent
      /\ Changed \/ IsAborted(Dropped) => passed' = {} /\ excused'.steps = excused.recent
      /\ ~Changed /\ ~IsAborted(Dropped) =>
            /\ excused'.steps = excused.steps
            /\ passed' = IF Completes /\ EndsAsItShould THEN passed \cup {Index} ELSE passed
  BY DEF SyncRolloutStatus, TypeOK
<1> QED
  BY <1>2, <1>5, <1>6, <1>7, <1>8 DEF SyncFacts, Index

(* A sure gate is complete because it ended as it should, or because of a  *)
(* user.                                                                   *)
LEMMA SureGateEnds ==
    ASSUME TypeOK, SnapshotHeld, GatesHeld, RunsHeld, pc # "idle",
           Completes, Index \in SureGates, ~Promoted(ctx.status)
    PROVE  EndsAsItShould \/ Index \in excused.steps
<1>1. HasStep /\ Steps[Index + 1].kind = StepKind(Index) /\ ctx.status.currentPodHash = New
  BY DEF Completes, CompletedCurrentCanaryStep, Changed, StepKind
<1>2. StepKind(Index) \in {"analysis", "pause"}
  BY DEF SureGates, Gates, StepKind
<1>3. CASE StepKind(Index) = "analysis"
  <2>1. AtStep("analysis") /\ \A kind : AtStep(kind) => kind = "analysis"
    BY <1>1, <1>3 DEF AtStep
  <2>2. ctx.named["step"] # "none" /\ ctx.run["step"].phase = "Successful"
    BY <2>1 DEF Completes, CompletedCurrentCanaryStep
  <2>3. ctx.run["step"].hash = New /\ ctx.run["step"].index < StepCount
        /\ StepKind(ctx.run["step"].index) = "analysis"
    BY <1>1, <2>2 DEF RunsHeld, RunOfStep
  <2>4. ctx.run["step"] \in Run_
    BY ContextTypes DEF Kind
  <2>5. ctx.run["step"].index \in 0..(StepCount - 1)
    BY <2>3, <2>4, CountsAssumed DEF Run_
  <2>6. ctx.run["step"].index = Index
    BY <1>3, <2>3, <2>5 DEF SureGates
  <2>7. ctx.run["step"] = [hash |-> New, index |-> Index, phase |-> "Successful",
                           terminate |-> ctx.run["step"].terminate]
    BY <2>2, <2>3, <2>4, <2>6 DEF Run_
  <2> QED
    BY <2>1, <2>7 DEF EndsAsItShould
<1>4. CASE StepKind(Index) = "pause"
  <2>1. AtStep("pause") /\ \A kind : AtStep(kind) => kind = "pause"
    BY <1>1, <1>4 DEF AtStep
  <2>2. CompletedCanaryPauseStep
    BY <2>1 DEF Completes, CompletedCurrentCanaryStep
  <2>3. CASE ctx.status.controllerPause /\ "CanaryPauseStep" \notin ctx.status.pauses
    BY <1>4, <2>3 DEF GatesHeld, PauseBehind, Index
  <2>4. CASE Steps[Index + 1].timed /\ "CanaryPauseStep" \in ctx.status.pauses /\ elapsed
    BY <2>1, <2>4 DEF EndsAsItShould
  <2> QED
    BY <2>2, <2>3, <2>4 DEF CompletedCanaryPauseStep
<1> QED
  BY <1>2, <1>3, <1>4

(* The next step, when the rollout goes on. *)
LEMMA StepIndexes ==
    ASSUME TypeOK
    PROVE  /\ Index \in 0..(StepCount + 1) /\ status.stepIndex \in 0..(StepCount + 1)
           /\ StepCount \in Nat
           /\ Completes => Index < StepCount
           /\ Changed => NextStepIndex = 0 \/ New = Stable
           /\ ~Changed /\ IsAborted(Dropped) =>
                 NextStepIndex = 0 \/ Promotes \/ IsFullyPromoted
           /\ ~Changed /\ ~Promotes /\ ~IsAborted(Dropped) /\ ~ctx.status.promoteFull =>
                 NextStepIndex = IF Completes THEN Index + 1 ELSE Index
           /\ Completes => ~Changed /\ ~Promotes /\ ~IsAborted(Dropped)
<1>1. Completes => Index < StepCount /\ ~Changed /\ ~Promotes /\ ~IsAborted(Dropped)
  BY DEF Completes, CompletedCurrentCanaryStep, HasStep
<1>2. Index \in 0..(StepCount + 1) /\ status.stepIndex \in 0..(StepCount + 1) /\ StepCount \in Nat
  BY StatusTypes, CountsAssumed DEF TypeOK, Status_
<1>3. /\ Changed => NextStepIndex = 0 \/ New = Stable
      /\ ~Changed /\ IsAborted(Dropped) =>
            NextStepIndex = 0 \/ Promotes \/ IsFullyPromoted
  BY DEF NextStepIndex
<1>4. ~Changed /\ ~Promotes /\ ~IsAborted(Dropped) /\ ~ctx.status.promoteFull =>
                 NextStepIndex = IF Completes THEN Index + 1 ELSE Index
  BY <1>2 DEF NextStepIndex
<1> QED
  BY <1>1, <1>2, <1>3, <1>4

LEMMA SyncGatesBehind ==
    ASSUME TypeOK, SnapshotHeld, GatesHeld, RunsHeld, AddsHeld, SyncRolloutStatus
    PROVE  GatesBehind(status)'
<1>1. pc # "idle" /\ SyncFacts
  BY SyncStep DEF SyncRolloutStatus
<1>2. \A i \in Gates : i \in Nat /\ i < StepCount
  BY GateTypes
<1>3. SureGates \subseteq Gates
  BY GateTypes
<1>4. /\ status.stableRS = Stable /\ status.currentPodHash = ctx.status.currentPodHash
      /\ excused.recent \subseteq excused.steps
      /\ GatesBehind(status) /\ GatesBehind(ctx.status)
  BY <1>1 DEF SnapshotHeld, GatesHeld, Stable
<1>5. /\ Changed <=> ctx.status.currentPodHash # New
      /\ NewStatus.stableRS = IF Promotes THEN New ELSE Stable
      /\ IsFullyPromoted <=> Promoted(ctx.status)
      /\ Promotes => ~Changed
  BY DEF Changed, NewStatus, IsFullyPromoted, Promoted, Promotes, Stable
<1>6. status'.promoteFull => Gates \subseteq excused'.steps
  <2>1. CASE Gates \subseteq excused.recent
    BY <1>1, <1>4, <2>1 DEF SyncFacts
  <2>2. CASE status'.promoteFull /\ ctx.status.promoteFull /\ ~Changed
    <3>1. ctx.status.promoteFull => ~IsAborted(Dropped)
      <4>1. Dropped.removeAbort = (DecidedPause(ctx.pause).removeAbort
                                      \/ Changed \/ ctx.status.promoteFull)
        BY DecisionTypes DEF Dropped, Pause_
      <4> QED
        BY <4>1 DEF IsAborted
    <3>2. Gates \subseteq excused.steps
      BY <1>4, <2>2 DEF GatesBehind
    <3> QED
      BY <1>1, <2>2, <3>1, <3>2 DEF SyncFacts
  <2> QED
    BY <1>1, <2>1, <2>2 DEF SyncFacts
<1>7. CASE Promoted(status')
  BY <1>6, <1>7 DEF GatesBehind, Promoted
<1>8. CASE ~Promoted(status') /\ (Changed \/ IsAborted(Dropped))
  <2>1. NextStepIndex = 0
    BY <1>1, <1>5, <1>8, StepIndexes DEF SyncFacts, Promoted, IsFullyPromoted
  <2>2. \A i \in Gates : i < status'.stepIndex => i \in excused.recent
    BY <1>1, <1>2, <2>1, StepIndexes DEF SyncFacts
  <2> QED
    BY <1>1, <1>3, <1>6, <1>8, <2>2 DEF GatesBehind, SyncFacts
<1>9. CASE ~Promoted(status') /\ ~Changed /\ ~IsAborted(Dropped)
  <2>1. ~Promotes /\ ~Promoted(ctx.status) /\ ~Promoted(status)
    BY <1>1, <1>4, <1>5, <1>9 DEF Promoted, SyncFacts, Stable
  <2>2. excused'.steps = excused.steps /\ passed \subseteq passed'
    BY <1>1, <1>9 DEF SyncFacts
  <2>3. \A i \in SureGates : i < status.stepIndex => i \in passed \cup excused.steps
    BY <1>4, <2>1 DEF GatesBehind
  <2>4. CASE ctx.status.promoteFull
    BY <1>3, <1>4, <1>6, <2>2, <2>4 DEF GatesBehind
  <2>5. CASE ~ctx.status.promoteFull /\ ~Completes
    BY <1>1, <1>6, <1>9, <2>1, <2>2, <2>3, <2>5, StepIndexes DEF GatesBehind, SyncFacts
  <2>6. CASE ~ctx.status.promoteFull /\ Completes
    <3>1. status'.stepIndex = Index + 1
      BY <1>1, <1>9, <2>1, <2>6, StepIndexes DEF SyncFacts
    <3>2. \A i \in SureGates : i < Index => i \in passed \cup excused.steps
      BY <1>4, <2>1 DEF GatesBehind, Index
    <3>3. Index \in SureGates => Index \in passed' \cup excused.steps
      BY <1>1, <1>9, <2>1, <2>6, SureGateEnds DEF SyncFacts
    <3>4. \A i \in SureGates : i < Index + 1 => i < Index \/ i = Index
      BY <1>2, <1>3, StepIndexes
    <3> QED
      BY <1>6, <2>2, <3>1, <3>2, <3>3, <3>4 DEF GatesBehind
  <2> QED
    BY <2>4, <2>5, <2>6
<1> QED
  BY <1>7, <1>8, <1>9

LEMMA SyncPauseBehind ==
    ASSUME TypeOK, SnapshotHeld, GatesHeld, RunsHeld, AddsHeld, SyncRolloutStatus
    PROVE  PauseBehind(status)'
<1> SUFFICES ASSUME status'.controllerPause, ~Promoted(status'),
                    NEW i \in SureGates, StepKind(i) = "pause"
             PROVE  /\ i <= status'.stepIndex
                    /\ i = status'.stepIndex /\ "CanaryPauseStep" \notin status'.pauses
                          => i \in excused'.steps
  BY DEF PauseBehind, Promoted
<1>1. pc # "idle" /\ SyncFacts
  BY SyncStep DEF SyncRolloutStatus
<1>2. i \in Nat /\ i < StepCount /\ ~Background
      /\ \A j \in 0..(i - 1) : StepKind(j) \in {"setWeight", "setCanaryScale"}
  BY GateTypes DEF SureGates
<1>3. NewStatus.controllerPause /\ ~Changed /\ ~ctx.status.promoteFull /\ ~IsAborted(Dropped)
  BY <1>1, NewPause DEF SyncFacts
<1>4. /\ status.stableRS = Stable /\ status.currentPodHash = ctx.status.currentPodHash
      /\ PauseBehind(status) /\ PauseBehind(ctx.status)
  BY <1>1 DEF SnapshotHeld, GatesHeld, Stable
<1>5. ~Promotes /\ ~Promoted(ctx.status) /\ ~Promoted(status)
  BY <1>1, <1>3, <1>4 DEF Promoted, SyncFacts, Stable, NewStatus, Changed
<1>6. excused'.steps = excused.steps
  BY <1>1, <1>3 DEF SyncFacts
<1>7. status'.stepIndex = IF Completes THEN Index + 1 ELSE status.stepIndex
  BY <1>1, <1>3, <1>5, StepIndexes DEF SyncFacts
<1>8. Index <= status.stepIndex \/ StepCount <= status.stepIndex
  BY <1>1 DEF SyncFacts
<1>9. CASE ctx.status.controllerPause
  <2>1. i <= Index /\ (i = Index /\ "CanaryPauseStep" \notin ctx.status.pauses
                          => i \in excused.steps)
    BY <1>4, <1>5, <1>9 DEF PauseBehind, Index
  <2>2. status.controllerPause
    BY <1>1, <1>9 DEF SyncFacts
  <2>3. i <= status.stepIndex /\ (i = status.stepIndex /\ "CanaryPauseStep" \notin status.pauses
                                    => i \in excused.steps)
    BY <1>4, <1>5, <2>2 DEF PauseBehind
  <2>4. i <= status'.stepIndex
    BY <1>2, <1>7, <1>8, <2>1, StepIndexes
  <2>5. ASSUME i = status'.stepIndex, "CanaryPauseStep" \notin status'.pauses
        PROVE  i \in excused.steps
    <3>1. ~Completes /\ i = status.stepIndex /\ i = Index
      BY <1>2, <1>7, <1>8, <2>1, <2>5, StepIndexes
    <3>2. CASE "CanaryPauseStep" \notin status.pauses
      BY <2>3, <3>1, <3>2
    <3>3. CASE "CanaryPauseStep" \in status.pauses
      <4>1. "CanaryPauseStep" \notin NewStatus.pauses
        BY <1>1, <2>5, <3>3 DEF SyncFacts
      <4>2. "CanaryPauseStep" \notin ctx.status.pauses
        BY <1>3, <3>1, <4>1, NewPause
      <4> QED
        BY <2>1, <3>1, <4>2
    <3> QED
      BY <3>2, <3>3
  <2> QED
    BY <1>6, <2>4, <2>5
<1>10. CASE ~ctx.status.controllerPause /\ AtStep("pause")
            /\ "CanaryPauseStep" \notin ctx.status.pauses
            /\ "CanaryPauseStep" \in NewStatus.pauses
  <2>1. Index < StepCount /\ StepKind(Index) = "pause"
    BY <1>10 DEF AtStep, HasStep, StepKind
  <2>2. i <= Index
    <3>1. Index < i => Index \in 0..(i - 1)
      BY <1>2, StepIndexes
    <3> QED
      BY <1>2, <2>1, <3>1, StepIndexes
  <2>3. ~Completes
    <3>1. \A kind : AtStep(kind) => kind = "pause"
      BY <1>10 DEF AtStep
    <3> QED
      BY <1>10, <3>1 DEF Completes, CompletedCurrentCanaryStep, CompletedCanaryPauseStep
  <2>4. "CanaryPauseStep" \in status'.pauses
    BY <1>1, <1>10 DEF SyncFacts
  <2> QED
    BY <1>2, <1>7, <1>8, <2>2, <2>3, <2>4, StepIndexes
<1>11. CASE ctx.pause.add # {}
  <2>1. AtStep("analysis") \/ AtStep("experiment")
    BY <1>2, <1>11 DEF AddsHeld
  <2>2. Index < StepCount /\ StepKind(Index) \in {"analysis", "experiment"}
    BY <2>1 DEF AtStep, HasStep, StepKind
  <2>3. i < Index
    <3>1. Index < i => Index \in 0..(i - 1)
      BY <1>2, StepIndexes
    <3>2. i # Index
      BY <2>2
    <3> QED
      BY <1>2, <2>2, <3>1, <3>2, StepIndexes
  <2> QED
    BY <1>2, <1>7, <1>8, <2>3, StepIndexes
<1> QED
  BY <1>3, <1>9, <1>10, <1>11, NewPause

(* What is passed or excused stays so while nothing is updated. *)
LEMMA GatesStay ==
    ASSUME NEW s, GatesBehind(s), PauseBehind(s),
           passed \subseteq passed', excused.steps \subseteq excused'.steps
    PROVE  (Promoted(s) \/ \A i \in SureGates : i < s.stepIndex => i \in passed' \cup excused'.steps)
           /\ (s.promoteFull => Gates \subseteq excused'.steps)
           /\ (s.controllerPause /\ ~Promoted(s) =>
                 \A i \in SureGates : StepKind(i) = "pause" =>
                    /\ i <= s.stepIndex
                    /\ i = s.stepIndex /\ "CanaryPauseStep" \notin s.pauses
                          => i \in excused'.steps)
BY DEF GatesBehind, PauseBehind

LEMMA UserGates ==
    ASSUME TypeOK, SnapshotHeld, GatesHeld, User
    PROVE  GatesHeld'
<1>1. UserPatch
  BY UserPatches
<1>2. excused.recent \subseteq excused.steps
  BY DEF GatesHeld
<1>3. excused'.recent \subseteq excused'.steps
  BY <1>1, <1>2 DEF UserPatch
<1>4. \A i \in Gates : i \in Nat /\ i < StepCount
  BY GateTypes
<1>5. SureGates \subseteq Gates
  BY GateTypes
<1>6. /\ GatesBehind(status) /\ PauseBehind(status)
      /\ passed' = passed /\ excused.steps \subseteq excused'.steps
      /\ Promoted(status') <=> Promoted(status)
  BY <1>1 DEF GatesHeld, UserPatch, Promoted
<1>7. status.stepIndex \in 0..(StepCount + 1) /\ status'.stepIndex \in 0..(StepCount + 1)
  <2>1. TypeOK'
    BY UserTypes
  <2> QED
    BY <2>1, CountsAssumed DEF TypeOK, Status_
<1>8. GatesBehind(status)'
  <2>1. status'.promoteFull => Gates \subseteq excused'.steps
    BY <1>1, <1>6 DEF GatesBehind, UserPatch
  <2>2. ASSUME ~Promoted(status), NEW i \in SureGates, i < status'.stepIndex
        PROVE  i \in passed' \cup excused'.steps
    <3>1. CASE i < status.stepIndex
      BY <1>6, <2>2, <3>1 DEF GatesBehind
    <3>2. CASE status.stepIndex <= i
      BY <1>1, <1>5, <2>2, <3>2 DEF UserPatch
    <3> QED
      BY <1>4, <1>5, <1>7, <3>1, <3>2
  <2> QED
    BY <1>6, <2>1, <2>2 DEF GatesBehind
<1>9. PauseBehind(status)'
  <2> SUFFICES ASSUME status'.controllerPause, ~Promoted(status),
                      NEW i \in SureGates, StepKind(i) = "pause"
               PROVE  /\ i <= status'.stepIndex
                      /\ i = status'.stepIndex /\ "CanaryPauseStep" \notin status'.pauses
                            => i \in excused'.steps
    BY <1>6 DEF PauseBehind
  <2>1. i \in Nat /\ i < StepCount /\ i <= status.stepIndex
        /\ (i = status.stepIndex /\ "CanaryPauseStep" \notin status.pauses => i \in excused.steps)
    BY <1>1, <1>4, <1>5, <1>6 DEF PauseBehind, UserPatch
  <2>2. i <= status'.stepIndex
    BY <1>1, <1>7, <2>1, CountsAssumed DEF UserPatch
  <2>3. ASSUME i = status'.stepIndex, "CanaryPauseStep" \notin status'.pauses
        PROVE  i \in excused'.steps
    <3>1. i = status.stepIndex
      BY <1>1, <1>7, <2>1, <2>3, CountsAssumed DEF UserPatch
    <3>2. CASE "CanaryPauseStep" \notin status.pauses
      BY <1>6, <2>1, <3>1, <3>2
    <3>3. CASE "CanaryPauseStep" \in status.pauses
      <4>1. PromoteRollout
        <5>1. status'.pauses # status.pauses
          BY <2>3, <3>3
        <5> QED
          BY <5>1 DEF User, SetTemplate, PauseRollout, SkipCurrentStep, SkipAllSteps,
             PromoteRolloutFull, AbortRollout, RetryRollout, TypeOK, Status_
      <4>2. status.stepIndex \in excused'.steps
        BY <4>1 DEF PromoteRollout, Excuse
      <4> QED
        BY <3>1, <4>2
    <3> QED
      BY <3>2, <3>3
  <2> QED
    BY <2>2, <2>3
<1>10. pc # "idle" => GatesBehind(ctx.status)' /\ PauseBehind(ctx.status)'
  BY <1>1, <1>6, GatesStay DEF GatesHeld, UserPatch, GatesBehind, PauseBehind
<1> QED
  BY <1>1, <1>3, <1>8, <1>9, <1>10 DEF GatesHeld, UserPatch

(* Every sure gate behind the step is passed or excused. *)
LEMMA GatesKept ==
    ASSUME TypeOK, SnapshotHeld, GatesHeld, RunsHeld, AddsHeld, [Next]_vars
    PROVE  GatesHeld'
<1>1. CASE StartSync
  <2>1. /\ ctx'.status = status /\ excused'.recent = {} /\ excused'.steps = excused.steps
        /\ UNCHANGED <<status, passed>>
    BY <1>1 DEF StartSync, NoContext, TypeOK
  <2> QED
    BY <1>1, <2>1 DEF StartSync, GatesHeld, GatesBehind, PauseBehind
<1>2. CASE GoesOn
  BY <1>2 DEF GoesOn, GatesHeld, GatesBehind, PauseBehind
<1>3. CASE Stops
  BY <1>3 DEF Stops, GatesHeld, GatesBehind, PauseBehind
<1>4. CASE SyncRolloutStatus
  <2>1. excused'.recent \subseteq excused'.steps
    BY <1>4, SyncStep DEF SyncFacts, GatesHeld
  <2>2. pc' = "idle"
    BY <1>4 DEF SyncRolloutStatus
  <2> QED
    BY <1>4, <2>1, <2>2, SyncGatesBehind, SyncPauseBehind DEF GatesHeld
<1>5. CASE Elsewhere
  BY <1>5 DEF Elsewhere, GatesHeld, GatesBehind, PauseBehind
<1> QED
  BY <1>1, <1>2, <1>3, <1>4, <1>5, UserGates, StepsOfReconcile

(* What holds a promotion back is inductive.                               *)
LEMMA PromotionInvHolds == Spec => []PromotionInv
<1>1. Init => PromotionInv
  <2>1. Init => TypeOK
    BY InitTypes
  <2> QED
    BY <2>1, CountsAssumed DEF Init, PromotionInv, SnapshotHeld, GatesHeld, RunsHeld, AddsHeld,
       GatesBehind, PauseBehind, RunOfStep, Promoted, NoStatus, NoContext, NoPause, Kind
<1>2. PromotionInv /\ [Next]_vars => PromotionInv'
  <2>1. TypeOK /\ SnapshotHeld /\ [Next]_vars => TypeOK'
    <3>1. TypeOK /\ UNCHANGED vars => TypeOK'
      BY DEF TypeOK, vars
    <3> QED
      BY <3>1, ReconcileTypes, ClusterTypes, UserTypes, FailureTypes DEF Next
  <2> QED
    BY <2>1, SnapshotKept, RunsKept, GatesKept DEF PromotionInv
<1> QED
  BY <1>1, <1>2, PTL DEF Spec

(* Only a status update makes a version stable. *)
LEMMA OnlySyncPromotes ==
    ASSUME TypeOK, [Next]_vars, status'.stableRS # status.stableRS
    PROVE  SyncRolloutStatus
<1>1. CASE User
  BY <1>1, UserPatches DEF UserPatch
<1> QED
  BY <1>1, StepsOfReconcile DEF StartSync, GoesOn, Stops, Elsewhere

(* A version replaces the stable one only when each sure gate of its       *)
(* update, the only analysis step and a pause after nothing that pauses,   *)
(* ended as it should or was ended by a user, for every sequence of steps  *)
(* and every number of retries, aborts, edits and lost reconciles          *)
(* (completedCurrentCanaryStep, shouldFullPromote, persistRolloutStatus).  *)
THEOREM SurePromotionEarned == Spec => SureGatesEarned
<1>1. PromotionInv /\ [Next]_vars =>
        (status'.stableRS # status.stableRS /\ status.stableRS # None
            => SureGates \subseteq passed' \cup excused'.steps)
  <2> SUFFICES ASSUME PromotionInv, [Next]_vars,
                      status'.stableRS # status.stableRS, status.stableRS # None
               PROVE  SureGates \subseteq passed' \cup excused'.steps
    OBVIOUS
  <2>1. SyncRolloutStatus
    BY OnlySyncPromotes DEF PromotionInv
  <2>2. SyncFacts /\ pc # "idle"
    BY <2>1, SyncStep DEF PromotionInv, SyncRolloutStatus
  <2>3. /\ status.stableRS = Stable /\ status.currentPodHash = ctx.status.currentPodHash
        /\ GatesBehind(ctx.status)
    BY <2>2 DEF SnapshotHeld, GatesHeld, PromotionInv, Stable
  <2>4. Promotes /\ New # Stable /\ ~Changed
    BY <2>2, <2>3 DEF SyncFacts, NewStatus, Promotes
  <2>5. ~Promoted(ctx.status)
    BY <2>4 DEF Promoted, Changed, Stable
  <2>6. ~IsAborted(Dropped) /\ (ctx.status.promoteFull \/ Index = StepCount)
    BY <2>3, <2>4 DEF Promotes, ShouldFullPromote
  <2>7. SureGates \subseteq passed \cup excused.steps
    <3>1. \A i \in SureGates : i \in Gates /\ i < StepCount
      BY GateTypes
    <3> QED
      BY <2>3, <2>5, <2>6, <3>1 DEF GatesBehind, Index
  <2> QED
    BY <2>2, <2>4, <2>6, <2>7 DEF SyncFacts
<1> QED
  BY <1>1, PromotionInvHolds, PTL DEF Spec, SureGatesEarned

(* When every gate of the steps is sure, a version replaces the stable one *)
(* only when each of them ended as it should or was ended by a user.       *)
THEOREM PromotionIsEarned ==
    ASSUME SureGates = Gates
    PROVE  Spec => PromotionEarned
<1>1. [status'.stableRS # status.stableRS /\ status.stableRS # None
          => SureGates \subseteq passed' \cup excused'.steps]_vars
      => [status'.stableRS # status.stableRS /\ status.stableRS # None
          => Gates \subseteq passed' \cup excused'.steps]_vars
  OBVIOUS
<1>2. SureGatesEarned => PromotionEarned
  BY <1>1, PTL DEF SureGatesEarned, PromotionEarned
<1> QED
  BY <1>2, SurePromotionEarned

(* The weight that is set, of a version that is neither promoted nor       *)
(* aborted, is nothing, all of it, or that of a step behind the current    *)
(* one.                                                                    *)
LEMMA DesiredWeightSet ==
    ASSUME TypeOK, ~ctx.status.promoteFull, ~IsFullyPromoted, ~IsAborted(ctx.pause)
    PROVE  LET weight == DesiredWeight(ctx.pause)
           IN  \/ weight = 0
               \/ weight = MaxWeight /\ StepCount <= Index
               \/ \E i \in 0..Index : /\ i < StepCount /\ StepKind(i) = "setWeight"
                                      /\ weight = Steps[i + 1].value
<1>1. Index \in Nat /\ StepCount \in Nat
  BY StatusTypes, CountsAssumed
<1>2. ASSUME NEW i \in Int, i <= Index, LastSetWeight(i) # 0
      PROVE  \E j \in 0..Index : /\ j < StepCount /\ StepKind(j) = "setWeight"
                                 /\ LastSetWeight(i) = Steps[j + 1].value
  <2> DEFINE S == StepsUpTo("setWeight", i)
             j == Last(S)
  <2>1. S # {} /\ LastSetWeight(i) = Steps[j + 1].value
    BY <1>2 DEF LastSetWeight
  <2>2. j \in S
    BY <2>1, LastOfKind
  <2>3. j \in 0..i /\ j < StepCount /\ StepKind(j) = "setWeight"
    BY <2>2 DEF StepsUpTo, StepKind
  <2> HIDE DEF j
  <2> QED
    BY <1>1, <1>2, <2>1, <2>3
<1>3. DesiredWeight(ctx.pause) \in
         {0, LastSetWeight(Index - 1), LastSetWeight(Index)}
            \cup {w \in {MaxWeight} : StepCount <= Index}
  <2>1. GetCurrentSetWeight \in {0, LastSetWeight(Index)}
            \cup {w \in {MaxWeight} : StepCount <= Index}
    BY <1>1 DEF GetCurrentSetWeight, HasStep
  <2> QED
    BY <1>1, <2>1 DEF DesiredWeight, RollingBack
<1> QED
  BY <1>1, <1>2, <1>3

(* Only reconcileTrafficRouting sets the weight.                           *)
LEMMA OnlyTrafficRoutes ==
    ASSUME [Next]_vars, route' # route
    PROVE  ReconcileTrafficRouting
<1>1. CASE \/ StartSync \/ ReconcileServices \/ ReconcilePanics \/ ReconcileRuns
           \/ SyncRolloutStatus \/ ReconcileFails
  BY <1>1 DEF StartSync, ReconcileServices, ReconcilePanics, ReconcileRuns,
     SyncRolloutStatus, ReconcileFails, objects
<1>2. CASE \/ RemoveScaleDownDeadlines \/ ReconcileStableReplicaSet
           \/ ReconcileNewReplicaSet \/ ReconcileOtherReplicaSets \/ ReconcileOthersFails
  BY <1>2 DEF RemoveScaleDownDeadlines, ReconcileStableReplicaSet, ReconcileNewReplicaSet,
     ReconcileOtherReplicaSets, ReconcileOthersFails, KeepsButReplicaSets
<1>3. CASE Cluster \/ \E h \in Hash : PodFails(h)
  BY <1>3 DEF Cluster, PodBecomesAvailable, SurplusPodsDeleted, DeadlinePasses,
     PodFails, PauseElapses, RunCompletes
<1>4. CASE User
  BY <1>4 DEF User, SetTemplate, PauseRollout, PromoteRollout, SkipCurrentStep,
     SkipAllSteps, PromoteRolloutFull, AbortRollout, RetryRollout, Edit
<1>5. CASE UNCHANGED vars
  BY <1>5 DEF vars
<1> QED
  BY <1>1, <1>2, <1>3, <1>4, <1>5 DEF Next, Reconcile, Failure

(* What a reconcile read stays as it was until it ends, and an abort that  *)
(* it does not drop is not dropped later.                                  *)
LEMMA ContextKept ==
    ASSUME TypeOK, [Next]_vars
    PROVE  \/ StartSync
           \/ pc' = "idle" /\ ctx' = NoContext
           \/ /\ ctx'.rs = ctx.rs /\ ctx'.status = ctx.status /\ ctx'.spec = ctx.spec
              /\ ctx'.pause.removeAbort = ctx.pause.removeAbort
              /\ pc' # "idle" => pc # "idle"
              /\ pc' \in BeforeWeight => pc \in BeforeWeight
              /\ pc' \in BeforeScaling =>
                    pc \in BeforeScaling \/ ReconcileTrafficRouting
              /\ pc' \in AfterWeight => pc \in AfterWeight \/ ReconcileTrafficRouting
              /\ pc' \in BeforeWeight \cup {"runs"} => pc \in BeforeWeight \cup {"runs"}
              /\ ctx'.pause = ctx.pause \/ ReconcileRuns
<1>1. CASE UNCHANGED <<pc, ctx>>
  BY <1>1
<1>2. CASE ReconcileTrafficRouting
  <2>1. \/ ctx' = NoContext /\ pc' = "idle"
        \/ pc' = "runs" /\ \E b, w : ctx' = [ctx EXCEPT !.weights = w, !.verified = b]
    BY <1>2 DEF ReconcileTrafficRouting
  <2>2. ASSUME NEW b, NEW w, ctx' = [ctx EXCEPT !.weights = w, !.verified = b]
        PROVE  /\ ctx'.rs = ctx.rs /\ ctx'.status = ctx.status /\ ctx'.spec = ctx.spec
               /\ ctx'.pause = ctx.pause
    BY <2>2 DEF TypeOK, Context
  <2> QED
    BY <1>2, <2>1, <2>2 DEF ReconcileTrafficRouting, BeforeWeight, AfterWeight
<1>3. CASE ReconcileRuns
  <2>1. PICK f, g, a, b : ctx' = [ctx EXCEPT !.run = f, !.named = g, !.pause.add = a,
                                             !.pause.addAbort = b]
    BY <1>3, Zenon DEF ReconcileRuns
  <2>2. /\ ctx'.rs = ctx.rs /\ ctx'.status = ctx.status /\ ctx'.spec = ctx.spec
        /\ ctx'.pause = [ctx.pause EXCEPT !.add = a, !.addAbort = b]
    BY <2>1 DEF TypeOK, Context
  <2>3. pc = "runs" /\ pc' \in {"sync", "deadlines"}
    BY <1>3, Zenon DEF ReconcileRuns
  <2> QED
    BY <1>3, <2>2, <2>3, ContextTypes DEF BeforeWeight, BeforeScaling, AfterWeight, Pause_
<1>4. CASE ReconcileServices
  BY <1>4 DEF ReconcileServices, BeforeWeight, BeforeScaling, AfterWeight
<1>5. CASE \/ RemoveScaleDownDeadlines \/ ReconcileStableReplicaSet
           \/ ReconcileNewReplicaSet \/ ReconcileOtherReplicaSets
  BY <1>5 DEF RemoveScaleDownDeadlines, ReconcileStableReplicaSet, ReconcileNewReplicaSet,
     ReconcileOtherReplicaSets, Proceed, BeforeWeight, BeforeScaling, AfterWeight
<1>6. CASE ReconcileOthersFails
  BY <1>6 DEF ReconcileOthersFails, BeforeWeight, BeforeScaling, AfterWeight
<1>7. CASE ReconcileFails \/ ReconcilePanics \/ SyncRolloutStatus
  BY <1>7 DEF ReconcileFails, ReconcilePanics, SyncRolloutStatus
<1>8. CASE User
  BY <1>1, <1>8, UserPatches DEF UserPatch
<1>9. ASSUME NEW h \in Hash,
             \/ PodBecomesAvailable(h) \/ SurplusPodsDeleted(h) \/ DeadlinePasses(h)
             \/ PodFails(h)
      PROVE  UNCHANGED <<pc, ctx>>
  BY <1>9 DEF PodBecomesAvailable, SurplusPodsDeleted, DeadlinePasses, PodFails
<1>10. CASE PauseElapses \/ (\E k \in Kind : RunCompletes(k)) \/ UNCHANGED vars
  BY <1>1, <1>10 DEF PauseElapses, RunCompletes, vars
<1> QED
  BY <1>1, <1>2, <1>3, <1>4, <1>5, <1>6, <1>7, <1>8, <1>9, <1>10
     DEF Next, Reconcile, Cluster, Failure

(* The weight that a reconcile sets to a version that it takes for neither *)
(* promoted nor aborted is nothing or one that a step before each sure     *)
(* gate that is not done has set.                                          *)
LEMMA WeightBehindGates ==
    ASSUME PromotionInv, pc # "idle", ~ctx.status.promoteFull, ~IsFullyPromoted,
           ~IsAborted(ctx.pause), NEW g \in SureGates, g \notin passed, g \notin excused.steps,
           DesiredWeight(ctx.pause) # 0
    PROVE  \E i \in 0..(g - 1) : /\ StepKind(i) = "setWeight"
                                 /\ DesiredWeight(ctx.pause) <= Steps[i + 1].value
<1> DEFINE weight == DesiredWeight(ctx.pause)
<1>1. TypeOK
  BY DEF PromotionInv
<1>2. GatesBehind(ctx.status) /\ ~Promoted(ctx.status)
  BY DEF PromotionInv, GatesHeld, Promoted, IsFullyPromoted, Stable
<1>3. g \in Nat /\ g < StepCount /\ StepKind(g) \in {"analysis", "pause"}
  BY GateTypes DEF SureGates, Gates, StepKind
<1>4. Index \in Nat /\ ~ (g < Index)
  BY <1>1, <1>2, StatusTypes, CountsAssumed DEF GatesBehind, Index
<1>5. PICK i \in 0..Index : /\ i < StepCount /\ StepKind(i) = "setWeight"
                            /\ weight = Steps[i + 1].value
  BY <1>1, <1>3, <1>4, CountsAssumed, DesiredWeightSet
<1>6. i \in 0..(g - 1)
  BY <1>3, <1>4, <1>5
<1>7. Steps[i + 1].value \in Nat
  BY <1>5, CountsAssumed DEF CanaryStep
<1> QED
  BY <1>5, <1>6, <1>7

(* A reconcile raises the weight of a version no further than the steps    *)
(* before the first sure gate that is not done have set it, for every      *)
(* sequence of steps and whatever was retried, aborted, edited or lost     *)
(* before (reconcileTrafficRouting).                                       *)
THEOREM WeightRaisedAsEarned == Spec => RaiseEarned
<1>1. PromotionInv /\ [Next]_vars =>
        [route' > route /\ ~ctx.status.promoteFull /\ ~IsFullyPromoted /\ ~IsAborted(ctx.pause)
          => \A g \in SureGates \ (passed \cup excused.steps) :
                \E i \in 0..(g - 1) : /\ StepKind(i) = "setWeight"
                                      /\ route' <= Steps[i + 1].value]_vars
  <2> SUFFICES ASSUME PromotionInv, [Next]_vars, route' > route, ~ctx.status.promoteFull,
                      ~IsFullyPromoted, ~IsAborted(ctx.pause),
                      NEW g \in SureGates, g \notin passed, g \notin excused.steps
               PROVE  \E i \in 0..(g - 1) : /\ StepKind(i) = "setWeight"
                                            /\ route' <= Steps[i + 1].value
    OBVIOUS
  <2>1. TypeOK /\ route \in Nat
    BY DEF PromotionInv, TypeOK
  <2>2. ReconcileTrafficRouting
    BY <2>1, OnlyTrafficRoutes
  <2>3. route' = DesiredWeight(ctx.pause) /\ pc # "idle"
    BY <2>2 DEF ReconcileTrafficRouting
  <2> QED
    BY <2>1, <2>3, WeightBehindGates
<1> QED
  BY <1>1, PromotionInvHolds, PTL DEF Spec, RaiseEarned

(* A reconcile decides on an abort of its own when it looks at its runs,   *)
(* and not before.                                                         *)
LEMMA NoAbortYetHolds == Spec => []NoAbortYet
<1>1. Init => NoAbortYet
  BY DEF Init, NoAbortYet, BeforeWeight
<1>2. TypeOK /\ NoAbortYet /\ [Next]_vars => NoAbortYet'
  <2> SUFFICES ASSUME TypeOK, NoAbortYet, [Next]_vars, pc' \in BeforeWeight \cup {"runs"}
               PROVE  ~ctx'.pause.addAbort
    BY DEF NoAbortYet
  <2>1. CASE StartSync
    <3>1. ctx'.pause = [NoPause EXCEPT
                           !.removeAbort = status.stableRS = status.currentPodHash
                                           /\ status.abort]
      BY <2>1 DEF StartSync, NoContext
    <3> QED
      BY <3>1 DEF NoPause
  <2>2. CASE ~StartSync
    <3>1. ReconcileRuns => pc' \in {"sync", "deadlines"}
      BY Zenon DEF ReconcileRuns
    <3>2. pc \in BeforeWeight \cup {"runs"} /\ ctx'.pause = ctx.pause
      BY <2>2, <3>1, ContextKept DEF BeforeWeight
    <3> QED
      BY <3>2 DEF NoAbortYet
  <2> QED
    BY <2>1, <2>2
<1> QED
  BY <1>1, <1>2, TypeCorrect, PTL DEF Spec

(* While a reconcile goes on, a step that is done stays done.              *)
LEMMA DoneStaysDone ==
    ASSUME TypeOK, [Next]_vars, pc' # "idle"
    PROVE  passed' = passed /\ excused.steps \subseteq excused'.steps
<1>1. StartSync => passed' = passed /\ excused'.steps = excused.steps
  BY DEF StartSync, TypeOK
<1> QED
  BY <1>1, StepsOfReconcile, UserPatches
     DEF GoesOn, Stops, SyncRolloutStatus, Elsewhere, UserPatch

(* Whatever the weight was before, and whatever users and failures did,    *)
(* a reconcile that has updated it leaves the version being released no    *)
(* more traffic than the steps before the first sure gate that is not done *)
(* have set, for every sequence of steps (reconcileTrafficRouting).        *)
THEOREM WeightIsEarned == Spec => []WeightEarned
<1>1. Init => WeightEarned
  BY DEF Init, WeightEarned, AfterWeight
<1>2. PromotionInv /\ NoAbortYet /\ WeightEarned /\ [Next]_vars => WeightEarned'
  <2> SUFFICES ASSUME PromotionInv, NoAbortYet, WeightEarned, [Next]_vars,
                      pc' \in AfterWeight, ~Changed', ~IsFullyPromoted',
                      ~ctx'.status.promoteFull, ~ctx'.status.abort,
                      NEW g \in SureGates, g \notin passed', g \notin excused'.steps,
                      route' # 0
               PROVE  \E i \in 0..(g - 1) : /\ StepKind(i) = "setWeight"
                                            /\ route' <= Steps[i + 1].value
    BY DEF WeightEarned, SureGates, StepKind
  <2>1. TypeOK /\ pc' # "idle"
    BY DEF PromotionInv, AfterWeight
  <2>2. g \notin passed /\ g \notin excused.steps
    BY <2>1, DoneStaysDone
  <2>3. ~StartSync
    <3> SUFFICES ASSUME StartSync PROVE FALSE
      OBVIOUS
    <3>1. pc' = "sync" /\ status.currentPodHash # spec.template
      BY DEF StartSync, AfterWeight
    <3>2. ctx'.spec = spec /\ ctx'.status = status
      BY DEF StartSync, NoContext
    <3> QED
      BY <3>1, <3>2 DEF Changed, New
  <2>4. /\ ctx'.status = ctx.status /\ ctx'.spec = ctx.spec
        /\ pc \in AfterWeight \/ ReconcileTrafficRouting
    BY <2>1, <2>3, ContextKept
  <2>5. ~Changed /\ ~IsFullyPromoted /\ ~ctx.status.promoteFull /\ ~ctx.status.abort
    BY <2>4 DEF Changed, IsFullyPromoted, Stable, New
  <2>6. CASE ReconcileTrafficRouting
    <3>1. pc = "traffic" /\ route' = DesiredWeight(ctx.pause)
      BY <2>6 DEF ReconcileTrafficRouting
    <3>2. ~IsAborted(ctx.pause)
      BY <2>5, <3>1 DEF NoAbortYet, BeforeWeight, IsAborted
    <3> QED
      BY <2>2, <2>5, <3>1, <3>2, WeightBehindGates
  <2>7. CASE ~ReconcileTrafficRouting
    <3>1. route' = route
      BY <2>7, OnlyTrafficRoutes
    <3> QED
      BY <2>2, <2>4, <2>5, <2>7, <3>1 DEF WeightEarned
  <2> QED
    BY <2>6, <2>7
<1> QED
  BY <1>1, <1>2, PromotionInvHolds, NoAbortYetHolds, PTL DEF Spec

-----------------------------------------------------------------------------
(* The pods of an aborted version.                                         *)

(* A scaled ReplicaSet asks for the pods it was scaled to, or is as it was *)
(* when the reconcile read that count; its deadline is none or an old one. *)
LEMMA ScaledFields ==
    ASSUME TypeOK, NEW h \in Hash, NEW n \in Nat, NEW C
    PROVE  /\ Scaled(h, n, h \in C).replicas \in {n, rs[h].replicas}
           /\ Scaled(h, n, h \in C).available = rs[h].available
           /\ Scaled(h, n, h \in C).deadline
                 \in {"none", rs[h].deadline, ctx.rs[h].deadline}
<1>1. rs[h] \in ReplicaSet
  BY DEF TypeOK
<1> QED
  BY <1>1 DEF Scaled, ReplicaSet

(* Without a stable version the new one is to have all the pods.           *)
LEMMA FirstVersionCount ==
    ASSUME TypeOK, NEW w \in Weights, Stable = None, ~(DynamicStableScale /\ ctx.status.abort)
    PROVE  ReplicaCounts(w).canary = Whole /\ Whole \in Nat
<1> DEFINE want == GetCanaryReplicasOrWeight
           full == ReplicasFor(MaxWeight)
<1>1. want = [replicas |-> -1, weight |-> MaxWeight]
  BY DEF GetCanaryReplicasOrWeight
<1>2. full \in Int /\ AtLeastMinPods(full) \in Nat
  BY CountTypes, ReplicasAssumption
<1> HIDE DEF full, want
<1>3. CanaryCount(want) = AtLeastMinPods(full)
  BY <1>1 DEF CanaryCount, full
<1>4. AtLeastMinPods(AtLeastMinPods(full)) = AtLeastMinPods(full)
  BY <1>2, ReplicasAssumption DEF AtLeastMinPods, CheckMinPodsPerReplicaSet, MaxValue
<1>5. DynamicStableScale =>
         DynamicCounts(want, w).canary = AtLeastMinPods(AtLeastMinPods(full))
  BY <1>3 DEF DynamicCounts
<1> QED
  BY <1>2, <1>3, <1>4, <1>5 DEF ReplicaCounts, Whole, want, full

\* What a step may do to the ReplicaSet of h, as far as an abort is concerned
Spares(h) ==
    /\ status.stableRS = None => rs'[h].replicas <= Whole /\ rs'[h].available <= Whole
    /\ AbortDelay # "long" => rs'[h].deadline # "far"
    /\ /\ pc \in BeforeWeight \cup BeforeScaling /\ pc' \in BeforeWeight \cup BeforeScaling
       /\ AbortSeen /\ h = New
       => (rs[h].deadline = "expired" => rs'[h].deadline = "expired")
    /\ /\ AbortsDelayed /\ h # status.stableRS /\ status.abort /\ ctx.status.abort
       /\ h = status.currentPodHash /\ h = spec.template /\ rs[h].deadline # "expired"
       => rs'[h].replicas >= rs[h].replicas

(* What the invariant says of a ReplicaSet and of its copy.                *)
LEMMA PodsBounded ==
    ASSUME KeepInv, NEW h \in Hash
    PROVE  /\ rs[h].replicas \in Nat /\ rs[h].available \in Nat /\ Available(h) \in Nat
           /\ ctx.rs[h].available = Available(h) /\ Whole \in Nat
           /\ status.stableRS = None => rs[h].replicas <= Whole /\ rs[h].available <= Whole
           /\ status.stableRS = None /\ pc # "idle" => Available(h) <= Whole
           /\ AbortDelay # "long" => rs[h].deadline # "far" /\ ctx.rs[h].deadline # "far"
<1>1. rs[h] \in ReplicaSet /\ Available(h) \in Nat
  BY ReplicaSetTypes DEF KeepInv
<1>2. Whole \in Nat
  BY CountTypes, ReplicasAssumption DEF Whole
<1> QED
  BY <1>1, <1>2 DEF KeepInv, FirstVersionWhole, DeadlinesHeld, ReplicaSet, Available

(* The cluster changes the pods that are available, and lets time pass.    *)
LEMMA ClusterSpares ==
    ASSUME KeepInv, NEW h \in Hash, NEW g \in Hash,
           \/ PodBecomesAvailable(g) \/ SurplusPodsDeleted(g) \/ DeadlinePasses(g)
           \/ PodFails(g)
    PROVE  Spares(h)
<1>1. rs \in [Hash -> ReplicaSet]
  BY DEF KeepInv, TypeOK
<1>2. CASE h # g
  <2>1. rs'[h] = rs[h]
    BY <1>1, <1>2 DEF PodBecomesAvailable, SurplusPodsDeleted, DeadlinePasses, PodFails
  <2> QED
    BY <2>1, PodsBounded DEF Spares
<1>3. CASE h = g
  <2>1. CASE PodBecomesAvailable(g) \/ SurplusPodsDeleted(g) \/ PodFails(g)
    <3>1. /\ rs'[h].replicas = rs[h].replicas /\ rs'[h].deadline = rs[h].deadline
          /\ \/ rs'[h].available = rs[h].replicas
             \/ rs'[h].available = rs[h].available + 1 /\ rs[h].available < rs[h].replicas
             \/ rs'[h].available = rs[h].available - 1
      BY <1>1, <1>3, <2>1 DEF PodBecomesAvailable, SurplusPodsDeleted, PodFails, ReplicaSet
    <3> QED
      BY <3>1, PodsBounded DEF Spares
  <2>2. CASE DeadlinePasses(g)
    <3>1. /\ rs'[h].replicas = rs[h].replicas /\ rs'[h].available = rs[h].available
          /\ rs'[h].deadline \in {"pending", "expired"}
          /\ rs[h].deadline # "expired"
      BY <1>1, <1>3, <2>2 DEF DeadlinePasses, ReplicaSet
    <3> QED
      BY <3>1, PodsBounded DEF Spares
  <2> QED
    BY <2>1, <2>2
<1> QED
  BY <1>2, <1>3

(* Of the stages that write ReplicaSets, only the one of the new one       *)
(* scales an aborted version, and not before its deadline has passed.      *)
LEMMA StageSpares ==
    ASSUME KeepInv, NEW h \in Hash,
           \/ RemoveScaleDownDeadlines \/ ReconcileStableReplicaSet
           \/ ReconcileNewReplicaSet \/ ReconcileOtherReplicaSets \/ ReconcileOthersFails
    PROVE  Spares(h)
<1>1. TypeOK /\ SnapshotHeld /\ rs \in [Hash -> ReplicaSet]
  BY DEF KeepInv, TypeOK
<1>2. /\ New = ctx.status.currentPodHash /\ New = status.currentPodHash /\ New \in Hash
      /\ Stable = status.stableRS /\ pc \notin {"idle", "sync"}
  BY <1>1 DEF SnapshotHeld, RemoveScaleDownDeadlines, ReconcileStableReplicaSet,
     ReconcileNewReplicaSet, ReconcileOtherReplicaSets, ReconcileOthersFails, New, Stable
<1>3. CASE rs'[h] = rs[h]
  BY <1>3, PodsBounded DEF Spares
<1>4. CASE RemoveScaleDownDeadlines
  <2>1. \/ rs'[h] = rs[h]
        \/ rs'[h] = [rs[h] EXCEPT !.deadline = "none"]
           /\ (h = Stable \/ (h = New /\ ~ShouldDelayScaleDownOnAbort))
    BY <1>4 DEF RemoveScaleDownDeadlines
  <2>2. AbortSeen => New # Stable
    BY <1>2 DEF AbortSeen, IsFullyPromoted
  <2>3. ASSUME rs'[h] = [rs[h] EXCEPT !.deadline = "none"]
        PROVE  /\ rs'[h].deadline = "none" /\ rs'[h].replicas = rs[h].replicas
               /\ rs'[h].available = rs[h].available
    BY <1>1, <2>3 DEF ReplicaSet
  <2> QED
    BY <1>3, <2>1, <2>2, <2>3, PodsBounded DEF Spares, AbortSeen
<1>5. CASE ReconcileStableReplicaSet
  <2> DEFINE count == ReplicaCounts(ctx.status.weights).stable
  <2>1. count \in Nat
    BY <1>1, StatusTypes, ReplicaCountTypes
  <2>2. rs'[h] = rs[h] \/
        (/\ h = Stable /\ Stable \notin {None, New}
         /\ \E C \in Conflicts : rs'[h] = Scaled(h, count, h \in C))
    BY <1>1, <1>5 DEF ReconcileStableReplicaSet
  <2> HIDE DEF count
  <2>3. ASSUME NEW C \in Conflicts, rs'[h] = Scaled(h, count, h \in C),
               h = Stable, Stable \notin {None, New}
        PROVE  Spares(h)
    <3>1. rs'[h].deadline \in {"none", rs[h].deadline, ctx.rs[h].deadline}
      BY <1>1, <2>1, <2>3, ScaledFields
    <3> QED
      BY <1>2, <2>3, <3>1, PodsBounded DEF Spares
  <2> QED
    BY <1>3, <2>2, <2>3
<1>6. CASE ReconcileNewReplicaSet
  <2> DEFINE deadline == ctx.rs[New].deadline
             annotate == /\ ShouldDelayScaleDownOnAbort /\ deadline = "none"
                         /\ Available(Stable) = Replicas
             wait == ShouldDelayScaleDownOnAbort /\ deadline \in {"none", "pending"}
             count == IF ShouldDelayScaleDownOnAbort /\ deadline = "expired" THEN 0
                      ELSE ReplicaCounts(ctx.weights).canary
             scales == ~wait /\ ctx.rs[New].replicas # count
  <2>1. count \in Nat
    BY <1>1, ContextTypes, ReplicaCountTypes
  <2>2. pc = "new" /\ pc' \in {"sync", "others"}
        /\ \E C \in Conflicts :
              rs' = [rs EXCEPT ![New] = IF annotate THEN Annotated(@, AbortDelay = "long")
                                        ELSE IF scales THEN Scaled(New, count, New \in C)
                                        ELSE @]
    BY <1>6 DEF ReconcileNewReplicaSet, Proceed
  <2>3. \/ rs'[h] = rs[h]
        \/ h = New /\ annotate /\ rs'[h] = Annotated(rs[h], AbortDelay = "long")
        \/ h = New /\ ~wait /\ \E C \in Conflicts : rs'[h] = Scaled(h, count, h \in C)
    BY <1>1, <2>2
  <2>4. ASSUME h = New, annotate, rs'[h] = Annotated(rs[h], AbortDelay = "long")
        PROVE  Spares(h)
    <3>1. /\ rs'[h].replicas = rs[h].replicas /\ rs'[h].available = rs[h].available
          /\ AbortDelay # "long" => rs'[h].deadline # "far"
      BY <1>1, <2>4 DEF Annotated, ReplicaSet
    <3> QED
      BY <2>2, <3>1, PodsBounded DEF Spares, BeforeWeight, BeforeScaling
  <2>5. ASSUME NEW C \in Conflicts, h = New, ~wait, rs'[h] = Scaled(h, count, h \in C)
        PROVE  Spares(h)
    <3>1. /\ rs'[h].replicas \in {count, rs[h].replicas}
          /\ rs'[h].available = rs[h].available
          /\ rs'[h].deadline \in {"none", rs[h].deadline, ctx.rs[h].deadline}
      <4> HIDE DEF count, wait
      <4> QED
        BY <1>1, <2>1, <2>5, ScaledFields
    <3>2. Stable = None => count = Whole
      <4>1. ASSUME Stable = None PROVE ~(DynamicStableScale /\ ctx.status.abort)
        BY <2>2, <4>1 DEF KeepInv, DeadlinesHeld, BeforeScaling
      <4>2. Stable = None => ~ShouldDelayScaleDownOnAbort
        BY DEF ShouldDelayScaleDownOnAbort
      <4> QED
        BY <1>1, <4>1, <4>2, ContextTypes, FirstVersionCount
    <3>3. ASSUME Stable # None, AbortsDelayed, ctx.status.abort, New # Stable,
                 rs[h].deadline # "expired"
          PROVE  FALSE
      <4>1. ~IsFullyPromoted /\ ~ctx.pause.removeAbort
        BY <1>2, <3>3 DEF KeepInv, DeadlinesHeld, IsFullyPromoted
      <4>2. ShouldDelayScaleDownOnAbort
        BY <3>3, <4>1 DEF ShouldDelayScaleDownOnAbort, IsAborted, AbortsDelayed
      <4>3. deadline # "expired"
        BY <2>2, <2>5, <3>3, <4>1, <4>2 DEF KeepInv, DeadlinesHeld, AbortSeen, BeforeScaling
      <4>4. deadline # "far"
        BY <2>5, <3>3, PodsBounded DEF AbortsDelayed
      <4>5. deadline \in {"none", "far", "pending", "expired"}
        BY <1>1, <1>2, ReplicaSetTypes
      <4> QED
        BY <2>5, <4>2, <4>3, <4>4, <4>5
    <3> HIDE DEF count
    <3> QED
      BY <1>2, <2>2, <2>5, <3>1, <3>2, <3>3, PodsBounded
         DEF Spares, BeforeWeight, BeforeScaling
  <2> QED
    BY <1>3, <2>3, <2>4, <2>5
<1>7. CASE ReconcileOtherReplicaSets \/ ReconcileOthersFails
  <2> DEFINE plan == OldPlan[Len(order)]
  <2>1. plan.count[h] \in {0, Available(h)} /\ plan.count[h] \in Nat
    BY <1>1, OldPlanType DEF Plans
  <2> HIDE DEF plan
  <2>2. \/ rs'[h] = rs[h]
        \/ h \in OldReplicaSets /\ \E C \in Conflicts :
              rs'[h] \in {OldScaled(plan, h, h \in C), Scaled(h, Available(h), h \in C)}
    <3>1. CASE ReconcileOtherReplicaSets
      BY <3>1 DEF ReconcileOtherReplicaSets, plan
    <3>2. CASE ReconcileOthersFails
      BY <3>2 DEF ReconcileOthersFails, plan
    <3> QED
      BY <1>7, <3>1, <3>2
  <2>3. ASSUME h \in OldReplicaSets, NEW C \in Conflicts,
               rs'[h] \in {OldScaled(plan, h, h \in C), Scaled(h, Available(h), h \in C)}
        PROVE  Spares(h)
    <3>1. ASSUME NEW n \in {0, Available(h)}, NEW r, r = Scaled(h, n, h \in C)
          PROVE  /\ r.replicas \in {0, Available(h), rs[h].replicas}
                 /\ r.available = rs[h].available
                 /\ r.deadline \in {"none", rs[h].deadline, ctx.rs[h].deadline}
                 /\ r \in ReplicaSet
      <4>1. n \in Nat
        BY <1>1, ReplicaSetTypes
      <4> QED
        BY <1>1, <3>1, <4>1, ScaledFields, ScaledType
    <3>2. /\ rs'[h].replicas \in {0, Available(h), rs[h].replicas}
          /\ rs'[h].available = rs[h].available
          /\ rs'[h].deadline \in {"none", "pending", rs[h].deadline, ctx.rs[h].deadline}
      <4> DEFINE r == Scaled(h, plan.count[h], h \in C)
      <4>1. /\ r.replicas \in {0, Available(h), rs[h].replicas}
            /\ r.available = rs[h].available
            /\ r.deadline \in {"none", rs[h].deadline, ctx.rs[h].deadline}
            /\ r \in ReplicaSet
        BY <2>1, <3>1
      <4>2. OldScaled(plan, h, h \in C) \in {r, Annotated(r, FALSE)}
        BY DEF OldScaled
      <4> HIDE DEF r
      <4>3. /\ Annotated(r, FALSE).replicas = r.replicas
            /\ Annotated(r, FALSE).available = r.available
            /\ Annotated(r, FALSE).deadline = "pending"
        BY <4>1 DEF Annotated, ReplicaSet
      <4> QED
        BY <2>3, <3>1, <4>1, <4>2, <4>3
    <3>3. h # New /\ pc = "others"
      BY <1>7, <2>3 DEF OldReplicaSets, ReconcileOtherReplicaSets, ReconcileOthersFails
    <3> QED
      BY <1>2, <3>2, <3>3, PodsBounded DEF Spares
  <2> QED
    BY <1>3, <2>2, <2>3
<1> QED
  BY <1>4, <1>5, <1>6, <1>7

(* No step takes pods from an aborted version too early.                   *)
LEMMA EveryStepSpares ==
    ASSUME KeepInv, [Next]_vars, NEW h \in Hash
    PROVE  Spares(h)
<1>1. CASE UNCHANGED rs
  BY <1>1, PodsBounded DEF Spares
<1>2. CASE StartSync
  <2>1. spec.template \in Hash /\ rs \in [Hash -> ReplicaSet]
    BY DEF KeepInv, SnapshotHeld, TypeOK
  <2>2. /\ rs'[h].replicas = rs[h].replicas /\ rs'[h].available = rs[h].available
        /\ rs'[h].deadline = rs[h].deadline
    BY <1>2, <2>1 DEF StartSync, ReplicaSet
  <2> QED
    BY <2>2, PodsBounded DEF Spares
<1>3. CASE ReconcileServices \/ ReconcileTrafficRouting \/ ReconcilePanics \/ ReconcileRuns
           \/ SyncRolloutStatus \/ ReconcileFails
  BY <1>1, <1>3 DEF ReconcileServices, ReconcileTrafficRouting, ReconcilePanics,
     ReconcileRuns, SyncRolloutStatus, ReconcileFails, objects
<1>4. CASE User
  BY <1>1, <1>4 DEF User, SetTemplate, PauseRollout, PromoteRollout, SkipCurrentStep,
     SkipAllSteps, PromoteRolloutFull, AbortRollout, RetryRollout, Edit
<1>5. CASE PauseElapses \/ (\E k \in Kind : RunCompletes(k)) \/ UNCHANGED vars
  BY <1>1, <1>5 DEF PauseElapses, RunCompletes, vars
<1> QED
  BY <1>2, <1>3, <1>4, <1>5, ClusterSpares, StageSpares
     DEF Next, Reconcile, Cluster, Failure

(* Only the promotion gives a rollout its first stable version, and none   *)
(* loses it.                                                               *)
LEMMA StableStays ==
    ASSUME TypeOK, SnapshotHeld, [Next]_vars, status'.stableRS = None
    PROVE  status.stableRS = None
<1>1. CASE SyncRolloutStatus
  <2>1. pc # "idle"
    BY <1>1 DEF SyncRolloutStatus
  <2>2. New \in Hash /\ Stable = status.stableRS
    BY <2>1 DEF SnapshotHeld, New, Stable
  <2>3. status'.stableRS = Patched(status.stableRS, Stable, IF Promotes THEN New ELSE Stable)
    BY <1>1 DEF SyncRolloutStatus, Merged, NewStatus, Stable
  <2> QED
    BY <2>2, <2>3, HashAssumption DEF Patched
<1> QED
  BY <1>1, StepsOfReconcile, UserPatches
     DEF StartSync, GoesOn, Stops, Elsewhere, UserPatch

LEMMA KeepInvKept ==
    ASSUME KeepInv, [Next]_vars, TypeOK', SnapshotHeld'
    PROVE  KeepInv'
<1>1. TypeOK /\ SnapshotHeld
  BY DEF KeepInv
<1>2. \A h \in Hash : Spares(h)
  BY EveryStepSpares
<1>3. \/ StartSync
      \/ pc' = "idle" /\ ctx' = NoContext
      \/ /\ ctx'.rs = ctx.rs /\ ctx'.status = ctx.status /\ ctx'.spec = ctx.spec
         /\ ctx'.pause.removeAbort = ctx.pause.removeAbort
         /\ pc' # "idle" => pc # "idle"
         /\ pc' \in BeforeWeight => pc \in BeforeWeight
         /\ pc' \in BeforeScaling =>
               pc \in BeforeScaling \/ ReconcileTrafficRouting
  BY <1>1, ContextKept
<1>4. StartSync => /\ ctx'.rs = rs' /\ ctx'.status = status
                   /\ ctx'.pause.removeAbort => status.stableRS = status.currentPodHash
                   /\ pc' \in {"sync", "services"}
  <2> DEFINE created == [rs EXCEPT ![spec.template].exists = TRUE]
             promoted == status.stableRS = status.currentPodHash
  <2> SUFFICES ASSUME StartSync
               PROVE  /\ ctx'.rs = rs' /\ ctx'.status = status
                      /\ ctx'.pause.removeAbort => promoted
                      /\ pc' \in {"sync", "services"}
    OBVIOUS
  <2>1. rs' = created /\ pc' \in {"sync", "services"}
    BY DEF StartSync
  <2>2. ctx' = [NoContext EXCEPT
                   !.spec = spec, !.status = status, !.rs = created, !.run = run,
                   !.fresh = fresh, !.weights = status.weights,
                   !.pause.removeAbort = promoted /\ status.abort]
    BY DEF StartSync
  <2> HIDE DEF created
  <2>3. ctx'.rs = created /\ ctx'.status = status
        /\ ctx'.pause = [NoPause EXCEPT !.removeAbort = promoted /\ status.abort]
    BY <2>2 DEF NoContext
  <2>4. ctx'.pause.removeAbort = (promoted /\ status.abort)
    BY <2>3 DEF NoPause
  <2> QED
    BY <2>1, <2>3, <2>4
<1>5. FirstVersionWhole'
  <2> SUFFICES ASSUME status'.stableRS = None, NEW h \in Hash
               PROVE  /\ rs'[h].replicas <= Whole /\ rs'[h].available <= Whole
                      /\ pc' # "idle" => /\ ctx'.rs[h].replicas <= Whole
                                         /\ ctx'.rs[h].available <= Whole
    BY DEF FirstVersionWhole, Whole, AtLeastMinPods, ReplicasFor
  <2>1. status.stableRS = None
    BY <1>1, StableStays
  <2>2. rs'[h].replicas <= Whole /\ rs'[h].available <= Whole
    BY <1>2, <2>1 DEF Spares
  <2>3. pc # "idle" => ctx.rs[h].replicas <= Whole /\ ctx.rs[h].available <= Whole
    BY <2>1 DEF KeepInv, FirstVersionWhole
  <2> QED
    BY <1>3, <1>4, <2>2, <2>3
<1>6. ASSUME AbortDelay # "long", NEW h \in Hash
      PROVE  rs'[h].deadline # "far" /\ ctx'.rs[h].deadline # "far"
  <2>1. rs'[h].deadline # "far" /\ ctx.rs[h].deadline # "far"
    BY <1>2, <1>6 DEF Spares, KeepInv, DeadlinesHeld
  <2>2. NoContext.rs[h].deadline # "far"
    BY DEF NoContext, NewReplicaSet
  <2> QED
    BY <1>3, <1>4, <2>1, <2>2
<1>7. pc' # "idle" /\ ctx'.pause.removeAbort => IsFullyPromoted'
  <2>1. pc # "idle" /\ ctx.pause.removeAbort => IsFullyPromoted
    BY DEF KeepInv, DeadlinesHeld
  <2> QED
    BY <1>3, <1>4, <2>1 DEF IsFullyPromoted, Stable
<1>8. ASSUME pc' \in BeforeScaling, DynamicStableScale, Stable' = None
      PROVE  ~ctx'.status.abort
  <2>1. pc' # "idle" /\ ~StartSync
    BY <1>4, <1>8 DEF BeforeScaling
  <2>2. ctx'.status = ctx.status /\ (pc \in BeforeScaling \/ ReconcileTrafficRouting)
    BY <1>3, <1>8, <2>1
  <2>3. Stable = None
    BY <1>8, <2>2 DEF Stable
  <2>4. CASE pc \in BeforeScaling
    BY <1>8, <2>2, <2>3, <2>4 DEF KeepInv, DeadlinesHeld
  <2>5. CASE ReconcileTrafficRouting
    <3>1. pc = "traffic" /\ ~Panics
      BY <2>5 DEF ReconcileTrafficRouting
    <3>2. ctx.status.currentPodHash \in Hash
      BY <1>1, <3>1 DEF SnapshotHeld
    <3>3. ~IsFullyPromoted /\ ~RollingBack
      BY <2>3, <3>2, HashAssumption DEF IsFullyPromoted, RollingBack
    <3>4. ~ctx.pause.removeAbort
      BY <3>1, <3>3 DEF KeepInv, DeadlinesHeld
    <3> QED
      BY <1>8, <2>2, <2>3, <3>1, <3>3, <3>4 DEF Panics, IsAborted
  <2> QED
    BY <2>2, <2>4, <2>5
<1>9. ASSUME pc' \in BeforeWeight \cup BeforeScaling, AbortSeen',
             ctx'.rs[New'].deadline = "expired"
      PROVE  rs'[New'].deadline = "expired"
  <2>1. CASE StartSync
    BY <1>4, <1>9, <2>1
  <2>2. CASE ~StartSync
    <3>1. /\ ctx'.rs = ctx.rs /\ ctx'.status = ctx.status /\ ctx'.spec = ctx.spec
          /\ ctx'.pause.removeAbort = ctx.pause.removeAbort
      BY <1>3, <1>9, <2>2 DEF BeforeWeight, BeforeScaling
    <3>2. pc \in BeforeWeight \cup BeforeScaling
      <4>1. ReconcileTrafficRouting => pc \in BeforeWeight
        BY DEF ReconcileTrafficRouting, BeforeWeight
      <4> QED
        BY <1>3, <1>9, <2>2, <4>1 DEF BeforeWeight, BeforeScaling
    <3>3. New' = New /\ New \in Hash
      BY <1>1, <3>1, <3>2 DEF New, SnapshotHeld, BeforeWeight, BeforeScaling
    <3>4. AbortSeen
      BY <1>9, <3>1 DEF AbortSeen, IsFullyPromoted, ShouldDelayScaleDownOnAbort,
         IsAborted, Stable
    <3>5. rs[New].deadline = "expired"
      BY <1>9, <3>1, <3>2, <3>3, <3>4 DEF KeepInv, DeadlinesHeld
    <3> QED
      BY <1>2, <1>9, <3>2, <3>3, <3>4, <3>5 DEF Spares
  <2> QED
    BY <2>1, <2>2
<1>10. DeadlinesHeld'
  BY <1>6, <1>7, <1>8, <1>9 DEF DeadlinesHeld
<1> QED
  BY <1>5, <1>10 DEF KeepInv

LEMMA KeepInvHolds == Spec => []KeepInv
<1>1. Init /\ TypeOK /\ SnapshotHeld => KeepInv
  <2> SUFFICES ASSUME Init, TypeOK, SnapshotHeld PROVE KeepInv
    OBVIOUS
  <2>1. Whole \in Nat
    BY CountTypes, ReplicasAssumption DEF Whole
  <2>2. \A h \in Hash : /\ rs[h].replicas = 0 /\ rs[h].available = 0
                        /\ rs[h].deadline = "none" /\ ctx.rs[h].deadline = "none"
    BY DEF Init, NewReplicaSet, NoContext
  <2>3. pc = "idle"
    BY DEF Init
  <2> QED
    BY <2>1, <2>2, <2>3
       DEF KeepInv, FirstVersionWhole, DeadlinesHeld, BeforeWeight, BeforeScaling
<1>2. KeepInv /\ [Next]_vars /\ (TypeOK /\ SnapshotHeld)' => KeepInv'
  BY KeepInvKept
<1> QED
  BY <1>1, <1>2, TypeCorrect, PTL DEF Spec

(* Once a reconcile has seen the abort, the aborted version keeps its pods *)
(* until the abort delay has passed, when one is set, or is the default    *)
(* and the stable version is not scaled dynamically: whatever is planned   *)
(* for it, removed from its annotations or lost on the way.                *)
THEOREM AbortedKeepsItsPods ==
    ASSUME AbortsDelayed
    PROVE  Spec => AbortedCanaryKept
<1> DEFINE Kept(h) == /\ status.abort /\ ctx.status.abort
                      /\ h = status.currentPodHash /\ h = spec.template
                      /\ rs[h].deadline # "expired"
                      => rs'[h].replicas >= rs[h].replicas
<1>1. KeepInv /\ [Next]_vars => [\A h \in Hash \ {status.stableRS} : Kept(h)]_vars
  BY EveryStepSpares DEF Spares
<1> QED
  BY <1>1, KeepInvHolds, PTL DEF Spec, AbortedCanaryKept

-----------------------------------------------------------------------------
(* The traffic of an aborted version.                                      *)

LEMMA WeightsStay ==
    ASSUME MaxErrors = 0, ~VerifyWeights, TypeOK, SnapshotHeld, WeightsKnown, [Next]_vars
    PROVE  WeightsKnown'
<1>1. used.errors = 0
  BY DEF TypeOK
<1>2. ~ReconcileFails /\ ~ReconcileOthersFails
  BY <1>1 DEF ReconcileFails, ReconcileOthersFails
<1>3. CASE UNCHANGED <<pc, ctx, route>> /\ status'.weights = status.weights
  BY <1>3 DEF WeightsKnown
<1>4. CASE StartSync
  <2>1. ctx'.weights = status.weights /\ ctx'.status = status
    BY <1>4 DEF StartSync, NoContext
  <2> QED
    BY <1>4, <2>1 DEF StartSync, WeightsKnown
<1>5. CASE ReconcileServices
  BY <1>5 DEF ReconcileServices, WeightsKnown, BeforeWeight
<1>6. CASE ReconcileTrafficRouting
  <2> DEFINE weight == DesiredWeight(ctx.pause)
             weights == [canary |-> weight,
                         canaryHash |-> IF RollingBack THEN ctx.status.weights.canaryHash
                                        ELSE New,
                         stableHash |-> Stable]
  <2>1. /\ route' = weight /\ UNCHANGED status /\ pc = "traffic" /\ pc' = "runs"
        /\ \E b : ctx' = [ctx EXCEPT !.weights = weights, !.verified = b]
    BY <1>6 DEF ReconcileTrafficRouting
  <2>2. weights.canary = weight
    OBVIOUS
  <2> HIDE DEF weight, weights
  <2>3. ctx'.weights.canary = route' /\ ctx'.status = ctx.status
    BY <2>1, <2>2 DEF TypeOK, Context
  <2> QED
    BY <2>1, <2>3 DEF WeightsKnown, BeforeWeight
<1>7. CASE ReconcilePanics
  BY <1>7 DEF ReconcilePanics, objects, WeightsKnown, BeforeWeight
<1>8. CASE ReconcileRuns
  <2>1. \E f, g, a, b : ctx' = [ctx EXCEPT !.run = f, !.named = g, !.pause.add = a,
                                           !.pause.addAbort = b]
    BY <1>8, Zenon DEF ReconcileRuns
  <2>2. ctx'.weights = ctx.weights /\ ctx'.status = ctx.status
    BY <2>1 DEF TypeOK, Context
  <2>3. pc = "runs" /\ pc' \in {"sync", "deadlines"} /\ UNCHANGED <<route, status>>
    BY <1>8, Zenon DEF ReconcileRuns
  <2> QED
    BY <2>2, <2>3 DEF WeightsKnown, BeforeWeight
<1>9. CASE \/ RemoveScaleDownDeadlines \/ ReconcileStableReplicaSet
           \/ ReconcileNewReplicaSet \/ ReconcileOtherReplicaSets
  BY <1>9 DEF RemoveScaleDownDeadlines, ReconcileStableReplicaSet, ReconcileNewReplicaSet,
     ReconcileOtherReplicaSets, Proceed, KeepsButReplicaSets, WeightsKnown, BeforeWeight
<1>10. CASE SyncRolloutStatus
  <2>1. /\ pc # "idle" /\ pc' = "idle" /\ route' = route
        /\ status'.weights = Patched(status.weights, ctx.status.weights, ctx.weights)
    BY <1>10 DEF SyncRolloutStatus, Merged, NewStatus
  <2>2. status'.weights = ctx.weights
    BY <2>1 DEF WeightsKnown, Patched
  <2> QED
    BY <2>1, <2>2 DEF WeightsKnown
<1>11. CASE User
  <2>1. UNCHANGED <<pc, ctx, route>>
    BY <1>11 DEF User, SetTemplate, PauseRollout, PromoteRollout, SkipCurrentStep,
       SkipAllSteps, PromoteRolloutFull, AbortRollout, RetryRollout, Edit
  <2>2. status'.weights = status.weights
    BY <1>11 DEF User, SetTemplate, PauseRollout, PromoteRollout, SkipCurrentStep,
       SkipAllSteps, PromoteRolloutFull, AbortRollout, RetryRollout, TypeOK, Status_
  <2> QED
    BY <1>3, <2>1, <2>2
<1>12. ASSUME NEW h \in Hash,
              \/ PodBecomesAvailable(h) \/ SurplusPodsDeleted(h) \/ DeadlinePasses(h)
              \/ PodFails(h)
       PROVE  UNCHANGED <<pc, ctx, route, status>>
  BY <1>12 DEF PodBecomesAvailable, SurplusPodsDeleted, DeadlinePasses, PodFails
<1>13. PauseElapses \/ (\E k \in Kind : RunCompletes(k)) \/ UNCHANGED vars
          => UNCHANGED <<pc, ctx, route, status>>
  BY DEF PauseElapses, RunCompletes, vars
<1> QED
  BY <1>2, <1>3, <1>4, <1>5, <1>6, <1>7, <1>8, <1>9, <1>10, <1>11, <1>12, <1>13
     DEF Next, Reconcile, Cluster, Failure

LEMMA WeightsKnownHolds ==
    ASSUME MaxErrors = 0, ~VerifyWeights
    PROVE  Spec => []WeightsKnown
<1>1. Init => WeightsKnown
  BY DEF Init, WeightsKnown, NoStatus, NoWeights
<1>2. WeightsKnown /\ TypeOK /\ SnapshotHeld /\ [Next]_vars => WeightsKnown'
  BY WeightsStay
<1> QED
  BY <1>1, <1>2, TypeCorrect, PTL DEF Spec

(* What is left of the traffic when the stable version takes its share is  *)
(* no less than that version's pods cannot take.                           *)
LEMMA SpareShare ==
    ASSUME NEW a \in Nat
    PROVE  LET spare == MaxValue(0, MaxWeight - (MaxWeight * a) \div Replicas)
           IN  spare \in Nat /\ (MaxWeight - spare) * Replicas <= MaxWeight * a
<1> DEFINE p == MaxWeight * a
           q == p \div Replicas
<1>1. p \in Nat /\ Replicas \in Nat \ {0} /\ MaxWeight \in Nat \ {0}
  BY ReplicasAssumption
<1> HIDE DEF p
<1>2. q \in Nat /\ q * Replicas <= p
  BY <1>1
<1> HIDE DEF q
<1>3. CASE q <= MaxWeight
  <2>1. MaxValue(0, MaxWeight - q) = MaxWeight - q
    BY <1>1, <1>2, <1>3 DEF MaxValue
  <2>2. MaxWeight - (MaxWeight - q) = q
    BY <1>1, <1>2
  <2> QED
    BY <1>1, <1>2, <1>3, <2>1, <2>2 DEF p, q
<1>4. CASE q > MaxWeight
  <2>1. MaxValue(0, MaxWeight - q) = 0
    BY <1>1, <1>2, <1>4 DEF MaxValue
  <2>2. MaxWeight * Replicas <= q * Replicas
    BY <1>1, <1>2, <1>4
  <2> QED
    BY <1>1, <1>2, <2>1, <2>2 DEF p, q
<1> QED
  BY <1>1, <1>2, <1>3, <1>4

(* With dynamicStableScale, the weight of an aborted canary is lowered no  *)
(* further than the available pods of the stable version can take over,    *)
(* whatever pods fail and users do meanwhile, as long as no reconcile is   *)
(* cut short between the weight and the status.                            *)
THEOREM AbortedTrafficIsTaken ==
    ASSUME DynamicStableScale, ~VerifyWeights, MaxErrors = 0
    PROVE  Spec => AbortSparesStable
<1> DEFINE Taken == (/\ status.abort /\ ctx.status.abort
                     /\ Stable \notin {None, ctx.status.currentPodHash}
                     /\ route' < route)
                    => (MaxWeight - route') * Replicas <= MaxWeight * Available(Stable)
<1>1. ASSUME KeepInv, WeightsKnown, Next, ctx.status.abort,
             Stable \notin {None, ctx.status.currentPodHash}, route' < route
      PROVE  (MaxWeight - route') * Replicas <= MaxWeight * Available(Stable)
  <2>1. TypeOK /\ SnapshotHeld
    BY <1>1 DEF KeepInv
  <2>2. ReconcileTrafficRouting
    <3>1. route' # route
      BY <1>1, <2>1 DEF TypeOK
    <3> QED
      BY <1>1, <3>1, OnlyTrafficRoutes
  <2>3. pc = "traffic" /\ route' = DesiredWeight(ctx.pause)
    BY <2>2 DEF ReconcileTrafficRouting
  <2>4. ~IsFullyPromoted /\ ~RollingBack
    BY <1>1 DEF IsFullyPromoted, RollingBack
  <2>5. IsAborted(ctx.pause)
    BY <1>1, <2>3, <2>4 DEF KeepInv, DeadlinesHeld, IsAborted
  <2> DEFINE spare == MaxValue(0, MaxWeight - (MaxWeight * Available(Stable)) \div Replicas)
  <2>6. route' = IF ctx.status.weights = NoWeights THEN spare
                 ELSE MinValue(spare, ctx.status.weights.canary)
    BY <2>3, <2>4, <2>5 DEF DesiredWeight, ReturnWeight
  <2>7. Available(Stable) \in Nat
    BY <1>1, <2>1, StatusTypes, ReplicaSetTypes DEF OptHash
  <2>8. spare \in Nat /\ (MaxWeight - spare) * Replicas <= MaxWeight * Available(Stable)
    BY <2>7, SpareShare
  <2>9. ctx.status.weights.canary = route
    BY <1>1, <2>3 DEF WeightsKnown, BeforeWeight
  <2> HIDE DEF spare
  <2>10. route' = spare
    BY <1>1, <2>6, <2>8, <2>9 DEF MinValue, KeepInv, TypeOK
  <2> QED
    BY <2>8, <2>10
<1>2. KeepInv /\ WeightsKnown /\ [Next]_vars => [Taken]_vars
  BY <1>1
<1> QED
  BY <1>2, KeepInvHolds, WeightsKnownHolds, PTL DEF Spec, AbortSparesStable
-----------------------------------------------------------------------------
(* The pods for the traffic.                                               *)

(* No later step lowers the weight. *)
LEMMA WeightsRise ==
    ASSUME RisingSteps, NEW i \in Int, NEW k \in Int, i <= k
    PROVE  LastSetWeight(i) <= LastSetWeight(k)
<1> DEFINE Before == StepsUpTo("setWeight", i)
           Upto == StepsUpTo("setWeight", k)
<1>1. LastSetWeight(i) \in Nat /\ LastSetWeight(k) \in Nat
  BY LastSetWeightType, ReplicasAssumption
<1>2. CASE Before = {}
  BY <1>1, <1>2 DEF LastSetWeight
<1>3. CASE Before # {}
  <2> DEFINE j == Last(Before)
             m == Last(Upto)
  <2>1. Before \subseteq Upto
    BY DEF StepsUpTo
  <2>2. j \in Before /\ m \in Upto /\ \A n \in Upto : n <= m
    BY <1>3, <2>1, LastOfKind
  <2>3. /\ LastSetWeight(i) = Steps[j + 1].value
        /\ LastSetWeight(k) = Steps[m + 1].value
    BY <1>3, <2>1 DEF LastSetWeight
  <2> HIDE DEF j, m
  <2>4. /\ j \in Nat /\ m \in Nat /\ j <= m /\ m < StepCount
        /\ Steps[j + 1].kind = "setWeight" /\ Steps[m + 1].kind = "setWeight"
    BY <2>1, <2>2 DEF StepsUpTo
  <2>5. j + 1 \in 1..(m + 1) /\ m + 1 \in 1..StepCount
    BY <2>4, CountsAssumed
  <2> QED
    BY <2>3, <2>4, <2>5 DEF RisingSteps
<1> QED
  BY <1>2, <1>3

(* The pods for a weight can take the traffic of it, and the minimum of    *)
(* pods takes none away; all the weight is for all the pods.               *)
LEMMA PodsForWeight ==
    ASSUME NEW w \in Nat
    PROVE  /\ AtLeastMinPods(ReplicasFor(w)) \in Nat
           /\ w * Replicas <= AtLeastMinPods(ReplicasFor(w)) * MaxWeight
           /\ w = MaxWeight => Replicas <= AtLeastMinPods(ReplicasFor(w))
<1> DEFINE p == w * Replicas
           q == (p + MaxWeight - 1) \div MaxWeight
<1>1. p \in Nat /\ Replicas \in Nat \ {0} /\ MaxWeight \in Nat \ {0}
  BY ReplicasAssumption
<1>2. ReplicasFor(w) = q
  BY DEF ReplicasFor, TrafficWeightToReplicas, CeilDiv
<1> HIDE DEF p
<1>3. q \in Nat /\ p <= q * MaxWeight
  BY <1>1
<1> HIDE DEF q
<1>4. AtLeastMinPods(q) \in Nat /\ q <= AtLeastMinPods(q)
  BY <1>3, ReplicasAssumption DEF AtLeastMinPods, CheckMinPodsPerReplicaSet, MaxValue
<1> DEFINE n == AtLeastMinPods(q)
<1>5. q * MaxWeight <= n * MaxWeight
  <2> HIDE DEF n
  <2> QED
    BY <1>1, <1>3, <1>4 DEF n
<1>6. w = MaxWeight => Replicas <= q
  <2> SUFFICES ASSUME w = MaxWeight, q < Replicas PROVE FALSE
    BY <1>1, <1>3
  <2>1. q * MaxWeight < Replicas * MaxWeight
    BY <1>1, <1>3
  <2> QED
    BY <1>1, <1>3, <2>1 DEF p
<1> QED
  BY <1>1, <1>2, <1>3, <1>4, <1>5, <1>6 DEF p, n

(* The weights that are stored are those that were set.                    *)
LEMMA WeightsStored ==
    ASSUME TypeOK, [Next]_vars
    PROVE  /\ status'.weights \in {status.weights, ctx.weights}
           /\ \/ ctx'.weights \in {NoWeights, status.weights, ctx.weights}
              \/ ReconcileTrafficRouting /\ ctx'.weights.canary = DesiredWeight(ctx.pause)
<1>1. CASE StartSync
  BY <1>1 DEF StartSync, NoContext
<1>2. CASE ReconcileTrafficRouting
  <2> DEFINE weight == DesiredWeight(ctx.pause)
             weights == [canary |-> weight,
                         canaryHash |-> IF RollingBack THEN ctx.status.weights.canaryHash
                                        ELSE New,
                         stableHash |-> Stable]
  <2>1. /\ UNCHANGED status
        /\ \/ ctx' = NoContext
           \/ \E b : ctx' = [ctx EXCEPT !.weights = weights, !.verified = b]
    BY <1>2 DEF ReconcileTrafficRouting
  <2>2. weights.canary = weight
    OBVIOUS
  <2> HIDE DEF weight, weights
  <2>3. ASSUME NEW b, ctx' = [ctx EXCEPT !.weights = weights, !.verified = b]
        PROVE  ctx'.weights = weights
    BY <2>3 DEF TypeOK, Context
  <2>4. NoContext.weights = NoWeights
    BY DEF NoContext
  <2> QED
    BY <1>2, <2>1, <2>2, <2>3, <2>4 DEF weight
<1>3. CASE ReconcileRuns
  <2>1. \E f, g, a, b : ctx' = [ctx EXCEPT !.run = f, !.named = g, !.pause.add = a,
                                           !.pause.addAbort = b]
    BY <1>3, Zenon DEF ReconcileRuns
  <2>2. ctx'.weights = ctx.weights
    BY <2>1 DEF TypeOK, Context
  <2>3. UNCHANGED status
    BY <1>3, Zenon DEF ReconcileRuns
  <2> QED
    BY <2>2, <2>3
<1>4. CASE ReconcileFails \/ ReconcilePanics
  BY <1>4 DEF ReconcileFails, ReconcilePanics, NoContext, objects
<1>5. CASE SyncRolloutStatus
  BY <1>5 DEF SyncRolloutStatus, Merged, NewStatus, Patched, NoContext
<1>6. CASE User
  <2>1. UNCHANGED ctx
    BY <1>6, UserPatches DEF UserPatch
  <2>2. status'.weights = status.weights
    BY <1>6 DEF User, SetTemplate, PauseRollout, PromoteRollout, SkipCurrentStep,
       SkipAllSteps, PromoteRolloutFull, AbortRollout, RetryRollout, TypeOK, Status_
  <2> QED
    BY <2>1, <2>2
<1>7. CASE \/ ReconcileServices \/ RemoveScaleDownDeadlines \/ ReconcileStableReplicaSet
           \/ ReconcileNewReplicaSet \/ ReconcileOtherReplicaSets \/ ReconcileOthersFails
  BY <1>7 DEF ReconcileServices, RemoveScaleDownDeadlines, ReconcileStableReplicaSet,
     ReconcileNewReplicaSet, ReconcileOtherReplicaSets, ReconcileOthersFails, Proceed,
     KeepsButReplicaSets
<1>8. CASE Cluster \/ (\E h \in Hash : PodFails(h)) \/ UNCHANGED vars
  BY <1>8 DEF Cluster, PodBecomesAvailable, SurplusPodsDeleted, DeadlinePasses, PodFails,
     PauseElapses, RunCompletes, vars
<1> QED
  BY <1>1, <1>2, <1>3, <1>4, <1>5, <1>6, <1>7, <1>8 DEF Next, Reconcile, Failure

(* A reconcile that decides on an abort by itself found no deadline on the *)
(* new ReplicaSet: an analysis is skipped of one that has a deadline, an   *)
(* experiment is not (skipReconcileAnalysisRuns).                          *)
LEMMA OwnAbortWithoutDeadline ==
    ASSUME TypeOK, RisingSteps, ReconcileRuns, ctx'.pause.addAbort
    PROVE  ~HasScaleDownDeadline(New)
<1> DEFINE ex == ReconcileExperiments
           exEnds == ex.acts /\ ctx.run["experiment"].phase = "Failed"
           exPauses == ex.acts /\ ctx.run["experiment"].phase = "Inconclusive"
           skip == SkipAnalysis([ctx.pause EXCEPT !.addAbort = @ \/ exEnds])
           Skipped(k) == [Keep(k) EXCEPT !.run = Cancelled(run[k])]
           plan == [k \in Kind |-> IF k = "experiment" THEN ex
                                   ELSE IF skip THEN Skipped(k)
                                   ELSE IF k = "step" THEN ReconcileStepRun
                                   ELSE ReconcileBackgroundRun]
           phases == {ctx.run[k].phase : k \in {j \in Kind \ {"experiment"} : plan[j].acts}}
           ends == exEnds \/ "Failed" \in phases
<1>1. PICK f, g, a : ctx' = [ctx EXCEPT !.run = f, !.named = g, !.pause.add = a,
                                        !.pause.addAbort = ends]
  BY Zenon DEF ReconcileRuns
<1>2. ~AtStep("experiment")
  <2>1. Index \in Nat /\ StepCount \in Nat
    BY StatusTypes, CountsAssumed
  <2> QED
    BY <2>1 DEF AtStep, HasStep, RisingSteps
<1>3. ~exEnds
  BY <1>2, ActingRuns
<1>4. phases # {} => ~skip
  BY DEF Keep
<1>5. skip \/ ~HasScaleDownDeadline(New)
  BY DEF SkipAnalysis
<1> HIDE DEF ends
<1>6. ctx'.pause = [ctx.pause EXCEPT !.add = a, !.addAbort = ends]
  BY <1>1 DEF TypeOK, Context
<1>7. ctx'.pause.addAbort = ends
  BY <1>6, ContextTypes DEF Pause_
<1> QED
  BY <1>3, <1>4, <1>5, <1>7 DEF ends

(* The weight that is set is no more than all of it, nothing of an aborted *)
(* version, and no more than the steps ask for where the pods follow it.   *)
LEMMA DesiredWeightCovered ==
    ASSUME ~DynamicStableScale, RisingSteps, KeepInv, TrafficCovered, pc = "traffic"
    PROVE  LET weight == DesiredWeight(ctx.pause)
           IN  /\ weight <= MaxWeight
               /\ ctx.status.abort /\ ~IsFullyPromoted => weight = 0
               /\ FollowsWeight => weight <= GetCurrentSetWeight
<1>1. TypeOK /\ Index \in Nat /\ StepCount \in Nat /\ MaxWeight \in Nat
  BY StatusTypes, CountsAssumed, ReplicasAssumption DEF KeepInv
<1>2. ReturnWeight = 0 /\ ~RollingBack
  BY DEF ReturnWeight, RollingBack
<1>3. LastSetWeight(Index - 1) \in 0..MaxWeight /\ LastSetWeight(Index) \in 0..MaxWeight
  BY <1>1, LastSetWeightType
<1>4. LastSetWeight(Index - 1) <= LastSetWeight(Index)
  BY <1>1, WeightsRise
<1>5. GetCurrentSetWeight \in 0..MaxWeight
  BY <1>1, SetWeightType
<1>6. FullPromotionWeight <= MaxWeight
  BY DEF FullPromotionWeight, TrafficCovered
<1>7. ctx.status.abort /\ ~IsFullyPromoted => IsAborted(ctx.pause)
  BY DEF KeepInv, DeadlinesHeld, IsAborted
<1>8. IsAborted(ctx.pause) => ctx.status.abort
  BY DEF TrafficCovered, NoAbortYet, BeforeWeight, IsAborted
<1>9. ~ctx.status.abort =>
         GetCurrentSetWeight = IF Index < StepCount THEN LastSetWeight(Index) ELSE MaxWeight
  BY DEF GetCurrentSetWeight, HasStep
<1> HIDE DEF DesiredWeight
<1>10. CASE IsFullyPromoted \/ IsAborted(ctx.pause)
  BY <1>1, <1>2, <1>5, <1>10 DEF DesiredWeight, FollowsWeight
<1>11. CASE ~IsFullyPromoted /\ ~IsAborted(ctx.pause)
  <2>1. ~ctx.status.abort
    BY <1>7, <1>11
  <2>2. DesiredWeight(ctx.pause) \in
           {0, FullPromotionWeight, LastSetWeight(Index - 1), GetCurrentSetWeight, MaxWeight}
    BY <1>2 DEF DesiredWeight
  <2>3. ASSUME ~ctx.status.promoteFull
        PROVE  DesiredWeight(ctx.pause) <= GetCurrentSetWeight
    <3>1. \/ DesiredWeight(ctx.pause) \in {0, LastSetWeight(Index - 1), GetCurrentSetWeight}
          \/ DesiredWeight(ctx.pause) = MaxWeight /\ Index = StepCount
      BY <1>2, <1>11, <2>3 DEF DesiredWeight
    <3> QED
      BY <1>1, <1>3, <1>4, <1>5, <1>9, <2>1, <3>1
  <2> QED
    BY <1>1, <1>2, <1>3, <1>5, <1>6, <2>1, <2>2, <2>3 DEF FollowsWeight
<1> QED
  BY <1>10, <1>11

LEMMA TrafficCoveredKept ==
    ASSUME ~DynamicStableScale, RisingSteps, KeepInv, TrafficCovered, [Next]_vars, NoAbortYet'
    PROVE  TrafficCovered'
<1>1. TypeOK /\ SnapshotHeld /\ NoWeights.canary <= MaxWeight /\ ~(pc = "traffic" /\ pc = "idle")
  BY ReplicasAssumption DEF KeepInv, NoWeights
<1>2. ReconcileTrafficRouting =>
        /\ pc = "traffic" /\ route' = DesiredWeight(ctx.pause)
        /\ route' <= MaxWeight
        /\ ctx.status.abort /\ ~IsFullyPromoted => route' = 0
        /\ FollowsWeight => route' <= GetCurrentSetWeight
        /\ pc' \in {"idle", "runs"}
  BY DesiredWeightCovered DEF ReconcileTrafficRouting
<1>3. ~ReconcileTrafficRouting => route' = route
  BY OnlyTrafficRoutes
<1>4. \/ StartSync
      \/ pc' = "idle" /\ ctx' = NoContext
      \/ /\ ctx'.rs = ctx.rs /\ ctx'.status = ctx.status /\ ctx'.spec = ctx.spec
         /\ ctx'.pause.removeAbort = ctx.pause.removeAbort
         /\ pc' # "idle" => pc # "idle"
         /\ pc' \in BeforeScaling => pc \in BeforeScaling \/ ReconcileTrafficRouting
         /\ ctx'.pause = ctx.pause \/ ReconcileRuns
  BY <1>1, ContextKept
<1>5. StartSync =>
        /\ ctx'.status = status /\ pc' \in {"sync", "services"}
        /\ ctx'.pause.removeAbort = (status.stableRS = status.currentPodHash /\ status.abort)
  <2> SUFFICES ASSUME StartSync
               PROVE  /\ ctx'.status = status /\ pc' \in {"sync", "services"}
                      /\ ctx'.pause.removeAbort =
                            (status.stableRS = status.currentPodHash /\ status.abort)
    OBVIOUS
  <2>1. /\ ctx'.status = status /\ pc' \in {"sync", "services"}
        /\ ctx'.pause = [NoPause EXCEPT
              !.removeAbort = status.stableRS = status.currentPodHash /\ status.abort]
    BY DEF StartSync, NoContext
  <2> QED
    BY <2>1 DEF NoPause
<1>6. route' <= MaxWeight
  BY <1>2, <1>3 DEF TrafficCovered
<1>7. \A w \in {status'.weights, ctx'.status.weights, ctx'.weights} : w.canary <= MaxWeight
  <2>1. status.weights.canary <= MaxWeight /\ ctx.status.weights.canary <= MaxWeight
        /\ ctx.weights.canary <= MaxWeight
    BY DEF TrafficCovered
  <2>2. NoContext.status.weights = NoWeights
    BY DEF NoContext, NoStatus
  <2>3. ctx'.status.weights.canary <= MaxWeight
    BY <1>1, <1>4, <1>5, <2>1, <2>2
  <2>4. status'.weights.canary <= MaxWeight
    BY <1>1, <2>1, WeightsStored
  <2>5. ctx'.weights.canary <= MaxWeight
    BY <1>1, <1>2, <2>1, WeightsStored
  <2> QED
    BY <2>3, <2>4, <2>5
<1>8. pc' # "idle" /\ ctx'.status.abort /\ IsFullyPromoted' => ctx'.pause.removeAbort
  <2>1. pc # "idle" /\ ctx.status.abort /\ IsFullyPromoted => ctx.pause.removeAbort
    BY DEF TrafficCovered
  <2> QED
    BY <1>4, <1>5, <2>1 DEF IsFullyPromoted, Stable
<1>9. ASSUME pc' \in BeforeScaling
      PROVE  /\ ctx'.status.abort /\ ~IsFullyPromoted' => route' = 0
             /\ FollowsWeight' => route' <= GetCurrentSetWeight'
             /\ ctx'.pause.addAbort => ~HasScaleDownDeadline(New)'
  <2>1. pc' # "idle" /\ ~StartSync
    BY <1>5, <1>9 DEF BeforeScaling
  <2>2. /\ ctx'.rs = ctx.rs /\ ctx'.status = ctx.status /\ ctx'.spec = ctx.spec
        /\ pc \in BeforeScaling \/ ReconcileTrafficRouting
        /\ ctx'.pause = ctx.pause \/ ReconcileRuns
    BY <1>4, <1>9, <2>1
  <2>3. /\ IsFullyPromoted' <=> IsFullyPromoted
        /\ FollowsWeight' <=> FollowsWeight
        /\ GetCurrentSetWeight' = GetCurrentSetWeight
        /\ HasScaleDownDeadline(New)' <=> HasScaleDownDeadline(New)
    BY <2>2 DEF IsFullyPromoted, FollowsWeight, GetCurrentSetWeight, HasScaleDownDeadline,
       HasStep, Index, Stable, New
  <2>4. CASE ReconcileTrafficRouting
    <3>1. ~ctx'.pause.addAbort
      BY <1>2, <2>1, <2>4 DEF NoAbortYet
    <3> QED
      BY <1>2, <2>2, <2>3, <2>4, <3>1
  <2>5. CASE ~ReconcileTrafficRouting
    <3>1. ctx'.pause.addAbort => ~HasScaleDownDeadline(New)
      BY <1>1, <2>2, <2>5, OwnAbortWithoutDeadline DEF TrafficCovered
    <3> QED
      BY <1>3, <2>2, <2>3, <2>5, <3>1 DEF TrafficCovered
  <2> QED
    BY <2>4, <2>5
<1> QED
  BY <1>6, <1>7, <1>8, <1>9 DEF TrafficCovered

LEMMA TrafficCoveredHolds ==
    ASSUME ~DynamicStableScale, RisingSteps
    PROVE  Spec => []TrafficCovered
<1>1. Init => TrafficCovered
  BY ReplicasAssumption DEF Init, TrafficCovered, NoAbortYet, NoStatus, NoContext, NoWeights,
     BeforeWeight, BeforeScaling
<1>2. KeepInv /\ TrafficCovered /\ [Next]_vars /\ NoAbortYet' => TrafficCovered'
  BY TrafficCoveredKept
<1> QED
  BY <1>1, <1>2, KeepInvHolds, NoAbortYetHolds, PTL DEF Spec

\* A step leaves h the pods for its traffic, or those it has
Covers(h) ==
    /\ svc.stable = h => h = status.stableRS
    /\ rs'[h].replicas < MinValue(rs[h].replicas, ctx.rs[h].available)
    => rs'[h].replicas * MaxWeight >= Share(h) * Replicas

(* A version without a Service has no traffic, none has more than all.     *)
LEMMA ShareBounds ==
    ASSUME TypeOK, route <= MaxWeight, NEW h
    PROVE  /\ Share(h) \in Nat /\ Share(h) <= MaxWeight
           /\ svc.stable # h => Share(h) <= route
           /\ svc.stable # h /\ svc.canary # h => Share(h) = 0
<1>1. route \in Nat /\ MaxWeight \in Nat
  BY ReplicasAssumption DEF TypeOK
<1> QED
  BY <1>1 DEF Share

(* So many pods are enough.                                                *)
LEMMA EnoughPods ==
    ASSUME NEW w \in Nat, NEW share \in Nat, share <= w, NEW n \in Nat,
           w * Replicas <= n * MaxWeight
    PROVE  n * MaxWeight >= share * Replicas
<1>1. Replicas \in Nat /\ MaxWeight \in Nat
  BY ReplicasAssumption
<1>2. share * Replicas <= w * Replicas
  BY <1>1
<1>3. share * Replicas \in Nat /\ w * Replicas \in Nat /\ n * MaxWeight \in Nat
  BY <1>1
<1> QED
  BY <1>2, <1>3

(* The pods that the new version is to have are those that its traffic     *)
(* needs (reconcileNewReplicaSet, CalculateReplicaCountsForTrafficRouted-  *)
(* Canary).                                                                *)
LEMMA NewCountCovers ==
    ASSUME ~DynamicStableScale, RisingSteps, KeepInv, TrafficCovered, pc = "new",
           svc.stable = New => New = Stable, NEW weights
    PROVE  /\ ReplicaCounts(weights).canary \in Nat
           /\ ReplicaCounts(weights).canary * MaxWeight >= Share(New) * Replicas
<1> DEFINE want == GetCanaryReplicasOrWeight
           whole == AtLeastMinPods(ReplicasFor(MaxWeight))
           count == AtLeastMinPods(ReplicasFor(GetCurrentSetWeight))
<1>1. TypeOK /\ MaxWeight \in Nat
  BY ReplicasAssumption DEF KeepInv
<1>2. Share(New) \in Nat /\ Share(New) <= MaxWeight /\ (svc.stable # New => Share(New) <= route)
  BY <1>1, ShareBounds DEF TrafficCovered
<1>3. ReplicaCounts(weights).canary = CanaryCount(want)
  BY DEF ReplicaCounts
<1>4. CASE ~FollowsWeight
  <2>1. want = [replicas |-> -1, weight |-> MaxWeight]
    BY <1>4 DEF FollowsWeight, GetCanaryReplicasOrWeight
  <2>2. CanaryCount(want) = whole
    BY <2>1 DEF CanaryCount
  <2>3. whole \in Nat /\ MaxWeight * Replicas <= whole * MaxWeight
    BY <1>1, PodsForWeight
  <2> HIDE DEF want, whole
  <2> QED
    BY <1>1, <1>2, <1>3, <2>2, <2>3, EnoughPods
<1>5. CASE FollowsWeight
  <2>1. UseSetCanaryScale.by = "none"
    <3> DEFINE S == StepsUpTo("setCanaryScale", Index)
               j == Last(S)
    <3>1. Index \in Int /\ StepCount \in Nat
      BY <1>1, StatusTypes, CountsAssumed
    <3>2. S # {} => j \in S
      BY <3>1, LastOfKind
    <3>3. S # {} => j \in 0..(StepCount - 1) /\ Steps[j + 1].kind = "setCanaryScale"
      BY <3>1, <3>2 DEF StepsUpTo
    <3> HIDE DEF j
    <3>4. S # {} => j + 1 \in 1..StepCount
      BY <3>1, <3>3
    <3>5. S # {} => Steps[j + 1].by = "matchTrafficWeight"
      BY <3>3, <3>4 DEF RisingSteps
    <3> HIDE DEF S
    <3> QED
      BY <3>5 DEF UseSetCanaryScale, S, j
  <2>2. want.replicas = -1 /\ want.weight = GetCurrentSetWeight
    BY <1>5, <2>1 DEF FollowsWeight, GetCanaryReplicasOrWeight, ReplicasOrWeightBy
  <2>3. CanaryCount(want) = count
    BY <2>2 DEF CanaryCount
  <2>4. GetCurrentSetWeight \in Nat
    BY <1>1, SetWeightType
  <2>5. count \in Nat /\ GetCurrentSetWeight * Replicas <= count * MaxWeight
    BY <2>4, PodsForWeight
  <2>6. New # Stable
    BY <1>1, <1>5 DEF KeepInv, SnapshotHeld, FollowsWeight, IsFullyPromoted, New
  <2>7. route <= GetCurrentSetWeight /\ route \in Nat
    BY <1>1, <1>5 DEF TrafficCovered, BeforeScaling, TypeOK
  <2>8. Share(New) <= GetCurrentSetWeight
    BY <1>2, <2>4, <2>6, <2>7
  <2> HIDE DEF want, count
  <2> QED
    BY <1>2, <1>3, <2>3, <2>4, <2>5, <2>8, EnoughPods
<1> QED
  BY <1>4, <1>5

LEMMA StageCovers ==
    ASSUME ~DynamicStableScale, RisingSteps, KeepInv, TrafficCovered, NEW h \in Hash,
           \/ RemoveScaleDownDeadlines \/ ReconcileStableReplicaSet
           \/ ReconcileNewReplicaSet \/ ReconcileOtherReplicaSets \/ ReconcileOthersFails
    PROVE  Covers(h)
<1>1. TypeOK /\ SnapshotHeld /\ rs \in [Hash -> ReplicaSet] /\ MaxWeight \in Nat
  BY ReplicasAssumption DEF KeepInv, TypeOK
<1>2. /\ New = ctx.status.currentPodHash /\ New \in Hash
      /\ Stable = status.stableRS /\ pc \notin {"idle", "sync"}
  BY <1>1 DEF SnapshotHeld, RemoveScaleDownDeadlines, ReconcileStableReplicaSet,
     ReconcileNewReplicaSet, ReconcileOtherReplicaSets, ReconcileOthersFails, New, Stable
<1>3. /\ rs[h].replicas \in Nat /\ ctx.rs[h].available \in Nat
      /\ ctx.rs[h].available = Available(h)
  BY <1>1, ReplicaSetTypes DEF ReplicaSet, Available
<1>4. /\ Share(h) \in Nat /\ Share(h) <= MaxWeight
      /\ svc.stable # h => Share(h) <= route
      /\ svc.stable # h /\ svc.canary # h => Share(h) = 0
  BY <1>1, ShareBounds DEF TrafficCovered
<1>5. ASSUME rs'[h].replicas \in {rs[h].replicas, Available(h)} PROVE Covers(h)
  BY <1>3, <1>5 DEF Covers, MinValue
<1>6. CASE RemoveScaleDownDeadlines
  <2>1. \/ rs'[h] = rs[h]
        \/ rs'[h] = [rs[h] EXCEPT !.deadline = "none"]
    BY <1>6 DEF RemoveScaleDownDeadlines
  <2>2. rs'[h].replicas = rs[h].replicas
    BY <1>1, <2>1 DEF ReplicaSet
  <2> QED
    BY <1>5, <2>2
<1>7. CASE ReconcileStableReplicaSet
  <2>1. ReplicaCounts(ctx.status.weights).stable = Replicas
    BY DEF ReplicaCounts
  <2>2. \/ rs'[h] = rs[h]
        \/ h = Stable /\ \E C \in Conflicts : rs'[h] = Scaled(h, Replicas, h \in C)
    BY <1>1, <1>7, <2>1 DEF ReconcileStableReplicaSet
  <2>3. rs'[h].replicas \in {rs[h].replicas, Replicas}
    BY <1>1, <2>2, ReplicasAssumption, ScaledFields
  <2>4. Replicas * MaxWeight >= Share(h) * Replicas
    <3>1. MaxWeight * Replicas <= Replicas * MaxWeight /\ Replicas \in Nat
      BY <1>1, ReplicasAssumption
    <3> QED
      BY <1>1, <1>4, <3>1, EnoughPods
  <2> QED
    BY <1>5, <2>3, <2>4 DEF Covers
<1>8. CASE ReconcileNewReplicaSet
  <2> DEFINE deadline == ctx.rs[New].deadline
             annotate == /\ ShouldDelayScaleDownOnAbort /\ deadline = "none"
                         /\ Available(Stable) = Replicas
             wait == ShouldDelayScaleDownOnAbort /\ deadline \in {"none", "pending"}
             gone == ShouldDelayScaleDownOnAbort /\ deadline = "expired"
             count == IF gone THEN 0 ELSE ReplicaCounts(ctx.weights).canary
             scales == ~wait /\ ctx.rs[New].replicas # count
  <2>1. count \in Nat
    BY <1>1, ContextTypes, ReplicaCountTypes
  <2>2. pc = "new"
        /\ \E C \in Conflicts :
              rs' = [rs EXCEPT ![New] = IF annotate THEN Annotated(@, AbortDelay = "long")
                                        ELSE IF scales THEN Scaled(New, count, New \in C)
                                        ELSE @]
    BY <1>8 DEF ReconcileNewReplicaSet, Proceed
  <2>3. \/ rs'[h] = rs[h]
        \/ rs'[h] = Annotated(rs[h], AbortDelay = "long")
        \/ h = New /\ \E C \in Conflicts : rs'[h] = Scaled(h, count, h \in C)
    BY <1>1, <2>2
  <2>4. Annotated(rs[h], AbortDelay = "long").replicas = rs[h].replicas
    BY <1>1 DEF Annotated, ReplicaSet
  <2>5. \/ rs'[h].replicas = rs[h].replicas
        \/ h = New /\ rs'[h].replicas \in {rs[h].replicas, count}
    <3> HIDE DEF count
    <3> QED
      BY <1>1, <2>1, <2>3, <2>4, ScaledFields
  <2>6. ASSUME h = New, svc.stable = h => h = status.stableRS, gone
        PROVE  Share(h) = 0
    <3>1. ~ctx.pause.addAbort /\ IsAborted(ctx.pause)
      BY <2>2, <2>6 DEF TrafficCovered, BeforeScaling, HasScaleDownDeadline,
         ShouldDelayScaleDownOnAbort
    <3>2. ctx.status.abort /\ ~IsFullyPromoted
      BY <2>2, <3>1 DEF IsAborted, TrafficCovered
    <3>3. route = 0 /\ svc.stable # h
      BY <1>2, <2>2, <2>6, <3>2 DEF TrafficCovered, BeforeScaling, IsFullyPromoted
    <3> QED
      BY <1>4, <3>3
  <2>7. ASSUME h = New, svc.stable = h => h = status.stableRS
        PROVE  count * MaxWeight >= Share(h) * Replicas
    <3>1. CASE gone
      BY <1>1, <2>6, <2>7, <3>1, ReplicasAssumption
    <3>2. CASE ~gone
      <4>1. ReplicaCounts(ctx.weights).canary * MaxWeight >= Share(New) * Replicas
        BY <1>2, <2>2, <2>7, NewCountCovers
      <4> QED
        BY <2>7, <3>2, <4>1
    <3> QED
      BY <3>1, <3>2
  <2> HIDE DEF count
  <2> QED
    BY <1>5, <2>5, <2>7 DEF Covers
<1>9. CASE ReconcileOtherReplicaSets \/ ReconcileOthersFails
  <2> DEFINE plan == OldPlan[Len(order)]
  <2>1. /\ plan.count[h] \in Nat
        /\ IsReferenced(h) => plan.count[h] = Available(h)
    BY <1>1, OldPlanType DEF Plans
  <2> HIDE DEF plan
  <2>2. \/ rs'[h] = rs[h]
        \/ \E C \in Conflicts :
              rs'[h] \in {OldScaled(plan, h, h \in C), Scaled(h, Available(h), h \in C)}
    <3>1. CASE ReconcileOtherReplicaSets
      BY <3>1 DEF ReconcileOtherReplicaSets, plan
    <3>2. CASE ReconcileOthersFails
      BY <3>2 DEF ReconcileOthersFails, plan
    <3> QED
      BY <1>9, <3>1, <3>2
  <2>3. ASSUME NEW C \in Conflicts,
               rs'[h] \in {OldScaled(plan, h, h \in C), Scaled(h, Available(h), h \in C)}
        PROVE  rs'[h].replicas \in {plan.count[h], Available(h), rs[h].replicas}
    <3> DEFINE r == Scaled(h, plan.count[h], h \in C)
    <3>1. r.replicas \in {plan.count[h], rs[h].replicas} /\ r \in ReplicaSet
      BY <1>1, <2>1, ScaledFields, ScaledType
    <3>2. Scaled(h, Available(h), h \in C).replicas \in {Available(h), rs[h].replicas}
      BY <1>1, <1>3, ScaledFields
    <3>3. OldScaled(plan, h, h \in C) \in {r, Annotated(r, FALSE)}
      BY DEF OldScaled
    <3> HIDE DEF r
    <3>4. Annotated(r, FALSE).replicas = r.replicas
      BY <3>1 DEF Annotated, ReplicaSet
    <3> QED
      BY <2>3, <3>1, <3>2, <3>3, <3>4
  <2>4. rs'[h].replicas \in {plan.count[h], Available(h), rs[h].replicas}
    BY <2>2, <2>3
  <2>5. CASE IsReferenced(h)
    BY <1>5, <2>1, <2>4, <2>5
  <2>6. CASE ~IsReferenced(h)
    <3>1. Share(h) = 0
      BY <1>4, <2>6 DEF IsReferenced
    <3>2. ASSUME NEW n \in Nat PROVE n * MaxWeight >= 0 * Replicas
      BY <1>1, <3>2, ReplicasAssumption
    <3>3. rs'[h].replicas \in Nat
      BY <1>3, <2>1, <2>4
    <3> QED
      BY <3>1, <3>2, <3>3 DEF Covers
  <2> QED
    BY <2>5, <2>6
<1> QED
  BY <1>6, <1>7, <1>8, <1>9

(* A ReplicaSet is not scaled below the pods that the traffic sent to it   *)
(* needs, unless it has fewer pods already, for every number of versions   *)
(* and whatever users and failures do, when the stable version keeps all   *)
(* its pods and no step lowers the weight, sets a scale of its own or runs *)
(* an experiment.                                                          *)
THEOREM TrafficKeepsItsPods ==
    ASSUME ~DynamicStableScale, RisingSteps
    PROVE  Spec => ScaleDownKeepsTraffic
<1>1. ASSUME KeepInv, TrafficCovered, Next, NEW h \in Hash
      PROVE  Covers(h)
  <2>1. TypeOK /\ SnapshotHeld /\ rs \in [Hash -> ReplicaSet] /\ ctx.rs[h].available \in Nat
    BY <1>1, ReplicaSetTypes DEF KeepInv, TypeOK, Available
  <2>2. ASSUME rs'[h].replicas = rs[h].replicas PROVE Covers(h)
    <3>1. rs[h].replicas \in Nat
      BY <2>1 DEF ReplicaSet
    <3> QED
      BY <2>1, <2>2, <3>1 DEF Covers, MinValue
  <2>3. CASE StartSync
    <3>1. rs' = [rs EXCEPT ![spec.template].exists = TRUE]
      BY <2>3 DEF StartSync
    <3>2. rs'[h].replicas = rs[h].replicas
      BY <2>1, <3>1 DEF ReplicaSet
    <3> QED
      BY <2>2, <3>2
  <2>4. CASE ReconcileServices \/ ReconcileTrafficRouting \/ ReconcilePanics \/ ReconcileRuns
             \/ SyncRolloutStatus \/ ReconcileFails
    <3>1. rs' = rs
      BY <2>4 DEF ReconcileServices, ReconcileTrafficRouting, ReconcilePanics,
         ReconcileRuns, SyncRolloutStatus, ReconcileFails, objects
    <3> QED
      BY <2>2, <3>1
  <2>5. CASE User
    <3>1. rs' = rs
      BY <2>5 DEF User, SetTemplate, PauseRollout, PromoteRollout, SkipCurrentStep,
         SkipAllSteps, PromoteRolloutFull, AbortRollout, RetryRollout, Edit
    <3> QED
      BY <2>2, <3>1
  <2>6. CASE PauseElapses \/ \E k \in Kind : RunCompletes(k)
    <3>1. rs' = rs
      BY <2>6 DEF PauseElapses, RunCompletes
    <3> QED
      BY <2>2, <3>1
  <2>7. ASSUME NEW g \in Hash,
               \/ PodBecomesAvailable(g) \/ SurplusPodsDeleted(g) \/ DeadlinePasses(g)
               \/ PodFails(g)
        PROVE  Covers(h)
    <3>1. rs'[h].replicas = rs[h].replicas
      BY <2>1, <2>7 DEF PodBecomesAvailable, SurplusPodsDeleted, DeadlinePasses, PodFails,
         ReplicaSet
    <3> QED
      BY <2>2, <3>1
  <2> QED
    BY <1>1, <2>3, <2>4, <2>5, <2>6, <2>7, StageCovers DEF Next, Reconcile, Cluster, Failure
<1>2. KeepInv /\ TrafficCovered /\ [Next]_vars => [\A h \in Hash : Covers(h)]_vars
  BY <1>1
<1>3. [\A h \in Hash : Covers(h)]_vars =>
        [\A h \in Hash :
          /\ svc.stable = h => h = status.stableRS
          /\ rs'[h].replicas < MinValue(rs[h].replicas, ctx.rs[h].available)
          => rs'[h].replicas * MaxWeight >= Share(h) * Replicas]_vars
  BY DEF Covers
<1> QED
  BY <1>2, <1>3, KeepInvHolds, TrafficCoveredHolds, PTL DEF Spec, ScaleDownKeepsTraffic
=============================================================================
