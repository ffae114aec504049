--------------------------- MODULE CanaryProperties ---------------------------
(***************************************************************************)
(* What the traffic-routed canary is for: users meet a new version no      *)
(* faster than the steps allow, and never a ReplicaSet too small for them. *)
(***************************************************************************)
EXTENDS Canary

\* The traffic a version receives, out of MaxWeight
Share(h) == (IF svc.canary = h THEN route ELSE 0)
            + (IF svc.stable = h THEN MaxWeight - route ELSE 0)

\* The steps that judge a version: analyses and pauses
Gates == {i \in 0..(StepCount - 1) : Steps[i + 1].kind \in {"analysis", "pause"}}

StepKind(i) == Steps[i + 1].kind

(* The gates that hold whatever users and failures do: the only analysis   *)
(* step, since the run of another one may be taken for its own; and a      *)
(* pause before which nothing else can pause the rollout, since any pause  *)
(* that is no longer there counts as a user's (CompletedCanaryPauseStep,   *)
(* reconcileStepBasedAnalysisRun).                                         *)
SureGates ==
    {i \in Gates :
        IF StepKind(i) = "analysis"
        THEN \A j \in 0..(StepCount - 1) : StepKind(j) = "analysis" => j = i
        ELSE /\ ~Background
             /\ \A j \in 0..(i - 1) : StepKind(j) \in {"setWeight", "setCanaryScale"}}

-----------------------------------------------------------------------------
(* Safety                                                                  *)

(* A version replaces the stable one only when each analysis and pause of  *)
(* this update ended as it should (its own run successful, its duration    *)
(* passed) or was ended by a user, whatever was retried, aborted, edited   *)
(* or lost in between (completedCurrentCanaryStep, shouldFullPromote).     *)
PromotionEarned ==
    [][status'.stableRS # status.stableRS /\ status.stableRS # None
          => Gates \subseteq passed' \cup excused'.steps]_vars

\* The stages of a reconcile behind its weight update
AfterWeight == {"runs", "deadlines", "stable", "new", "others", "pause", "sync"}

(* Once a reconcile has updated the weight, the version being released has *)
(* no more traffic than the steps before the first sure gate that is not   *)
(* done have set, however high the weight was before, unless a full        *)
(* promotion, an abort or a way back to the stable version was read, which *)
(* have weights of their own (reconcileTrafficRouting, GetCurrentSetWeight). *)
WeightEarned ==
    pc \in AfterWeight /\ ~Changed /\ ~IsFullyPromoted
    /\ ~ctx.status.promoteFull /\ ~ctx.status.abort
    => \A g \in SureGates \ (passed \cup excused.steps) :
          route = 0 \/ \E i \in 0..(g - 1) : /\ StepKind(i) = "setWeight"
                                           /\ route <= Steps[i + 1].value

(* A ReplicaSet is not scaled below the pods that the traffic sent to it   *)
(* now needs, unless it has fewer pods already; nothing is said of a       *)
(* version that the stable Service has left behind, which is scaled as a   *)
(* canary once the template goes back to it (reconcileCanaryReplicaSets    *)
(* and everything it calls).                                               *)
ScaleDownKeepsTraffic ==
    [][\A h \in Hash :
          /\ svc.stable = h => h = status.stableRS
          /\ rs'[h].replicas < MinValue(rs[h].replicas, ctx.rs[h].available)
          => rs'[h].replicas * MaxWeight >= Share(h) * Replicas]_vars

(* Once a reconcile has seen the abort, the aborted version keeps its pods *)
(* until the abort delay has passed (shouldDelayScaleDownOnAbort and       *)
(* reconcileNewReplicaSet).                                                *)
AbortedCanaryKept ==
    [][\A h \in Hash \ {status.stableRS} :
          /\ status.abort /\ ctx.status.abort
          /\ h = status.currentPodHash /\ h = spec.template
          /\ rs[h].deadline # "expired"
          => rs'[h].replicas >= rs[h].replicas]_vars

(* With dynamicStableScale, the weight of an aborted canary is lowered no  *)
(* further than the available pods of the stable version can take over     *)
(* (calculateDesiredWeightOnAbortOrStableRollback).                        *)
AbortSparesStable ==
    [][/\ status.abort /\ ctx.status.abort
       /\ Stable \notin {None, ctx.status.currentPodHash}
       /\ route' < route
       => (MaxWeight - route') * Replicas <= MaxWeight * Available(Stable)]_vars

(* While the rollout is paused because a run or an experiment was          *)
(* inconclusive, it stays at its step: only a user may resume it (the      *)
(* pause conditions, CompletedCanaryPauseStep, reconcileExperiments).      *)
InconclusiveHolds ==
    [][\A reason \in {"InconclusiveAnalysisRun", "InconclusiveExperiment"} :
          reason \in status.pauses \cap status'.pauses
          => status'.stepIndex <= status.stepIndex]_vars

-----------------------------------------------------------------------------
(* Liveness                                                                *)

\* Something only a user can end
WaitsForUser ==
    \/ spec.paused
    \/ status.abort
    \/ status.pauses \ {"CanaryPauseStep"} # {}
    \/ /\ status.pauses # {} /\ status.stepIndex < StepCount
       /\ ~Steps[status.stepIndex + 1].timed

(* In the end the rollout waits for a user, or the wanted version is       *)
(* stable, fully scaled, selected by the stable Service and without a      *)
(* canary weight: no reconcile waits for another one for ever.             *)
Converges ==
    <>[](\/ WaitsForUser
         \/ /\ status.stableRS = spec.template /\ svc.stable = spec.template
            /\ rs[spec.template].available = Replicas
            /\ route = 0)

(* An abort takes all traffic from the canary, unless it is withdrawn: the *)
(* stable version is scaled up as the weight is lowered, and neither waits *)
(* for the other (ReplicaCounts and the desired weight on abort).          *)
AbortReturnsTraffic == status.abort ~> (route = 0 \/ ~status.abort)

(* In the end no version but the stable and the wanted one has pods, if    *)
(* nothing is paused (scaleDownOldReplicaSetsForCanary, the deadlines).    *)
OldVersionsGo ==
    \A h \in Hash :
        <>[](\/ spec.paused \/ status.pauses # {}
             \/ h \in {spec.template, status.stableRS}
             \/ rs[h].replicas = 0)
-----------------------------------------------------------------------------
(* What holds the promotion back, step by step: the inductive invariants of *)
(* the proofs.                                                             *)

(* A version replaces the stable one only when each sure gate of this      *)
(* update ended as it should or was ended by a user.                       *)
SureGatesEarned ==
    [][status'.stableRS # status.stableRS /\ status.stableRS # None
          => SureGates \subseteq passed' \cup excused'.steps]_vars

(* A reconcile raises the weight of a version no further than the steps    *)
(* before the first sure gate that is not done have set it; a full         *)
(* promotion, an abort and a rollback to the stable version have weights   *)
(* of their own (reconcileTrafficRouting, GetCurrentSetWeight).            *)
RaiseEarned ==
    [][route' > route /\ ~ctx.status.promoteFull /\ ~IsFullyPromoted /\ ~IsAborted(ctx.pause)
          => \A g \in SureGates \ (passed \cup excused.steps) :
                \E i \in 0..(g - 1) : /\ StepKind(i) = "setWeight"
                                      /\ route' <= Steps[i + 1].value]_vars

Promoted(s) == s.stableRS = s.currentPodHash

\* The sure gates behind the step of a status are done, and all of them are
\* excused when a full promotion was asked for
GatesBehind(s) ==
    /\ Promoted(s)
       \/ \A i \in SureGates : i < s.stepIndex => i \in passed \cup excused.steps
    /\ s.promoteFull => Gates \subseteq excused.steps

\* While the controller's pause is on, no sure pause is still ahead, and one
\* that is neither on is excused
PauseBehind(s) ==
    s.controllerPause /\ ~Promoted(s) =>
        \A i \in SureGates : StepKind(i) = "pause" =>
            /\ i <= s.stepIndex
            /\ i = s.stepIndex /\ "CanaryPauseStep" \notin s.pauses => i \in excused.steps

\* A run of a step is of the version being released and of an analysis step
RunOfStep(r, hash) ==
    r # NoRun => r.hash = hash /\ r.index < StepCount /\ StepKind(r.index) = "analysis"

\* What the snapshot of a reconcile says of the live Rollout
SnapshotHeld ==
    /\ spec.template \in Hash
    /\ pc # "idle" =>
        /\ ctx.spec.template \in Hash
        /\ ctx.status.stableRS = status.stableRS
        /\ ctx.status.currentPodHash = status.currentPodHash
        /\ pc # "sync" => ctx.status.currentPodHash = ctx.spec.template
        /\ ctx.status.stepIndex <= status.stepIndex \/ StepCount <= status.stepIndex
        /\ status.controllerPause => ctx.status.controllerPause
        /\ \A i \in Gates : ctx.status.stepIndex <= i /\ i < status.stepIndex
                               => i \in excused.recent
        /\ status.promoteFull /\ ~ctx.status.promoteFull => Gates \subseteq excused.recent

GatesHeld ==
    /\ excused.recent \subseteq excused.steps
    /\ GatesBehind(status) /\ PauseBehind(status)
    /\ pc # "idle" => GatesBehind(ctx.status) /\ PauseBehind(ctx.status)

RunsHeld ==
    /\ RunOfStep(run["step"], status.currentPodHash)
    /\ pc # "idle" =>
          /\ RunOfStep(ctx.run["step"], ctx.status.currentPodHash)
          /\ ctx.named["step"] # "none" =>
                /\ ctx.run["step"] # NoRun
                /\ ctx.status.currentPodHash = ctx.spec.template
          /\ ctx.named["step"] = "created" =>
                fresh["step"] # NoRun /\ RunOfStep(fresh["step"], ctx.spec.template)

\* What a reconcile has decided to pause for
AddsHeld ==
    /\ "CanaryPauseStep" \notin ctx.pause.add
    /\ ctx.pause.add # {} =>
          /\ ctx.status.currentPodHash = ctx.spec.template
          /\ Background \/ AtStep("analysis") \/ AtStep("experiment")
    /\ ~ctx.pause.remove /\ ~ctx.pause.clear

PromotionInv == TypeOK /\ SnapshotHeld /\ GatesHeld /\ RunsHeld /\ AddsHeld
-----------------------------------------------------------------------------
(* What keeps the pods of an aborted version, stage by stage.              *)

\* The delay of an abort holds the scale-down back
AbortsDelayed == AbortDelay = "set" \/ (AbortDelay = "default" /\ ~DynamicStableScale)

\* The pods of a version that gets all the traffic
Whole == AtLeastMinPods(ReplicasFor(MaxWeight))

\* Before the first promotion no version has or had more pods than that
FirstVersionWhole ==
    status.stableRS = None =>
        \A h \in Hash :
            /\ rs[h].replicas <= Whole /\ rs[h].available <= Whole
            /\ pc # "idle" => ctx.rs[h].replicas <= Whole /\ ctx.rs[h].available <= Whole

\* The stages in which a reconcile has not scaled the new ReplicaSet yet, up to
\* the weight update and behind it
BeforeWeight == {"services", "traffic"}
BeforeScaling == {"runs", "deadlines", "stable", "new"}

\* A reconcile has read an abort whose delay holds the scale-down back
AbortSeen == ctx.status.abort /\ ~IsFullyPromoted /\ ShouldDelayScaleDownOnAbort

\* A deadline that a reconcile saw as passed has passed, none is far away unless
\* the delay is long, and an abort is dropped of a promoted version only; one
\* without a stable version ends a dynamic reconcile at its weight
DeadlinesHeld ==
    /\ AbortDelay # "long" =>
          \A h \in Hash : rs[h].deadline # "far" /\ ctx.rs[h].deadline # "far"
    /\ pc \in BeforeWeight \cup BeforeScaling /\ AbortSeen =>
          (ctx.rs[New].deadline = "expired" => rs[New].deadline = "expired")
    /\ pc # "idle" /\ ctx.pause.removeAbort => IsFullyPromoted
    /\ pc \in BeforeScaling /\ DynamicStableScale /\ Stable = None => ~ctx.status.abort

KeepInv == TypeOK /\ SnapshotHeld /\ FirstVersionWhole /\ DeadlinesHeld

\* While no reconcile is cut short, the weight of the status and of the context
\* is the one the traffic router has
WeightsKnown ==
    /\ pc \in BeforeWeight \cup {"idle"} => status.weights.canary = route
    /\ pc # "idle" => ctx.weights.canary = route /\ ctx.status.weights = status.weights
-----------------------------------------------------------------------------
(* What keeps the pods for the traffic, from the weight update on.         *)

\* Steps that ask for the pods that their weights need, and do not lower them
RisingSteps ==
    \A i \in 1..StepCount :
        /\ Steps[i].kind # "experiment"
        /\ Steps[i].kind = "setCanaryScale" => Steps[i].by = "matchTrafficWeight"
        /\ \A j \in 1..i : Steps[j].kind = "setWeight" /\ Steps[i].kind = "setWeight"
                             => Steps[j].value <= Steps[i].value

\* Does the new version get the pods of its weight, and not all of them?
FollowsWeight == ~ctx.status.promoteFull /\ Stable # None /\ ~IsFullyPromoted

\* Before its runs are looked at, a reconcile has not decided on an abort
NoAbortYet == pc \in BeforeWeight \cup {"runs"} => ~ctx.pause.addAbort

\* No more traffic was sent to the new version than it is to have pods for, and
\* a reconcile that decided on an abort itself saw no deadline
TrafficCovered ==
    /\ route <= MaxWeight
    /\ \A w \in {status.weights, ctx.status.weights, ctx.weights} : w.canary <= MaxWeight
    /\ pc # "idle" /\ ctx.status.abort /\ IsFullyPromoted => ctx.pause.removeAbort
    /\ NoAbortYet
    /\ pc \in BeforeScaling =>
          /\ ctx.status.abort /\ ~IsFullyPromoted => route = 0
          /\ FollowsWeight => route <= GetCurrentSetWeight
          /\ ctx.pause.addAbort => ~HasScaleDownDeadline(New)
-----------------------------------------------------------------------------
(* A statement of the documentation.                                       *)

\* The weight of the steps before the first gate that is not in `done`
EarnedWeight(done) ==
    LET ahead == Gates \ done
    IN  IF ahead = {} THEN MaxWeight
        ELSE LastSetWeight(CHOOSE i \in ahead : \A j \in ahead : i <= j)

(* "A small percentage of users receive a new version while it is          *)
(* verified": at any time from one weight update to the next one, the      *)
(* canary Service sends the version being released no more than its steps  *)
(* have earned it (reconcileStableAndCanaryService moves the Service       *)
(* before reconcileTrafficRouting takes the weight back).                  *)
TrafficEarned ==
    (/\ pc \notin {"services", "traffic"}
     /\ svc.canary = status.currentPodHash /\ status.currentPodHash = spec.template
     /\ status.stableRS \notin {None, svc.canary}
     /\ ~status.promoteFull /\ ~status.abort)
    => route <= EarnedWeight(passed \cup excused.steps)
=============================================================================
