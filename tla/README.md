# Argo Rollouts in TLA+

A verification development of the Argo Rollouts controllers: TLA+ modules
translated from the Go source, the TLC configurations that check them on small
instances, and theorems about them checked by TLAPS. Paths are relative to the
root of the repository (`src/` here).

Five parts are modelled, those that decide when a new version gets pods and
traffic: the **blue-green reconcile** and the **canary reconcile** of a Rollout,
with their steps, pauses, aborts, analysis gates and status update; the
**replica counts of a basic canary**, under reconciles and scaling events; the
**AnalysisRun controller** with its metrics, measurements, Jobs and verdict; and
the **experiment controller** with its templates, analyses and phases.

- [1. The system](#1-the-system)
- [2. Plan](#2-plan)
- [3. The modules and the code](#3-the-modules-and-the-code)
- [4. What is checked](#4-what-is-checked)
- [5. Fairness](#5-fairness)
- [6. What is proved](#6-what-is-proved)
- [7. Where the code and its words disagree](#7-where-the-code-and-its-words-disagree)
- [8. What is not modelled](#8-what-is-not-modelled)
- [9. Running it](#9-running-it)

## 1. The system

A Rollout replaces a Deployment. Controllers in one process watch Kubernetes
objects through informers, put the keys of changed objects on workqueues, and
reconcile one key at a time: read a snapshot, compare what is with what is
wanted, make API calls, patch the status. Nothing is transactional; the API
server orders the writes, an `Update` of an object that changed since it was
read is refused, a merge patch is not.

| Component | State it keeps | Operations | Works with | What is hard |
|---|---|---|---|---|
| Rollout controller and workqueue (`rollout/controller.go`, `utils/controller`) | queue of keys, informer stores, expectations of none | `syncHandler`, `newRolloutContext`, `writeBackToInformer`, `enqueueRolloutAfter` | everything below, by a `rolloutContext` | one snapshot per reconcile, errors and crashes at any call, retries from half-way |
| Blue-green reconcile (`rollout/bluegreen.go`, `replicaset.go`, `service.go`) | ReplicaSets (count, deadline annotation), selectors of the active and preview Service | preview Service, deadlines, stable, new and other ReplicaSets, pause, active Service, status | pauses, analysis, status | the Service is switched on a snapshot many calls old; deadlines fast-track versions; three replica counts |
| Canary reconcile and steps (`rollout/canary.go`) | current step, step hash, weights, experiment and plugin of the step | one pass per step kind, pause step, abort, dynamic stable scale, retire old ReplicaSets | counts, traffic routing, experiments, plugins | weight and capacity change in separate calls; steps change while a step runs |
| Canary replica counts (`utils/replicaset/canary.go`) | none | counts from weight, surge, unavailable and availability | canary reconcile | rounding, bounds at 0 and 1, both limits at once |
| Pauses and aborts (`rollout/pause.go`, `context.go`) | pause conditions, controllerPause, abort, abortedAt | add, remove, clear, abort, `CalculatePauseStatus`, `CompletedBlueGreenPause` | users, status | decisions of one reconcile are folded into a status users write too |
| Status update and promotion (`rollout/sync.go`) | Rollout status | `syncRolloutStatusBlueGreen`, `shouldFullPromote`, `promoteStable`, `resetRolloutStatus`, `persistRolloutStatus` | all | reads the Service as it is and the analysis as it was; patches only what it changed |
| Analysis of a rollout (`rollout/analysis.go`, `utils/analysis`) | names of the current runs in the status | create or claim, skip, cancel, take the answer, delete old | AnalysisRun controller | crash between create and status; runs of the last version still running |
| AnalysisRun controller (`analysis/*.go`) | AnalysisRun status: results, counters, phases | tasks, measurements in goroutines, assessment, patch, requeue, garbage collection | metric providers, Jobs | no write-back of its patch, Jobs that outlive a crash, termination with measurements in flight |
| Metric providers (`metricproviders/*`) | Jobs, judgements of other systems | Run, Resume, Terminate, GarbageCollect | AnalysisRun controller | an answer that is late, lost or an error |
| Experiment controller (`experiments/*.go`, `rollout/experiment.go`) | template statuses, runs, availableAt | scale templates, create runs, assess, terminate | AnalysisRun controller, canary steps, traffic routing | ends by duration, analysis, failure or request, in any order |
| Traffic routing (`rollout/trafficrouting.go`) | weights in the status and in the mesh or ingress | SetWeight, VerifyWeight, UpdateHash, managed routes | canary reconcile | an order of writes that never sends traffic to missing pods |
| Step plugins (`rollout/stepplugin.go`, `rollout/steps/plugin`) | status of each plugin step, back-off | run, terminate, abort | canary steps | time-outs, restarts, abort while running |
| Pod restarter (`rollout/restart.go`) | restartedAt | evict pods older than restartAt | ReplicaSets | availability budget while ReplicaSets scale |
| Service controller (`service/service.go`), Ingress controller (`ingress/*.go`) | selector and managed-by annotation | requeue Rollouts; clean up after a deleted one | Rollouts | a Service handed from one Rollout to another |
| Workload reference, ephemeral metadata, notifications, metrics | annotations, events | copy a template, label pods, record | Rollouts | |
| kubectl plugin (`pkg/kubectl-argo-rollouts`), dashboard (`server`) | none | patches: set image, pause, promote, promote --full, abort, retry, undo, restart, terminate | live objects | act between any two calls of a controller |
| Manager, leader election, validation, defaults, API types | | | | one leader acts at a time |

What makes the main components correct:

- **Blue-green.** The active Service never leaves the version it serves for one
  whose analysis and pause are not done, or that has not enough pods; a version
  is stable only after it served and passed; the version an abort returns to keeps
  its pods, and so does one that served until its deadline; an abort that a user
  gives is not lost, and does bring the Service back; in the end the desired
  version is everywhere or a user is waited for.
- **AnalysisRun.** A verdict agrees with the counters, is given once, and the
  outcome is the worst of them; a success means all measurements were taken; one
  Job per measurement and none left behind; every run that can end does.
- **Canary.** A version receives no more traffic than the analyses and pauses
  behind it have earned, and becomes stable only through all of them; no ReplicaSet
  is scaled below the traffic it receives; an aborted version keeps its pods for the
  delay, and an abort hands the traffic back as fast as the stable version can take
  it, and does hand it back; in the end only the wanted version has pods.
- **Basic canary counts.** The division of the pods is the closest to the weight;
  neither maxSurge nor maxUnavailable is passed by a decision; the counts settle,
  though pods of a version may never start.
- **Experiment.** Analyses start after all templates were available; one run of an
  analysis measures at a time, though stores lag; the phase it ends in is one that
  something gave rise to; it ends, and takes down what it started, after the delay.
- **Not modelled.** Restarter: at most maxUnavailable pods are evicted. Step
  plugins: a step ends once. Service controller: a selector is removed only when no
  Rollout uses the Service.

`PROJECT.json` lists the components with their sources, and the hazards of the
code at the lines where they bite, each with the properties that watch it.

## 2. Plan

| Module | State |
|---|---|
| `BlueGreen`, `BlueGreenProperties` and a proof module | done |
| `AnalysisRun`, the abstract `AnalysisVerdict` it implements, properties and two proof modules | done |
| `CanaryReplicas`: the arithmetic of both canary calculations | done |
| `CanaryScaling` on top of it: a basic canary's ReplicaSets over reconciles, with the scaling path; properties and a proof module | done |
| `Canary` on top of it: the reconcile of a traffic-routed canary, steps, traffic, runs, abort; properties and two proof modules | done |
| `Experiment`, its properties and two proof modules | done |
| *Gate*: an abstract promotion (`requested`, `gated`, `serving`, `stable`) that `BlueGreen` and `Canary` implement | to come |
| *Composition* of `Canary` with `Experiment` and `AnalysisVerdict` in the place of `RunCompletes` | to come |
| *Step plugins*, *restarter*, *Service controller*: one module each | to come |
| *Stale Rollouts*: a snapshot of `BlueGreen` and `Canary` that mixes old and new objects, and `writeBackToInformer` | to come |

Theorems to come: what of `OutcomeEarned` survives old reads; which pods an experiment
or a step that lowers the weight may cost a version with traffic; that `BlueGreen` and
`Canary` implement *Gate*.

## 3. The modules and the code

| Module | What it is |
|---|---|
| `BlueGreen` | the blue-green controller, the cluster around it, users and failures |
| `BlueGreenProperties` | its safety, action and liveness properties, its inductive invariants |
| `BlueGreenProofs` | types, the invariant, promotion to stable, pods of the stable version, the gate of the active Service and the pods it needs, delayed scale-downs, aborts |
| `AnalysisRun` | the analysis controller, its providers, Jobs, clocks and failures |
| `AnalysisVerdict` | what a run promises those who wait for it |
| `AnalysisRunProperties` | its properties, its refinement mapping to `AnalysisVerdict`, inductive invariants |
| `AnalysisRunProofs` | types, that verdicts agree with their counters; when reads are fresh, the refinement of `AnalysisVerdict`, and success |
| `AnalysisRunJobsProofs` | the Jobs of a run over crashes and an old read, and at its end |
| `CanaryReplicas` | how many pods the canary and the stable version get: operators, no state |
| `CanaryScaling` | the ReplicaSets of a basic canary under reconciles, users and pods |
| `CanaryScalingProperties` | surge, floor, division and settling |
| `CanaryScalingProofs` | types, the surge, the floor, the division that is closest to the weight |
| `Canary` | the traffic-routed canary: steps, Services, weights, runs, ReplicaSets, users and failures |
| `CanaryProperties` | what traffic a version may receive and what pods it keeps; inductive invariants |
| `CanaryProofs` | recursion on numbers, types, and what a reconcile's snapshot still says of the Rollout |
| `CanaryPromotionProofs` | the analyses and pauses behind a version's traffic and its promotion; the pods and the traffic of an aborted version; the pods for the traffic |
| `Experiment` | the experiment controller, its stores, the pods, the runs and the clock |
| `ExperimentProperties` | its properties and its inductive invariants |
| `ExperimentProofs` | types, its ReplicaSets and runs, and that one run at a time measures |
| `ExperimentPassProofs` | analyses start after availability; the scale-down delay; the outcome is earned |
| `MC*` | instances for TLC |

Each properties module also holds statements of the documentation or of comments
that the code refutes (section 7). A definition whose name ends in `_` and a few
words (`CompletedPause_AnyPause`) is a mutant: the definition before which it
stands, changed as a plausible bug would. No specification uses it; `PROJECT.json`
says which property it breaks.

### BlueGreen

One worker reconciles one Rollout. `pc` is the stage of the reconcile, `ctx` the
`rolloutContext`: the snapshot of spec, status, ReplicaSets and runs, and the
decisions of `pauseContext`. A stage is an action for a group of API calls:

| `pc` | Action | Code |
|---|---|---|
| `idle` | `StartSync` | `syncHandler`, `newRolloutContext`; creates the ReplicaSet, drops the abort of a promoted rollout |
| `preview` | `ReconcilePreviewService` | `reconcilePreviewService`; a new template goes straight to `sync` |
| `deadlines` | `RemoveScaleDownDeadlines` | `removeScaleDownDeadlines` |
| `stable` | `ReconcileStableReplicaSet` | `reconcileStableReplicaSet` |
| `new` | `ReconcileNewReplicaSet` | `reconcileNewReplicaSet`, with the abort delay |
| `others` | `ReconcileOtherReplicaSets`, `ReconcileOthersFails` | `scaleDownOldReplicaSetsForBlueGreen`, `scaleDownDelayHelper`, and its swallowed error |
| `active` | `ReconcileActiveService` | `reconcileBlueGreenPause`, then `reconcileActiveService` |
| `analysis` | `ReconcileAnalysisRuns` | `reconcileAnalysisRuns` |
| `sync` | `SyncRolloutStatus` | `syncRolloutStatusBlueGreen`, `persistRolloutStatus` |
| any | `ReconcileFails` | an API error or a crash: the rest of the reconcile is lost |

Decisions are made on `ctx`, writes go to the live variables. Between any two
actions pods come and go, runs complete, deadlines and pauses pass, and users
patch the live Rollout. Reads that the code makes of an object it has just
written (the Services) are of the live object.

Abstractions: a template is a model value and its ReplicaSet has its name; a time
is "pending" or "expired"; the status patch is field by field (`Merged`), which is
what `CreateTwoWayMergePatch` and a merge patch amount to, so a user's write
survives unless the reconcile changed the same field; an `Update` may conflict
(`Conflicts`) and then falls back to a patch that cannot remove an annotation
(`Scaled`); a terminated run may complete with any outcome, and `cancelled`
remembers that it was terminated. `wasActive` and `resumed` are history.

### AnalysisRun

One worker reconciles one run. A pass (`ctx`) is what it read, its tasks, those
still to do, and the results so far. `Begin` reads (`ReconcileAnalysisRun`, or
`ReconcileStale` when the store is one write behind, or `ReconcileInvalid` when
arguments cannot be resolved); `RunMeasurements` is one goroutine of
`runMeasurements`, in any order, and `MeasurementErrs` the same with an error;
`PersistAnalysisRunStatus` assesses and patches; `Crash` loses the pass but not
the Jobs it created. `TerminateRun`, `TimePasses` and `JobFinishes` are the rest
of the cluster.

Providers are of three kinds: "job" and "kayenta" have measurements in flight,
with the code's own Run, Resume and Terminate (a Job that exists already is taken
for the new one; kayenta cannot be terminated and asks to be resumed later); the
others answer in `Run`, and the model chooses the answer. A measurement is
reduced to the phase of the last one and the counters; values, messages, metadata
and the history that garbage collection trims decide nothing. Timers
(initialDelay, interval, error retry, resumeAt) are membership in `waiting`.

### CanaryReplicas and CanaryScaling

`CanaryReplicas` is `CalculateReplicaCountsForBasicCanary` with what it calls, and
the parts of `CalculateReplicaCountsForTrafficRoutedCanary` that are arithmetic.
`Options` are the candidates of `approximateWeightedCanaryStableReplicaCounts` in
the order of its loop, `Closer` its comparison of quotients, made exactly;
`BasicCounts` the scale-up, the scale-down and `adjustReplicaWithinLimits`.

`CanaryScaling` runs them. A reconcile is two steps: `Read` takes the Rollout and
the ReplicaSets into `seen`, and one of `SyncReplicasOnly` (a scaling event),
`BeginUpdate` (a new template resets the steps) and `RolloutCanary` computes on
`seen` and writes the live ReplicaSets, one of the groups stable, new and older
(`reconcileCanaryReplicaSets` returns after the first that it scaled). Pods come,
fail and go, and users edit the template and `spec.replicas`, between the two. The
steps are abstracted to the weight they set.

### Canary

The stages of a reconcile, in the order of `rolloutCanary`:

| `pc` | Action | Code |
|---|---|---|
| `idle` | `StartSync` | `syncHandler`, `newRolloutContext`; creates the ReplicaSet or renews its revision |
| `services` | `ReconcileServices` | `reconcileStableAndCanaryService` |
| `traffic` | `ReconcileTrafficRouting`, `ReconcilePanics` | `reconcileTrafficRouting`: the desired weight, its verification, the canary Service after an abort |
| `runs` | `ReconcileRuns` | `reconcileExperiments`, then `reconcileAnalysisRuns` for the background and the step run |
| `deadlines` | `RemoveScaleDownDeadlines` | `removeScaleDownDeadlines` |
| `stable` | `ReconcileStableReplicaSet` | `reconcileCanaryStableReplicaSet` |
| `new` | `ReconcileNewReplicaSet` | `reconcileNewReplicaSet`, with the abort delay |
| `others` | `ReconcileOtherReplicaSets`, `ReconcileOthersFails` | `scaleDownOldReplicaSetsForCanary`, `cleanupUnhealthyReplicas` |
| `pause`, `sync` | `SyncRolloutStatus` | `reconcileCanaryPause` where nothing was scaled, `completedCurrentCanaryStep`, `syncRolloutStatusCanary`, `persistRolloutStatus` |
| any | `ReconcileFails` | an API error or a crash |

`route` is the weight the traffic router sends to the canary Service; what a version
receives follows from it and from the selectors (`Share`). `run` are the AnalysisRuns
and Experiments the status names, `fresh` those created by a reconcile whose status
update was lost. `passed` and `excused` are history: the steps of this update that
ended as they should, and those that a user ended. Users are `kubectl argo rollouts`
and an edit of the template. Patches, conflicts and deadlines are those of
`BlueGreen`; a deadline can also be further away than the resync period ("far").

### Experiment

A pass reads the Experiment, its ReplicaSets, Services and runs, and goes through
`SyncHandler` (`idle`), `ReconcileTemplate` for each template (`templates`),
`ReconcileAnalysisRun` for each analysis (`analyses`) and
`PersistExperimentStatus` (`status`). What the calls for a template can leave
behind, each of them failing or not, is a set of records (`Created`, `KeptUp`,
`TakenDown`); `AssessTemplate` and `DecidedPhase` are the code's decisions on them.
Nothing writes the patch back, so that one of the stores of a pass may be one pass
old (`old`, `MaxStale`): the Experiment's by one patch, the ReplicaSets' and the
runs' by what the last pass created; `spec.terminate` is read as it is. A
collision-counted name claims a run of that name that has not ended. `late` and
`timeUp` are the progress deadline and the duration, counted from transition times
in the status; `ready` is history: all templates were available at once.

### How they fit

`BlueGreen` and `Canary` take from the AnalysisRun controller only that a run
completes once, with an outcome that stays (`RunCompletes`), and so does
`Experiment` (`RunEnds`). That is `AnalysisVerdict`, which `AnalysisRun` is shown to
implement as long as its passes read what the last one wrote; section 7 says what
happens when they do not. `Canary` takes the same from an Experiment; that it ends
is `Completes`, and what it can end in is `OutcomeEarned`. `CanaryReplicas` is
shared by `CanaryScaling` and `Canary`; the first leaves the steps open and has
arbitrary limits and changes of `spec.replicas`, the second has the steps and a fixed
number of replicas.

## 4. What is checked

| Run | Shows |
|---|---|
| `bluegreen_manual` | All six commands, both analyses, one failed pod, one failed reconcile: types, both inductive invariants, the gates of the active Service and of the stable version, aborts kept |
| `bluegreen_versions` | A third template, a pause or an abort interrupts the second, with `previewReplicaCount`: the checkpoint is earned, only a fully scaled version gets the active Service, pods of the stable version and of one that served |
| `bluegreen_delayed` | A timed pause, post-promotion analysis, the abort on the progress deadline and a failed reconcile: the rollout settles or waits for a user, and an abort brings the active Service back |
| `analysisrun` | A job, a kayenta judgement and a dry-run query with an error and a crash: refinement of `AnalysisVerdict`, earned success, Jobs, completion on request and by itself |
| `analysisrun_stale` | What of this holds when a pass reads the run one write late, with an error and a crash between a Job and its record: earned verdicts, one Job for a measurement |
| `scaling` | Updates, rollbacks, weight and replica changes and a failed pod, while one version's pods never start: division, surge, floor and settling |
| `canary` | All eight commands, an abort delay, verified weights, a failed pod and a failed reconcile: promotion through analysis and pause, pods for the traffic, pods of an aborted version |
| `canary_dynamic` | `dynamicStableScale` with an experiment, a set canary scale and a background analysis: an abort hands traffic back as the stable version can take it |
| `canary_converges` | A timed pause with `dynamicStableScale`, under fairness: earned weights, settling, old versions, an abort returns the traffic |
| `experiment` | Two templates, one pass with an old store, one failed call or lost pass: analyses after availability, one open run, earned outcome, the delay |
| `experiment_settles` | One template under fairness, a failed pod and a failed call: it ends and tidies up |
| `doc_required_concludes` | A comment that the code refutes (section 7) |

The properties, and why they could fail. *Blue-green*: `PromotionGated` and
`StableGated` relate a write to an analysis and a pause that belong to a version, over
reconciles of other versions, aborts, retries and crashes in between;
`SwitchTargetScaled` relates the switch to pods counted several calls earlier, and
allows for the pods that failed since (and, on the way back of an abort, for a stable
version that is scaled and not yet available); `CheckpointEarned` compares what stands
for a pause with the pause, of versions that replace each other;
`StableNeverScaledDown` and `DelayedScaleDown` look at every write of every stage;
`AbortKept` is about a user's patch that races the status patch; `Converges` and
`AbortReverts` fail when two parts of the reconcile wait for each other.
*AnalysisRun*: `OneJobPerMeasurement` and `JobsEndWithRun` are about Jobs across
crashes and terminations, and allow only for Jobs the code itself gives up;
`KeepsPromise` is the refinement; `RunCompletes` has two halves, a run that is
terminated and one that is left alone, which may only stay open for a kayenta
judgement that never comes. *Canary*: `WeightEarned` and `PromotionEarned` hold
a weight and a promotion against the history of all steps, which the controller
advances on a snapshot and users on the live object; `ScaleDownKeepsTraffic` and
`AbortSparesStable` relate ReplicaSets, selectors and weights that change in different
stages; `AbortedCanaryKept` follows an annotation over reconciles. *Counts*:
`ClosestToWeight` compares four candidates with all divisions; surge and floor relate
two counts written in two reconciles to pods that come and go. *Experiment*:
`RunsAfterAvailability` and `OneOpenRun` hold over lost passes and old stores,
`OutcomeEarned` and `DelayHonoured` over calls that fail half-way.

Bounds. Two templates are enough for one update and its undoing, a third for an
update that is interrupted; the gates compare one version with one analysis, so a
fourth adds no case. One replica where counts do not matter, two where they must
differ from both 0 and `spec.replicas`, three where limits are percentages;
`MaxWeight` 2 has a partial weight, 10 and (by hand) 20 the ties. Two edits let a
user interrupt an update and abort it, three or four also retry; `MaxPodFailures`,
`MaxErrors` and `MaxFaults` of one put a failure at every point of the behaviour.
`GatedSteps` has one step of each gate, `ScaledSteps` and `TimedSteps` the others. In
`AnalysisRun`, two measurements of a metric and limits of 0 and 1 give every order of
failing, retrying and being cut short; one error, one crash and one stale read meet
every step; `MaxMeasurements` bounds a metric that runs indefinitely, which no
present run has. In `Experiment`, two templates are needed for availability at
different times, `MaxRuns` 3 for a run that is created twice again. The lists of
templates and analyses have one fixed order. Symmetry of templates is used in the
runs without liveness. `CHECK_DEADLOCK FALSE` is set for `AnalysisRun` only, where a
completed run is the end. The theorems of section 6 hold for every value of these
bounds.

`AbortReverts` is checked with two versions and without an abort delay: with a third,
or with a delay that passes under a failed reconcile, it fails (section 7). The
`Converges` of `bluegreen_delayed` has no pre-promotion analysis, and that of
`canary_converges` has no failed reconcile; `OldVersionsGo` is checked without one and
with a scale-down delay for the same reason. In that run there is one old version at a
time, and `dynamicStableScale` takes its pods at once, so that
`scaleDownDelayRevisionLimit` is not reached. It is in the instance with `Hash = {v1,
v2, v3}`, `Replicas = 1` and `DynamicStableScale = FALSE`, otherwise that of
`MCCanaryConverges.cfg`, in which TLC finds no violation either (54,765 states); it is
no run of its own.

## 5. Fairness

`FairSpec` of `BlueGreen` and of `Canary` assumes weak fairness of the reconcile,
whose stages exclude one another, of pods that become available or are deleted, of
deadlines and pauses that pass, and of runs that complete. The code earns it so:
every change of a watched object enqueues the Rollout, delays are enqueued with
`enqueueRolloutAfter`, failed reconciles are retried with back-off, and the informer
resyncs every Rollout periodically (`resyncPeriod`), so a reconcile that is due is
not put off for ever; the ReplicaSet, analysis and experiment controllers are other
live processes. `CanaryScaling` assumes the same of `Read`, of the return of a
reconcile, and of the pods, except those of a version in `Broken`.

`FairSpec` of `AnalysisRun` assumes weak fairness of the controller (it requeues
itself by `calculateNextReconcileTime`, and `enqueueJobIfCompleted` on a finished
Job), of each timer, and of Jobs that finish. That of `Experiment` assumes it of the
pass (resync, and requeues for the duration, the progress deadline and the delay), of
those three times, of surplus pods being deleted, and of a terminated run ending;
pods need not become available, and other runs need not end.

Users, failures, crashes and stale reads owe nothing, and neither does a kayenta
judgement, which may say "Running" for ever: `RunCompletes` says that a run whose
metrics all have a count ends by itself unless the last measurement of a kayenta
metric stays in flight, and that one that is terminated ends in any case. The run has
behaviours of both kinds, in which the judgement comes and in which it does not. A run
that waits for metrics which its own failure keeps from being measured
(`AssessRunStatus_Waits`) breaks each half.

## 6. What is proved

For every set of templates, versions or metrics, every configuration that satisfies
the named assumptions of the modules, and every bound:

| Theorem | States | Assumes |
|---|---|---|
| `BlueGreenProofs!TypeCorrect` | `TypeOK` | |
| `BlueGreenProofs!PromotionInvariant` | `PromotionInv` | |
| `BlueGreenProofs!StableIsGated` | `StableGated` | |
| `BlueGreenProofs!CountsAreBounded` | `ReplicasBounded`: no count above `spec.replicas` and `previewReplicaCount` | |
| `BlueGreenProofs!StableKeepsItsPods` | `StableNeverScaledDown` | |
| `BlueGreenProofs!PauseInvariance` | `PauseInv` | |
| `BlueGreenProofs!PromotionIsGated` | `PromotionGated` | |
| `BlueGreenProofs!CheckpointIsEarned` | `CheckpointEarned` | |
| `BlueGreenProofs!SwitchTargetIsScaled` | `SwitchTargetScaled` | |
| `BlueGreenProofs!ScaleDownIsDelayed` | `DelayedScaleDown` | |
| `BlueGreenProofs!AbortIsKept` | `AbortKept` | |
| `AnalysisRunProofs!TypeCorrect` | `TypeOK` | |
| `AnalysisRunProofs!VerdictsAreEarned` | `VerdictsEarned` | |
| `AnalysisRunProofs!PromiseKept` | `KeepsPromise` | passes read what was written (`MaxStale = 0`) |
| `AnalysisRunProofs!SuccessIsEarned` | `SuccessEarned` | the same |
| `AnalysisRunJobsProofs!OneJobEach` | `OneJobPerMeasurement` | at most one pass reads an old run (`MaxStale` is 0 or 1) |
| `AnalysisRunJobsProofs!JobsEnd` | `JobsEndWithRun` | passes read what was written |
| `CanaryScalingProofs!TypesHold` | `TypeOK` | |
| `CanaryScalingProofs!SurgeHolds` | `SurgeRespectedButKeptPods` | |
| `CanaryScalingProofs!FloorHolds` | `FloorRespectedButLeavingPods` | |
| `CanaryScalingProofs!WeightIsClosest` | `ClosestToWeight` | |
| `CanaryProofs!TypeCorrect` | `TypeOK` and `SnapshotHeld` | |
| `CanaryPromotionProofs!PromotionIsEarned` | `PromotionEarned` | all gates of the steps are sure |
| `CanaryPromotionProofs!SurePromotionEarned` | `SureGatesEarned` | |
| `CanaryPromotionProofs!WeightRaisedAsEarned` | `RaiseEarned` | |
| `CanaryPromotionProofs!WeightIsEarned` | `WeightEarned` | |
| `CanaryPromotionProofs!AbortedKeepsItsPods` | `AbortedCanaryKept` | the delay of an abort holds the scale-down back (`AbortsDelayed`) |
| `CanaryPromotionProofs!AbortedTrafficIsTaken` | `AbortSparesStable` | `dynamicStableScale`; weights are not verified; no reconcile is cut short (`MaxErrors = 0`) |
| `CanaryPromotionProofs!TrafficKeepsItsPods` | `ScaleDownKeepsTraffic` | no `dynamicStableScale`; no step lowers the weight, sets a scale of its own or runs an experiment (`RisingSteps`) |
| `ExperimentProofs!ObjectsCorrect` | `TypeOK` and `ObjectsInv` | |
| `ExperimentProofs!OneRunAtATime` | `OneOpenRun` | |
| `ExperimentPassProofs!AnalysesWait` | `RunsAfterAvailability` | |
| `ExperimentPassProofs!DelayKept` | `DelayHonoured` | |
| `ExperimentPassProofs!OutcomeIsEarned` | `OutcomeEarned` | passes read what was written (`MaxStale = 0`) |

*BlueGreen.* `StableGated` is about one action, `SyncRolloutStatus`, but what that
action relies on was decided stages earlier on a snapshot. `IInv` is `TypeOK` with
`PromotionInv`: the snapshot still holds where promotion depends on it
(`SnapshotHolds`: nobody but the reconcile writes those fields, and completed runs do
not change), a stage is reached only under the conditions that lead to it
(`DecisionsHold`: a new template is past `preview` only on its way to `sync`), the
active Service is at a version that the status accounts for (`StatusHolds`), and the
runs that the status names are runs of the current template (`RunsHold`). Each is
needed: without `RunsHold`, an interrupted version's success would promote the next.
The proof has one lemma per action. `PromotionIsGated` adds `PauseInv`: a controller
pause without conditions was ended by a user for the current version (`GateOfPause`).
With a preview count a checkpoint in the status stands in for the pause, and the
property says so; `CheckpointIsEarned` is what can be said of the checkpoint itself.
It rests on the same lemma, and on `PauseInv` for the fact that nobody but the
reconcile writes it. Its two exceptions are the code's: the reconcile that sees a new
template may set it for that version on the pause of the last one, and an abort ends
the pause of an inconclusive analysis (section 7).

What a reconcile has counted is used several calls later. `PodsInv` says what is left
of it at each stage until the switch. `SaturationHolds`: a new version that was read
with all its pods still has them, but for those that failed; every stage that may
write its count writes `spec.replicas`, since no abort is pending. `StableScaled`:
past its stage the stable version is scaled to `spec.replicas`, which is why the
switch of an abort may rely on its count, though not on its available pods.
`DeadlinesHold`: a deadline read as expired is still expired when the ReplicaSet is
scaled down for it; the stage that removes annotations removes none of a version that
may be scaled down. `StageWrites` says once what each stage may write:
`spec.replicas`, the count of a new version, or nothing for one whose deadline had
passed. From it follow `SwitchTargetIsScaled`, `CountsAreBounded`,
`ScaleDownIsDelayed` and, since the stable version never expires,
`StableKeepsItsPods`. The last two have one exception, which the code has
(`ScaledForPreview`, section 7): a version that the template goes back to, while
another one is active, is scaled to the preview count. Without a preview count there
is no exception, and no pods beyond `spec.replicas` to lose. `AbortIsKept` needs that
the only abort a reconcile drops by itself is that of a version that is stable already
(`DropsHold`).

*AnalysisRun.* `EarnedInv` says that the status, the status the store may still
hold, and the one a pass read are all sound (each result agrees with its
counters), that the results of a pass can be assessed, and that one with a task
left has no verdict. Nothing in it says that these are the same run, which is why
it survives stale reads and crashes. `FreshInv` says what a pass may rely on when
reads are fresh: the status is still the one it read, a termination it saw still
stands, and metrics with verdicts are untouched. From it the write of a pass is a
step `Decide` or `GiveUp` of `AnalysisVerdict`, and everything else a `Cancel` or a
stutter; `SuccessInv`, that a metric stops short only in a run being cut short,
gives `SuccessEarned`.

The two properties about Jobs count, so their invariants do. `JobsInv` says that each
result that somebody may still write from (the status, the one a pass read, the one it
has so far, and the old one while a stale read is left) *accounts* for the Jobs: none
has a number past the next measurement's, and of those behind no more are active than
there are errors. That a pass may have written one from another (`Follows`) is what
keeps an old result accountable: it is at most one measurement behind and, where
nothing was in flight, has the same judged ones. With two stale reads it is not, and
the property fails (section 7). `EndInv` adds, for fresh reads, that an active Job
with the number of the next measurement comes from a crash (`Lost`), that a completed
run has nothing in flight, and that a pass which ends a run has each measurement in
flight among its tasks. For this, a metric that waits on a timer must have no Job in
flight, and one with an `initialDelay` no measurement before the run has started.

*CanaryScaling.* The invariant of `SurgeHolds` is `TypeOK` and that, while a
reconcile is under way, `spec.replicas` of the live ReplicaSets are those it read:
only a reconcile writes them. The rest is arithmetic, in lemmas about the operators
of `CanaryReplicas`: a division of `n` pods stays within `n` and the surge
(`ApproximateRange`), a scale-up takes no more than the room, a scale-down does not
add, and `adjustReplicaWithinLimits` gives back at most the pods on their way out.
A reconcile writes one group of ReplicaSets (`OneGroup`), and each of them, alone,
stays within the bound.

The floor takes the same way. `FloorHolds` is about what is left of the pods that were
available when the reconcile looked, whichever of the two counts it writes, though both
were computed to go together: `adjustReplicaWithinLimits` may lower the count that is
not written, or raise it. `AdjustFloor` says what each is worth by itself: the drained
version gives up no pod beyond those it was to lose, and the adjusted one gets back
enough to make up for it, or all it has, whatever is cut to stay below the surge. It
needs that the drained count and the other version's pods together reach the floor
before the adjustment, which `CalculateScaleDownReplicaCount` provides in both
directions (`CountsBound`, `KeepsFloor`). The older versions lose together no more than
what is spare (`OlderCountKeeps`): what the younger one takes is not left for the
other. There, pods on their way out break it: they count as available, so the spare
ones are too many (section 7), and this is the exception that the property makes.

`WeightIsClosest` needs no invariant but the types; its proof is arithmetic. "Not
further from the weight" is compared crosswise, with the totals as factors, and is
transitive (`Transitive`), so the loop ends with an option that no other is closer
than (`BestOfOptions`). Of the divisions of `n` pods the two rounded ones are the
closest on their sides (`Sides`), and closer than those of one pod more that are
further off (`SidesWithSurge`); so the options that the code leaves out (rounding down
at a tie or to nothing, rounding up to all pods) are never missed (`OptionsCover`),
but for the one tie that the property names.

*Canary.* `PromotionEarned` does not hold for all steps: section 7 has an analysis
that takes the run of another step for its own, a pause that takes the flag of an
earlier pause for a user's answer, and one that takes that of an inconclusive
analysis for it. What holds for all steps is about the gates that none of this can
touch (`SureGates`): the only analysis step, and a pause before which only weights
and scales are set, without a background analysis. `SurePromotionEarned` says that no
version becomes stable before these were passed or a user ended them, and
`WeightRaisedAsEarned` that no reconcile raises the weight past the steps before the
first of them that is open. `PromotionIsEarned` is the property of the run `canary`
for the steps whose gates are all sure, as those of that run are.

The invariant, `PromotionInv`, relates a status to the history of gates
(`GatesBehind`: each sure gate behind the step index is done or excused) and must do
so for the status in the snapshot too, from which the next index is computed, though
a user may have moved the live one meanwhile: `SnapshotHeld` says that the snapshot is
not ahead, and that the gates between the two were excused since it was taken.
`PauseBehind` says that, while the controller's flag is on, no sure pause is ahead, and
one whose condition is gone was ended by a user: this is what
`CompletedCanaryPauseStep` infers from the flag, and where steps that pause for
another reason break it. `RunsHeld` says that the step's run is of this version and of
an analysis step, so with one such step it is of that one; `AddsHeld` what a reconcile
may have decided to pause for by then. Users, failures and edits keep the invariant by
what they leave alone (`UserPatches`, `StepsOfReconcile`).

`WeightIsEarned` is about states and has no hypothesis. What the weight was before an
update may be anything: a step further on before a rollback or a retry, or the last
version's. But each update computes it anew (`WeightBehindGates`): from the step index,
which no sure gate that is open is behind, or 0. From there to the end of the reconcile
no gate that was done is undone (`DoneStaysDone`), and the next reconcile begins with
nothing claimed. A decision to abort that this reconcile itself takes comes after the
update (`NoAbortYet`). In between, the documentation's claim can fail
(`TrafficEarned`, section 7).

`AbortedCanaryKept` is about four actions that write counts, long after the abort was
read. A reconcile that has read an abort keeps what it read (`ContextKept`), and none of
its stages takes a pod from the new version while the deadline is ahead: the weight of
an aborted version is 0, so `reconcileNewReplicaSet` would scale it down but for the
deadline, and other stages do not touch it (`StageSpares`). `KeepInv` says why this can
be relied on. `DeadlinesHeld`: a deadline that a reconcile saw as passed has passed, so
the copy it decides on is not ahead of the ReplicaSet; no deadline is further away than
the resync period, since one that is would count as none; and an abort is dropped only
of a version that is promoted. Without a stable version there is no deadline to wait
for; there `FirstVersionWhole` says that no version ever has more pods than the whole
traffic needs, which is what such a reconcile asks for, and a dynamic one divides by the
stable version's pods and goes no further than its weight.
`AbortsDelayed` names the values of the delay for which this is promised; for the
others TLC has the counterexamples (section 7).

`AbortedTrafficIsTaken` adds `WeightsKnown`: the weight in the status is the one the
traffic router has, from the end of each reconcile to the next weight update. The
weight of an aborted version is the smaller of what the status says and of what the
stable pods cannot take over, so it is only as good as that. A reconcile that fails
between the router and the status breaks it (section 7), and so may one that ends
because the router does not confirm the full weight: hence the two hypotheses.
`SpareShare` is the arithmetic: what is left to the aborted version, rounded down,
leaves the stable one no more than its available pods can take.

`TrafficKeepsItsPods` compares a weight, which one stage sets, with the counts that four
later ones write. `TrafficCovered` says what each of them finds: the weight is no higher
than the one of the current step, from which the count is computed (`WeightsRise`: the
weight of an update is that of its step or, while its pods are awaited, of a step
before), it is 0 once an abort was read, and a reconcile that decides on an abort of its
own, after it set the weight, saw no deadline, so it cannot take the pods of that
version at once (`OwnAbortWithoutDeadline`). The rest is arithmetic: a count is rounded
up and the weight is a share of `spec.replicas` (`NewCountCovers`, `EnoughPods`), and
an old version that a Service selects is not scaled (`StageCovers`). Each hypothesis has
a counterexample without it (section 7).

*Experiment.* A pass may hold an old status, an old ReplicaSet or none where there is
one, and a status may be written from any of them. `ObjectsInv` says what survives
that: all runs of an analysis but the last have ended (`RunsInTurn`, from which
`OneOpenRun` follows at once), every run that some status names is there
(`RunsNamed`), and a ReplicaSet that a pass did not see has no pods
(`ReplicaSetsHold`): the store lacks only those that the last pass created, and these
are scaled up by a later one. `AvailabilityInv` adds what a status may stand for.
`AssessedHold`: a template's new code is `Running` only with all pods counted, and
`Successful` only once all templates were available, in a termination, or because it
was so before. `AvailabilityKnown`: wherever `availableAt` is set, in a status old or
new, all templates were available at once; and as long as they were not, a status
with one template done has all of them done (`AllDone`). Without `AllDone` a
termination could be forgotten half-way and the templates left running taken for all
of them. `calculateStatus` sets `availableAt` when the worst code is `Running`
(`WorstOfFour`): then either all run, and the pass counted all pods, or one is
`Successful`, which `AllDone` excludes. `DelayKept` needs `ObjectsInv` only, and one
lemma for each call on a ReplicaSet.

`OutcomeIsEarned` is about one step, the patch, but what it writes was found stages
and passes earlier. `OutcomeInv` carries that along: a pass knows the status as it is
(`ReadsFresh`), the outcome in the status of an analysis is that of the run it names,
or an error after a fault (`OutcomesTold`), a pass takes no outcome back
(`OutcomesKept`), and no template is `Successful` without a cause that is still to be
seen (`SuccessCaused`): a termination, the duration, the success of all required
runs, or a template or an analysis that went wrong. The last two causes cannot be
there when `calculateStatus` concludes `Successful`, since the worst status is taken
(`WorstOfFour`, `WorstOfFive`). This is where the default of `assessAnalysisRuns`
matters: analyses without a run count as successful, and only `SuccessCaused` keeps
the templates from being so first. With passes that read an old status the theorem is
false (section 7).

*Induction.* The library's induction theorems take an operator as parameter, which
cannot be instantiated here, but the one about least elements takes a set. From it,
and the order of the natural numbers, `CanaryProofs` derives that a non-empty set of
numbers has a least and a bounded one a greatest element (`LeastNatural`,
`GreatestNatural`) and that a function defined by recursion on `0..n` exists
(`RecursionExists`). The pods that `scaleDownOldReplicaSetsForCanary` has left as it
goes through the old versions are such a function, and these lemmas give its type.

Only model-checked: liveness (`Converges`, `AbortReverts`, `RunCompletes`, `Settles`,
`OldVersionsGo`, `AbortReturnsTraffic`, `Completes`, `Tidies`), which is out of the
prover's reach. Every safety property of the passing runs is the subject of a theorem;
where the theorem has a hypothesis, the table names it.

## 7. Where the code and its words disagree

`doc_required_concludes`: once all required analyses succeeded the Experiment is to
conclude successfully (`experiments/experiment.go:558`), but the code assigns the
worst phase of all analyses (`:560`). With another one running that is Running; the
next pass terminates that run, copies its phase no more (`:476`), and the Experiment
runs for ever.

Each of the following has a configuration that shows it and is run by hand; TLC ends
with the counterexample.

| Configuration | Property | The words | The code |
|---|---|---|---|
| `MCBlueGreenCancelledRun` | `CancelledRunOpensNoGate` | traffic is not switched "until the analysis run finishes successfully" (`docs/features/analysis.md:706`) | an abort terminates the run, a retry comes before its end is seen, and the terminated run completes as Successful (`rollout/pause.go:135`, `analysis/analysis.go:555-563`) |
| `MCBlueGreenCheckpointResets` | `CheckpointResets` | the checkpoint is "reset to false when the pod template changes" (`rollout/bluegreen.go:320`) | it stays set, and the next version's pause is skipped (`:331`, `rollout/sync.go:886-898`) |
| `MCBlueGreenServingScaledDown` | `ServingNeverScaledDown` | a ReplicaSet that a Service references is not one that "can safely be scaled to zero" (`rollout/replicaset.go:326-328`) | an aborted version with an unavailable pod is, while the active Service selects it (`rollout/replicaset.go:158`, `rollout/service.go:93-120`) |
| `MCAnalysisRunFailureLimit` | `FailureLimitHolds` | `failureLimit` is the maximum (`pkg/apis/rollouts/v1alpha1/analysis_types.go:113`) | a pass that reads the run before the last write overwrites the failure it had counted (`analysis/sync.go:33`) |
| `MCCanaryScalingOneOfEach` | `OneOfEach` | a weight between 1 and 99 leaves a pod on each side (`utils/replicaset/canary.go:186`) | not without surge and at a tie (`:217`) |
| `MCCanaryScalingSurge` | `SurgeRespected` | `maxSurge` (`docs/features/canary.md:211`) | the pods that `adjustReplicaWithinLimits` gives back are taken from the other ReplicaSet a reconcile later (`utils/replicaset/canary.go:285-305`, `rollout/canary.go:433-469`) |
| `MCCanaryScalingFloor` | `FloorRespected` | `maxUnavailable` (`docs/features/canary.md:216`) | pods on their way out count as available when older versions are scaled down (`rollout/canary.go:174-176`) |
| `MCCanaryScalingEarly` | `NoPodsBeforeItsUpdate` | the new ReplicaSet may be nil "when template and replicas changed at same time" (`rollout/sync.go:281`) | one that an older update left is scaled by the weight of the last update (`:293`, `:322`) |
| `MCCanaryWeightsLost` | `TrafficEarned` | "a small percentage of users receive a new version while it is verified" (`docs/features/traffic-management/index.md:3`) | a reconcile fails between the selector and the weight: the new version has the last one's weight (`rollout/service.go:280`) |
| `MCCanaryDynamicStable` | `ScaleDownKeepsTraffic` | the stable scale stays high until its traffic is reduced (`utils/replicaset/canary.go:362-365`) | it is computed from the weights of the last reconcile (`rollout/canary.go:116`) |
| `MCCanaryAbortLost` | `AbortSparesStable` | on abort traffic is shifted as stable becomes available (`rollout/trafficrouting.go:312`) | the weight in the status may be older than the one that was set (`:316`) |
| `MCCanaryInconclusiveRun` | `InconclusiveHolds` | an inconclusive run pauses the rollout (`docs/features/analysis.md:1062`) | a step that is complete is left all the same (`rollout/canary.go:319-356`) |
| `MCCanaryInconclusiveExperiment` | `InconclusiveHolds` | an inconclusive experiment pauses it (`pkg/apis/rollouts/v1alpha1/types.go:859`) | the same (`rollout/experiment.go:186-187`) |
| `MCCanaryTwoAnalyses` | `PromotionEarned` | an analysis step "blocks the rollout until the run is completed" and its success decides (`docs/features/analysis.md:98-100`) | while a retried version still has its deadline, the terminated run of a later step stays the current one, and its success completes the first (`rollout/analysis.go:76-83`) |
| `MCCanaryTwoPauses` | `PromotionEarned` | a pause step waits "until that Pause condition is removed" (`docs/features/canary.md:7`) | `promote` twice before a reconcile ends one pause and moves to another, which the flag of the first completes (`rollout/pause.go:189`); the flag that an inconclusive analysis set does the same to a pause that a user skips to |
| `MCCanaryAbortNever` | `AbortedCanaryKept` | "0 means canary pods are not scaled down" (`pkg/apis/rollouts/v1alpha1/types.go:305`) | zero is no delay, and they are scaled by their weight, 0 (`rollout/replicaset.go:208`) |
| `MCCanaryAbortLong` | `AbortedCanaryKept` | users can "adjust the value to something larger" (`docs/features/scaledown-aborted-rs.md:3`) | one longer than the resync period does not hold the scale-down back (`rollout/replicaset.go:149-155`) |
| `MCCanaryNoDelay` | `OldVersionsGo` | a delay of zero is to "remove any replicasets with the delay" (`rollout/replicaset.go:55`) | they are neither annotated nor scaled down (`:54`, `:296-302`) |

`ScaleDownKeepsTraffic`, `AbortSparesStable`, `AbortedCanaryKept` and `OldVersionsGo`
are therefore checked in `canary*` runs that avoid those cases:
without failed reconciles, without `dynamicStableScale`, or with a delay that is set.
`WeightEarned` speaks of the time after a weight update, when that of
`MCCanaryWeightsLost` cannot arise.

Others were met while modelling. The properties above are stated so that they do not
claim the contrary.

*Blue-green*

- A version with a scale-down deadline is fast-tracked past pause and analysis
  (`rollout/bluegreen.go:113`), also one that was interrupted before it ever served;
  `docs/features/analysis.md:706` says traffic waits for the analysis.
  `PromotionGated` exempts versions with a deadline.
- With `autoPromotionSeconds`, a pause that a user ended begins again if the
  reconcile that sees it ended does not switch (`rollout/pause.go:171`); the comment
  at `:141` says a resumed pause is completed.
- With `scaleDownDelaySeconds: 0` the old version is neither annotated nor scaled
  down (`rollout/replicaset.go:51`, `:291`); `docs/features/bluegreen.md:87`
  describes a delay.
- Going back to the stable template during post-promotion analysis, with
  pre-promotion analysis configured: the analysis is skipped because the version is
  stable (`rollout/analysis.go:259`), and the switch waits for it
  (`rollout/pause.go:130`); `docs/FAQ.md:59` promises an immediate switch. The same
  happens when a reconcile fails right after it switched the active Service and the
  user has gone back meanwhile.
- An abort while a third version is unavailable leaves the active Service at the
  second (`rollout/service.go:98`); `pkg/kubectl-argo-rollouts/cmd/abort/abort.go:23`
  says the previous ReplicaSet will be active.
- An abort moves the active Service back without a look at the pods of the stable
  version (`rollout/service.go:111`). Two reconciles that fail before the first status
  is written, and an edit, leave a stable version that never had the Service;
  an abort of the next update then switches to it while none of its pods is available.
  When nothing is stable yet, an abort clears the selector. `SwitchTargetScaled` asks
  for the pods of a version that no abort moves to.
- With an abort delay, a reconcile that fails while the deadline of the aborted
  version expires lets it be scaled to zero while the active Service still selects
  it; it does not come back (`MCBlueGreenDelayed.cfg` with `AbortDelay = TRUE`).
- With `previewReplicaCount`, a version that only ran preview pods is scaled up to
  `spec.replicas` while it waits for its deadline (`rollout/replicaset.go:318`), and
  one that served is scaled down to the preview count when the template goes back
  to it (`utils/replicaset/replicaset.go:267`): the exception of
  `StableNeverScaledDown` and `DelayedScaleDown`.
- If that version is the stable one and the rollout is paused, each reconcile undoes
  what the last one did: one scales it to `spec.replicas` as the stable version
  (`rollout/bluegreen.go:81`), the next to the preview count as the new one, for as
  long as the pause lasts.
- The checkpoint is set by the reconcile of a new template, too: if a user ended the
  pause of one version, and the template then changes to another one that still has
  its preview pods, that one has the checkpoint at once and is not paused, though its
  own analysis is still asked for; the code means not to "set the checkpoint unless
  prePromotionAnalysis was successful and we completed our pause"
  (`rollout/bluegreen.go:334`). And an abort, which ends the pause of an inconclusive
  analysis, sets it for a version whose pods have dropped to the preview count.
  `CheckpointEarned` exempts both.

*Canary*

- An abort of the first deployment with `dynamicStableScale` reads the available pods
  of a stable ReplicaSet that is nil (`ReconcilePanics`).
- An aborted version that a failed experiment step aborted is scaled to zero while it
  still receives traffic if the reconcile that set the weight failed.
- While the router does not confirm the full weight of the last step, each reconcile
  ends with an error after it set the weight and before it writes it into the status
  (`rollout/trafficrouting.go:295`). An abort then goes by the weight before, as after
  a failure (`MCCanaryAbortLost`): `AbortSparesStable` fails with verified weights.
- A step that lowers the weight costs pods before traffic: the weight goes down only
  when the counts of the step are there (`rollout/trafficrouting.go:218`), and these are
  fewer than the weight of the step before needs.
- A version that the stable Service was left at, by a reconcile that failed, is scaled
  as a canary once the template goes back to it, with the traffic of the stable
  version. `ScaleDownKeepsTraffic` exempts it.
- After an abort and its retry, the fallback patch of a conflicting Update may put the
  old deadline of the new version back (`rollout/controller.go:988`). When it has passed
  and a step's experiment then fails, the reconcile that set the weight decides on the
  abort, finds the deadline expired and scales the version to zero with the traffic on
  it. An analysis is not looked at while there is a deadline
  (`rollout/analysis.go:75`), an experiment is.
- Skipping steps may leave a version with traffic and no pods of its own until the
  next reconcile; `cleanupUnhealthyReplicas` does not look whether a Service still
  selects what it scales.
- After an abort, each reconcile points the canary Service back at the aborted
  version first and at the stable one later.
- `promote` reads the step index and patches it in two calls, which the controller's
  own advance or pause may come between.

*AnalysisRun*

- A pass that read the run before its first write, but was asked to terminate it, has
  no measurement to terminate: it completes the run while the Job that was recorded in
  between goes on. `JobsEndWithRun` is claimed, and proved, for fresh reads.
- After two such reads a measurement may have two Jobs for a while: one pass overwrites
  an error with nothing, another reads the error and numbers the next Job by it.
  `OneJobPerMeasurement` is claimed, and proved, for at most one.

*Experiment*

- A user's termination before required runs ended, or one failed call to terminate a
  run, leaves the Experiment in Running, or its analysis in Error, for good: the call
  is tried once and the phase is no longer copied (`experiments/experiment.go:476`).
- A phase "" that was just copied from a new run counts as nothing worse than
  Successful, so that a duration that passed can complete an Experiment whose required
  run has not begun (`docs/features/experiment.md:139-141`).
- A store that lags makes a pass create what exists, and a template or an analysis
  fails with that error. A template that completed becomes Error when its scale-down
  fails.
- A failed Get before a scale-up is returned as no ReplicaSet and dereferenced
  (`experiments/experiment.go:264-272`): the pass is lost.
- Of two passes that read an old status, one creates a second run where the first one
  ended in between, and the next concludes from the first while the status names the
  second (`OutcomeEarned` with `MaxStale = 2`).
- A Service whose deletion fails stays; a ReplicaSet whose annotation fails is scaled
  down without its delay; templates go down after the duration while required analyses
  go on.
- "will not create any analysis runs or replicasets" once terminating
  (`experiments/experiment.go:55-56`), but ReplicaSets that are missing are created.
- `lastTransitionTime` is renewed in each pass of a scale-down delay; after a lost pass
  in the middle of a take-down, an old one can make the template Failed.
- The name a template's ReplicaSet gets does not depend on the collision count.

## 8. What is not modelled

In `BlueGreen`: changes of `spec.replicas` and the scaling path (in `CanaryScaling`);
revisions, `RollbackWindow`, `scaleDownDelayRevisionLimit` and the deletion of old
ReplicaSets; verification of AWS target groups; a Rollout without a preview Service;
delays longer than `resyncPeriod`; conditions and events; hash collisions;
`workloadRef`; `autoPromotionEnabled: false` together with `autoPromotionSeconds`.
Snapshots are atomic and no older than the last status write (the controller writes
its patch back to the informer). Whether the progress deadline has passed is a choice,
possible whenever the update has made no progress.

In `CanaryScaling`: the steps, analyses and aborts (in `Canary`), more than three
versions at a time, and a reconcile that fails between its writes: each writes one
group.

In `Canary`: plugin, header and mirror route steps and managed routes; experiments'
weights and destinations; `RollbackWindow`, ping-pong, target group verification; the
details of AnalysisRuns and Experiments; changes of `spec.replicas` and of the steps;
deletion of old runs, experiments and ReplicaSets; the progress deadline.

In `AnalysisRun`: retention of measurements, TTL and deletion of runs; redaction;
validation beyond its single outcome; a Job in another cluster or namespace, and a
lister of Jobs that lags (a resumed Job that is not found yet counts among the
errors). The store is at most one write behind.

In `Experiment`: invalid specs, hash collisions of templates, arguments, names of
Services other than the template's, conditions, deletion. What can no longer change
the outcome of an Experiment that is over (its timers, a termination) is left out.

Components without a module:

- *Step plugins*: what a second call of run, terminate or abort does is up to plugins,
  code outside the repository.
- *Restarter*: it evicts pods one by one by their creation time, and the other modules
  have no pods with identities.
- *Service and Ingress controllers*: they requeue Rollouts and clean up after deleted
  ones.
- *Workload reference*, *validation*: they end before the reconcile that is modelled
  begins; validation is in the assumptions on the constants.
- *Ephemeral metadata*, *notifications*, *metrics*, *dashboard*: input and output.
- *Manager and leader election*: a library; that one leader acts is assumed.
- The routers of *traffic routing* and the queries of *metric providers* are adapters
  to other systems. Most of the implementation's lines are generated (protobuf,
  OpenAPI, deep copies, clients).

## 9. Running it

    tlc -config MCBlueGreenManual.cfg MCBlueGreen.tla
    tlc -config MCCanary.cfg MCCanary.tla
    tlapm BlueGreenProofs.tla

A configuration is run with the module whose name it begins with. `PROJECT.json` names
the runs; section 7 lists the configurations that end with a counterexample, and three
more pass: `MCBlueGreenConverges` (automatic promotion), `MCCanaryInvariant` (the
invariant and action properties of `CanaryPromotionProofs`) and
`MCCanaryScalingCounts` (`ClosestToWeight` for twentieths). A run takes up to three
minutes, all of them together about twenty, and the proofs a few.
