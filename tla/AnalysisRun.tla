----------------------------- MODULE AnalysisRun -----------------------------
(***************************************************************************)
(* The analysis controller (analysis/*.go): one worker reconciles one      *)
(* AnalysisRun.  A pass reads the run from the informer's store, takes the *)
(* measurements that are due, each in a goroutine of its own, assesses     *)
(* every metric and the run on the results, and patches the status with    *)
(* what differs from the status it read.                                   *)
(*                                                                         *)
(* Nothing writes that patch back to the store, so a pass may read the run *)
(* as it was before the last write.  Jobs outlive a controller that dies.  *)
(***************************************************************************)
EXTENDS Naturals, FiniteSets

CONSTANTS
    Metric,             \* the metrics of the run
    DryRun,             \* those in dry-run mode
    Delayed,            \* those with an initialDelay
    Provider,           \* of each metric: "instant", "job" or "kayenta"
    Count,              \* EffectiveCount of each metric; 0: runs indefinitely
    FailureLimit, InconclusiveLimit, ConsecutiveErrorLimit,  \* of each metric
    MaxMeasurements,    \* bound: measurements of a metric that runs indefinitely
    MaxErrors,          \* bound: measurements and look-ups that end in an error
    MaxCrashes,         \* bound: passes whose status is never written
    MaxStale            \* bound: passes that read the run one write late

ASSUME MetricAssumption ==
    /\ Metric # {} /\ DryRun \subseteq Metric /\ Delayed \subseteq Metric
    /\ Provider \in [Metric -> {"instant", "job", "kayenta"}]
    /\ Count \in [Metric -> Nat]
ASSUME LimitAssumption ==
    /\ FailureLimit \in [Metric -> Nat]
    /\ InconclusiveLimit \in [Metric -> Nat]
    /\ ConsecutiveErrorLimit \in [Metric -> Nat]
ASSUME BoundAssumption ==
    /\ MaxMeasurements \in Nat /\ MaxErrors \in Nat
    /\ MaxCrashes \in Nat /\ MaxStale \in Nat

VARIABLES
    terminate,  \* spec.terminate
    status,     \* the AnalysisRun's status
    old,        \* the run before the last write, which the store may still hold
    waiting,    \* metrics whose initialDelay, interval or resumeAt has not passed
    jobs,       \* the Jobs of the job provider
    pc,         \* "idle" or "measuring"
    ctx,        \* the pass: the run it read, its tasks, the results so far
    used,       \* the part of each bound used so far
    failures    \* history: failed measurements ever written to the status

vars == <<terminate, status, old, waiting, jobs, pc, ctx, used, failures>>

Judged == {"Successful", "Failed", "Inconclusive"}
Outcome == Judged \cup {"Error"}
Phase == {"none", "Running"} \cup Outcome
Completed(phase) == phase \in Outcome

\* MetricResult: its phase, that of its last measurement, its counters, and
\* the number of the Job that the last measurement names
MetricResult ==
    [phase : Phase, last : Phase, count : Nat, failed : Nat, inconclusive : Nat,
     error : Nat, consecutiveError : Nat, job : Nat]
AnalysisRunStatus ==
    [phase : Phase, startedAt : BOOLEAN, completedAt : BOOLEAN, results : [Metric -> MetricResult]]
View == [terminate : BOOLEAN, status : AnalysisRunStatus]
Job == [metric : Metric, id : Nat, state : {"active", "complete", "failed"}]
Pass == [terminate : BOOLEAN, status : AnalysisRunStatus, invalid : BOOLEAN,
         tasks : SUBSET Metric, todo : SUBSET Metric, results : [Metric -> MetricResult]]

NoResult == [phase |-> "none", last |-> "none", count |-> 0, failed |-> 0, inconclusive |-> 0,
             error |-> 0, consecutiveError |-> 0, job |-> 0]
NoStatus == [phase |-> "none", startedAt |-> FALSE, completedAt |-> FALSE,
             results |-> [m \in Metric |-> NoResult]]
NoPass == [terminate |-> FALSE, status |-> NoStatus, invalid |-> FALSE,
           tasks |-> {}, todo |-> {}, results |-> NoStatus.results]

Live == [terminate |-> terminate, status |-> status]

TypeOK ==
    /\ terminate \in BOOLEAN /\ status \in AnalysisRunStatus /\ old \in View
    /\ waiting \subseteq Metric /\ jobs \subseteq Job
    /\ pc \in {"idle", "measuring"} /\ ctx \in Pass
    /\ used \in [errors : Nat, crashes : Nat, stale : Nat]
    /\ failures \in [Metric -> Nat]

-----------------------------------------------------------------------------
(* What a pass decides from the run it reads and from its results.         *)

\* Mutant: a dry-run metric ends the run too.
IsTerminating_DryRunToo(requested, results) ==
    requested \/ \E m \in Metric : results[m].phase \in {"Failed", "Error", "Inconclusive"}

IsTerminating(requested, results) ==
    requested \/ \E m \in Metric \ DryRun : results[m].phase \in {"Failed", "Error", "Inconclusive"}

Terminating == IsTerminating(ctx.terminate, ctx.status.results)

\* A timer belongs to a measurement: one that the read is too old to show
\* does not hold the metric up.
Due(view, m) == m \notin waiting \/ view.status.results[m] # status.results[m]

MoreNeeded(m, r) == Count[m] = 0 \/ r.count < Count[m]

\* Mutant: the check for termination comes before that for a measurement in flight.
GenerateMetricTasks_NotInFlight(view) ==
    LET results == view.status.results
    IN  {m \in Metric :
            /\ ~Completed(results[m].phase) /\ Due(view, m)
            /\ ~IsTerminating(view.terminate, results)
            /\ m \in Delayed => view.status.startedAt}

GenerateMetricTasks(view) ==
    LET results == view.status.results
        terminating == IsTerminating(view.terminate, results)
        Wanted(m) ==
            \/ results[m].last = "Running"
            \/ /\ ~terminating
               /\ IF results[m].last = "none" THEN m \in Delayed => view.status.startedAt
                                              ELSE MoreNeeded(m, results[m])
    IN  {m \in Metric : ~Completed(results[m].phase) /\ Wanted(m) /\ Due(view, m)}

\* Mutant: a limit is exceeded when it is reached.
ExceededLimit_AtLimit(m, r) ==
    IF r.consecutiveError >= ConsecutiveErrorLimit[m] THEN "Error"
    ELSE IF r.inconclusive >= InconclusiveLimit[m] THEN "Inconclusive"
    ELSE IF r.failed >= FailureLimit[m] THEN "Failed" ELSE "none"

ExceededLimit(m, r) ==
    IF r.consecutiveError > ConsecutiveErrorLimit[m] THEN "Error"
    ELSE IF r.inconclusive > InconclusiveLimit[m] THEN "Inconclusive"
    ELSE IF r.failed > FailureLimit[m] THEN "Failed" ELSE "none"

\* Mutant: a metric without a measurement is given a result.
AssessMetricStatus_Pending(m, r, terminating) ==
    IF r.last = "none" THEN "Pending" ELSE r.phase

AssessMetricStatus(m, r, terminating) ==
    IF Completed(r.phase) \/ r.last = "none" THEN r.phase
    ELSE IF r.last = "Running" THEN "Running"
    ELSE IF ExceededLimit(m, r) # "none" THEN ExceededLimit(m, r)
    ELSE IF ~MoreNeeded(m, r) \/ terminating THEN "Successful" ELSE "Running"

\* analysisStatusOrder: the worst of a set of completed phases
WorstOf(phases) ==
    CASE "Failed" \in phases -> "Failed"
      [] "Failed" \notin phases /\ "Error" \in phases -> "Error"
      [] phases \cap {"Failed", "Error"} = {} /\ "Inconclusive" \in phases -> "Inconclusive"
      [] OTHER -> "Successful"

\* Mutant: metrics that have not started are not waited for.
AssessRunStatus_Started(results, terminating) ==
    IF terminating \/ \A m \in Metric : results[m].last = "none" \/ Completed(results[m].phase)
        THEN WorstOf({results[m].phase : m \in Metric \ DryRun}) ELSE "Running"

\* Mutant: a terminated run waits for what is in flight.
AssessRunStatus_Waits(results, terminating) ==
    IF \A m \in Metric : Completed(results[m].phase)
        THEN WorstOf({results[m].phase : m \in Metric \ DryRun}) ELSE "Running"

AssessRunStatus(results, terminating) ==
    IF terminating \/ \A m \in Metric : Completed(results[m].phase)
        THEN WorstOf({results[m].phase : m \in Metric \ DryRun}) ELSE "Running"

AssessedResults ==
    [m \in Metric |->
        [ctx.results[m] EXCEPT !.phase = AssessMetricStatus(m, ctx.results[m], Terminating)]]

NewStatus ==
    IF ctx.invalid THEN [ctx.status EXCEPT !.phase = "Error"] ELSE
    LET phase == AssessRunStatus(AssessedResults, Terminating)
    IN  [phase |-> phase, startedAt |-> TRUE,
         completedAt |-> ctx.status.completedAt \/ Completed(phase),
         results |-> AssessedResults]

\* A merge patch of what differs from the status that was read; the list of
\* results is one value.
Patched(read, new) ==
    [f \in DOMAIN status |-> IF new[f] = read[f] THEN status[f] ELSE new[f]]

-----------------------------------------------------------------------------
(* Measurements: what a provider may answer, and what it does to the Jobs. *)

Answer(phase, job, jobsAfter) == [phase |-> phase, job |-> job, jobs |-> jobsAfter]

\* Mutant: a name that no Job has.
JobID_Fresh(r) == Cardinality(jobs) + 1

\* getJobIDSuffix: the name of a Job is the number of its measurement
JobID(r) == r.count + r.error + 1

JobsNamed(m, id) == {j \in jobs : j.metric = m /\ j.id = id}

\* A Job that exists already and belongs to the run is taken for the new one.
RunMeasurement(m, r) ==
    CASE Provider[m] = "instant" -> {Answer(phase, 0, jobs) : phase \in Judged}
      [] Provider[m] = "kayenta" -> {Answer("Running", 0, jobs)}
      [] Provider[m] = "job" ->
            LET id == JobID(r)
                created == [metric |-> m, id |-> id, state |-> "active"]
            IN  {Answer("Running", id, IF JobsNamed(m, id) = {} THEN jobs \cup {created} ELSE jobs)}

ResumeMeasurement(m, r) ==
    IF Provider[m] = "kayenta" THEN {Answer(phase, 0, jobs) : phase \in Judged \cup {"Running"}}
    ELSE IF JobsNamed(m, r.job) = {} THEN {Answer("Error", r.job, jobs)}
    ELSE {Answer(CASE j.state = "active" -> "Running"
                   [] j.state = "complete" -> "Successful"
                   [] j.state = "failed" -> "Failed", r.job, jobs) : j \in JobsNamed(m, r.job)}

TerminateMeasurement(m, r) ==
    IF Provider[m] = "kayenta" THEN {Answer("Running", 0, jobs)}
    ELSE {Answer("Successful", r.job, jobs \ JobsNamed(m, r.job))}

Answers(m, r) ==
    IF r.last # "Running" THEN RunMeasurement(m, r)
    ELSE IF Terminating THEN TerminateMeasurement(m, r)
    ELSE ResumeMeasurement(m, r)

One(condition) == IF condition THEN 1 ELSE 0

Recorded(r, answer) ==
    [phase |-> IF r.phase = "none" THEN "Running" ELSE r.phase,
     last |-> answer.phase,
     count |-> r.count + One(answer.phase \in Judged),
     failed |-> r.failed + One(answer.phase = "Failed"),
     inconclusive |-> r.inconclusive + One(answer.phase = "Inconclusive"),
     error |-> r.error + One(answer.phase = "Error"),
     consecutiveError |-> IF answer.phase \in Judged THEN 0
                          ELSE r.consecutiveError + One(answer.phase = "Error"),
     job |-> answer.job]

-----------------------------------------------------------------------------
Init ==
    /\ terminate = FALSE /\ status = NoStatus /\ old = Live
    /\ waiting = {} /\ jobs = {}
    /\ pc = "idle" /\ ctx = NoPass
    /\ used = [errors |-> 0, crashes |-> 0, stale |-> 0]
    /\ failures = [m \in Metric |-> 0]

\* What the store may hold after a write; not kept where no pass reads it.
Superseded(view) == IF MaxStale = 0 THEN old ELSE view

\* The run of a pass that cannot resolve an argument, a secret that is not
\* there or a request for it that fails, ends with no measurement.
Begin(view, invalid) ==
    /\ pc = "idle" /\ ~Completed(view.status.phase)
    /\ pc' = "measuring"
    /\ LET tasks == IF invalid THEN {} ELSE GenerateMetricTasks(view)
       IN  ctx' = [terminate |-> view.terminate, status |-> view.status, invalid |-> invalid,
                   tasks |-> tasks, todo |-> tasks, results |-> view.status.results]
    /\ old' = Superseded(view)
    /\ UNCHANGED <<terminate, status, waiting, jobs, failures>>

ReconcileAnalysisRun == Begin(Live, FALSE) /\ UNCHANGED used

ReconcileInvalid ==
    /\ used.errors < MaxErrors
    /\ Begin(Live, TRUE)
    /\ used' = [used EXCEPT !.errors = @ + 1]

ReconcileStale ==
    /\ used.stale < MaxStale /\ old # Live
    /\ Begin(old, FALSE)
    /\ used' = [used EXCEPT !.stale = @ + 1]

Measured(m, answer) ==
    /\ ctx' = [ctx EXCEPT !.todo = @ \ {m}, !.results[m] = Recorded(@, answer)]
    /\ jobs' = answer.jobs
    /\ UNCHANGED <<terminate, status, old, waiting, pc, failures>>

RunMeasurements(m) ==
    /\ pc = "measuring" /\ m \in ctx.todo
    /\ \E answer \in Answers(m, ctx.results[m]) : Measured(m, answer)
    /\ UNCHANGED used

\* A call to the provider fails, and with it the measurement; a Job that a
\* resumed or terminated measurement names is left as it is.
MeasurementErrs(m) ==
    /\ pc = "measuring" /\ m \in ctx.todo /\ used.errors < MaxErrors
    /\ Measured(m, Answer("Error", ctx.results[m].job, jobs))
    /\ used' = [used EXCEPT !.errors = @ + 1]

\* Timers that the written results start: of a measurement that is taken
\* again or resumed later, and initialDelay from the start of the run.
StillWaiting(new) ==
    LET Waits(m) == /\ ~Completed(new.results[m].phase)
                    /\ Provider[m] = "job" => new.results[m].last # "Running"
    IN  (waiting \ ctx.tasks) \cup {m \in ctx.tasks : Waits(m)}
            \cup (IF ~ctx.status.startedAt /\ new.startedAt THEN Delayed ELSE {})

PersistAnalysisRunStatus ==
    /\ pc = "measuring" /\ ctx.todo = {}
    /\ LET new == NewStatus
       IN  /\ status' = Patched(ctx.status, new)
           /\ waiting' = StillWaiting(new)
           /\ failures' = [m \in Metric |->
                  failures[m] + One(new.results[m].failed > ctx.status.results[m].failed)]
           /\ old' = IF new = ctx.status THEN old ELSE Superseded(Live)
    /\ pc' = "idle" /\ ctx' = NoPass
    /\ UNCHANGED <<terminate, jobs, used>>

\* The controller dies, or the patch fails: what was measured is lost.
Crash ==
    /\ pc = "measuring" /\ used.crashes < MaxCrashes
    /\ pc' = "idle" /\ ctx' = NoPass
    /\ used' = [used EXCEPT !.crashes = @ + 1]
    /\ UNCHANGED <<terminate, status, old, waiting, jobs, failures>>

-----------------------------------------------------------------------------
(* The rest of the cluster.                                                *)

\* A Rollout, an Experiment or a user ends the run.
TerminateRun ==
    /\ ~terminate
    /\ terminate' = TRUE /\ old' = Superseded(Live)
    /\ UNCHANGED <<status, waiting, jobs, pc, ctx, used, failures>>

TimePasses(m) ==
    /\ m \in waiting
    /\ Count[m] = 0 => status.results[m].count < MaxMeasurements
    /\ waiting' = waiting \ {m}
    /\ UNCHANGED <<terminate, status, old, jobs, pc, ctx, used, failures>>

JobFinishes ==
    /\ \E j \in jobs, result \in {"complete", "failed"} :
          /\ j.state = "active"
          /\ jobs' = (jobs \ {j}) \cup {[j EXCEPT !.state = result]}
    /\ UNCHANGED <<terminate, status, old, waiting, pc, ctx, used, failures>>

Controller ==
    \/ ReconcileAnalysisRun
    \/ \E m \in Metric : RunMeasurements(m)
    \/ PersistAnalysisRunStatus

Next ==
    \/ Controller
    \/ ReconcileInvalid
    \/ ReconcileStale
    \/ \E m \in Metric : MeasurementErrs(m)
    \/ Crash
    \/ TerminateRun
    \/ \E m \in Metric : TimePasses(m)
    \/ JobFinishes

Spec == Init /\ [][Next]_vars

\* The workqueue hands the run out again as long as it is not complete,
\* clocks advance, and Jobs end; failures and users owe nothing.
FairSpec ==
    /\ Spec
    /\ WF_vars(Controller)
    /\ \A m \in Metric : WF_vars(TimePasses(m))
    /\ WF_vars(JobFinishes)
=============================================================================
