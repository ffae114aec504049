------------------------ MODULE AnalysisRunProperties ------------------------
(***************************************************************************)
(* What the analysis controller owes those who act on an AnalysisRun.      *)
(***************************************************************************)
EXTENDS AnalysisRun

\* What a Rollout or an Experiment sees of the run
SeenVerdict ==
    [m \in Metric |-> IF Completed(status.results[m].phase) THEN status.results[m].phase
                                                           ELSE "open"]
SeenOutcome == IF Completed(status.phase) THEN status.phase ELSE "open"

Promise == INSTANCE AnalysisVerdict WITH
    cancelled <- terminate, verdict <- SeenVerdict, outcome <- SeenOutcome

(* As long as every pass reads the run as it last wrote it, an AnalysisRun *)
(* keeps its promise over crashes, errors, terminations and passes that    *)
(* cannot resolve its arguments: what a Rollout saw decided stays decided  *)
(* (reconcileAnalysisRun, assessRunStatus, persistAnalysisRunStatus).      *)
KeepsPromise == Promise!Spec

WithinLimits(m, r) ==
    /\ r.failed <= FailureLimit[m] /\ r.inconclusive <= InconclusiveLimit[m]
    /\ r.consecutiveError <= ConsecutiveErrorLimit[m]

Earned(m, r) ==
    /\ r.phase \in Outcome => r.last # "Running"
    /\ r.phase = "Failed" => r.failed > FailureLimit[m]
    /\ r.phase = "Inconclusive" => r.inconclusive > InconclusiveLimit[m]
    /\ r.phase = "Error" => r.consecutiveError > ConsecutiveErrorLimit[m]
    /\ r.phase \in {"none", "Running", "Successful"} => WithinLimits(m, r)

(* A metric is Failed, Inconclusive or in Error exactly when the counters  *)
(* that are written with that verdict exceed their limit, also when a pass *)
(* read the run too early or its predecessor died (assessMetricStatus,     *)
(* runMeasurements).                                                       *)
VerdictsEarned == \A m \in Metric : Earned(m, status.results[m])

(* A run that nobody terminated is Successful only if every metric that is *)
(* not in dry-run mode is, each with all its measurements taken: the       *)
(* premise on which a Rollout promotes (assessRunStatus).                  *)
SuccessEarned ==
    status.phase = "Successful" /\ ~terminate =>
        \A m \in Metric \ DryRun :
            /\ status.results[m].phase = "Successful"
            /\ status.results[m].count >= Count[m] /\ Count[m] > 0

ActiveOf(js, m) == {j \in js : j.metric = m /\ j.state = "active"}
ActiveJobs(m) == ActiveOf(jobs, m)

(* A measurement has one Job however often the controller dies between     *)
(* creating it and recording it; only a measurement that ended in an error *)
(* may leave its Job behind (getJobIDSuffix, JobProvider.Run).             *)
OneJobPerMeasurement ==
    \A m \in Metric : Cardinality(ActiveJobs(m)) <= 1 + status.results[m].error

(* A run that completes by its assessment leaves no Job behind but those   *)
(* of measurements that ended in an error or were lost in a crash: what is *)
(* in flight when the run is cut short is terminated first                 *)
(* (generateMetricTasks, JobProvider.Terminate).                           *)
JobsEndWithRun ==
    status.completedAt =>
        \A m \in Metric : Cardinality(ActiveJobs(m)) <= status.results[m].error + used.crashes

(* A run ends if it is terminated, whatever is in flight.  If all of its   *)
(* metrics have a count it also ends by itself, unless a judgement that    *)
(* kayenta was asked for never comes: what is in flight is taken up again  *)
(* and what is due is measured, over errors, crashes and passes that       *)
(* cannot resolve an argument (calculateNextReconcileTime,                 *)
(* generateMetricTasks, IsTerminating).                                    *)
RunCompletes ==
    LET Unanswered(m) == Provider[m] = "kayenta" /\ status.results[m].last = "Running"
    IN  /\ terminate ~> Completed(status.phase)
        /\ (\A m \in Metric : Count[m] > 0) =>
              <>Completed(status.phase) \/ \E m \in Metric : <>[]Unanswered(m)

(* "FailureLimit is the maximum number of times the measurement is allowed *)
(* to fail, before the entire metric is considered Failed": a run that     *)
(* counted more failures of a metric than that is not Successful           *)
(* (persistAnalysisRunStatus does not write its patch back to the store).  *)
FailureLimitHolds ==
    status.phase = "Successful" =>
        \A m \in Metric \ DryRun : failures[m] <= FailureLimit[m]
-----------------------------------------------------------------------------
(* The Jobs of a run and the results that name them: the inductive         *)
(* invariants of the proofs.                                               *)

\* The measurements that are over: the one in flight or the next has the
\* Job of the number after them
Taken(r) == r.count + r.error

\* A result of m accounts for the Jobs js: none is further ahead than the
\* next measurement, and of those behind only an error leaves one active
Accounts(js, m, r) ==
    /\ \A j \in js : j.metric = m => j.id <= Taken(r) + 1
    /\ Cardinality({j \in ActiveOf(js, m) : j.id <= Taken(r)}) <= r.error
    /\ r.last = "Running" => r.job = Taken(r) + 1

\* A pass that read p may have written r
Follows(r, p) ==
    /\ p.error <= r.error /\ Taken(p) <= Taken(r) /\ Taken(r) <= Taken(p) + 1
    /\ p.last # "Running" => r.count = p.count

AllAccount(js, s) == \A m \in Metric : Provider[m] = "job" => Accounts(js, m, s.results[m])
AllFollow(s, read) ==
    \A m \in Metric : Provider[m] = "job" => Follows(s.results[m], read.results[m])

Numbered(js) ==
    /\ IsFiniteSet(js)
    /\ \A j, k \in js : j.metric = k.metric /\ j.id = k.id => j = k
    /\ \A j \in js : Provider[j.metric] = "job"

\* While no more than one pass reads an old run
JobsInv ==
    /\ Numbered(jobs)
    /\ AllAccount(jobs, status)
    /\ pc = "measuring" =>
          /\ AllAccount(jobs, ctx.status) /\ AllAccount(jobs, ctx)
          /\ AllFollow(status, ctx.status) /\ AllFollow(ctx, ctx.status)
          /\ \A m \in ctx.todo : ctx.results[m] = ctx.status.results[m]
    /\ MaxStale = 1 /\ used.stale = 0 =>
          /\ AllAccount(jobs, old.status) /\ AllFollow(status, old.status)
          /\ pc = "measuring" => ctx.status = status /\ old.status = status

InFlight(m, r) == Provider[m] = "job" /\ r.last = "Running"

\* There is an active Job with the number of the next measurement
Lost(js, m, r) == r.last # "Running" /\ \E j \in ActiveOf(js, m) : j.id = Taken(r) + 1

\* While no pass reads an old run
EndInv ==
    /\ \A m \in Metric :
          /\ Provider[m] = "job"
          /\ Lost(jobs, m, IF pc = "idle" THEN status.results[m] ELSE ctx.results[m])
          => used.crashes > 0
    /\ \A m \in waiting : ~InFlight(m, status.results[m])
    /\ status.completedAt =>
          Completed(status.phase) /\ \A m \in Metric : ~InFlight(m, status.results[m])
    /\ ~status.startedAt => \A m \in Metric : status.results[m].last = "none"
    /\ pc = "measuring" =>
          /\ ctx.todo \subseteq ctx.tasks
          /\ \A m \in Metric \ ctx.tasks : ctx.results[m] = status.results[m]
          /\ ctx.tasks \cap Delayed # {} => status.startedAt
          /\ ctx.invalid => ctx.tasks = {}
          /\ ~ctx.invalid /\ Terminating =>
                /\ \A m \in ctx.todo : ctx.results[m].last = "Running"
                /\ \A m \in Metric \ ctx.todo : ~InFlight(m, ctx.results[m])
=============================================================================
