-------------------------- MODULE AnalysisRunProofs --------------------------
(***************************************************************************)
(* Proofs about the analysis controller, for any metrics, providers,       *)
(* limits and bounds: type correctness, that every verdict agrees with the *)
(* counters it is written with, and that the run keeps its promise.        *)
(***************************************************************************)
EXTENDS AnalysisRunProperties, TLAPS

USE DEF Judged, Outcome, Phase, Completed

-----------------------------------------------------------------------------
(* Types of the operators.                                                 *)

\* Recording an answer yields a result (runMeasurements).
LEMMA RecordedType ==
    ASSUME NEW r \in MetricResult, NEW answer, answer.phase \in Phase, answer.job \in Nat
    PROVE  Recorded(r, answer) \in MetricResult
  BY DEF MetricResult, Recorded, One

\* Every provider answers with a phase, the number of a Job, and Jobs
\* (Run, Resume and Terminate of the providers).
LEMMA AnswersType ==
    ASSUME jobs \subseteq Job, NEW m \in Metric, NEW r \in MetricResult,
           NEW answer \in Answers(m, r)
    PROVE  answer.phase \in Phase /\ answer.job \in Nat /\ answer.jobs \subseteq Job
  <1>1. CASE answer \in RunMeasurement(m, r)
    <2>1. Provider[m] \in {"instant", "job", "kayenta"}
      BY MetricAssumption
    <2>2. CASE Provider[m] = "job"
      <3>1. JobID(r) \in Nat
        BY DEF JobID, MetricResult
      <3>2. [metric |-> m, id |-> JobID(r), state |-> "active"] \in Job
        BY <3>1 DEF Job
      <3>. QED
        BY <1>1, <2>2, <3>1, <3>2 DEF RunMeasurement, Answer
    <2>3. CASE Provider[m] # "job"
      BY <1>1, <2>1, <2>3 DEF RunMeasurement, Answer
    <2>. QED
      BY <2>2, <2>3
  <1>2. CASE answer \in ResumeMeasurement(m, r)
    <2>1. CASE Provider[m] = "kayenta"
      BY <1>2, <2>1 DEF ResumeMeasurement, Answer
    <2>2. CASE Provider[m] # "kayenta" /\ JobsNamed(m, r.job) = {}
      BY <1>2, <2>2 DEF ResumeMeasurement, Answer, MetricResult
    <2>3. CASE Provider[m] # "kayenta" /\ JobsNamed(m, r.job) # {}
      <3>1. PICK j \in JobsNamed(m, r.job) :
              answer = Answer(CASE j.state = "active" -> "Running"
                                [] j.state = "complete" -> "Successful"
                                [] j.state = "failed" -> "Failed", r.job, jobs)
        BY <1>2, <2>3 DEF ResumeMeasurement
      <3>2. j.state \in {"active", "complete", "failed"}
        BY DEF JobsNamed, Job
      <3>. QED
        BY <3>1, <3>2 DEF Answer, MetricResult
    <2>. QED
      BY <2>1, <2>2, <2>3
  <1>3. CASE answer \in TerminateMeasurement(m, r)
    BY <1>3 DEF TerminateMeasurement, Answer, MetricResult
  <1>. QED
    BY <1>1, <1>2, <1>3 DEF Answers

\* An assessment is a phase (assessMetricStatus).
LEMMA AssessType ==
    ASSUME NEW m \in Metric, NEW r \in MetricResult, NEW t \in BOOLEAN
    PROVE  AssessMetricStatus(m, r, t) \in Phase
  BY DEF AssessMetricStatus, ExceededLimit, MetricResult

\* Assessing every result yields results (assessRunStatus).
LEMMA AssessedType ==
    ASSUME ctx \in Pass
    PROVE  AssessedResults \in [Metric -> MetricResult]
  <1>. SUFFICES ASSUME NEW m \in Metric
                PROVE  [ctx.results[m] EXCEPT !.phase =
                          AssessMetricStatus(m, ctx.results[m], Terminating)] \in MetricResult
    BY DEF AssessedResults
  <1>1. ctx.results[m] \in MetricResult
    BY DEF Pass
  <1>2. Terminating \in BOOLEAN
    BY DEF Terminating, IsTerminating, Pass
  <1>3. AssessMetricStatus(m, ctx.results[m], Terminating) \in Phase
    BY <1>1, <1>2, AssessType
  <1>. QED
    BY <1>1, <1>3 DEF MetricResult

\* The status that a pass arrives at is a status (reconcileAnalysisRun).
LEMMA NewStatusType ==
    ASSUME ctx \in Pass
    PROVE  NewStatus \in AnalysisRunStatus
  <1>1. CASE ctx.invalid
    BY <1>1 DEF NewStatus, Pass, AnalysisRunStatus
  <1>2. CASE ~ctx.invalid
    <2>1. AssessRunStatus(AssessedResults, Terminating) \in Phase
      BY DEF AssessRunStatus, WorstOf
    <2>2. ctx.status.completedAt \in BOOLEAN
      BY DEF Pass, AnalysisRunStatus
    <2>. QED
      BY <1>2, <2>1, <2>2, AssessedType DEF NewStatus, AnalysisRunStatus
  <1>. QED
    BY <1>1, <1>2

\* So is what a patch makes of it (persistAnalysisRunStatus).
LEMMA PatchedType ==
    ASSUME status \in AnalysisRunStatus,
           NEW read \in AnalysisRunStatus, NEW new \in AnalysisRunStatus
    PROVE  /\ Patched(read, new) \in AnalysisRunStatus
           /\ Patched(read, new).phase = IF new.phase = read.phase THEN status.phase ELSE new.phase
           /\ Patched(read, new).results =
                IF new.results = read.results THEN status.results ELSE new.results
  BY DEF Patched, AnalysisRunStatus

-----------------------------------------------------------------------------
(* Type correctness.                                                       *)

\* A run that nothing happened to is of its type.
LEMMA NoPassType == NoStatus \in AnalysisRunStatus /\ NoPass \in Pass
  <1>1. NoResult \in MetricResult
    BY DEF NoResult, MetricResult
  <1>2. NoStatus \in AnalysisRunStatus
    BY <1>1 DEF NoStatus, AnalysisRunStatus
  <1>. QED
    BY <1>2 DEF NoPass, Pass, AnalysisRunStatus

\* A pass that begins is of its type (reconcileAnalysisRun).
LEMMA BeginType ==
    ASSUME TypeOK, NEW view \in View, NEW invalid \in BOOLEAN, Begin(view, invalid)
    PROVE  ctx' \in Pass /\ old' \in View /\ pc' \in {"idle", "measuring"}
  <1>1. GenerateMetricTasks(view) \subseteq Metric
    BY DEF GenerateMetricTasks
  <1>2. ctx' \in Pass
    BY <1>1 DEF Begin, View, Pass, AnalysisRunStatus
  <1>. QED
    BY <1>2 DEF Begin, Superseded, TypeOK

\* So is one that has taken a measurement (runMeasurements).
LEMMA MeasuredType ==
    ASSUME TypeOK, NEW m \in Metric, m \in ctx.todo, NEW answer, Measured(m, answer),
           answer.phase \in Phase, answer.job \in Nat, answer.jobs \subseteq Job
    PROVE  ctx' \in Pass /\ jobs' \subseteq Job
  <1>1. ctx \in Pass /\ ctx.results[m] \in MetricResult
    BY DEF TypeOK, Pass
  <1>2. Recorded(ctx.results[m], answer) \in MetricResult
    BY <1>1, RecordedType
  <1>. QED
    BY <1>1, <1>2 DEF Measured, Pass

\* Every step keeps the types.
LEMMA TypeStep == TypeOK /\ [Next]_vars => TypeOK'
  <1>. SUFFICES ASSUME TypeOK, [Next]_vars PROVE TypeOK'
    OBVIOUS
  <1>0. Live \in View
    BY DEF Live, View, TypeOK
  <1>1. CASE ReconcileAnalysisRun
    BY <1>0, <1>1, BeginType DEF ReconcileAnalysisRun, TypeOK, Begin
  <1>2. CASE ReconcileInvalid
    <2>1. used' \in [errors : Nat, crashes : Nat, stale : Nat]
      BY <1>2 DEF ReconcileInvalid, TypeOK
    <2>2. ctx' \in Pass /\ old' \in View /\ pc' \in {"idle", "measuring"}
      BY <1>0, <1>2, BeginType DEF ReconcileInvalid
    <2>. QED
      BY <1>2, <2>1, <2>2 DEF ReconcileInvalid, TypeOK, Begin
  <1>3. CASE ReconcileStale
    <2>1. used' \in [errors : Nat, crashes : Nat, stale : Nat]
      BY <1>3 DEF ReconcileStale, TypeOK
    <2>2. old \in View
      BY DEF TypeOK
    <2>3. ctx' \in Pass /\ old' \in View /\ pc' \in {"idle", "measuring"}
      BY <1>3, <2>2, BeginType DEF ReconcileStale
    <2>. QED
      BY <1>3, <2>1, <2>3 DEF ReconcileStale, TypeOK, Begin
  <1>4. ASSUME NEW m \in Metric, RunMeasurements(m) PROVE TypeOK'
    <2>1. PICK answer \in Answers(m, ctx.results[m]) : Measured(m, answer)
      BY <1>4 DEF RunMeasurements
    <2>2. ctx.results[m] \in MetricResult /\ jobs \subseteq Job
      BY DEF TypeOK, Pass
    <2>3. ctx' \in Pass /\ jobs' \subseteq Job
      BY <1>4, <2>1, <2>2, AnswersType, MeasuredType DEF RunMeasurements
    <2>. QED
      BY <1>4, <2>1, <2>3 DEF RunMeasurements, Measured, TypeOK
  <1>5. ASSUME NEW m \in Metric, MeasurementErrs(m) PROVE TypeOK'
    <2>. DEFINE answer == Answer("Error", ctx.results[m].job, jobs)
    <2>1. ctx.results[m].job \in Nat /\ jobs \subseteq Job
      BY DEF TypeOK, Pass, MetricResult
    <2>2. answer.phase \in Phase /\ answer.job \in Nat /\ answer.jobs \subseteq Job
      BY <2>1 DEF Answer
    <2>3. ctx' \in Pass /\ jobs' \subseteq Job
      BY <1>5, <2>2, MeasuredType DEF MeasurementErrs
    <2>. QED
      BY <1>5, <2>3 DEF MeasurementErrs, Measured, TypeOK
  <1>6. CASE PersistAnalysisRunStatus
    <2>1. ctx \in Pass /\ ctx.status \in AnalysisRunStatus /\ status \in AnalysisRunStatus
      BY DEF TypeOK, Pass
    <2>2. NewStatus \in AnalysisRunStatus
      BY <2>1, NewStatusType
    <2>3. status' \in AnalysisRunStatus
      BY <1>6, <2>1, <2>2, PatchedType DEF PersistAnalysisRunStatus
    <2>4. waiting' \subseteq Metric
      BY <1>6, <2>1, MetricAssumption
      DEF PersistAnalysisRunStatus, StillWaiting, Pass, TypeOK
    <2>5. failures' \in [Metric -> Nat]
      BY <1>6 DEF PersistAnalysisRunStatus, One, TypeOK
    <2>6. old' \in View
      BY <1>0, <1>6 DEF PersistAnalysisRunStatus, Superseded, TypeOK
    <2>. QED
      BY <1>6, <2>3, <2>4, <2>5, <2>6, NoPassType DEF PersistAnalysisRunStatus, TypeOK
  <1>7. CASE Crash
    BY <1>7, NoPassType DEF Crash, TypeOK
  <1>8. CASE TerminateRun
    BY <1>0, <1>8 DEF TerminateRun, Superseded, TypeOK
  <1>9. ASSUME NEW m \in Metric, TimePasses(m) PROVE TypeOK'
    BY <1>9 DEF TimePasses, TypeOK
  <1>10. CASE JobFinishes
    BY <1>10 DEF JobFinishes, Job, TypeOK
  <1>11. CASE UNCHANGED vars
    BY <1>11 DEF vars, TypeOK
  <1>. QED
    BY <1>1, <1>2, <1>3, <1>4, <1>5, <1>6, <1>7, <1>8, <1>9, <1>10, <1>11 DEF Next, Controller

(* The variables keep their types (all of AnalysisRun).                    *)
THEOREM TypeCorrect == Spec => []TypeOK
  <1>1. ASSUME Init PROVE TypeOK
    <2>1. Live \in View
      BY <1>1, NoPassType DEF Init, Live, View
    <2>2. failures \in [Metric -> Nat] /\ used \in [errors : Nat, crashes : Nat, stale : Nat]
      BY <1>1 DEF Init
    <2>. QED
      BY <1>1, <2>1, <2>2, NoPassType DEF Init, TypeOK
  <1>. QED
    BY <1>1, TypeStep, PTL DEF Spec

-----------------------------------------------------------------------------
(* The inductive invariant behind VerdictsEarned: what is written, what    *)
(* the store may still hold, what a pass read and what it has measured     *)
(* since are all results that an assessment can be trusted with.           *)

\* A result between two passes
Sound(m, r) == Earned(m, r) /\ (r.last = "none" <=> r.phase = "none")

\* A result that may have had a measurement since it was last assessed
Assessable(m, r) ==
    /\ Completed(r.phase) => Earned(m, r)
    /\ r.last = "Running" => WithinLimits(m, r)
    /\ r.last = "none" => Sound(m, r)

AllSound(s) == \A m \in Metric : Sound(m, s.results[m])

EarnedInv ==
    /\ AllSound(status) /\ AllSound(old.status) /\ AllSound(ctx.status)
    /\ \A m \in Metric : Assessable(m, ctx.results[m])
    /\ \A m \in ctx.todo : Sound(m, ctx.results[m]) /\ ~Completed(ctx.results[m].phase)

\* A new measurement leaves a result that can be assessed: one that is in
\* flight counts for nothing (runMeasurements).
LEMMA RecordedAssessable ==
    ASSUME NEW m \in Metric, NEW r \in MetricResult, Sound(m, r), ~Completed(r.phase),
           NEW answer, answer.phase \in Phase \ {"none"}, answer.job \in Nat
    PROVE  Assessable(m, Recorded(r, answer))
  BY LimitAssumption
  DEF Recorded, One, Sound, Assessable, Earned, WithinLimits, MetricResult

\* Assessing such a result makes it sound (assessMetricStatus).
LEMMA AssessedSound ==
    ASSUME NEW m \in Metric, NEW r \in MetricResult, Assessable(m, r), NEW t \in BOOLEAN
    PROVE  Sound(m, [r EXCEPT !.phase = AssessMetricStatus(m, r, t)])
  BY LimitAssumption
  DEF AssessMetricStatus, ExceededLimit, Sound, Assessable, Earned, WithinLimits, MetricResult

\* A provider never answers "none".
LEMMA AnswersAnswer ==
    ASSUME jobs \subseteq Job, NEW m \in Metric, NEW r \in MetricResult,
           NEW answer \in Answers(m, r)
    PROVE  answer.phase # "none"
  <1>1. Provider[m] \in {"instant", "job", "kayenta"}
    BY MetricAssumption
  <1>2. \A j \in JobsNamed(m, r.job) : j.state \in {"active", "complete", "failed"}
    BY DEF JobsNamed, Job
  <1>. QED
    BY <1>1, <1>2
    DEF Answers, RunMeasurement, ResumeMeasurement, TerminateMeasurement, Answer

\* Nothing has been measured yet in a run, or a pass, that has not begun.
LEMMA NoPassSound ==
    /\ AllSound(NoStatus) /\ AllSound(NoPass.status)
    /\ \A m \in Metric : Assessable(m, NoPass.results[m])
    /\ NoPass.todo = {}
  BY LimitAssumption
  DEF NoPass, NoStatus, NoResult, AllSound, Sound, Assessable, Earned, WithinLimits

\* The results of a pass that begins are those that it read.
LEMMA BeginEarned ==
    ASSUME TypeOK, EarnedInv, NEW view \in View, AllSound(view.status),
           NEW invalid \in BOOLEAN, Begin(view, invalid)
    PROVE  EarnedInv'
  <1>1. /\ ctx'.status = view.status /\ ctx'.results = view.status.results
        /\ \A m \in ctx'.todo : m \in Metric /\ ~Completed(view.status.results[m].phase)
    BY DEF Begin, GenerateMetricTasks
  <1>2. AllSound(old'.status)
    BY DEF Begin, Superseded, EarnedInv
  <1>3. status' = status
    BY DEF Begin
  <1>4. ASSUME NEW m \in Metric PROVE Assessable(m, ctx'.results[m])
    <2>1. view.status.results[m] \in MetricResult /\ Sound(m, view.status.results[m])
      BY DEF View, AnalysisRunStatus, AllSound
    <2>2. Assessable(m, view.status.results[m])
      BY <2>1 DEF Assessable, Sound, Earned, MetricResult
    <2>. QED
      BY <1>1, <2>2
  <1>. QED
    BY <1>1, <1>2, <1>3, <1>4 DEF EarnedInv, AllSound

\* A measurement only touches the result of its metric.
LEMMA MeasuredEarned ==
    ASSUME TypeOK, EarnedInv, NEW m \in Metric, m \in ctx.todo, NEW answer, Measured(m, answer),
           answer.phase \in Phase \ {"none"}, answer.job \in Nat
    PROVE  EarnedInv'
  <1>1. ctx \in Pass /\ ctx.results[m] \in MetricResult
    BY DEF TypeOK, Pass
  <1>2. Assessable(m, Recorded(ctx.results[m], answer))
    BY <1>1, RecordedAssessable DEF EarnedInv
  <1>3. /\ ctx'.status = ctx.status /\ ctx'.todo = ctx.todo \ {m}
        /\ ctx'.results = [ctx.results EXCEPT ![m] = Recorded(@, answer)]
        /\ status' = status /\ old' = old
    BY <1>1 DEF Measured, Pass
  <1>. QED
    BY <1>1, <1>2, <1>3 DEF EarnedInv, AllSound, Pass

\* What a pass writes is sound.
LEMMA PersistEarned ==
    ASSUME TypeOK, EarnedInv, PersistAnalysisRunStatus
    PROVE  EarnedInv'
  <1>1. ctx \in Pass /\ ctx.status \in AnalysisRunStatus /\ status \in AnalysisRunStatus
    BY DEF TypeOK, Pass
  <1>2. AllSound([results |-> AssessedResults])
    <2>. SUFFICES ASSUME NEW m \in Metric PROVE Sound(m, AssessedResults[m])
      BY DEF AllSound
    <2>1. ctx.results[m] \in MetricResult /\ Assessable(m, ctx.results[m])
      BY <1>1 DEF Pass, EarnedInv
    <2>2. Terminating \in BOOLEAN
      BY <1>1 DEF Terminating, IsTerminating, Pass
    <2>. QED
      BY <2>1, <2>2, AssessedSound DEF AssessedResults
  <1>3. NewStatus.results \in {ctx.status.results, AssessedResults}
    BY <1>1 DEF NewStatus, AnalysisRunStatus
  <1>4. status'.results \in {status.results, AssessedResults}
    BY <1>1, <1>3, NewStatusType, PatchedType DEF PersistAnalysisRunStatus
  <1>5. AllSound(status')
    BY <1>2, <1>4 DEF EarnedInv, AllSound
  <1>6. AllSound(old'.status)
    BY DEF PersistAnalysisRunStatus, Superseded, Live, EarnedInv
  <1>7. ctx' = NoPass
    BY DEF PersistAnalysisRunStatus
  <1>. QED
    BY <1>5, <1>6, <1>7, NoPassSound DEF EarnedInv

\* Every step keeps the invariant.
LEMMA EarnedStep == TypeOK /\ EarnedInv /\ [Next]_vars => EarnedInv'
  <1>. SUFFICES ASSUME TypeOK, EarnedInv, [Next]_vars PROVE EarnedInv'
    OBVIOUS
  <1>0. Live \in View /\ AllSound(Live.status) /\ old \in View /\ AllSound(old.status)
    BY DEF Live, View, TypeOK, EarnedInv
  <1>1. CASE ReconcileAnalysisRun \/ ReconcileInvalid \/ ReconcileStale
    BY <1>0, <1>1, BeginEarned DEF ReconcileAnalysisRun, ReconcileInvalid, ReconcileStale
  <1>2. ASSUME NEW m \in Metric, RunMeasurements(m) PROVE EarnedInv'
    <2>1. PICK answer \in Answers(m, ctx.results[m]) : Measured(m, answer)
      BY <1>2 DEF RunMeasurements
    <2>2. ctx.results[m] \in MetricResult /\ jobs \subseteq Job
      BY DEF TypeOK, Pass
    <2>3. answer.phase \in Phase \ {"none"} /\ answer.job \in Nat
      BY <2>2, AnswersType, AnswersAnswer
    <2>. QED
      BY <1>2, <2>1, <2>3, MeasuredEarned DEF RunMeasurements
  <1>3. ASSUME NEW m \in Metric, MeasurementErrs(m) PROVE EarnedInv'
    <2>1. ctx.results[m].job \in Nat
      BY DEF TypeOK, Pass, MetricResult
    <2>2. /\ Answer("Error", ctx.results[m].job, jobs).phase \in Phase \ {"none"}
          /\ Answer("Error", ctx.results[m].job, jobs).job \in Nat
      BY <2>1 DEF Answer
    <2>. QED
      BY <1>3, <2>2, MeasuredEarned DEF MeasurementErrs
  <1>4. CASE PersistAnalysisRunStatus
    BY <1>4, PersistEarned
  <1>5. CASE Crash
    <2>1. ctx' = NoPass /\ status' = status /\ old' = old
      BY <1>5 DEF Crash
    <2>. QED
      BY <2>1, NoPassSound DEF EarnedInv
  <1>6. CASE TerminateRun
    <2>1. ctx' = ctx /\ status' = status /\ old' \in {old, Live}
      BY <1>6 DEF TerminateRun, Superseded
    <2>. QED
      BY <1>0, <2>1 DEF EarnedInv
  <1>7. CASE JobFinishes \/ (\E m \in Metric : TimePasses(m)) \/ UNCHANGED vars
    <2>1. ctx' = ctx /\ status' = status /\ old' = old
      BY <1>7 DEF JobFinishes, TimePasses, vars
    <2>. QED
      BY <2>1 DEF EarnedInv
  <1>. QED
    BY <1>1, <1>2, <1>3, <1>4, <1>5, <1>6, <1>7 DEF Next, Controller

(* A verdict always agrees with the counters written with it, also when    *)
(* passes read an old run or die (assessMetricStatus, runMeasurements).    *)
THEOREM VerdictsAreEarned == Spec => []VerdictsEarned
  <1>1. Init => EarnedInv
    BY NoPassSound DEF Init, EarnedInv, Live
  <1>2. EarnedInv => VerdictsEarned
    BY DEF EarnedInv, AllSound, Sound, VerdictsEarned
  <1>. QED
    BY <1>1, <1>2, EarnedStep, TypeCorrect, PTL DEF Spec

-----------------------------------------------------------------------------
(* A controller that reads its own writes (MaxStale = 0) implements        *)
(* AnalysisVerdict, and a run that nobody terminated is Successful for     *)
(* good reason only.                                                       *)

\* What a pass may rely on until it writes its status: the status is still
\* the one that it read, and it touches no metric that has its verdict.
FreshInv ==
    /\ used.stale = 0
    /\ pc = "measuring" =>
        /\ ctx.status = status /\ (ctx.terminate => terminate)
        /\ ~Completed(status.phase)
        /\ \A m \in Metric :
              IF Completed(status.results[m].phase)
                  THEN ctx.results[m] = status.results[m] /\ m \notin ctx.todo
                  ELSE ~Completed(ctx.results[m].phase)

\* A pass that reads the run as it is begins fresh.
LEMMA BeginFresh ==
    ASSUME NEW invalid \in BOOLEAN, used'.stale = 0, Begin(Live, invalid)
    PROVE  FreshInv'
  BY DEF Begin, Live, FreshInv, GenerateMetricTasks

\* A measurement leaves verdicts alone.
LEMMA MeasuredFresh ==
    ASSUME TypeOK, FreshInv, pc = "measuring", NEW m \in Metric, m \in ctx.todo, NEW answer,
           Measured(m, answer), used'.stale = 0
    PROVE  FreshInv'
  <1>1. ctx \in Pass
    BY DEF TypeOK
  <1>2. /\ ctx'.status = ctx.status /\ ctx'.terminate = ctx.terminate
        /\ ctx'.todo = ctx.todo \ {m}
        /\ ctx'.results = [ctx.results EXCEPT ![m] = Recorded(@, answer)]
        /\ status' = status /\ terminate' = terminate /\ pc' = pc
    BY <1>1 DEF Measured, Pass
  <1>3. ~Completed(status.results[m].phase) /\ ~Completed(ctx.results[m].phase)
    BY DEF FreshInv
  <1>4. ~Completed(Recorded(ctx.results[m], answer).phase)
    BY <1>3 DEF Recorded
  <1>. QED
    BY <1>1, <1>2, <1>3, <1>4 DEF FreshInv, Pass

\* Every step keeps the pass fresh, as long as the store is never behind.
LEMMA FreshStep == MaxStale = 0 /\ TypeOK /\ FreshInv /\ [Next]_vars => FreshInv'
  <1>. SUFFICES ASSUME MaxStale = 0, TypeOK, FreshInv, [Next]_vars PROVE FreshInv'
    OBVIOUS
  <1>0. used.stale = 0 /\ used \in [errors : Nat, crashes : Nat, stale : Nat]
    BY DEF FreshInv, TypeOK
  <1>1. CASE ReconcileAnalysisRun
    BY <1>0, <1>1, BeginFresh DEF ReconcileAnalysisRun
  <1>2. CASE ReconcileInvalid
    BY <1>0, <1>2, BeginFresh DEF ReconcileInvalid
  <1>3. CASE ReconcileStale
    BY <1>0, <1>3 DEF ReconcileStale
  <1>4. ASSUME NEW m \in Metric, RunMeasurements(m) PROVE FreshInv'
    BY <1>0, <1>4, MeasuredFresh DEF RunMeasurements
  <1>5. ASSUME NEW m \in Metric, MeasurementErrs(m) PROVE FreshInv'
    BY <1>0, <1>5, MeasuredFresh DEF MeasurementErrs
  <1>6. CASE PersistAnalysisRunStatus
    BY <1>0, <1>6 DEF PersistAnalysisRunStatus, FreshInv
  <1>7. CASE Crash
    BY <1>0, <1>7 DEF Crash, FreshInv
  <1>8. CASE TerminateRun
    BY <1>8 DEF TerminateRun, FreshInv
  <1>9. CASE JobFinishes \/ (\E m \in Metric : TimePasses(m)) \/ UNCHANGED vars
    BY <1>9 DEF JobFinishes, TimePasses, FreshInv, vars
  <1>. QED
    BY <1>1, <1>2, <1>3, <1>4, <1>5, <1>6, <1>7, <1>8, <1>9 DEF Next, Controller

\* What a fresh pass writes is what it arrived at, and it takes no verdict
\* back (persistAnalysisRunStatus, assessMetricStatus).
LEMMA FreshPersist ==
    ASSUME TypeOK, FreshInv, PersistAnalysisRunStatus
    PROVE  /\ status' \in AnalysisRunStatus
           /\ IF ctx.invalid
                  THEN status'.phase = "Error" /\ status'.results = status.results
                  ELSE /\ status'.results = AssessedResults
                       /\ status'.phase = AssessRunStatus(AssessedResults, Terminating)
           /\ \A m \in Metric : Completed(status.results[m].phase) =>
                  status'.results[m] = status.results[m]
  <1>1. /\ ctx \in Pass /\ status \in AnalysisRunStatus /\ ctx.status = status
        /\ ~Completed(status.phase) /\ status' = Patched(ctx.status, NewStatus)
    BY DEF TypeOK, FreshInv, PersistAnalysisRunStatus
  <1>2. /\ status' \in AnalysisRunStatus
        /\ status'.phase = NewStatus.phase /\ status'.results = NewStatus.results
    BY <1>1, NewStatusType, PatchedType
  <1>3. CASE ctx.invalid
    BY <1>1, <1>2, <1>3 DEF NewStatus, AnalysisRunStatus
  <1>4. CASE ~ctx.invalid
    <2>1. /\ status'.results = AssessedResults
          /\ status'.phase = AssessRunStatus(AssessedResults, Terminating)
      BY <1>2, <1>4 DEF NewStatus
    <2>2. ASSUME NEW m \in Metric, Completed(status.results[m].phase)
          PROVE  AssessedResults[m] = status.results[m]
      <3>1. ctx.results[m] = status.results[m] /\ ctx.results[m] \in MetricResult
        BY <1>1, <2>2 DEF FreshInv, PersistAnalysisRunStatus, Pass
      <3>2. AssessMetricStatus(m, ctx.results[m], Terminating) = ctx.results[m].phase
        BY <2>2, <3>1 DEF AssessMetricStatus
      <3>. QED
        BY <3>1, <3>2 DEF AssessedResults, MetricResult
    <2>. QED
      BY <1>2, <1>4, <2>1, <2>2
  <1>. QED
    BY <1>3, <1>4

\* The two orders of phases agree (IsWorse, Worst).
LEMMA WorstIsWorst ==
    ASSUME NEW S, NEW T, S \subseteq Phase, T \subseteq Outcome \cup {"open"},
           S \cap Outcome = T \cap Outcome
    PROVE  Promise!IsWorst(WorstOf(S), T)
  BY DEF Promise!IsWorst, Promise!Worse, WorstOf

-----------------------------------------------------------------------------
\* A pass that writes its status decides, or gives up.
LEMMA PersistDecides ==
    ASSUME TypeOK, FreshInv, PersistAnalysisRunStatus
    PROVE  Promise!Next
  <1>1. /\ ~Completed(status.phase) /\ ctx.status = status /\ terminate' = terminate
        /\ ctx.terminate => terminate
    BY DEF FreshInv, PersistAnalysisRunStatus
  <1>2. SeenOutcome = "open"
    BY <1>1 DEF SeenOutcome
  <1>3. CASE ctx.invalid
    <2>1. status'.phase = "Error" /\ status'.results = status.results
      BY <1>3, FreshPersist
    <2>2. SeenOutcome' = "Error" /\ SeenVerdict' = SeenVerdict
      BY <2>1 DEF SeenOutcome, SeenVerdict
    <2>. QED
      BY <1>1, <1>2, <2>2 DEF Promise!Next, Promise!GiveUp
  <1>4. CASE ~ctx.invalid
    <2>. DEFINE terminal == Terminating \/ \A m \in Metric : Completed(AssessedResults[m].phase)
                phases == {AssessedResults[m].phase : m \in Metric \ DryRun}
                seen == {SeenVerdict'[m] : m \in Metric \ DryRun}
    <2>1. /\ status' \in AnalysisRunStatus /\ status'.results = AssessedResults
          /\ status'.phase = IF terminal THEN WorstOf(phases) ELSE "Running"
      BY <1>4, FreshPersist DEF AssessRunStatus
    <2>2. \A m \in Metric :
             /\ AssessedResults[m].phase \in Phase
             /\ SeenVerdict'[m] = IF Completed(AssessedResults[m].phase)
                                      THEN AssessedResults[m].phase ELSE "open"
      BY <2>1 DEF AnalysisRunStatus, MetricResult, SeenVerdict
    <2>3. SeenVerdict' \in [Metric -> Promise!Verdict \cup {"open"}]
      BY DEF SeenVerdict, Promise!Verdict
    <2>4. \A m \in Metric : SeenVerdict[m] # "open" => SeenVerdict'[m] = SeenVerdict[m]
      BY FreshPersist DEF SeenVerdict
    <2>5. CASE terminal
      <3>1. WorstOf(phases) \in Outcome
        BY DEF WorstOf
      <3>2. SeenOutcome' = WorstOf(phases)
        BY <2>1, <2>5, <3>1 DEF SeenOutcome
      <3>3. phases \subseteq Phase /\ seen \subseteq Outcome \cup {"open"}
        BY <2>2
      <3>4. phases \cap Outcome = seen \cap Outcome
        BY <2>2
      <3>5. Promise!IsWorst(SeenOutcome', seen)
        BY <3>2, <3>3, <3>4, WorstIsWorst
      <3>6. terminate \/ Promise!Spoiled \/ \A m \in Metric : SeenVerdict'[m] # "open"
        BY <1>1, <2>2, <2>5
        DEF Terminating, IsTerminating, Promise!Spoiled, Promise!Verdict, SeenVerdict
      <3>. QED
        BY <1>1, <1>2, <2>3, <2>4, <3>5, <3>6 DEF Promise!Next, Promise!Decide
    <2>6. CASE ~terminal
      <3>1. SeenOutcome' = "open"
        BY <2>1, <2>6 DEF SeenOutcome
      <3>. QED
        BY <1>1, <1>2, <2>3, <2>4, <3>1 DEF Promise!Next, Promise!Decide
    <2>. QED
      BY <2>5, <2>6
  <1>. QED
    BY <1>3, <1>4

(* A controller that reads its own writes keeps its promise: every step is *)
(* a step of AnalysisVerdict or changes nothing that it sees               *)
(* (reconcileAnalysisRun, persistAnalysisRunStatus).                       *)
THEOREM PromiseKept == MaxStale = 0 /\ Spec => KeepsPromise
  <1>. SUFFICES ASSUME MaxStale = 0 PROVE Spec => KeepsPromise
    OBVIOUS
  <1>1. ASSUME Init PROVE FreshInv /\ Promise!Init
    <2>1. /\ pc = "idle" /\ used.stale = 0 /\ terminate = FALSE /\ status.phase = "none"
          /\ status.results = [m \in Metric |-> NoResult]
      BY <1>1 DEF Init, NoStatus
    <2>2. SeenVerdict = [m \in Metric |-> "open"] /\ SeenOutcome = "open"
      BY <2>1 DEF SeenVerdict, SeenOutcome, NoResult
    <2>. QED
      BY <2>1, <2>2 DEF FreshInv, Promise!Init
  <1>2. ASSUME TypeOK, FreshInv, [Next]_vars PROVE [Promise!Next]_(Promise!vars)
    <2>1. CASE PersistAnalysisRunStatus
      BY <1>2, <2>1, PersistDecides
    <2>2. CASE status' = status
      <3>1. SeenVerdict' = SeenVerdict /\ SeenOutcome' = SeenOutcome
        BY <2>2 DEF SeenVerdict, SeenOutcome
      <3>2. terminate' = terminate \/ terminate' = TRUE
        BY <1>2, <2>2
        DEF Next, Controller, vars, ReconcileAnalysisRun, ReconcileInvalid, ReconcileStale, Begin,
            RunMeasurements, MeasurementErrs, Measured, PersistAnalysisRunStatus, Crash,
            TerminateRun, TimePasses, JobFinishes
      <3>. QED
        BY <3>1, <3>2 DEF Promise!Next, Promise!Cancel, Promise!vars
    <2>3. PersistAnalysisRunStatus \/ status' = status
      BY <1>2
      DEF Next, Controller, vars, ReconcileAnalysisRun, ReconcileInvalid, ReconcileStale, Begin,
          RunMeasurements, MeasurementErrs, Measured, Crash, TerminateRun, TimePasses, JobFinishes
    <2>. QED
      BY <2>1, <2>2, <2>3
  <1>3. TypeOK /\ FreshInv /\ [Next]_vars => FreshInv'
    BY FreshStep
  <1>. QED
    BY <1>1, <1>2, <1>3, TypeCorrect, PTL DEF Spec, KeepsPromise, Promise!Spec

-----------------------------------------------------------------------------
(* Success.                                                                *)

SpoiledBy(results) ==
    \E m \in Metric \ DryRun : results[m].phase \in {"Failed", "Error", "Inconclusive"}

\* A metric stops short of its count only in a run that is being cut short,
\* and a run succeeds early only if somebody terminated it.
SuccessInv ==
    \/ terminate
    \/ /\ SpoiledBy(status.results) \/ \A m \in Metric :
              status.results[m].phase = "Successful" =>
                  Count[m] > 0 /\ status.results[m].count >= Count[m]
       /\ status.phase = "Successful" =>
              \A m \in Metric \ DryRun : status.results[m].phase = "Successful"

\* The worst of phases among which one is a failure is not Successful, and
\* of completed phases it is only if all of them are (Worst).
LEMMA WorstSuccessful ==
    ASSUME NEW S, WorstOf(S) = "Successful"
    PROVE  S \cap Outcome \subseteq {"Successful"}
  BY DEF WorstOf

\* What a fresh pass writes in a run that nobody terminated.
LEMMA PersistSuccess ==
    ASSUME TypeOK, FreshInv, SuccessInv, PersistAnalysisRunStatus
    PROVE  SuccessInv'
  <1>. SUFFICES ASSUME ~terminate PROVE SuccessInv'
    BY DEF SuccessInv, PersistAnalysisRunStatus
  <1>1. /\ ctx \in Pass /\ status \in AnalysisRunStatus /\ ctx.status = status
        /\ terminate' = terminate /\ ~ctx.terminate /\ ~Completed(status.phase)
    BY DEF TypeOK, FreshInv, PersistAnalysisRunStatus
  <1>2. CASE ctx.invalid
    BY <1>1, <1>2, FreshPersist DEF SuccessInv, SpoiledBy
  <1>3. CASE ~ctx.invalid
    <2>1. /\ status'.results = AssessedResults
          /\ status'.phase = AssessRunStatus(AssessedResults, Terminating)
          /\ \A m \in Metric : Completed(status.results[m].phase) =>
                 AssessedResults[m] = status.results[m]
      BY <1>3, FreshPersist
    <2>2. CASE SpoiledBy(status.results)
      <3>1. PICK m \in Metric \ DryRun :
              status.results[m].phase \in {"Failed", "Error", "Inconclusive"}
        BY <2>2 DEF SpoiledBy
      <3>2. AssessedResults[m].phase \in Outcome \ {"Successful"}
        BY <2>1, <3>1
      <3>3. SpoiledBy(status'.results)
        BY <2>1, <3>2 DEF SpoiledBy
      <3>4. status'.phase # "Successful"
        BY <2>1, <3>2, WorstSuccessful DEF AssessRunStatus
      <3>. QED
        BY <3>3, <3>4 DEF SuccessInv
    <2>3. CASE ~SpoiledBy(status.results)
      <3>1. ~Terminating
        BY <1>1, <2>3 DEF Terminating, IsTerminating, SpoiledBy
      <3>2. ASSUME NEW m \in Metric, AssessedResults[m].phase = "Successful"
            PROVE  Count[m] > 0 /\ AssessedResults[m].count >= Count[m]
        <4>1. CASE Completed(status.results[m].phase)
          BY <1>1, <2>1, <2>3, <3>2, <4>1 DEF SuccessInv
        <4>2. CASE ~Completed(status.results[m].phase)
          <5>1. /\ ctx.results[m] \in MetricResult /\ ~Completed(ctx.results[m].phase)
                /\ Count[m] \in Nat
            BY <1>1, <4>2, MetricAssumption DEF Pass, FreshInv, PersistAnalysisRunStatus
          <5>2. AssessedResults[m] = [ctx.results[m] EXCEPT !.phase =
                                        AssessMetricStatus(m, ctx.results[m], Terminating)]
            BY DEF AssessedResults
          <5>3. /\ AssessMetricStatus(m, ctx.results[m], Terminating) = "Successful"
                /\ AssessedResults[m].count = ctx.results[m].count
            BY <3>2, <5>1, <5>2 DEF MetricResult
          <5>4. ~MoreNeeded(m, ctx.results[m])
            BY <3>1, <5>1, <5>3 DEF AssessMetricStatus, ExceededLimit
          <5>. QED
            BY <5>1, <5>3, <5>4 DEF MoreNeeded, MetricResult
        <4>. QED
          BY <4>1, <4>2
      <3>3. ASSUME status'.phase = "Successful", NEW m \in Metric \ DryRun
            PROVE  AssessedResults[m].phase = "Successful"
        <4>1. Completed(AssessedResults[m].phase)
          BY <2>1, <3>1, <3>3 DEF AssessRunStatus
        <4>2. WorstOf({AssessedResults[n].phase : n \in Metric \ DryRun}) = "Successful"
          BY <2>1, <3>3 DEF AssessRunStatus
        <4>. QED
          BY <3>3, <4>1, <4>2, WorstSuccessful
      <3>. QED
        BY <2>1, <3>2, <3>3 DEF SuccessInv
    <2>. QED
      BY <2>2, <2>3
  <1>. QED
    BY <1>2, <1>3

(* A run that nobody terminated is Successful only if all of its metrics   *)
(* are that count, each with all of its measurements (assessRunStatus).    *)
THEOREM SuccessIsEarned == MaxStale = 0 /\ Spec => []SuccessEarned
  <1>. SUFFICES ASSUME MaxStale = 0 PROVE Spec => []SuccessEarned
    OBVIOUS
  <1>1. Init => FreshInv /\ SuccessInv
    BY DEF Init, NoStatus, NoResult, FreshInv, SuccessInv
  <1>2. ASSUME TypeOK, FreshInv, SuccessInv, [Next]_vars PROVE SuccessInv'
    <2>1. CASE PersistAnalysisRunStatus
      BY <1>2, <2>1, PersistSuccess
    <2>2. CASE status' = status /\ (terminate => terminate')
      BY <1>2, <2>2 DEF SuccessInv
    <2>3. PersistAnalysisRunStatus \/ (status' = status /\ (terminate => terminate'))
      BY <1>2
      DEF Next, Controller, vars, ReconcileAnalysisRun, ReconcileInvalid, ReconcileStale, Begin,
          RunMeasurements, MeasurementErrs, Measured, Crash, TerminateRun, TimePasses, JobFinishes
    <2>. QED
      BY <2>1, <2>2, <2>3
  <1>3. SuccessInv => SuccessEarned
    BY DEF SuccessInv, SuccessEarned, SpoiledBy
  <1>4. TypeOK /\ FreshInv /\ [Next]_vars => FreshInv'
    BY FreshStep
  <1>. QED
    BY <1>1, <1>2, <1>3, <1>4, TypeCorrect, PTL DEF Spec
=============================================================================
