------------------------ MODULE AnalysisRunJobsProofs ------------------------
(***************************************************************************)
(* Proofs about the Jobs of an AnalysisRun, which outlive the controller:  *)
(* a measurement has one Job over crashes, errors and one pass that reads  *)
(* an old run, and a run that completes leaves none behind but those of    *)
(* errors and crashes, for any metrics, limits and bounds.                 *)
(***************************************************************************)
EXTENDS AnalysisRunProofs, FiniteSetTheorems

USE DEF Judged, Outcome, Phase, Completed

-----------------------------------------------------------------------------
(* Results and the Jobs they account for.                                  *)

\* Fewer active Jobs behind a result, and none further ahead
LEMMA FewerJobs ==
    ASSUME NEW js, NEW ks, IsFiniteSet(js), NEW m, NEW r, r.error \in Nat,
           Accounts(js, m, r),
           \A j \in ks : j.metric = m => j.id <= Taken(r) + 1,
           \A j \in ActiveOf(ks, m) : j.id <= Taken(r) => j \in ActiveOf(js, m)
    PROVE  Accounts(ks, m, r)
  <1>. DEFINE before == {j \in ActiveOf(js, m) : j.id <= Taken(r)}
              after == {j \in ActiveOf(ks, m) : j.id <= Taken(r)}
  <1>1. IsFiniteSet(before)
    BY FS_Subset DEF ActiveOf
  <1>2. after \subseteq before
    OBVIOUS
  <1>3. Cardinality(after) <= Cardinality(before)
    BY <1>1, <1>2, FS_Subset
  <1>4. Cardinality(after) \in Nat /\ Cardinality(before) \in Nat
    BY <1>1, <1>2, FS_Subset, FS_CardinalityType
  <1>. QED
    BY <1>3, <1>4 DEF Accounts

\* One measurement more, whose Job may still be active only after an error
LEMMA OneMoreTaken ==
    ASSUME NEW js, Numbered(js), NEW m, NEW p, NEW r,
           Taken(p) \in Nat, p.error \in Nat, r.error \in Nat, \A j \in js : j.id \in Nat,
           Accounts(js, m, p), Taken(r) = Taken(p) + 1,
           r.last = "Running" => r.job = Taken(r) + 1,
           \/ r.error = p.error + 1
           \/ r.error = p.error /\ \A j \in ActiveOf(js, m) : j.id # Taken(p) + 1
    PROVE  Accounts(js, m, r)
  <1>. DEFINE before == {j \in ActiveOf(js, m) : j.id <= Taken(p)}
              after == {j \in ActiveOf(js, m) : j.id <= Taken(r)}
  <1>0. \A j \in ActiveOf(js, m) : j.id \in Nat
    BY DEF ActiveOf
  <1>1. IsFiniteSet(before)
    BY FS_Subset DEF ActiveOf, Numbered
  <1>2. Cardinality(before) \in Nat /\ Cardinality(before) <= p.error
    BY <1>1, FS_CardinalityType DEF Accounts
  <1>3. CASE \A j \in ActiveOf(js, m) : j.id # Taken(p) + 1
    <2>1. after = before
      BY <1>0, <1>3
    <2>2. Cardinality(after) <= r.error
      <3>. HIDE DEF before, after
      <3>. QED
        BY <1>2, <2>1
    <2>. QED
      BY <2>2 DEF Accounts
  <1>4. ASSUME NEW k \in ActiveOf(js, m), k.id = Taken(p) + 1
        PROVE  Accounts(js, m, r)
    <2>1. after = before \cup {k}
      <3>1. \A j \in ActiveOf(js, m) : j.id = k.id => j = k
        BY DEF ActiveOf, Numbered
      <3>. QED
        BY <1>0, <1>4, <3>1
    <2>2. Cardinality(after) \in Nat /\ Cardinality(after) <= Cardinality(before) + 1
      <3>. HIDE DEF before, after
      <3>1. Cardinality(before \cup {k}) =
              IF k \in before THEN Cardinality(before) ELSE Cardinality(before) + 1
        BY <1>1, FS_AddElement
      <3>. QED
        BY <1>2, <2>1, <3>1
    <2>3. Cardinality(after) <= r.error
      BY <1>2, <1>4, <2>2
    <2>. QED
      BY <2>3 DEF Accounts
  <1>. QED
    BY <1>3, <1>4

\* All active Jobs of a metric: those behind, and at most one more
LEMMA ActiveBound ==
    ASSUME NEW js, Numbered(js), NEW m, NEW r, Taken(r) \in Nat, r.error \in Nat,
           \A j \in js : j.id \in Nat, Accounts(js, m, r)
    PROVE  /\ Cardinality(ActiveOf(js, m)) \in Nat
           /\ Cardinality(ActiveOf(js, m)) <= r.error + 1
           /\ (\A j \in ActiveOf(js, m) : j.id # Taken(r) + 1) =>
                 Cardinality(ActiveOf(js, m)) <= r.error
  <1>. DEFINE before == {j \in ActiveOf(js, m) : j.id <= Taken(r)}
  <1>0. \A j \in ActiveOf(js, m) : j.id \in Nat /\ j.id <= Taken(r) + 1
    BY DEF ActiveOf, Accounts
  <1>1. IsFiniteSet(before)
    BY FS_Subset DEF ActiveOf, Numbered
  <1>2. Cardinality(before) \in Nat /\ Cardinality(before) <= r.error
    BY <1>1, FS_CardinalityType DEF Accounts
  <1>3. CASE \A j \in ActiveOf(js, m) : j.id # Taken(r) + 1
    <2>1. ActiveOf(js, m) = before
      BY <1>0, <1>3
    <2>. HIDE DEF before
    <2>. QED
      BY <1>2, <2>1
  <1>4. ASSUME NEW k \in ActiveOf(js, m), k.id = Taken(r) + 1
        PROVE  /\ Cardinality(ActiveOf(js, m)) \in Nat
               /\ Cardinality(ActiveOf(js, m)) <= r.error + 1
    <2>1. ActiveOf(js, m) = before \cup {k}
      <3>1. \A j \in ActiveOf(js, m) : j.id = k.id => j = k
        BY DEF ActiveOf, Numbered
      <3>. QED
        BY <1>0, <1>4, <3>1
    <2>2. Cardinality(before \cup {k}) \in Nat
          /\ Cardinality(before \cup {k}) <= Cardinality(before) + 1
      <3>. HIDE DEF before
      <3>1. Cardinality(before \cup {k}) =
              IF k \in before THEN Cardinality(before) ELSE Cardinality(before) + 1
        BY <1>1, FS_AddElement
      <3>. QED
        BY <1>2, <3>1
    <2>. QED
      BY <1>2, <2>1, <2>2
  <1>. QED
    BY <1>3, <1>4

-----------------------------------------------------------------------------
(* What a measurement does to the Jobs.                                    *)

\* A measurement of m, of a result p, changes the Jobs js to ks
JobsChange(js, ks, m, p) ==
    \/ ks \subseteq js
    \/ /\ p.last # "Running"
       /\ \E j \in ks : /\ ks = js \cup {j} /\ j.metric = m /\ j.id = Taken(p) + 1
                        /\ \A k \in js : k.metric = m => k.id # j.id

LEMMA TakenType ==
    ASSUME NEW r \in MetricResult
    PROVE  Taken(r) \in Nat /\ r.error \in Nat /\ r.count \in Nat
  BY DEF Taken, MetricResult

\* The Jobs stay numbered (getJobIDSuffix).
LEMMA JobsStayNumbered ==
    ASSUME NEW js, NEW ks, NEW m, NEW p, Provider[m] = "job", Numbered(js),
           JobsChange(js, ks, m, p)
    PROVE  Numbered(ks)
  <1>1. IsFiniteSet(ks)
    <2>1. CASE ks \subseteq js
      BY <2>1, FS_Subset DEF Numbered
    <2>2. CASE ~(ks \subseteq js)
      BY <2>2, FS_AddElement DEF Numbered, JobsChange
    <2>. QED
      BY <2>1, <2>2
  <1>. QED
    BY <1>1 DEF Numbered, JobsChange

\* Each result that accounts for the Jobs before, and follows or precedes the
\* one that is measured, accounts for the Jobs after.
LEMMA ChangeAccounted ==
    ASSUME NEW js \in SUBSET Job, NEW ks \in SUBSET Job, NEW m, NEW n,
           NEW p \in MetricResult, NEW r \in MetricResult,
           Provider[m] = "job", Numbered(js), JobsChange(js, ks, m, p),
           Accounts(js, n, r), m = n => Accounts(js, m, p) /\ Follows(r, p)
    PROVE  Accounts(ks, n, r)
  <1>1. IsFiniteSet(js) /\ IsFiniteSet(ks) /\ Numbered(ks)
    BY JobsStayNumbered DEF Numbered
  <1>2. /\ Taken(p) \in Nat /\ p.error \in Nat /\ p.count \in Nat
        /\ Taken(r) \in Nat /\ r.error \in Nat /\ r.count \in Nat
    BY TakenType
  <1>3. ASSUME \A j \in ks : j.metric = n => j \in js
        PROVE  Accounts(ks, n, r)
    <2>1. \A j \in ks : j.metric = n => j.id <= Taken(r) + 1
      BY <1>3 DEF Accounts
    <2>2. \A j \in ActiveOf(ks, n) : j \in ActiveOf(js, n)
      BY <1>3 DEF ActiveOf
    <2>. QED
      BY <1>1, <1>2, <2>1, <2>2, FewerJobs
  <1>4. ASSUME p.last # "Running", NEW k \in ks, ks = js \cup {k}, k.metric = m,
               k.id = Taken(p) + 1
        PROVE  Accounts(ks, n, r)
    <2>1. CASE n # m
      <3>1. \A j \in ks : j.metric = n => j \in js
        BY <1>4, <2>1
      <3>. QED
        BY <1>3, <3>1
    <2>2. ASSUME n = m, NEW q \in MetricResult, Accounts(js, m, q), Taken(q) = Taken(p)
          PROVE  Accounts(ks, m, q)
      <3>1. \A j \in ks : j.metric = m => j.id <= Taken(q) + 1
        BY <1>2, <1>4, <2>2 DEF Accounts
      <3>2. \A j \in ActiveOf(ks, m) : j.id <= Taken(q) => j \in ActiveOf(js, m)
        BY <1>2, <1>4, <2>2 DEF ActiveOf
      <3>. QED
        BY <1>1, <2>2, <3>1, <3>2, TakenType, FewerJobs
    <2>3. CASE n = m /\ Taken(r) = Taken(p)
      BY <2>2, <2>3
    <2>4. CASE n = m /\ Taken(r) # Taken(p)
      <3>1. Accounts(ks, m, p)
        BY <2>2, <2>4
      <3>2. Taken(r) = Taken(p) + 1
        BY <1>2, <2>4 DEF Follows
      <3>3. r.count = p.count
        BY <1>4, <2>4 DEF Follows
      <3>4. r.error = p.error + 1
        BY <1>2, <3>2, <3>3 DEF Taken
      <3>5. r.last = "Running" => r.job = Taken(r) + 1
        BY DEF Accounts
      <3>6. \A j \in ks : j.id \in Nat
        BY DEF Job
      <3>. QED
        BY <1>1, <1>2, <2>4, <3>1, <3>2, <3>4, <3>5, <3>6, OneMoreTaken
    <2>. QED
      BY <2>1, <2>3, <2>4
  <1>. QED
    BY <1>3, <1>4 DEF JobsChange

\* What a provider answers, and a call that failed
Outcomes(m, r) == Answers(m, r) \cup {Answer("Error", r.job, jobs)}

\* A measurement of a job metric takes the Job of its number, and leaves it
\* active only while it is in flight or after an error (Run, Resume and
\* Terminate of the job provider, runMeasurements).
LEMMA JobMeasured ==
    ASSUME TypeOK, Numbered(jobs), NEW m \in Metric, Provider[m] = "job",
           NEW r \in MetricResult, Accounts(jobs, m, r), NEW answer \in Outcomes(m, r)
    PROVE  /\ JobsChange(jobs, answer.jobs, m, r)
           /\ Follows(Recorded(r, answer), r)
           /\ Accounts(answer.jobs, m, Recorded(r, answer))
           /\ answer.phase = "Running" => Taken(Recorded(r, answer)) = Taken(r)
           /\ answer.phase # "Running" => Taken(Recorded(r, answer)) = Taken(r) + 1
           /\ r.last = "Running" /\ Terminating => answer.phase # "Running"
  <1>. DEFINE s == Recorded(r, answer)
  <1>1. /\ Taken(r) \in Nat /\ r.error \in Nat /\ r.count \in Nat
        /\ jobs \subseteq Job /\ \A j \in jobs : j.id \in Nat
    BY TakenType DEF TypeOK, Job
  <1>2. answer.phase \in Phase \ {"none"} /\ answer.jobs \subseteq Job /\ answer.job \in Nat
    <2>1. CASE answer \in Answers(m, r)
      BY <1>1, <2>1, AnswersType, AnswersAnswer
    <2>2. CASE answer = Answer("Error", r.job, jobs)
      BY <1>1, <2>2 DEF Answer, MetricResult
    <2>. QED
      BY <2>1, <2>2 DEF Outcomes
  <1>3. s \in MetricResult /\ s.last = answer.phase /\ s.job = answer.job
    BY <1>2, RecordedType DEF Recorded
  <1>4. /\ answer.phase = "Running" => s.count = r.count /\ s.error = r.error
        /\ answer.phase = "Error" => s.count = r.count /\ s.error = r.error + 1
        /\ answer.phase \in Judged => s.count = r.count + 1 /\ s.error = r.error
    BY <1>1, <1>2 DEF Recorded, One
  <1>5. /\ answer.phase = "Running" => Taken(s) = Taken(r)
        /\ answer.phase # "Running" => Taken(s) = Taken(r) + 1
    BY <1>1, <1>2, <1>4 DEF Taken
  <1>6. /\ JobsChange(jobs, answer.jobs, m, r)
        /\ answer.phase = "Running" => answer.job = Taken(r) + 1
        /\ answer.phase \in Judged =>
              /\ r.last = "Running"
              /\ \A j \in ActiveOf(answer.jobs, m) : j.id # Taken(r) + 1
        /\ r.last = "Running" /\ Terminating => answer.phase # "Running"
    <2>1. CASE answer = Answer("Error", r.job, jobs)
      BY <2>1 DEF Answer, JobsChange
    <2>2. CASE answer \in Answers(m, r) /\ r.last # "Running"
      <3>. DEFINE id == Taken(r) + 1
                  created == [metric |-> m, id |-> id, state |-> "active"]
      <3>1. answer = Answer("Running", id,
                            IF JobsNamed(m, id) = {} THEN jobs \cup {created} ELSE jobs)
        BY <2>2 DEF Answers, RunMeasurement, JobID, Taken
      <3>. QED
        BY <2>2, <3>1 DEF Answer, JobsChange, JobsNamed
    <2>3. CASE answer \in Answers(m, r) /\ r.last = "Running" /\ Terminating
      <3>1. answer = Answer("Successful", r.job, jobs \ JobsNamed(m, r.job))
        BY <2>3 DEF Answers, TerminateMeasurement
      <3>2. r.job = Taken(r) + 1
        BY <2>3 DEF Accounts
      <3>. QED
        BY <2>3, <3>1, <3>2 DEF Answer, JobsChange, JobsNamed, ActiveOf
    <2>4. CASE answer \in Answers(m, r) /\ r.last = "Running" /\ ~Terminating
      <3>1. answer \in ResumeMeasurement(m, r) /\ r.job = Taken(r) + 1
        BY <2>4 DEF Answers, Accounts
      <3>2. CASE JobsNamed(m, r.job) = {}
        BY <2>4, <3>1, <3>2 DEF ResumeMeasurement, Answer, JobsChange
      <3>3. CASE JobsNamed(m, r.job) # {}
        <4>1. PICK j \in JobsNamed(m, r.job) :
                answer = Answer(CASE j.state = "active" -> "Running"
                                  [] j.state = "complete" -> "Successful"
                                  [] j.state = "failed" -> "Failed", r.job, jobs)
          BY <3>1, <3>3 DEF ResumeMeasurement
        <4>2. j.state \in {"active", "complete", "failed"} /\ j \in jobs /\ j.metric = m
              /\ j.id = r.job
          BY <1>1 DEF JobsNamed, Job
        <4>3. \A k \in ActiveOf(jobs, m) : k.id = r.job => j.state = "active"
          BY <4>2 DEF ActiveOf, Numbered
        <4>4. answer.jobs = jobs /\ answer.job = r.job
          BY <4>1 DEF Answer
        <4>5. answer.phase = CASE j.state = "active" -> "Running"
                               [] j.state = "complete" -> "Successful"
                               [] j.state = "failed" -> "Failed"
          BY <4>1 DEF Answer
        <4>6. answer.phase \in Judged => j.state # "active"
          BY <4>5
        <4>. QED
          BY <2>4, <3>1, <4>3, <4>4, <4>6 DEF JobsChange
      <3>. QED
        BY <3>2, <3>3
    <2>. QED
      BY <2>1, <2>2, <2>3, <2>4 DEF Outcomes
  <1>7. Follows(s, r)
    <2>1. /\ s.count \in Nat /\ s.error \in Nat
          /\ r.last # "Running" => answer.phase \notin Judged
      BY <1>3, <1>6 DEF MetricResult
    <2>. QED
      BY <1>1, <1>2, <1>4, <1>5, <2>1 DEF Follows
  <1>8. Numbered(answer.jobs) /\ Accounts(answer.jobs, m, r)
    <2>1. Follows(r, r)
      BY <1>1 DEF Follows
    <2>. QED
      BY <1>1, <1>2, <1>6, <2>1, JobsStayNumbered, ChangeAccounted
  <1>9. Accounts(answer.jobs, m, s)
    <2>1. CASE answer.phase = "Running"
      <3>1. Taken(s) = Taken(r) /\ s.error = r.error /\ s.job = Taken(r) + 1
        BY <1>3, <1>4, <1>5, <1>6, <2>1
      <3>. QED
        BY <1>8, <3>1 DEF Accounts
    <2>2. CASE answer.phase # "Running"
      <3>1. /\ Taken(s) = Taken(r) + 1 /\ s.last # "Running" /\ s.error \in Nat
            /\ \/ s.error = r.error + 1
               \/ /\ s.error = r.error
                  /\ \A j \in ActiveOf(answer.jobs, m) : j.id # Taken(r) + 1
        BY <1>2, <1>3, <1>4, <1>5, <1>6, <2>2 DEF MetricResult
      <3>2. \A j \in answer.jobs : j.id \in Nat
        BY <1>2 DEF Job
      <3>. QED
        BY <1>1, <1>8, <3>1, <3>2, OneMoreTaken
    <2>. QED
      BY <2>1, <2>2
  <1>. QED
    BY <1>5, <1>6, <1>7, <1>9

\* A metric of another provider has no Jobs.
LEMMA OthersMeasured ==
    ASSUME Numbered(jobs), NEW m \in Metric, Provider[m] # "job",
           NEW r, NEW answer \in Outcomes(m, r)
    PROVE  answer.jobs = jobs
  <1>1. JobsNamed(m, r.job) = {}
    BY DEF JobsNamed, Numbered
  <1>2. Provider[m] \in {"instant", "kayenta"}
    BY MetricAssumption
  <1>. QED
    BY <1>1, <1>2
    DEF Outcomes, Answers, RunMeasurement, ResumeMeasurement, TerminateMeasurement, Answer

-----------------------------------------------------------------------------
(* JobsInv is inductive.                                                   *)

\* Every result accounts for its Jobs and follows itself when nothing was
\* measured: the first pass.
LEMMA InitJobs == Init => JobsInv
  <1>. SUFFICES ASSUME Init PROVE JobsInv
    OBVIOUS
  <1>1. Numbered(jobs)
    BY FS_EmptySet DEF Init, Numbered
  <1>2. AllAccount(jobs, NoStatus) /\ AllFollow(NoStatus, NoStatus)
    <2>. SUFFICES ASSUME NEW m \in Metric
                  PROVE  Accounts(jobs, m, NoResult) /\ Follows(NoResult, NoResult)
      BY DEF AllAccount, AllFollow, NoStatus
    <2>1. {j \in ActiveOf(jobs, m) : j.id <= Taken(NoResult)} = {}
      BY DEF Init, ActiveOf
    <2>. QED
      BY <2>1, FS_EmptySet DEF Accounts, Follows, NoResult, Taken, Init
  <1>. QED
    BY <1>1, <1>2 DEF Init, JobsInv, Live

\* Two statuses and a pass of the right type
LEMMA PassResults ==
    ASSUME TypeOK
    PROVE  /\ \A m \in Metric : /\ status.results[m] \in MetricResult
                                /\ old.status.results[m] \in MetricResult
                                /\ ctx.status.results[m] \in MetricResult
                                /\ ctx.results[m] \in MetricResult
           /\ jobs \in SUBSET Job
  BY DEF TypeOK, View, Pass, AnalysisRunStatus

LEMMA FollowsItself ==
    ASSUME NEW r \in MetricResult
    PROVE  Follows(r, r)
  BY TakenType DEF Follows

\* A pass that begins has measured nothing.
LEMMA BeginJobs ==
    ASSUME TypeOK, JobsInv, MaxStale \in {0, 1}, NEW invalid \in BOOLEAN,
           \/ Begin(Live, invalid) /\ used'.stale = used.stale
           \/ Begin(old, invalid) /\ used.stale < MaxStale /\ used'.stale = used.stale + 1
    PROVE  JobsInv'
  <1>1. /\ jobs' = jobs /\ status' = status /\ pc' = "measuring"
        /\ ctx'.results = ctx'.status.results
        /\ used.stale \in Nat
    BY DEF Begin, TypeOK
  <1>2. CASE Begin(Live, invalid) /\ used'.stale = used.stale
    <2>1. ctx'.status = status /\ old' = Superseded(Live)
      BY <1>2 DEF Begin, Live
    <2>2. AllFollow(status, status)
      BY PassResults, FollowsItself DEF AllFollow
    <2>3. AllAccount(jobs, ctx') /\ AllFollow(ctx', ctx'.status)
      BY <1>1, <2>1, <2>2 DEF JobsInv, AllAccount, AllFollow
    <2>4. MaxStale = 1 => old'.status = status
      BY <2>1 DEF Superseded, Live
    <2>. QED
      BY <1>1, <2>1, <2>2, <2>3, <2>4 DEF JobsInv
  <1>3. CASE Begin(old, invalid) /\ used.stale < MaxStale /\ used'.stale = used.stale + 1
    <2>1. ctx'.status = old.status /\ MaxStale = 1 /\ used.stale = 0 /\ used'.stale # 0
      BY <1>1, <1>3 DEF Begin
    <2>2. AllFollow(old.status, old.status)
      BY PassResults, FollowsItself DEF AllFollow
    <2>3. AllAccount(jobs, ctx') /\ AllFollow(ctx', ctx'.status)
      BY <1>1, <2>1, <2>2 DEF JobsInv, AllAccount, AllFollow
    <2>. QED
      BY <1>1, <2>1, <2>3 DEF JobsInv
  <1>. QED
    BY <1>2, <1>3

\* A measurement is accounted for in the pass, and in what it may yet write
\* over.
LEMMA MeasuredJobs ==
    ASSUME TypeOK, JobsInv, NEW m \in Metric, pc = "measuring", m \in ctx.todo,
           NEW answer \in Outcomes(m, ctx.results[m]), Measured(m, answer),
           used'.stale = used.stale, jobs' \subseteq Job
    PROVE  JobsInv'
  <1>. DEFINE p == ctx.results[m]
              s == Recorded(p, answer)
  <1>1. /\ ctx'.status = ctx.status /\ ctx'.todo = ctx.todo \ {m}
        /\ ctx'.results = [ctx.results EXCEPT ![m] = s]
        /\ jobs' = answer.jobs /\ pc' = pc /\ status' = status /\ old' = old
    BY DEF Measured, TypeOK, Pass
  <1>2. p \in MetricResult /\ p = ctx.status.results[m]
    BY PassResults DEF JobsInv
  <1>3. \A n \in Metric : ctx'.results[n] = IF n = m THEN s ELSE ctx.results[n]
    BY <1>1 DEF TypeOK, Pass
  <1>4. CASE Provider[m] # "job"
    <2>1. jobs' = jobs
      BY <1>1, <1>4, OthersMeasured DEF JobsInv
    <2>2. /\ AllAccount(jobs, ctx')
          /\ AllFollow(ctx', ctx.status)
      BY <1>3, <1>4 DEF JobsInv, AllAccount, AllFollow
    <2>. QED
      BY <1>1, <1>3, <2>1, <2>2 DEF JobsInv
  <1>5. CASE Provider[m] = "job"
    <2>1. /\ Numbered(jobs) /\ Accounts(jobs, m, p)
      BY <1>5 DEF JobsInv, AllAccount
    <2>2. /\ JobsChange(jobs, jobs', m, p) /\ Follows(s, p)
          /\ Accounts(jobs', m, s)
      BY <1>1, <1>2, <1>5, <2>1, JobMeasured
    <2>3. Numbered(jobs')
      BY <1>5, <2>1, <2>2, JobsStayNumbered
    <2>4. ASSUME NEW n \in Metric, Provider[n] = "job", NEW r \in MetricResult,
                 Accounts(jobs, n, r), m = n => Follows(r, p)
          PROVE  Accounts(jobs', n, r)
      BY <1>2, <1>5, <2>1, <2>2, <2>4, ChangeAccounted, PassResults
    <2>5. AllAccount(jobs', status)
      <3>. SUFFICES ASSUME NEW n \in Metric, Provider[n] = "job"
                    PROVE  Accounts(jobs', n, status.results[n])
        BY DEF AllAccount
      <3>1. Accounts(jobs, n, status.results[n])
            /\ Follows(status.results[n], ctx.status.results[n])
        BY DEF JobsInv, AllAccount, AllFollow
      <3>. QED
        BY <1>2, <2>4, <3>1, PassResults
    <2>6. AllAccount(jobs', ctx.status)
      <3>. SUFFICES ASSUME NEW n \in Metric, Provider[n] = "job"
                    PROVE  Accounts(jobs', n, ctx.status.results[n])
        BY DEF AllAccount
      <3>1. Accounts(jobs, n, ctx.status.results[n])
        BY DEF JobsInv, AllAccount
      <3>. QED
        BY <1>2, <2>4, <3>1, PassResults, FollowsItself
    <2>7. AllAccount(jobs', ctx')
      <3>. SUFFICES ASSUME NEW n \in Metric, Provider[n] = "job"
                    PROVE  Accounts(jobs', n, ctx'.results[n])
        BY DEF AllAccount
      <3>1. Accounts(jobs, n, ctx.results[n])
        BY DEF JobsInv, AllAccount
      <3>. QED
        BY <1>3, <2>2, <2>4, <3>1, PassResults
    <2>8. AllFollow(ctx', ctx.status)
      BY <1>2, <1>3, <2>2 DEF JobsInv, AllFollow
    <2>9. MaxStale = 1 /\ used.stale = 0 => AllAccount(jobs', old.status)
      BY <2>6 DEF JobsInv
    <2>. QED
      BY <1>1, <1>3, <2>3, <2>5, <2>6, <2>7, <2>8, <2>9 DEF JobsInv
  <1>. QED
    BY <1>4, <1>5

\* What a pass arrives at differs from its results in the phases only.
LEMMA AssessedCounts ==
    ASSUME TypeOK, NEW m \in Metric
    PROVE  /\ AssessedResults[m].count = ctx.results[m].count
           /\ AssessedResults[m].error = ctx.results[m].error
           /\ AssessedResults[m].last = ctx.results[m].last
           /\ AssessedResults[m].job = ctx.results[m].job
  <1>1. ctx.results[m] \in MetricResult
    BY PassResults
  <1>. QED
    BY <1>1 DEF AssessedResults, MetricResult

\* A pass writes what it has measured, or nothing (persistAnalysisRunStatus).
LEMMA WrittenResults ==
    ASSUME TypeOK, PersistAnalysisRunStatus
    PROVE  /\ status' \in AnalysisRunStatus
           /\ \/ status'.results = status.results /\ NewStatus.results = ctx.status.results
              \/ ~ctx.invalid /\ status'.results = AssessedResults
           /\ ~ctx.invalid => NewStatus.results = AssessedResults
  <1>1. ctx \in Pass /\ ctx.status \in AnalysisRunStatus /\ status \in AnalysisRunStatus
    BY DEF TypeOK, Pass
  <1>2. NewStatus \in AnalysisRunStatus /\ status' = Patched(ctx.status, NewStatus)
    BY <1>1, NewStatusType DEF PersistAnalysisRunStatus
  <1>3. NewStatus.results = IF ctx.invalid THEN ctx.status.results ELSE AssessedResults
    BY <1>1 DEF NewStatus, AnalysisRunStatus
  <1>. QED
    BY <1>1, <1>2, <1>3, PatchedType

\* So what is written accounts for the Jobs, and follows what was read.
LEMMA PersistJobs ==
    ASSUME TypeOK, JobsInv, MaxStale \in {0, 1}, PersistAnalysisRunStatus
    PROVE  JobsInv'
  <1>1. pc = "measuring" /\ pc' = "idle" /\ jobs' = jobs /\ used' = used
        /\ old' \in {old, Superseded(Live)}
    BY DEF PersistAnalysisRunStatus
  <1>2. AllAccount(jobs, [results |-> AssessedResults])
        /\ AllFollow([results |-> AssessedResults], ctx.status)
    <2>. SUFFICES ASSUME NEW m \in Metric, Provider[m] = "job"
                  PROVE  Accounts(jobs, m, AssessedResults[m])
                         /\ Follows(AssessedResults[m], ctx.status.results[m])
      BY DEF AllAccount, AllFollow
    <2>1. Accounts(jobs, m, ctx.results[m]) /\ Follows(ctx.results[m], ctx.status.results[m])
      BY <1>1 DEF JobsInv, AllAccount, AllFollow
    <2>. QED
      BY <2>1, AssessedCounts DEF Accounts, Follows, Taken
  <1>3. AllAccount(jobs, status')
    BY <1>2, WrittenResults DEF JobsInv, AllAccount
  <1>4. AllFollow(status', ctx.status)
    BY <1>1, <1>2, WrittenResults DEF JobsInv, AllFollow
  <1>5. ASSUME MaxStale = 1, used.stale = 0
        PROVE  old'.status = status /\ status = ctx.status
    BY <1>1, <1>5 DEF JobsInv, Superseded, Live
  <1>. QED
    BY <1>1, <1>3, <1>4, <1>5 DEF JobsInv

\* Every step keeps the invariant.
LEMMA JobsStep == MaxStale \in {0, 1} /\ TypeOK /\ JobsInv /\ [Next]_vars => JobsInv'
  <1>. SUFFICES ASSUME MaxStale \in {0, 1}, TypeOK, JobsInv, [Next]_vars PROVE JobsInv'
    OBVIOUS
  <1>1. CASE ReconcileAnalysisRun \/ ReconcileInvalid \/ ReconcileStale
    <2>1. used \in [errors : Nat, crashes : Nat, stale : Nat]
      BY DEF TypeOK
    <2>2. CASE ReconcileAnalysisRun
      BY <2>2, BeginJobs DEF ReconcileAnalysisRun
    <2>3. CASE ReconcileInvalid
      BY <2>1, <2>3, BeginJobs DEF ReconcileInvalid
    <2>4. CASE ReconcileStale
      BY <2>1, <2>4, BeginJobs DEF ReconcileStale
    <2>. QED
      BY <1>1, <2>2, <2>3, <2>4
  <1>2. ASSUME NEW m \in Metric, RunMeasurements(m) \/ MeasurementErrs(m) PROVE JobsInv'
    <2>1. PICK answer \in Outcomes(m, ctx.results[m]) : Measured(m, answer)
      BY <1>2 DEF RunMeasurements, MeasurementErrs, Outcomes
    <2>2. pc = "measuring" /\ m \in ctx.todo /\ used'.stale = used.stale
      BY <1>2 DEF RunMeasurements, MeasurementErrs, TypeOK
    <2>3. jobs' \subseteq Job
      BY TypeStep DEF TypeOK
    <2>. QED
      BY <2>1, <2>2, <2>3, MeasuredJobs
  <1>3. CASE PersistAnalysisRunStatus
    BY <1>3, PersistJobs
  <1>4. CASE Crash
    BY <1>4 DEF Crash, JobsInv, TypeOK
  <1>5. CASE TerminateRun
    <2>1. /\ UNCHANGED <<status, jobs, pc, ctx, used>>
          /\ MaxStale = 1 => old'.status = status
      BY <1>5 DEF TerminateRun, Superseded, Live
    <2>2. AllFollow(status, status)
      BY PassResults, FollowsItself DEF AllFollow
    <2>. QED
      BY <2>1, <2>2 DEF JobsInv
  <1>6. CASE (\E m \in Metric : TimePasses(m)) \/ UNCHANGED vars
    BY <1>6 DEF TimePasses, vars, JobsInv
  <1>7. CASE JobFinishes
    <2>1. PICK k \in jobs, result \in {"complete", "failed"} :
            jobs' = (jobs \ {k}) \cup {[k EXCEPT !.state = result]}
      BY <1>7 DEF JobFinishes
    <2>2. UNCHANGED <<status, old, pc, ctx, used>>
      BY <1>7 DEF JobFinishes
    <2>. DEFINE l == [k EXCEPT !.state = result]
    <2>3. k \in Job /\ l \in Job /\ l.metric = k.metric /\ l.id = k.id /\ l.state # "active"
      BY DEF TypeOK, Job
    <2>4. Numbered(jobs')
      <3>1. IsFiniteSet(jobs')
        BY <2>1, FS_RemoveElement, FS_AddElement DEF JobsInv, Numbered
      <3>2. Numbered(jobs)
        BY DEF JobsInv
      <3>3. \A j \in jobs' : j = l \/ (j \in jobs /\ j # k)
        BY <2>1
      <3>. HIDE DEF l
      <3>. QED
        BY <2>3, <3>1, <3>2, <3>3 DEF Numbered
    <2>5. ASSUME NEW m \in Metric, NEW r \in MetricResult, Accounts(jobs, m, r)
          PROVE  Accounts(jobs', m, r)
      <3>. HIDE DEF l
      <3>1. \A j \in jobs' : j.metric = m => j.id <= Taken(r) + 1
        BY <2>1, <2>3, <2>5 DEF Accounts, l
      <3>2. \A j \in ActiveOf(jobs', m) : j \in ActiveOf(jobs, m)
        BY <2>1, <2>3 DEF ActiveOf, l
      <3>3. IsFiniteSet(jobs)
        BY DEF JobsInv, Numbered
      <3>. QED
        BY <2>5, <3>1, <3>2, <3>3, TakenType, FewerJobs
    <2>6. /\ AllAccount(jobs', status) /\ (AllAccount(jobs, old.status) => AllAccount(jobs', old.status))
          /\ AllAccount(jobs, ctx.status) => AllAccount(jobs', ctx.status)
          /\ AllAccount(jobs, ctx) => AllAccount(jobs', ctx)
      BY <2>5, PassResults DEF JobsInv, AllAccount
    <2>. QED
      BY <2>2, <2>4, <2>6 DEF JobsInv
  <1>. QED
    BY <1>1, <1>2, <1>3, <1>4, <1>5, <1>6, <1>7 DEF Next, Controller

LEMMA JobsInvHolds == MaxStale \in {0, 1} /\ Spec => []JobsInv
  <1>. SUFFICES ASSUME MaxStale \in {0, 1} PROVE Spec => []JobsInv
    OBVIOUS
  <1>1. TypeOK /\ JobsInv /\ [Next]_vars => JobsInv'
    BY JobsStep
  <1>. QED
    BY <1>1, InitJobs, TypeCorrect, PTL DEF Spec

(* A measurement has one Job, however often the controller dies between    *)
(* creating it and recording it and though a pass may read an old run;     *)
(* only one that ended in an error may leave its Job behind                *)
(* (getJobIDSuffix, JobProvider.Run).                                      *)
THEOREM OneJobEach == MaxStale \in {0, 1} /\ Spec => []OneJobPerMeasurement
  <1>1. TypeOK /\ JobsInv => OneJobPerMeasurement
    <2>. SUFFICES ASSUME TypeOK, JobsInv, NEW m \in Metric
                  PROVE  Cardinality(ActiveJobs(m)) <= 1 + status.results[m].error
      BY DEF OneJobPerMeasurement
    <2>1. status.results[m] \in MetricResult
      BY PassResults
    <2>2. CASE Provider[m] = "job"
      <3>1. Accounts(jobs, m, status.results[m]) /\ Numbered(jobs)
        BY <2>2 DEF JobsInv, AllAccount
      <3>2. \A j \in jobs : j.id \in Nat
        BY DEF TypeOK, Job
      <3>3. /\ Cardinality(ActiveOf(jobs, m)) \in Nat
            /\ Cardinality(ActiveOf(jobs, m)) <= status.results[m].error + 1
        BY <2>1, <3>1, <3>2, TakenType, ActiveBound
      <3>. QED
        BY <2>1, <3>3, TakenType DEF ActiveJobs
    <2>3. CASE Provider[m] # "job"
      <3>1. ActiveJobs(m) = {}
        BY <2>3 DEF ActiveJobs, ActiveOf, JobsInv, Numbered
      <3>. QED
        BY <2>1, <3>1, FS_EmptySet, TakenType
    <2>. QED
      BY <2>2, <2>3
  <1>. QED
    BY <1>1, JobsInvHolds, TypeCorrect, PTL

-----------------------------------------------------------------------------
(* EndInv is inductive when every pass reads what was written.             *)

\* A result in flight is open.
LEMMA InFlightOpen ==
    ASSUME EarnedInv, NEW m \in Metric, InFlight(m, status.results[m])
    PROVE  ~Completed(status.results[m].phase)
  BY DEF EarnedInv, AllSound, Sound, Earned, InFlight

\* A pass takes up everything that is in flight (generateMetricTasks).
LEMMA BeginEnd ==
    ASSUME TypeOK, EarnedInv, EndInv, NEW invalid \in BOOLEAN, Begin(Live, invalid),
           used'.crashes = used.crashes
    PROVE  EndInv'
  <1>1. /\ UNCHANGED <<jobs, status, waiting>> /\ pc = "idle" /\ pc' = "measuring"
        /\ ctx'.results = status.results /\ ctx'.status = status
        /\ ctx'.invalid = invalid /\ ctx'.todo = ctx'.tasks
        /\ ctx'.tasks = IF invalid THEN {} ELSE GenerateMetricTasks(Live)
    BY DEF Begin, Live
  <1>2. Terminating' = IsTerminating(terminate, status.results)
    BY DEF Terminating, IsTerminating, Begin, Live
  <1>3. ASSUME NEW m \in GenerateMetricTasks(Live)
        PROVE  /\ m \in Delayed => status.startedAt
               /\ Terminating' => status.results[m].last = "Running"
    <2>1. \/ status.results[m].last = "Running"
          \/ /\ ~Terminating'
             /\ status.results[m].last = "none" => (m \in Delayed => status.startedAt)
      BY <1>2 DEF GenerateMetricTasks, Live
    <2>2. m \in Metric
      BY DEF GenerateMetricTasks
    <2>3. ~status.startedAt => status.results[m].last = "none"
      BY <2>2 DEF EndInv
    <2>. QED
      BY <2>1, <2>3
  <1>4. ASSUME NEW m \in Metric, InFlight(m, status.results[m])
        PROVE  m \in GenerateMetricTasks(Live)
    <2>1. m \notin waiting /\ ~Completed(status.results[m].phase)
      BY <1>4, InFlightOpen DEF EndInv
    <2>. QED
      BY <1>4, <2>1 DEF GenerateMetricTasks, Live, Due, InFlight
  <1>. QED
    BY <1>1, <1>3, <1>4 DEF EndInv

\* A measurement that ends leaves no Job further ahead, and one that is
\* terminated is not in flight any more.
LEMMA MeasuredEnd ==
    ASSUME TypeOK, JobsInv, EndInv, NEW m \in Metric, pc = "measuring", m \in ctx.todo,
           NEW answer \in Outcomes(m, ctx.results[m]), Measured(m, answer),
           used'.crashes = used.crashes, jobs' \subseteq Job
    PROVE  EndInv'
  <1>. DEFINE p == ctx.results[m]
              s == Recorded(p, answer)
  <1>1. /\ ctx'.status = ctx.status /\ ctx'.todo = ctx.todo \ {m}
        /\ ctx'.tasks = ctx.tasks /\ ctx'.invalid = ctx.invalid /\ ctx'.terminate = ctx.terminate
        /\ \A n \in Metric : ctx'.results[n] = IF n = m THEN s ELSE ctx.results[n]
        /\ jobs' = answer.jobs /\ UNCHANGED <<pc, status, waiting>>
    BY DEF Measured, TypeOK, Pass
  <1>2. p \in MetricResult /\ Taken(p) \in Nat /\ s.last = answer.phase
    BY PassResults, TakenType DEF Recorded
  <1>3. Terminating' = Terminating
    BY <1>1 DEF Terminating, IsTerminating
  <1>4. ASSUME Provider[m] = "job"
        PROVE  /\ JobsChange(jobs, jobs', m, p)
               /\ Lost(jobs', m, s) => FALSE
               /\ p.last = "Running" /\ Terminating => s.last # "Running"
    <2>1. Numbered(jobs) /\ Accounts(jobs, m, p)
      BY <1>4 DEF JobsInv, AllAccount
    <2>2. /\ JobsChange(jobs, jobs', m, p)
          /\ answer.phase # "Running" => Taken(s) = Taken(p) + 1
          /\ p.last = "Running" /\ Terminating => s.last # "Running"
      BY <1>1, <1>2, <1>4, <2>1, JobMeasured
    <2>3. Accounts(jobs', m, p)
      BY <1>2, <1>4, <2>1, <2>2, ChangeAccounted, FollowsItself, PassResults
    <2>4. ASSUME Lost(jobs', m, s) PROVE FALSE
      <3>1. PICK j \in jobs' : j.metric = m /\ j.id = Taken(s) + 1
        BY <2>4 DEF Lost, ActiveOf
      <3>2. Taken(s) = Taken(p) + 1
        BY <1>2, <2>2, <2>4 DEF Lost
      <3>3. j.id <= Taken(p) + 1
        BY <2>3, <3>1 DEF Accounts
      <3>. QED
        BY <1>2, <3>1, <3>2, <3>3
    <2>. QED
      BY <2>2, <2>4
  <1>5. ASSUME NEW n \in Metric, Provider[n] = "job", Lost(jobs', n, ctx'.results[n])
        PROVE  used'.crashes > 0
    <2>1. n # m
      BY <1>1, <1>4, <1>5
    <2>2. \A j \in jobs' : j.metric = n => j \in jobs
      <3>1. CASE Provider[m] = "job"
        BY <1>4, <2>1, <3>1 DEF JobsChange
      <3>2. CASE Provider[m] # "job"
        BY <1>1, <3>2, OthersMeasured DEF JobsInv
      <3>. QED
        BY <3>1, <3>2
    <2>3. Lost(jobs, n, ctx.results[n])
      BY <1>1, <1>5, <2>1, <2>2 DEF Lost, ActiveOf
    <2>. QED
      BY <1>5, <2>3 DEF EndInv
  <1>6. ASSUME ~ctx.invalid, Terminating
        PROVE  ~InFlight(m, s)
    <2>1. p.last = "Running"
      BY <1>6 DEF EndInv
    <2>. QED
      BY <1>4, <1>6, <2>1 DEF InFlight
  <1>7. m \in ctx.tasks /\ ctx.todo \subseteq Metric
    BY DEF EndInv, TypeOK, Pass
  <1>. QED
    BY <1>1, <1>3, <1>5, <1>6, <1>7 DEF EndInv

\* A run that completes has nothing in flight (assessRunStatus).
LEMMA CompleteEnds ==
    ASSUME TypeOK, EarnedInv, EndInv, pc = "measuring", ctx.todo = {}, ~ctx.invalid,
           Completed(AssessRunStatus(AssessedResults, Terminating)), NEW m \in Metric
    PROVE  ~InFlight(m, AssessedResults[m])
  <1>1. AssessedResults[m].last = ctx.results[m].last
    BY AssessedCounts
  <1>2. CASE Terminating
    BY <1>1, <1>2 DEF EndInv, InFlight
  <1>3. CASE ~Terminating
    <2>1. Completed(AssessedResults[m].phase)
      BY <1>3 DEF AssessRunStatus
    <2>2. ctx.results[m] \in MetricResult /\ Terminating \in BOOLEAN
      BY PassResults DEF Terminating, IsTerminating, TypeOK, Pass
    <2>3. AssessedResults[m].phase = AssessMetricStatus(m, ctx.results[m], Terminating)
      BY <2>2 DEF AssessedResults, MetricResult
    <2>4. Completed(ctx.results[m].phase) => ctx.results[m].last # "Running"
      BY DEF EarnedInv, Assessable, Earned
    <2>5. ctx.results[m].last # "Running"
      BY <2>1, <2>3, <2>4 DEF AssessMetricStatus
    <2>. QED
      BY <1>1, <2>5 DEF InFlight
  <1>. QED
    BY <1>2, <1>3

\* The write of a pass (persistAnalysisRunStatus).
LEMMA PersistEnd ==
    ASSUME TypeOK, EarnedInv, FreshInv, EndInv, PersistAnalysisRunStatus
    PROVE  EndInv'
  <1>1. /\ pc = "measuring" /\ pc' = "idle" /\ ctx.todo = {} /\ UNCHANGED <<jobs, used>>
        /\ status' = Patched(ctx.status, NewStatus) /\ waiting' = StillWaiting(NewStatus)
    BY DEF PersistAnalysisRunStatus
  <1>2. ctx.status = status /\ ~Completed(status.phase) /\ ~status.completedAt
    BY <1>1 DEF FreshInv, EndInv
  <1>3. status \in AnalysisRunStatus /\ NewStatus \in AnalysisRunStatus
    BY NewStatusType DEF TypeOK, Pass
  <1>4. status' = NewStatus
    BY <1>1, <1>2, <1>3 DEF Patched, AnalysisRunStatus
  <1>5. CASE ctx.invalid
    <2>1. /\ NewStatus.results = status.results /\ NewStatus.startedAt = status.startedAt
          /\ NewStatus.completedAt = status.completedAt
      BY <1>2, <1>3, <1>5 DEF NewStatus, AnalysisRunStatus
    <2>2. /\ waiting' = waiting
          /\ \A m \in Metric : ctx.results[m] = status.results[m]
      BY <1>1, <1>2, <1>5, <2>1 DEF EndInv, StillWaiting
    <2>. QED
      BY <1>1, <1>2, <1>4, <2>1, <2>2 DEF EndInv
  <1>6. CASE ~ctx.invalid
    <2>. DEFINE phase == AssessRunStatus(AssessedResults, Terminating)
    <2>1. /\ NewStatus.results = AssessedResults /\ NewStatus.startedAt
          /\ NewStatus.completedAt = Completed(phase) /\ NewStatus.phase = phase
      BY <1>2, <1>6 DEF NewStatus
    <2>2. ASSUME NEW m \in Metric, Provider[m] = "job", Lost(jobs, m, AssessedResults[m])
          PROVE  used.crashes > 0
      <3>1. Lost(jobs, m, ctx.results[m])
        BY <2>2, AssessedCounts DEF Lost, Taken
      <3>. QED
        BY <1>1, <2>2, <3>1 DEF EndInv
    <2>3. ASSUME NEW m \in waiting' PROVE ~InFlight(m, AssessedResults[m])
      <3>1. m \in Metric /\ AssessedResults[m].last = ctx.results[m].last
        BY <1>1, <2>3, AssessedCounts, TypeStep, MetricAssumption
        DEF StillWaiting, TypeOK, Pass
      <3>2. CASE m \in waiting \ ctx.tasks
        BY <1>1, <3>1, <3>2 DEF EndInv, InFlight
      <3>3. CASE m \in ctx.tasks
        BY <1>1, <1>2, <2>1, <2>3, <3>1, <3>3 DEF StillWaiting, InFlight, EndInv
      <3>4. CASE m \in Delayed /\ ~status.startedAt
        <4>1. m \notin ctx.tasks
          BY <1>1, <3>4 DEF EndInv
        <4>. QED
          BY <1>1, <3>1, <3>4, <4>1 DEF EndInv, InFlight
      <3>. QED
        BY <1>1, <1>2, <2>3, <3>2, <3>3, <3>4 DEF StillWaiting
    <2>4. Completed(phase) => \A m \in Metric : ~InFlight(m, AssessedResults[m])
      BY <1>1, <1>6, CompleteEnds
    <2>. QED
      BY <1>1, <1>4, <2>1, <2>2, <2>3, <2>4 DEF EndInv
  <1>. QED
    BY <1>5, <1>6

LEMMA InitEnd == Init => EndInv
  <1>. SUFFICES ASSUME Init PROVE EndInv
    OBVIOUS
  <1>1. /\ pc = "idle" /\ jobs = {} /\ waiting = {} /\ ~status.completedAt
        /\ \A m \in Metric : status.results[m].last = "none"
    BY DEF Init, NoStatus, NoResult
  <1>. QED
    BY <1>1 DEF EndInv, InFlight, Lost, ActiveOf

LEMMA EndStep ==
    /\ MaxStale = 0 /\ TypeOK /\ EarnedInv /\ FreshInv /\ JobsInv /\ EndInv
    /\ [Next]_vars
    => EndInv'
  <1>. SUFFICES ASSUME MaxStale = 0, TypeOK, EarnedInv, FreshInv, JobsInv, EndInv, [Next]_vars
                PROVE  EndInv'
    OBVIOUS
  <1>0. used \in [errors : Nat, crashes : Nat, stale : Nat]
    BY DEF TypeOK
  <1>1. CASE ReconcileAnalysisRun
    BY <1>1, BeginEnd DEF ReconcileAnalysisRun
  <1>2. CASE ReconcileInvalid
    BY <1>0, <1>2, BeginEnd DEF ReconcileInvalid
  <1>3. CASE ReconcileStale
    BY <1>0, <1>3 DEF ReconcileStale
  <1>4. ASSUME NEW m \in Metric, RunMeasurements(m) \/ MeasurementErrs(m) PROVE EndInv'
    <2>1. PICK answer \in Outcomes(m, ctx.results[m]) : Measured(m, answer)
      BY <1>4 DEF RunMeasurements, MeasurementErrs, Outcomes
    <2>2. pc = "measuring" /\ m \in ctx.todo /\ used'.crashes = used.crashes
      BY <1>0, <1>4 DEF RunMeasurements, MeasurementErrs
    <2>3. jobs' \subseteq Job
      BY TypeStep DEF TypeOK
    <2>. QED
      BY <2>1, <2>2, <2>3, MeasuredEnd
  <1>5. CASE PersistAnalysisRunStatus
    BY <1>5, PersistEnd
  <1>6. CASE Crash
    <2>1. /\ pc' = "idle" /\ used'.crashes > 0 /\ UNCHANGED <<status, waiting>>
      BY <1>0, <1>6 DEF Crash
    <2>. QED
      BY <2>1 DEF EndInv
  <1>7. CASE TerminateRun
    BY <1>7 DEF TerminateRun, EndInv, Terminating, IsTerminating
  <1>8. ASSUME NEW m \in Metric, TimePasses(m) PROVE EndInv'
    BY <1>8 DEF TimePasses, EndInv, Terminating, IsTerminating
  <1>9. CASE JobFinishes
    <2>1. /\ UNCHANGED <<status, waiting, pc, ctx, used>>
          /\ \A m \in Metric : ActiveOf(jobs', m) \subseteq ActiveOf(jobs, m)
      BY <1>9 DEF JobFinishes, ActiveOf, TypeOK, Job
    <2>2. \A m \in Metric, r \in MetricResult : Lost(jobs', m, r) => Lost(jobs, m, r)
      BY <2>1 DEF Lost
    <2>. QED
      BY <2>1, <2>2, PassResults DEF EndInv, Terminating, IsTerminating
  <1>10. CASE UNCHANGED vars
    BY <1>10 DEF vars, EndInv, Terminating, IsTerminating
  <1>. QED
    BY <1>1, <1>2, <1>3, <1>4, <1>5, <1>6, <1>7, <1>8, <1>9, <1>10 DEF Next, Controller

(* A run that completes by its assessment leaves active only the Jobs of   *)
(* measurements that ended in an error or were lost in a crash, as long as *)
(* every pass reads what was last written: what is in flight when the run  *)
(* is cut short is terminated first (generateMetricTasks,                  *)
(* JobProvider.Terminate).                                                 *)
THEOREM JobsEnd == MaxStale = 0 /\ Spec => []JobsEndWithRun
  <1>. SUFFICES ASSUME MaxStale = 0 PROVE Spec => []JobsEndWithRun
    OBVIOUS
  <1>1. Init => FreshInv
    BY DEF Init, FreshInv
  <1>2. TypeOK /\ FreshInv /\ [Next]_vars => FreshInv'
    BY FreshStep
  <1>3. TypeOK /\ EarnedInv /\ FreshInv /\ JobsInv /\ EndInv /\ [Next]_vars => EndInv'
    BY EndStep
  <1>4. Spec => []JobsInv
    BY JobsInvHolds
  <1>5. Init => EarnedInv
    BY NoPassSound DEF Init, EarnedInv, Live
  <1>6. TypeOK /\ FreshInv /\ JobsInv /\ EndInv => JobsEndWithRun
    <2>. SUFFICES ASSUME TypeOK, FreshInv, JobsInv, EndInv, status.completedAt, NEW m \in Metric
                  PROVE  Cardinality(ActiveOf(jobs, m)) <= status.results[m].error + used.crashes
      BY DEF JobsEndWithRun, ActiveJobs
    <2>. DEFINE r == status.results[m]
    <2>1. /\ pc = "idle" /\ ~InFlight(m, r) /\ used.crashes \in Nat
      BY DEF FreshInv, EndInv, TypeOK
    <2>2. r \in MetricResult /\ r.error \in Nat /\ Taken(r) \in Nat
      BY PassResults, TakenType
    <2>3. CASE Provider[m] # "job"
      <3>1. ActiveOf(jobs, m) = {}
        BY <2>3 DEF ActiveOf, JobsInv, Numbered
      <3>. QED
        BY <2>1, <2>2, <3>1, FS_EmptySet
    <2>4. CASE Provider[m] = "job"
      <3>1. Accounts(jobs, m, r) /\ Numbered(jobs)
        BY <2>4 DEF JobsInv, AllAccount
      <3>2. \A j \in jobs : j.id \in Nat
        BY DEF TypeOK, Job
      <3>3. CASE Lost(jobs, m, r)
        <4>1. used.crashes > 0
          BY <2>1, <2>4, <3>3 DEF EndInv
        <4>2. /\ Cardinality(ActiveOf(jobs, m)) \in Nat
              /\ Cardinality(ActiveOf(jobs, m)) <= r.error + 1
          BY <2>2, <3>1, <3>2, ActiveBound
        <4>. QED
          BY <2>1, <2>2, <4>1, <4>2
      <3>4. CASE ~Lost(jobs, m, r)
        <4>1. \A j \in ActiveOf(jobs, m) : j.id <= Taken(r)
          BY <2>1, <2>2, <2>4, <3>1, <3>2, <3>4 DEF Lost, InFlight, Accounts, ActiveOf
        <4>2. ActiveOf(jobs, m) = {j \in ActiveOf(jobs, m) : j.id <= Taken(r)}
          BY <4>1
        <4>3. /\ IsFiniteSet(ActiveOf(jobs, m)) /\ Cardinality(ActiveOf(jobs, m)) <= r.error
          BY <3>1, <4>2, FS_Subset DEF Accounts, Numbered, ActiveOf
        <4>. QED
          BY <2>1, <2>2, <4>3, FS_CardinalityType
      <3>. QED
        BY <3>3, <3>4
    <2>. QED
      BY <2>3, <2>4
  <1>. QED
    BY <1>1, <1>2, <1>3, <1>4, <1>5, <1>6, InitEnd, EarnedStep, TypeCorrect, PTL DEF Spec
=============================================================================
