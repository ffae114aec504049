------------------------------ MODULE Experiment ------------------------------
(***************************************************************************)
(* The experiment controller (experiments/*.go): one worker reconciles one *)
(* Experiment.  A pass reads it and its ReplicaSets from the informers'    *)
(* stores, reconciles each template and each analysis, works out the phase *)
(* from the results and patches the status with what differs.              *)
(*                                                                         *)
(* Nothing writes that patch, or an object a pass creates, back to a       *)
(* store: the next pass may not see them yet.                              *)
(***************************************************************************)
EXTENDS Naturals, FiniteSets, Sequences

CONSTANTS
    Template,           \* spec.templates
    Serviced,           \* those that ask for a Service
    Analysis,           \* spec.analyses
    Replicas,           \* replicas of each template
    Settings,           \* the specs: duration, delay, required analyses
    MaxRuns,            \* bound: AnalysisRuns created for one analysis
    MaxFaults,          \* bound: API calls that fail, passes cut short
    MaxPodFailures,     \* bound: pods that stop being available
    MaxStale            \* bound: passes that read an old store

Setting == [duration : BOOLEAN, delay : BOOLEAN, required : SUBSET Analysis]

ASSUME SpecAssumption ==
    /\ Serviced \subseteq Template /\ Template # {} /\ IsFiniteSet(Template)
    /\ IsFiniteSet(Analysis) /\ Replicas \in Nat \ {0}
    /\ Settings # {} /\ Settings \subseteq Setting
ASSUME BoundAssumption ==
    /\ MaxRuns \in Nat \ {0} /\ MaxFaults \in Nat
    /\ MaxPodFailures \in Nat /\ MaxStale \in Nat

VARIABLES
    spec,       \* the setting, and spec.terminate
    status,     \* the Experiment's status
    rs,         \* the ReplicaSet of each template
    svc,        \* the templates that have their Service
    runs,       \* the AnalysisRuns of each analysis, by collision counter
    timeUp,     \* has spec.duration passed since status.availableAt?
    late,       \* templates whose progress deadline has passed since lastTransitionTime
    old,        \* what the stores may still lack: the last status, created objects
    pc,         \* "idle", "templates", "analyses" or "status"
    ctx,        \* the experimentContext: what was read, the new status
    used,       \* the part of each bound used so far
    ready       \* history: were all templates fully available at one moment?

vars == <<spec, status, rs, svc, runs, timeUp, late, old, pc, ctx, used, ready>>

-----------------------------------------------------------------------------
Bad == {"Inconclusive", "Error", "Failed"}
Outcome == {"Successful"} \cup Bad
Phase == {"none", "Pending", "Running"} \cup Outcome
Completed(phase) == phase \in Outcome

TemplateStatusCode == {"none", "Progressing", "Running", "Successful", "Error", "Failed"}
TemplateStatus == [status : TemplateStatusCode, available : Nat]
AnalysisStatus == [phase : Phase, run : 0..MaxRuns]     \* 0: no run is named
Status == [phase : Phase, availableAt : BOOLEAN,
           templates : [Template -> TemplateStatus],
           analyses : [Analysis -> AnalysisStatus]]
ReplicaSet == [exists : BOOLEAN, replicas : Nat, available : Nat,
               deadline : {"none", "pending", "passed"}]
Run == [phase : Phase, terminate : BOOLEAN]
Context == [status : Status, new : Status, terminate : BOOLEAN,
            rs : [Template -> ReplicaSet], svc : SUBSET Template,
            lag : {"none", "status", "replicaSets", "runs"},
            created : [rs : SUBSET Template, runs : SUBSET Analysis],
            touched : SUBSET Template, templates : SUBSET Template,
            analyses : SUBSET Analysis]

NoStatus == [phase |-> "none", availableAt |-> FALSE,
             templates |-> [t \in Template |-> [status |-> "none", available |-> 0]],
             analyses |-> [a \in Analysis |-> [phase |-> "none", run |-> 0]]]
NoReplicaSet == [exists |-> FALSE, replicas |-> 0, available |-> 0, deadline |-> "none"]
Nothing == [rs |-> {}, runs |-> {}]
NoContext == [status |-> NoStatus, new |-> NoStatus, terminate |-> FALSE,
              rs |-> [t \in Template |-> NoReplicaSet], svc |-> {}, lag |-> "none",
              created |-> Nothing, touched |-> {}, templates |-> {}, analyses |-> {}]

TypeOK ==
    /\ spec \in [duration : BOOLEAN, delay : BOOLEAN, required : SUBSET Analysis,
                 terminate : BOOLEAN]
    /\ status \in Status
    /\ rs \in [Template -> ReplicaSet] /\ svc \subseteq Template
    /\ runs \in [Analysis -> Seq(Run)] /\ \A a \in Analysis : Len(runs[a]) <= MaxRuns
    /\ timeUp \in BOOLEAN /\ late \subseteq Template
    /\ old \in [status : Status, rs : SUBSET Template, runs : SUBSET Analysis]
    /\ pc \in {"idle", "templates", "analyses", "status"}
    /\ ctx \in Context
    /\ used \in [faults : Nat, pods : Nat, stale : Nat] /\ ready \in BOOLEAN

-----------------------------------------------------------------------------
(* What a pass decides from the Experiment it reads.                       *)

\* Mutant: succeeds where no run is required.
RequiredAnalysisRunsSuccessful_OrNone(s) ==
    \A a \in spec.required : s.analyses[a].phase = "Successful"

RequiredAnalysisRunsSuccessful(s) ==
    /\ spec.required # {}
    /\ \A a \in spec.required : s.analyses[a].phase = "Successful"

\* Mutant: HasFinished is left out.
IsTerminating_NotFinished ==
    \/ ctx.terminate
    \/ \E t \in Template : ctx.status.templates[t].status \in {"Failed", "Error"}
    \/ \E a \in Analysis : ctx.status.analyses[a].phase \in Bad
    \/ RequiredAnalysisRunsSuccessful(ctx.status)

IsTerminating ==
    \/ ctx.terminate
    \/ Completed(ctx.status.phase)
    \/ \E t \in Template : ctx.status.templates[t].status \in {"Failed", "Error"}
    \/ \E a \in Analysis : ctx.status.analyses[a].phase \in Bad
    \/ RequiredAnalysisRunsSuccessful(ctx.status)

PassedDuration == spec.duration /\ ctx.status.availableAt /\ timeUp

TemplateCompleted(code) == code \in {"Successful", "Error", "Failed"}

CalculateTemplateReplicasCount(t) ==
    IF IsTerminating \/ TemplateCompleted(ctx.status.templates[t].status)
    THEN 0 ELSE Replicas

\* Mutant: a template that has all its pods waits for the termination.
AssessTemplate_NoDuration(t, sofar, available, touched) ==
    IF TemplateCompleted(sofar) THEN sofar
    ELSE IF available = CalculateTemplateReplicasCount(t)
    THEN IF IsTerminating THEN "Successful" ELSE "Running"
    ELSE IF t \in late /\ ~touched THEN "Failed"
    ELSE IF IsTerminating THEN "Successful" ELSE "Progressing"

\* The status of a template from what came of its calls (or "none"), the pods
\* that the pass sees and whether lastTransitionTime was set in this pass
AssessTemplate(t, sofar, available, touched) ==
    IF TemplateCompleted(sofar) THEN sofar
    ELSE IF available = CalculateTemplateReplicasCount(t)
    THEN IF PassedDuration \/ IsTerminating THEN "Successful" ELSE "Running"
    ELSE IF t \in late /\ ~touched THEN "Failed"
    ELSE IF IsTerminating THEN "Successful" ELSE "Progressing"

-----------------------------------------------------------------------------
(* The start of a pass.                                                    *)

\* spec.templates and spec.analyses are lists: some fixed order
FirstOf(left) == CHOOSE x \in left : TRUE

\* With no passes that read an old store, what the store lacks is not kept.
Superseded(view) == IF MaxStale = 0 THEN old ELSE view

\* One of the stores may lag behind: that of the Experiment by one patch, the
\* other two by what the last pass created.
SyncHandler ==
    \E lag \in {"none", "status", "replicaSets", "runs"} :
        LET read == IF lag = "status" THEN old.status ELSE status
            listed(t) == rs[t].exists /\ ~(lag = "replicaSets" /\ t \in old.rs)
        IN  /\ pc = "idle"
            /\ lag # "none" => /\ used.stale < MaxStale
                               /\ old # [status |-> status, rs |-> {}, runs |-> {}]
            /\ ctx' = [NoContext EXCEPT
                         !.status = read, !.new = read, !.terminate = spec.terminate,
                         !.rs = [t \in Template |-> IF listed(t) THEN rs[t] ELSE NoReplicaSet],
                         !.svc = svc, !.lag = lag,
                         !.templates = Template, !.analyses = Analysis]
            /\ pc' = "templates"
            /\ used' = [used EXCEPT !.stale = IF lag = "none" THEN @ ELSE @ + 1]
            /\ UNCHANGED <<spec, status, rs, svc, runs, timeUp, late, old, ready>>

-----------------------------------------------------------------------------
(* reconcileTemplate.  A record stands for what the calls made so far left *)
(* behind: the ReplicaSet and the Service, the ReplicaSet as the pass sees *)
(* it, whether the status is an error, how many calls failed, and whether  *)
(* the pass is lost.                                                       *)

\* A deadline is a time: it passes under a ReplicaSet that was read before.
Before(t) ==
    [rs |-> rs[t], svc |-> t \in svc,
     seen |-> IF ctx.rs[t].deadline = "none" THEN ctx.rs[t]
              ELSE [ctx.rs[t] EXCEPT !.deadline = rs[t].deadline],
     error |-> FALSE, touched |-> FALSE, created |-> FALSE, faults |-> 0, lost |-> FALSE]

Fault(o) == [o EXCEPT !.error = TRUE, !.faults = @ + 1]

NewReplicaSet == [exists |-> TRUE, replicas |-> 0, available |-> 0, deadline |-> "none"]

\* createReplicaSetForTemplate: without replicas.  One that exists is claimed
\* if the store has it by now, else the failed look-up is the error.
CreateReplicaSet(o) ==
    {Fault(o)} \cup
    IF o.rs.exists THEN {[o EXCEPT !.seen = o.rs, !.touched = TRUE], [o EXCEPT !.error = TRUE]}
    ELSE {[o EXCEPT !.rs = NewReplicaSet, !.seen = NewReplicaSet, !.touched = TRUE,
                    !.created = TRUE]}

\* createTemplateService
CreateService(t, o) ==
    IF t \in Serviced \ ctx.svc THEN {[o EXCEPT !.svc = TRUE], Fault(o)} ELSE {o}

\* deleteTemplateService
DeleteService(t, o) ==
    IF t \in Serviced \cap ctx.svc THEN {[o EXCEPT !.svc = FALSE], Fault(o)} ELSE {o}

\* addScaleDownDelayToTemplateRS: without an annotation, or without having
\* read it back, the pass goes on with the ReplicaSet as it was.
AddScaleDownDelay(o) ==
    LET annotated == [o.rs EXCEPT !.deadline = "pending"]
    IN  IF ~spec.delay \/ o.seen.deadline # "none" THEN {o}
        ELSE {[o EXCEPT !.rs = annotated, !.seen = annotated],
              [o EXCEPT !.faults = @ + 1],
              [o EXCEPT !.rs = annotated, !.faults = @ + 1]}

\* scaleTemplateRS, up: the fresh ReplicaSet is read first, and nothing is
\* there to be scaled if that fails.  A write in between makes the update a
\* conflict, which is no error and leaves the scaling to a later pass.
ScaleUp(o) ==
    LET up == [o EXCEPT !.touched = TRUE]
    IN  {[up EXCEPT !.lost = TRUE, !.faults = @ + 1]} \cup
        IF o.rs.replicas = Replicas THEN {up}
        ELSE {[up EXCEPT !.rs.replicas = Replicas], [up EXCEPT !.faults = @ + 1], Fault(up)}

\* Mutant: the deadline is not looked at.
ScaleDown_AtOnce(t, o) ==
    LET down == [o EXCEPT !.touched = TRUE]
    IN  {Fault(down)} \cup
        DeleteService(t, IF o.rs # o.seen THEN down ELSE [down EXCEPT !.rs.replicas = 0])

\* scaleTemplateRS, down: not before the deadline; a conflict is no error.
ScaleDown(t, o) ==
    LET down == [o EXCEPT !.touched = TRUE]
    IN  IF o.seen.deadline = "pending" THEN {down}
        ELSE {Fault(down)} \cup
             DeleteService(t, IF o.rs # o.seen THEN down ELSE [down EXCEPT !.rs.replicas = 0])

\* A new ReplicaSet, or one that is (not) to run on
Created(t) == CreateReplicaSet(Before(t))
KeptUp(t) ==
    UNION {IF o.seen.replicas = Replicas THEN {o} ELSE ScaleUp(o) : o \in CreateService(t, Before(t))}
TakenDown(t) ==
    UNION {IF o.seen.replicas = 0 THEN {o} ELSE ScaleDown(t, o) : o \in AddScaleDownDelay(Before(t))}

ReconcileTemplate(t) ==
    /\ pc = "templates" /\ t = FirstOf(ctx.templates)
    /\ \E o \in IF ~ctx.rs[t].exists THEN Created(t)
                ELSE IF CalculateTemplateReplicasCount(t) > 0 THEN KeptUp(t) ELSE TakenDown(t) :
        LET prev == ctx.status.templates[t]
            moved == o.touched \/ o.seen.available # prev.available
            code == AssessTemplate(t, IF o.error THEN "Error" ELSE prev.status,
                                   o.seen.available, moved)
            made == ctx.created.rs \cup IF o.created THEN {t} ELSE {}
            rest == ctx.templates \ {t}
        IN  /\ used.faults + o.faults <= MaxFaults
            /\ used' = [used EXCEPT !.faults = @ + o.faults]
            /\ rs' = [rs EXCEPT ![t] = o.rs]
            /\ svc' = IF o.svc THEN svc \cup {t} ELSE svc \ {t}
            /\ IF o.lost
               THEN /\ pc' = "idle" /\ ctx' = NoContext
                    /\ old' = Superseded([status |-> old.status, rs |-> made, runs |-> {}])
               ELSE /\ pc' = IF rest # {} THEN pc ELSE IF Analysis # {} THEN "analyses" ELSE "status"
                    /\ ctx' = [ctx EXCEPT
                          !.templates = rest, !.created.rs = made, !.rs[t] = NoReplicaSet,
                          !.new.templates[t] = [status |-> code, available |-> o.seen.available],
                          !.touched = IF moved THEN @ \cup {t} ELSE @]
                    /\ UNCHANGED old
    /\ UNCHANGED <<spec, status, runs, timeUp, late, ready>>

-----------------------------------------------------------------------------
(* reconcileAnalysisRun.                                                   *)

\* Mutant: a run of that name is not taken over.
CreatedRun_AlwaysNew(a) == Len(runs[a]) + 1

\* CreateWithCollisionCounter: the first name that is free, or whose run has
\* not finished: that one is taken for the one to create.
CreatedRun(a) ==
    CHOOSE i \in 1..Len(runs[a]) + 1 :
        /\ i <= Len(runs[a]) => ~Completed(runs[a][i].phase)
        /\ \A j \in 1..i - 1 : Completed(runs[a][j].phase)

\* What the pass leaves behind: the new status of the analysis, its runs, and
\* whether a call failed.
AnalysisOutcome(now, left, faults) == [status |-> now, runs |-> left, faults |-> faults]

\* Without runs the reconcile only looks for the AnalysisTemplate.
BeforeAvailable(a) ==
    LET now == ctx.status.analyses[a]
    IN  {AnalysisOutcome(now, runs[a], 0),
         AnalysisOutcome([now EXCEPT !.phase = "Error"], runs[a], 1)}

CreateAnalysisRun(a) ==
    LET now == ctx.status.analyses[a]
        i == CreatedRun(a)
        made == IF i > Len(runs[a]) THEN Append(runs[a], [phase |-> "none", terminate |-> FALSE])
                ELSE runs[a]
    IN  {AnalysisOutcome([now EXCEPT !.phase = "Error"], runs[a], 1)} \cup
        IF i > MaxRuns THEN {}
        ELSE {AnalysisOutcome([phase |-> "Pending", run |-> i], made, 0)}

\* TerminateRun: the phase of the run is no longer copied.
TerminateRun(a) ==
    LET now == ctx.status.analyses[a]
        run == runs[a][now.run]
    IN  IF Completed(run.phase) \/ run.terminate THEN {AnalysisOutcome(now, runs[a], 0)}
        ELSE {AnalysisOutcome(now, [runs[a] EXCEPT ![now.run].terminate = TRUE], 0),
              AnalysisOutcome([now EXCEPT !.phase = "Error"], runs[a], 1)}

AnalysisOutcomes(a) ==
    LET now == ctx.status.analyses[a]
        unchanged == {AnalysisOutcome(now, runs[a], 0)}
    IN  IF ~ctx.status.availableAt THEN BeforeAvailable(a)
        ELSE IF now.run = 0
        THEN IF IsTerminating THEN unchanged ELSE CreateAnalysisRun(a)
        ELSE IF Completed(now.phase) THEN unchanged
        ELSE IF ctx.lag = "runs" /\ a \in old.runs
        THEN {AnalysisOutcome([now EXCEPT !.phase = "Error"], runs[a], 0)}
        ELSE IF IsTerminating THEN TerminateRun(a)
        ELSE {AnalysisOutcome([now EXCEPT !.phase = runs[a][now.run].phase], runs[a], 0)}

ReconcileAnalysisRun(a) ==
    /\ pc = "analyses" /\ a = FirstOf(ctx.analyses)
    /\ \E o \in AnalysisOutcomes(a) :
        /\ used.faults + o.faults <= MaxFaults
        /\ used' = [used EXCEPT !.faults = @ + o.faults]
        /\ runs' = [runs EXCEPT ![a] = o.runs]
        /\ pc' = IF ctx.analyses = {a} THEN "status" ELSE pc
        /\ ctx' = [ctx EXCEPT !.analyses = @ \ {a}, !.new.analyses[a] = o.status,
                              !.created.runs = IF Len(o.runs) > Len(runs[a]) THEN @ \cup {a} ELSE @]
    /\ UNCHANGED <<spec, status, rs, svc, timeUp, late, old, ready>>

-----------------------------------------------------------------------------
(* calculateStatus and persistExperimentStatus.                            *)

Worst(order, phases, best) ==
    IF \E i \in DOMAIN order : order[i] \in phases
    THEN order[CHOOSE i \in DOMAIN order :
                    order[i] \in phases /\ \A j \in 1..i - 1 : order[j] \notin phases]
    ELSE best

\* Mutant: the template's code is not made a phase of the Experiment.
AssessTemplates_AsIs(new) ==
    Worst(<<"Failed", "Error", "Progressing", "Running">>,
          {new.templates[t].status : t \in Template}, "Successful")

\* Mutant: running as soon as one template runs.
AssessTemplates_OneRuns(new) ==
    LET worst == Worst(<<"Failed", "Error", "Running", "Progressing">>,
                       {new.templates[t].status : t \in Template}, "Successful")
    IN  IF worst = "Progressing" THEN "Pending" ELSE worst

AssessTemplates(new) ==
    LET worst == Worst(<<"Failed", "Error", "Progressing", "Running">>,
                       {new.templates[t].status : t \in Template}, "Successful")
    IN  IF worst = "Progressing" THEN "Pending" ELSE worst

\* The clause about required runs fires only where the worst is Successful.
AssessAnalysisRuns(new) ==
    LET worst == Worst(<<"Failed", "Error", "Inconclusive", "Pending", "Running">>,
                       {new.analyses[a].phase : a \in Analysis}, "Successful")
    IN  IF worst = "Pending" THEN "Running" ELSE worst

DecidedPhase(new) ==
    LET templates == AssessTemplates(new)
        analyses == AssessAnalysisRuns(new)
        deferred == templates = "Successful" /\ (Completed(analyses) \/ spec.required # {})
    IN  IF new.phase = "none" THEN "Pending"
        ELSE IF new.phase \notin {"Pending", "Running"} THEN new.phase
        ELSE IF Completed(templates) THEN IF deferred THEN analyses ELSE templates
        ELSE IF analyses \in Bad \/ RequiredAnalysisRunsSuccessful(new) THEN analyses
        ELSE templates

CalculateStatus ==
    [ctx.new EXCEPT
        !.phase = DecidedPhase(ctx.new),
        !.availableAt = \/ @
                        \/ /\ ctx.new.phase \in {"Pending", "Running"}
                           /\ AssessTemplates(ctx.new) = "Running"]

\* The patch names the fields that differ from what was read.
PersistExperimentStatus ==
    LET new == CalculateStatus
        read == ctx.status
        relisted == new.templates # read.templates \/ ctx.touched # {}
    IN  /\ pc = "status"
        /\ status' = [phase |-> IF new.phase # read.phase THEN new.phase ELSE status.phase,
                      availableAt |-> new.availableAt \/ status.availableAt,
                      templates |-> IF relisted THEN new.templates ELSE status.templates,
                      analyses |-> IF new.analyses # read.analyses THEN new.analyses
                                   ELSE status.analyses]
        /\ late' = late \ ctx.touched
        /\ timeUp' = (timeUp /\ ~(new.availableAt /\ ~read.availableAt))
        /\ old' = Superseded([status |-> status, rs |-> ctx.created.rs, runs |-> ctx.created.runs])
        /\ pc' = "idle" /\ ctx' = NoContext
        /\ UNCHANGED <<spec, rs, svc, runs, used, ready>>

\* The controller stops or loses its lease, or the patch fails.
ReconcileLost ==
    /\ pc # "idle" /\ used.faults < MaxFaults
    /\ pc' = "idle" /\ ctx' = NoContext
    /\ old' = Superseded([status |-> old.status, rs |-> ctx.created.rs,
                          runs |-> ctx.created.runs])
    /\ used' = [used EXCEPT !.faults = @ + 1]
    /\ UNCHANGED <<spec, status, rs, svc, runs, timeUp, late, ready>>

-----------------------------------------------------------------------------
(* The clock, the pods, the AnalysisRuns and the user.  What no longer     *)
(* matters to an Experiment that is over, or to pods that go, is left out. *)

DurationPasses ==
    /\ spec.duration /\ status.availableAt /\ ~timeUp /\ ~Completed(status.phase)
    /\ timeUp' = TRUE
    /\ UNCHANGED <<spec, status, rs, svc, runs, late, old, pc, ctx, used, ready>>

\* It only matters to a template that has not the pods it should have.
ProgressDeadlinePasses(t) ==
    /\ t \notin late /\ ~(rs[t].available = Replicas /\ rs[t].replicas = Replicas)
    /\ status.templates[t].status \in {"Progressing", "Running"}
    /\ late' = late \cup {t}
    /\ UNCHANGED <<spec, status, rs, svc, runs, timeUp, old, pc, ctx, used, ready>>

ScaleDownDeadlinePasses(t) ==
    /\ rs[t].deadline = "pending"
    /\ rs' = [rs EXCEPT ![t].deadline = "passed"]
    /\ UNCHANGED <<spec, status, svc, runs, timeUp, late, old, pc, ctx, used, ready>>

PodBecomesAvailable(t) ==
    /\ rs[t].available < rs[t].replicas
    /\ rs' = [rs EXCEPT ![t].available = @ + 1]
    /\ ready' = (ready \/ \A u \in Template : rs'[u].available = Replicas)
    /\ UNCHANGED <<spec, status, svc, runs, timeUp, late, old, pc, ctx, used>>

SurplusPodsDeleted(t) ==
    /\ rs[t].available > rs[t].replicas
    /\ rs' = [rs EXCEPT ![t].available = rs[t].replicas]
    /\ UNCHANGED <<spec, status, svc, runs, timeUp, late, old, pc, ctx, used, ready>>

PodFails(t) ==
    /\ rs[t].available > 0 /\ rs[t].replicas > 0 /\ used.pods < MaxPodFailures
    /\ rs' = [rs EXCEPT ![t].available = @ - 1]
    /\ used' = [used EXCEPT !.pods = @ + 1]
    /\ UNCHANGED <<spec, status, svc, runs, timeUp, late, old, pc, ctx, ready>>

RunMoves(a, i, phase) ==
    /\ i \in DOMAIN runs[a] /\ ~Completed(runs[a][i].phase)
    /\ runs' = [runs EXCEPT ![a][i].phase = phase]
    /\ UNCHANGED <<spec, status, rs, svc, timeUp, late, old, pc, ctx, used, ready>>

RunStarts(a, i) ==
    /\ i \in DOMAIN runs[a] /\ runs[a][i].phase = "none"
    /\ RunMoves(a, i, "Running")

RunEnds(a, i) == \E outcome \in Outcome : RunMoves(a, i, outcome)

TerminatedRunEnds(a, i) ==
    i \in DOMAIN runs[a] /\ runs[a][i].terminate /\ RunEnds(a, i)

\* The user, or the Rollout that owns the Experiment
Terminate ==
    /\ ~spec.terminate /\ ~Completed(status.phase)
    /\ spec' = [spec EXCEPT !.terminate = TRUE]
    /\ UNCHANGED <<status, rs, svc, runs, timeUp, late, old, pc, ctx, used, ready>>

-----------------------------------------------------------------------------
Init ==
    /\ \E s \in Settings :
          spec = [duration |-> s.duration, delay |-> s.delay, required |-> s.required,
                  terminate |-> FALSE]
    /\ status = NoStatus
    /\ rs = [t \in Template |-> NoReplicaSet] /\ svc = {}
    /\ runs = [a \in Analysis |-> <<>>]
    /\ timeUp = FALSE /\ late = {}
    /\ old = [status |-> NoStatus, rs |-> {}, runs |-> {}]
    /\ pc = "idle" /\ ctx = NoContext
    /\ used = [faults |-> 0, pods |-> 0, stale |-> 0]
    /\ ready = FALSE

Reconcile ==
    \/ SyncHandler \/ PersistExperimentStatus
    \/ \E t \in Template : ReconcileTemplate(t)
    \/ \E a \in Analysis : ReconcileAnalysisRun(a)

Deadlines ==
    \/ DurationPasses
    \/ \E t \in Template : ProgressDeadlinePasses(t) \/ ScaleDownDeadlinePasses(t)

Next ==
    \/ Reconcile \/ ReconcileLost \/ Deadlines \/ Terminate
    \/ \E t \in Template : PodBecomesAvailable(t) \/ SurplusPodsDeleted(t) \/ PodFails(t)
    \/ \E a \in Analysis, i \in 1..MaxRuns : RunStarts(a, i) \/ RunEnds(a, i)

Spec == Init /\ [][Next]_vars

\* The workqueue brings the Experiment back after a change of an object, a
\* failed pass or a resync; time passes, and Kubernetes deletes surplus pods.
\* An AnalysisRun that is terminated ends; pods need not become available.
FairSpec ==
    /\ Spec
    /\ WF_vars(Reconcile)
    /\ WF_vars(DurationPasses)
    /\ \A t \in Template : WF_vars(ProgressDeadlinePasses(t)) /\ WF_vars(ScaleDownDeadlinePasses(t))
                           /\ WF_vars(SurplusPodsDeleted(t))
    /\ \A a \in Analysis, i \in 1..MaxRuns : WF_vars(TerminatedRunEnds(a, i))

=============================================================================
