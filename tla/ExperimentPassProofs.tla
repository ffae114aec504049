-------------------------- MODULE ExperimentPassProofs --------------------------
(***************************************************************************)
(* No analysis of an Experiment starts before all its templates were fully *)
(* available at one moment, for every list of templates and analyses, and  *)
(* any number of calls that fail, pods that fail and passes that read an   *)
(* old store.  status.availableAt, which lets the analyses start, is set   *)
(* from what a pass made of each template in turn: AssessedHold says what  *)
(* a code may stand for, AvailabilityKnown that every trace of a complete  *)
(* Experiment goes back to one.  And a template that has a scale-down      *)
(* delay gives up its pods only when the delay has passed or a call failed *)
(* in that very pass, whatever the pass read.                              *)
(*                                                                         *)
(* Last, the phase an Experiment ends in is earned, where every pass reads *)
(* what the one before it wrote.                                           *)
(***************************************************************************)
EXTENDS ExperimentProofs

LEMMA InitAvailability == Init => AvailabilityInv
<1> SUFFICES ASSUME Init PROVE AvailabilityInv
  OBVIOUS
<1>1. pc = "idle" /\ status = NoStatus /\ old.status = NoStatus
  BY DEF Init
<1>2. ctx.status = NoStatus /\ ctx.new = NoStatus
  BY NothingType DEF Init
<1>3. AssessedHold
  BY <1>1 DEF AssessedHold
<1>4. \E t \in Template : rs[t].available # Replicas
  <2>1. PICK t \in Template : TRUE
    BY SpecAssumption
  <2>2. rs[t].available = 0 /\ Replicas # 0
    BY NothingType, SpecAssumption DEF Init
  <2> QED
    BY <2>2
<1>5. AllDone(NoStatus) /\ ~NoStatus.availableAt
  <2>1. \A t \in Template : NoStatus.templates[t].status # "Successful"
    BY NothingType
  <2> QED
    BY <2>1, NothingType DEF AllDone
<1>6. AvailabilityKnown
  BY <1>1, <1>2, <1>4, <1>5 DEF AvailabilityKnown
<1>7. RunsAfterAvailability
  BY DEF Init, RunsAfterAvailability
<1> QED
  BY <1>3, <1>6, <1>7 DEF AvailabilityInv

(* A pass ends or is lost, and nothing was learned.                        *)
LEMMA IdleAvailability ==
    ASSUME AvailabilityInv, pc' = "idle", ctx' = NoContext,
           UNCHANGED <<runs, ready>>,
           \A t \in Template : rs'[t].available = Replicas => rs[t].available = Replicas,
           old'.status \in {status, old.status},
           status'.availableAt => ready,
           ready \/ AllDone(status')
    PROVE  AvailabilityInv'
<1>1. AssessedHold'
  BY DEF AssessedHold
<1>2. ctx'.status = NoStatus /\ ctx'.new = NoStatus
  BY NothingType
<1>3. AllDone(NoStatus) /\ ~NoStatus.availableAt
  <2>1. \A t \in Template : NoStatus.templates[t].status # "Successful"
    BY NothingType
  <2> QED
    BY <2>1, NothingType DEF AllDone
<1>4. old'.status.availableAt => ready
  BY DEF AvailabilityInv, AvailabilityKnown
<1>5. ready \/ AllDone(old'.status)
  BY DEF AvailabilityInv, AvailabilityKnown
<1>6. (\A t \in Template : rs'[t].available = Replicas) => ready
  BY DEF AvailabilityInv, AvailabilityKnown
<1>7. AvailabilityKnown'
  BY <1>2, <1>3, <1>4, <1>5, <1>6 DEF AvailabilityKnown, AllDone
<1>8. RunsAfterAvailability'
  BY DEF AvailabilityInv, RunsAfterAvailability
<1> QED
  BY <1>1, <1>7, <1>8 DEF AvailabilityInv

(* A pass that sees all templates available reads the ReplicaSets as they  *)
(* are.                                                                    *)
LEMMA SyncAvailability ==
    ASSUME TypeOK, ObjectsInv, AvailabilityInv, SyncHandler
    PROVE  AvailabilityInv'
<1>1. PICK lag \in {"none", "status", "replicaSets", "runs"} :
        LET read == IF lag = "status" THEN old.status ELSE status
            listed(t) == rs[t].exists /\ ~(lag = "replicaSets" /\ t \in old.rs)
        IN  /\ ctx' = [NoContext EXCEPT
                         !.status = read, !.new = read, !.terminate = spec.terminate,
                         !.rs = [t \in Template |-> IF listed(t) THEN rs[t] ELSE NoReplicaSet],
                         !.svc = svc, !.lag = lag,
                         !.templates = Template, !.analyses = Analysis]
            /\ pc' = "templates"
            /\ UNCHANGED <<spec, status, rs, svc, runs, timeUp, late, old, ready>>
  BY DEF SyncHandler
<1> DEFINE read == IF lag = "status" THEN old.status ELSE status
           listed(t) == rs[t].exists /\ ~(lag = "replicaSets" /\ t \in old.rs)
           rr == [t \in Template |-> IF listed(t) THEN rs[t] ELSE NoReplicaSet]
<1>2. ctx' = [NoContext EXCEPT
                !.status = read, !.new = read, !.terminate = spec.terminate, !.rs = rr,
                !.svc = svc, !.lag = lag, !.templates = Template, !.analyses = Analysis]
  BY <1>1
<1>3. read \in {status, old.status}
  OBVIOUS
<1>4. \A t \in Template : rr[t] \in {rs[t], NoReplicaSet}
  OBVIOUS
<1> HIDE DEF read, listed, rr
<1>5. ctx'.status = read /\ ctx'.new = read
  BY <1>2, NothingType, SMT DEF Context
<1>6. ctx'.templates = Template
  BY <1>2, NothingType, SMT DEF Context
<1>7. ctx'.rs = rr
  BY <1>2, NothingType, SMT DEF Context
<1>8. \A t \in Template : rr[t].available = Replicas => rs[t].available = Replicas
  BY <1>4, NothingType, SpecAssumption
<1>9. AssessedHold'
  BY <1>6 DEF AssessedHold
<1>10. UNCHANGED <<status, rs, runs, old, ready>>
  BY <1>1
<1>11. (\A t \in Template : rr[t].available = Replicas) => ready
  BY <1>8 DEF AvailabilityInv, AvailabilityKnown
<1>12. AvailabilityKnown'
  BY <1>3, <1>5, <1>6, <1>7, <1>10, <1>11 DEF AvailabilityInv, AvailabilityKnown, AllDone
<1>13. RunsAfterAvailability'
  BY <1>10 DEF AvailabilityInv, RunsAfterAvailability
<1> QED
  BY <1>9, <1>12, <1>13 DEF AvailabilityInv

(* What AssessTemplate makes of a template                                 *)
LEMMA SeenStatusHolds ==
    ASSUME TypeOK, ObjectsInv, AvailabilityInv, pc = "templates",
           NEW t \in ctx.templates, t \in Template, NEW o \in TemplateOutcomes(t),
           ctx.rs[t].exists => rs[t].exists
    PROVE  LET code == SeenStatus(t, o).status
               read == ctx.status.templates[t].status
           IN  /\ code # "none"
               /\ code = "Running" => SeenStatus(t, o).available = Replicas
               /\ TemplateCompleted(read) \/ IsTerminating => TemplateCompleted(code)
               /\ code = "Successful" => ready \/ IsTerminating \/ read = "Successful"
               /\ code = "Running" => ctx.rs[t].available = Replicas
<1> DEFINE read == ctx.status.templates[t].status
           sofar == IF o.error THEN "Error" ELSE read
           moved == o.touched \/ o.seen.available # ctx.status.templates[t].available
           code == AssessTemplate(t, sofar, o.seen.available, moved)
<1>1. SeenStatus(t, o).status = code /\ SeenStatus(t, o).available = o.seen.available
  BY DEF SeenStatus
<1>2. TemplateCompleted(sofar) => code = sofar
  BY DEF AssessTemplate
<1>3. TemplateCompleted(sofar) <=> o.error \/ TemplateCompleted(read)
  BY DEF TemplateCompleted
<1>4. ~TemplateCompleted(sofar) =>
         /\ code \in {"Successful", "Running", "Failed", "Progressing"}
         /\ IsTerminating => TemplateCompleted(code)
         /\ code = "Successful" => PassedDuration \/ IsTerminating
         /\ code = "Running" => /\ o.seen.available = CalculateTemplateReplicasCount(t)
                                /\ ~IsTerminating
  BY DEF AssessTemplate, TemplateCompleted
<1>5. PassedDuration => ready
  BY DEF PassedDuration, AvailabilityInv, AvailabilityKnown
<1>6. code # "none"
  BY <1>2, <1>4 DEF TemplateCompleted
<1>7. TemplateCompleted(read) \/ IsTerminating => TemplateCompleted(code)
  BY <1>2, <1>3, <1>4
<1>8. code = "Successful" => ready \/ IsTerminating \/ read = "Successful"
  BY <1>2, <1>4, <1>5
<1>9. ASSUME code = "Running"
      PROVE  o.seen.available = Replicas /\ ctx.rs[t].available = Replicas
  <2>1. ~TemplateCompleted(sofar)
    BY <1>2, <1>9 DEF TemplateCompleted
  <2>2. CalculateTemplateReplicasCount(t) = Replicas
    BY <1>3, <1>4, <1>9, <2>1 DEF CalculateTemplateReplicasCount
  <2>3. o.seen.available = Replicas
    BY <1>4, <1>9, <2>1, <2>2
  <2>4. Replicas > 0 /\ Replicas # 0
    BY SpecAssumption, SMT
  <2>5. CASE ctx.rs[t].exists
    BY <2>2, <2>3, <2>4, <2>5, OutcomeType
  <2>6. CASE ~ctx.rs[t].exists
    <3>1. o.seen.available \in {0, rs[t].available, ctx.rs[t].available}
      BY <2>6, OutcomeType
    <3>2. rs[t].available = 0 /\ ctx.rs[t].available = 0
      BY <2>6 DEF ObjectsInv, ReplicaSetsHold, Empty
    <3> QED
      BY <2>3, <2>4, <3>1, <3>2
  <2> QED
    BY <2>5, <2>6
<1> HIDE DEF code
<1> QED
  BY <1>1, <1>6, <1>7, <1>8, <1>9

LEMMA TemplateAvailability ==
    ASSUME TypeOK, ObjectsInv, AvailabilityInv, NEW t \in Template, ReconcileTemplate(t)
    PROVE  AvailabilityInv'
<1>1. /\ pc = "templates" /\ t \in ctx.templates
      /\ ctx.rs[t].exists => rs[t].exists
  BY TemplateStep
<1>2. PICK o \in TemplateOutcomes(t), made \in SUBSET Template :
        /\ Follows(t, o)
        /\ made = ctx.created.rs \cup (IF o.created THEN {t} ELSE {})
        /\ rs' = [rs EXCEPT ![t] = o.rs]
        /\ rs' \in [Template -> ReplicaSet] /\ svc' \subseteq Template
        /\ used' \in [faults : Nat, pods : Nat, stale : Nat]
        /\ used'.faults = used.faults + o.faults
        /\ UNCHANGED <<spec, status, runs, timeUp, late, ready>>
        /\ \/ /\ o.lost /\ pc' = "idle" /\ ctx' = NoContext
              /\ old' = Superseded([status |-> old.status, rs |-> made, runs |-> {}])
           \/ /\ ~o.lost /\ old' = old
              /\ pc' \in {"idle", "templates", "analyses", "status"} \ {"idle"}
              /\ pc' = "templates" <=> ctx.templates \ {t} # {}
              /\ ctx' \in Context
              /\ ctx'.templates = ctx.templates \ {t}
              /\ ctx'.created.rs = made
              /\ ctx'.status = ctx.status /\ ctx'.terminate = ctx.terminate
              /\ ctx'.rs = [ctx.rs EXCEPT ![t] = NoReplicaSet]
              /\ ctx'.lag = ctx.lag /\ ctx'.new.phase = ctx.new.phase
              /\ ctx'.new.availableAt = ctx.new.availableAt
              /\ ctx'.new.analyses = ctx.new.analyses
              /\ ctx'.new.templates = [ctx.new.templates EXCEPT ![t] = SeenStatus(t, o)]
  BY TemplateStep
<1>3. \A u \in Template : rs'[u].available = Replicas => rs[u].available = Replicas
  <2>1. \A u \in Template : u # t => rs'[u] = rs[u]
    BY <1>2 DEF TypeOK
  <2>2. rs'[t] = o.rs
    BY <1>2 DEF TypeOK
  <2>3. o.rs.available = rs[t].available \/ o.rs.available = 0
    BY <1>2 DEF Follows, Empty
  <2> QED
    BY <2>1, <2>2, <2>3, SpecAssumption
<1>4. CASE o.lost
  <2> DEFINE v == [status |-> old.status, rs |-> made, runs |-> {}]
  <2>1. v.status = old.status /\ old' = Superseded(v)
    BY <1>2, <1>4
  <2> HIDE DEF v
  <2>2. old'.status = old.status
    BY <2>1 DEF Superseded
  <2>3. (status'.availableAt => ready) /\ (ready \/ AllDone(status'))
    BY <1>2 DEF AvailabilityInv, AvailabilityKnown
  <2>4. /\ pc' = "idle" /\ ctx' = NoContext
        /\ UNCHANGED <<runs, ready>>
    BY <1>2, <1>4
  <2> QED
    BY <1>3, <2>2, <2>3, <2>4, IdleAvailability
<1>5. CASE ~o.lost
  <2>1. /\ old' = old /\ pc' # "idle"
        /\ ctx'.templates = ctx.templates \ {t}
        /\ ctx'.status = ctx.status /\ ctx'.terminate = ctx.terminate
        /\ ctx'.rs = [ctx.rs EXCEPT ![t] = NoReplicaSet]
        /\ ctx'.new.availableAt = ctx.new.availableAt
        /\ ctx'.new.templates = [ctx.new.templates EXCEPT ![t] = SeenStatus(t, o)]
        /\ UNCHANGED <<spec, status, runs, ready>>
    BY <1>2, <1>5
  <2>2. /\ ctx.new.templates \in [Template -> TemplateStatus]
        /\ ctx.rs \in [Template -> ReplicaSet] /\ ctx.templates \subseteq Template
    BY SMT DEF TypeOK, Context, Status
  <2>3. /\ \A u \in Template : u # t => ctx'.new.templates[u] = ctx.new.templates[u]
        /\ ctx'.new.templates[t] = SeenStatus(t, o)
        /\ \A u \in Template : u # t => ctx'.rs[u] = ctx.rs[u]
    BY <2>1, <2>2
  <2>4. IsTerminating' <=> IsTerminating
    BY <2>1 DEF IsTerminating, RequiredAnalysisRunsSuccessful
  <2>5. LET code == SeenStatus(t, o).status
            read == ctx.status.templates[t].status
        IN  /\ code # "none"
            /\ code = "Running" => SeenStatus(t, o).available = Replicas
            /\ TemplateCompleted(read) \/ IsTerminating => TemplateCompleted(code)
            /\ code = "Successful" => ready \/ IsTerminating \/ read = "Successful"
            /\ code = "Running" => ctx.rs[t].available = Replicas
    BY <1>1, SeenStatusHolds
  <2>6. AssessedHold'
    <3>1. SUFFICES ASSUME NEW u \in Template \ ctx'.templates
                   PROVE  LET code == ctx'.new.templates[u].status
                              read == ctx'.status.templates[u].status
                          IN  /\ code # "none"
                              /\ code = "Running" => ctx'.new.templates[u].available = Replicas
                              /\ TemplateCompleted(read) \/ IsTerminating' => TemplateCompleted(code)
                              /\ code = "Successful" => ready' \/ IsTerminating' \/ read = "Successful"
      BY DEF AssessedHold, TemplateCompleted
    <3>2. CASE u = t
      BY <2>1, <2>3, <2>4, <2>5, <3>2
    <3>3. CASE u # t
      <4>1. u \in Template \ ctx.templates
        BY <2>1, <3>3
      <4>2. ctx'.new.templates[u] = ctx.new.templates[u]
        BY <2>3, <3>3
      <4> QED
        BY <1>1, <2>1, <2>4, <4>1, <4>2 DEF AvailabilityInv, AssessedHold
    <3> QED
      BY <3>2, <3>3
  <2>7. ASSUME \A u \in Template :
                  IF u \in ctx'.templates THEN ctx'.rs[u].available = Replicas
                  ELSE /\ ctx'.new.templates[u].status = "Running"
                       /\ ctx'.new.templates[u].available = Replicas
        PROVE  ready
    <3>1. ctx.rs[t].available = Replicas
      BY <2>1, <2>3, <2>5, <2>7
    <3>2. \A u \in Template :
             IF u \in ctx.templates THEN ctx.rs[u].available = Replicas
             ELSE /\ ctx.new.templates[u].status = "Running"
                  /\ ctx.new.templates[u].available = Replicas
      BY <1>1, <2>1, <2>3, <2>7, <3>1
    <3> QED
      BY <1>1, <3>2 DEF AvailabilityInv, AvailabilityKnown
  <2>8. AvailabilityKnown'
    <3>1. (\A u \in Template : rs'[u].available = Replicas) => ready
      BY <1>3 DEF AvailabilityInv, AvailabilityKnown
    <3>2. \A s \in {status', old'.status, ctx'.status, ctx'.new} : s.availableAt => ready
      BY <2>1 DEF AvailabilityInv, AvailabilityKnown
    <3>3. \A s \in {status', old'.status, ctx'.status} : ready \/ AllDone(s)
      BY <2>1 DEF AvailabilityInv, AvailabilityKnown
    <3> QED
      BY <2>1, <2>7, <3>1, <3>2, <3>3 DEF AvailabilityKnown, AllDone
  <2>9. RunsAfterAvailability'
    BY <2>1 DEF AvailabilityInv, RunsAfterAvailability
  <2> QED
    BY <2>6, <2>8, <2>9 DEF AvailabilityInv
<1> QED
  BY <1>4, <1>5

(* A run is created only by a pass that read availableAt.                  *)
LEMMA AnalysisAvailability ==
    ASSUME TypeOK, ObjectsInv, AvailabilityInv, NEW a \in Analysis, ReconcileAnalysisRun(a)
    PROVE  AvailabilityInv'
<1>1. PICK o \in AnalysisOutcomes(a) :
        /\ pc = "analyses" /\ pc' \in {"analyses", "status"}
        /\ Sound(a, o) /\ runs' = [runs EXCEPT ![a] = o.runs]
        /\ UNCHANGED <<spec, status, rs, svc, timeUp, late, old, ready>>
        /\ ctx'.status = ctx.status /\ ctx'.terminate = ctx.terminate
        /\ ctx'.rs = ctx.rs /\ ctx'.templates = ctx.templates
        /\ ctx'.new.availableAt = ctx.new.availableAt
        /\ ctx'.new.templates = ctx.new.templates
  BY AnalysisStep
<1>2. IsTerminating' <=> IsTerminating
  BY <1>1 DEF IsTerminating, RequiredAnalysisRunsSuccessful
<1>3. AssessedHold'
  BY <1>1, <1>2 DEF AvailabilityInv, AssessedHold, TemplateCompleted
<1>4. AvailabilityKnown'
  BY <1>1 DEF AvailabilityInv, AvailabilityKnown, AllDone
<1>5. RunsAfterAvailability'
  <2>1. ctx.status.availableAt => ready
    BY DEF AvailabilityInv, AvailabilityKnown
  <2>2. o.runs # << >> => ready
    BY <1>1, <2>1 DEF AvailabilityInv, RunsAfterAvailability, Sound
  <2>3. \A b \in Analysis : runs'[b] # << >> => runs[b] # << >> \/ o.runs # << >>
    BY <1>1 DEF TypeOK
  <2> QED
    BY <1>1, <2>2, <2>3 DEF AvailabilityInv, RunsAfterAvailability
<1> QED
  BY <1>3, <1>4, <1>5 DEF AvailabilityInv

(* calculateStatus sets availableAt where every template runs or is done.  *)
LEMMA PersistAvailability ==
    ASSUME TypeOK, ObjectsInv, AvailabilityInv, PersistExperimentStatus
    PROVE  AvailabilityInv'
<1> DEFINE code(t) == ctx.new.templates[t].status
           read(t) == ctx.status.templates[t].status
<1>1. /\ pc = "status" /\ pc' = "idle" /\ ctx' = NoContext
      /\ status'.availableAt =>
            \/ status.availableAt \/ ctx.new.availableAt
            \/ AssessTemplates(ctx.new) = "Running"
      /\ status'.templates = status.templates \/ status'.templates = ctx.new.templates
      /\ old' = Superseded([status |-> status, rs |-> ctx.created.rs,
                            runs |-> ctx.created.runs])
      /\ UNCHANGED <<rs, runs, ready>>
  BY PersistStep
<1>2. ctx.templates = {}
  BY <1>1 DEF ObjectsInv, PassInTurn
<1>3. \A t \in Template :
         /\ code(t) # "none"
         /\ code(t) = "Running" => ctx.new.templates[t].available = Replicas
         /\ TemplateCompleted(read(t)) \/ IsTerminating => TemplateCompleted(code(t))
         /\ code(t) = "Successful" => ready \/ IsTerminating \/ read(t) = "Successful"
  BY <1>1, <1>2 DEF AvailabilityInv, AssessedHold
<1>4. ready \/ AllDone(ctx.status)
  BY DEF AvailabilityInv, AvailabilityKnown
<1>5. ready \/ AllDone(ctx.new)
  BY <1>3, <1>4 DEF AllDone
<1>6. ASSUME AssessTemplates(ctx.new) = "Running" PROVE ready
  <2> DEFINE codes == {ctx.new.templates[t].status : t \in Template}
             worst == Worst(<<"Failed", "Error", "Progressing", "Running">>, codes, "Successful")
  <2>1. worst = IF "Failed" \in codes THEN "Failed" ELSE IF "Error" \in codes THEN "Error"
                ELSE IF "Progressing" \in codes THEN "Progressing"
                ELSE IF "Running" \in codes THEN "Running" ELSE "Successful"
    BY WorstOfFour
  <2>2. worst = "Running"
    BY <1>6 DEF AssessTemplates
  <2> HIDE DEF worst
  <2>3. /\ "Failed" \notin codes /\ "Error" \notin codes /\ "Progressing" \notin codes
        /\ "Running" \in codes
    BY <2>1, <2>2
  <2>4. PICK v \in Template : code(v) = "Running"
    BY <2>3
  <2>5. ~TemplateCompleted(code(v))
    BY <2>4 DEF TemplateCompleted
  <2>6. \A t \in Template : code(t) \in {"Running", "Successful"}
    <3>1. \A t \in Template : code(t) \in TemplateStatusCode
      BY SMT DEF TypeOK, Context, Status, TemplateStatus
    <3> QED
      BY <1>3, <2>3, <3>1 DEF TemplateStatusCode
  <2>7. CASE \E u \in Template : code(u) = "Successful"
    BY <1>5, <2>5, <2>7 DEF AllDone
  <2>8. CASE \A u \in Template : code(u) = "Running"
    BY <1>1, <1>2, <1>3, <2>8 DEF AvailabilityInv, AvailabilityKnown
  <2> QED
    BY <2>6, <2>7, <2>8
<1>7. status'.availableAt => ready
  BY <1>1, <1>6 DEF AvailabilityInv, AvailabilityKnown
<1>8. ready \/ AllDone(status')
  BY <1>1, <1>5 DEF AvailabilityInv, AvailabilityKnown, AllDone
<1>9. old'.status \in {status, old.status}
  <2> DEFINE v == [status |-> status, rs |-> ctx.created.rs, runs |-> ctx.created.runs]
  <2>1. v.status = status /\ old' = Superseded(v)
    BY <1>1
  <2> HIDE DEF v
  <2> QED
    BY <2>1 DEF Superseded
<1> QED
  BY <1>1, <1>7, <1>8, <1>9, IdleAvailability

LEMMA LostAvailability ==
    ASSUME TypeOK, ObjectsInv, AvailabilityInv, ReconcileLost
    PROVE  AvailabilityInv'
<1> DEFINE v == [status |-> old.status, rs |-> ctx.created.rs, runs |-> ctx.created.runs]
<1>1. /\ pc' = "idle" /\ ctx' = NoContext /\ old' = Superseded(v) /\ v.status = old.status
      /\ UNCHANGED <<status, rs, runs, ready>>
  BY DEF ReconcileLost
<1> HIDE DEF v
<1>2. old'.status \in {status, old.status}
  BY <1>1 DEF Superseded
<1>3. (status'.availableAt => ready) /\ (ready \/ AllDone(status'))
  BY <1>1 DEF AvailabilityInv, AvailabilityKnown
<1> QED
  BY <1>1, <1>2, <1>3, IdleAvailability

(* Nothing but a pod that becomes available makes a template available.    *)
LEMMA PodAvailability ==
    ASSUME TypeOK, ObjectsInv, AvailabilityInv, NEW t \in Template, PodStep(t)
    PROVE  AvailabilityInv'
<1>1. PICK r \in ReplicaSet :
        /\ rs' = [rs EXCEPT ![t] = r] /\ r.available <= Replicas /\ r.available \in Nat
        /\ r.available > rs[t].available => PodBecomesAvailable(t)
  BY PodChange
<1>2. /\ UNCHANGED <<spec, status, svc, runs, timeUp, late, old, pc, ctx>>
      /\ ready' = ready \/ PodBecomesAvailable(t)
  BY PodChange
<1>3. ready => ready'
  BY <1>2 DEF PodBecomesAvailable
<1>4. (\A u \in Template : rs'[u].available = Replicas) => ready'
  <2>1. CASE PodBecomesAvailable(t)
    BY <2>1 DEF PodBecomesAvailable
  <2>2. CASE ~PodBecomesAvailable(t)
    <3>1. rs[t].available \in Nat /\ rs[t].available <= Replicas /\ Replicas \in Nat
      BY ReplicaSetFields
    <3>2. r.available = Replicas => rs[t].available = Replicas
      BY <1>1, <2>2, <3>1, SMT
    <3>3. rs'[t] = r /\ \A u \in Template : u # t => rs'[u] = rs[u]
      BY <1>1 DEF TypeOK
    <3> QED
      BY <1>2, <2>2, <3>2, <3>3 DEF AvailabilityInv, AvailabilityKnown
  <2> QED
    BY <2>1, <2>2
<1>5. IsTerminating' <=> IsTerminating
  BY <1>2 DEF IsTerminating, RequiredAnalysisRunsSuccessful
<1>6. AssessedHold'
  BY <1>2, <1>3, <1>5 DEF AvailabilityInv, AssessedHold, TemplateCompleted
<1>7. AvailabilityKnown'
  BY <1>2, <1>3, <1>4 DEF AvailabilityInv, AvailabilityKnown, AllDone
<1>8. RunsAfterAvailability'
  BY <1>2, <1>3 DEF AvailabilityInv, RunsAfterAvailability
<1> QED
  BY <1>6, <1>7, <1>8 DEF AvailabilityInv

(* The clock, the user and the runs themselves make no run.                *)
LEMMA OtherAvailability ==
    ASSUME TypeOK, ObjectsInv, AvailabilityInv, spec'.required = spec.required,
           UNCHANGED <<status, rs, old, pc, ctx, ready>>,
           \A a \in Analysis : runs'[a] # << >> => runs[a] # << >>
    PROVE  AvailabilityInv'
<1>1. IsTerminating' <=> IsTerminating
  BY DEF IsTerminating, RequiredAnalysisRunsSuccessful
<1>2. AssessedHold'
  BY <1>1 DEF AvailabilityInv, AssessedHold, TemplateCompleted
<1>3. AvailabilityKnown'
  BY DEF AvailabilityInv, AvailabilityKnown, AllDone
<1>4. RunsAfterAvailability'
  BY DEF AvailabilityInv, RunsAfterAvailability
<1> QED
  BY <1>2, <1>3, <1>4 DEF AvailabilityInv

LEMMA AvailabilityStep ==
    TypeOK /\ ObjectsInv /\ AvailabilityInv /\ [Next]_vars => AvailabilityInv'
<1> SUFFICES ASSUME TypeOK, ObjectsInv, AvailabilityInv, [Next]_vars PROVE AvailabilityInv'
  OBVIOUS
<1>1. CASE Next
  <2>1. CASE SyncHandler
    BY <2>1, SyncAvailability
  <2>2. CASE PersistExperimentStatus
    BY <2>2, PersistAvailability
  <2>3. CASE ReconcileLost
    BY <2>3, LostAvailability
  <2>4. CASE \E t \in Template : ReconcileTemplate(t)
    BY <2>4, TemplateAvailability
  <2>5. CASE \E a \in Analysis : ReconcileAnalysisRun(a)
    BY <2>5, AnalysisAvailability
  <2>6. CASE DurationPasses \/ Terminate \/ \E t \in Template : ProgressDeadlinePasses(t)
    <3>1. UNCHANGED <<status, rs, runs, old, pc, ctx, ready>>
      BY <2>6 DEF DurationPasses, Terminate, ProgressDeadlinePasses
    <3>2. spec' = spec \/ spec' = [spec EXCEPT !.terminate = TRUE]
      BY <2>6 DEF DurationPasses, Terminate, ProgressDeadlinePasses
    <3>3. spec'.required = spec.required
      BY <3>2, SMT DEF TypeOK
    <3> QED
      BY <3>1, <3>3, OtherAvailability
  <2>7. CASE \E t \in Template : PodStep(t)
    BY <2>7, PodAvailability
  <2>8. CASE \E a \in Analysis, i \in 1..MaxRuns, phase \in Phase : RunMoves(a, i, phase)
    <3>1. /\ \A b \in Analysis : runs'[b] # << >> => runs[b] # << >>
          /\ UNCHANGED <<spec, status, rs, svc, timeUp, late, old, pc, ctx, used, ready>>
      BY <2>8, RunObjects
    <3> QED
      BY <3>1, OtherAvailability
  <2> QED
    BY <1>1, NextCases, <2>1, <2>2, <2>3, <2>4, <2>5, <2>6, <2>7, <2>8
<1>2. CASE UNCHANGED vars
  BY <1>2, OtherAvailability DEF vars
<1> QED
  BY <1>1, <1>2

(***************************************************************************)
(* An analysis of an Experiment starts only after all its templates were   *)
(* fully available at one moment (reconcileAnalysisRun, calculateStatus).  *)
(***************************************************************************)
THEOREM AnalysesWait == Spec => []RunsAfterAvailability
<1>1. Spec => []AvailabilityInv
  BY InitAvailability, AvailabilityStep, ObjectsCorrect, PTL DEF Spec
<1>2. AvailabilityInv => RunsAfterAvailability
  BY DEF AvailabilityInv
<1> QED
  BY <1>1, <1>2, PTL

-----------------------------------------------------------------------------
(* The scale-down delay.                                                   *)

(* scaleTemplateRS, up                                                     *)
LEMMA ScaleUpKeeps ==
    ASSUME NEW o \in TemplateOutcome, NEW p \in ScaleUp(o)
    PROVE  p.rs.replicas \in {o.rs.replicas, Replicas}
<1> DEFINE up == [o EXCEPT !.touched = TRUE]
           scaled == [o.rs EXCEPT !.replicas = Replicas]
<1>1. up \in TemplateOutcome /\ up.rs = o.rs
  BY TouchedType
<1>2. p \in {[up EXCEPT !.lost = TRUE, !.faults = up.faults + 1], up,
             [up EXCEPT !.faults = up.faults + 1],
             [up EXCEPT !.rs.replicas = Replicas], Fault(up)}
  BY DEF ScaleUp
<1>3. scaled.replicas = Replicas
  <2>1. o.rs \in ReplicaSet
    BY SMT DEF TemplateOutcome
  <2> QED
    BY <2>1, SMT DEF ReplicaSet
<1>4. [up EXCEPT !.rs.replicas = Replicas] = [up EXCEPT !.rs = scaled]
  BY <1>1
<1> HIDE DEF up, scaled
<1>5. CASE p = [up EXCEPT !.lost = TRUE, !.faults = up.faults + 1]
  BY <1>1, <1>5, SMT DEF TemplateOutcome
<1>6. CASE p = [up EXCEPT !.rs.replicas = Replicas]
  <2>1. p.rs = scaled
    BY <1>1, <1>4, <1>6, SMT DEF TemplateOutcome
  <2> QED
    BY <1>3, <2>1
<1>7. CASE p = Fault(up)
  BY <1>1, <1>7, FaultType
<1>8. CASE p = [up EXCEPT !.faults = up.faults + 1]
  BY <1>1, <1>8, SMT DEF TemplateOutcome
<1> QED
  BY <1>1, <1>2, <1>5, <1>6, <1>7, <1>8

LEMMA FaultCounts ==
    ASSUME NEW o \in TemplateOutcome
    PROVE  Fault(o).faults = o.faults + 1 /\ o.faults \in Nat
<1>1. Fault(o) = [o EXCEPT !.error = TRUE, !.faults = o.faults + 1]
  BY DEF Fault
<1>2. o.faults \in Nat
  BY SMT DEF TemplateOutcome
<1>3. Fault(o).faults = o.faults + 1
  BY <1>1, SMT DEF TemplateOutcome
<1> QED
  BY <1>2, <1>3

(* scaleTemplateRS, down, without a call that fails: not before the        *)
(* deadline, and not if the ReplicaSet is not the one that was read.       *)
LEMMA ScaleDownKeeps ==
    ASSUME NEW t, NEW o, Follows(t, o), ~o.created, rs[t].exists, NEW p \in ScaleDown(t, o)
    PROVE  /\ p.faults \in Nat /\ p.faults >= o.faults
           /\ p.rs.replicas = o.rs.replicas \/ (o.seen.deadline # "pending" /\ o.rs = o.seen)
<1> DEFINE down == [o EXCEPT !.touched = TRUE]
           scaled == [down EXCEPT !.rs.replicas = 0]
           left == IF o.rs # o.seen THEN down ELSE scaled
<1>1. o \in TemplateOutcome /\ o.faults \in Nat
  BY SMT DEF Follows, TemplateOutcome
<1>2. down \in TemplateOutcome /\ down.rs = o.rs /\ down.created = o.created
  BY <1>1, TouchedType
<1>3. down.faults = o.faults
  BY <1>1, SMT DEF TemplateOutcome
<1>4. Follows(t, down) /\ ~down.created
  BY <1>2, <1>1, SMT DEF Follows, TemplateOutcome
<1>5. p = down \/ (o.seen.deadline # "pending" /\ (p = Fault(down) \/ p \in DeleteService(t, left)))
  BY DEF ScaleDown
<1> HIDE DEF down
<1>6. scaled \in TemplateOutcome /\ scaled.faults = down.faults
  <2>1. scaled \in TemplateOutcome
    BY <1>4, ScaledType DEF Follows
  <2>2. scaled.faults = down.faults
    BY <1>2, SMT DEF TemplateOutcome
  <2> QED
    BY <2>1, <2>2
<1> HIDE DEF scaled
<1>7. left \in TemplateOutcome /\ left.faults = o.faults /\ (left.rs = o.rs \/ o.rs = o.seen)
  BY <1>2, <1>3, <1>6
<1> HIDE DEF left
<1>8. CASE p = down
  BY <1>1, <1>2, <1>3, <1>8, SMT
<1>9. CASE p = Fault(down)
  <2>1. p.rs = o.rs
    BY <1>2, <1>9, FaultType
  <2>2. p.faults = o.faults + 1
    BY <1>2, <1>3, <1>9, FaultCounts
  <2> QED
    BY <1>1, <2>1, <2>2, SMT
<1>10. CASE o.seen.deadline # "pending" /\ p \in DeleteService(t, left)
  <2>1. p \in {left, [left EXCEPT !.svc = FALSE], Fault(left)}
    BY <1>10 DEF DeleteService
  <2>2. p.rs = left.rs
    BY <1>7, <1>10, ServiceType
  <2>3. p.faults \in {left.faults, left.faults + 1}
    <3>1. [left EXCEPT !.svc = FALSE].faults = left.faults
      BY <1>7, SMT DEF TemplateOutcome
    <3> QED
      BY <1>7, <2>1, <3>1, FaultCounts
  <2>4. p.faults \in Nat /\ p.faults >= o.faults
    BY <1>1, <1>7, <2>3, SMT
  <2> QED
    BY <1>7, <1>10, <2>2, <2>4
<1> QED
  BY <1>5, <1>8, <1>9, <1>10

(* addScaleDownDelayToTemplateRS, with a delay                             *)
LEMMA DelayAdded ==
    ASSUME NEW o \in TemplateOutcome, o.faults = 0, spec.delay, NEW p \in AddScaleDownDelay(o)
    PROVE  \/ p = o /\ o.seen.deadline # "none"
           \/ p.rs.replicas = o.rs.replicas /\ p.seen.deadline = "pending"
           \/ p.rs.replicas = o.rs.replicas /\ p.faults = 1
<1> DEFINE annotated == [o.rs EXCEPT !.deadline = "pending"]
<1>1. o.rs \in ReplicaSet
  BY SMT DEF TemplateOutcome
<1>2. annotated.replicas = o.rs.replicas /\ annotated.deadline = "pending"
  BY <1>1, SMT DEF ReplicaSet
<1>3. \/ p = o /\ o.seen.deadline # "none"
      \/ p \in {[o EXCEPT !.rs = annotated, !.seen = annotated], [o EXCEPT !.faults = 0 + 1],
                [o EXCEPT !.rs = annotated, !.faults = 0 + 1]}
  BY DEF AddScaleDownDelay
<1> HIDE DEF annotated
<1>4. CASE p = [o EXCEPT !.rs = annotated, !.seen = annotated]
  <2>1. p.rs = annotated /\ p.seen = annotated
    BY <1>4, SMT DEF TemplateOutcome
  <2> QED
    BY <1>2, <2>1
<1>5. CASE p = [o EXCEPT !.faults = 0 + 1]
  <2>1. p.rs = o.rs /\ p.faults = 1
    BY <1>5, SMT DEF TemplateOutcome
  <2> QED
    BY <2>1
<1>6. CASE p = [o EXCEPT !.rs = annotated, !.faults = 0 + 1]
  <2>1. p.rs = annotated /\ p.faults = 1
    BY <1>6, SMT DEF TemplateOutcome
  <2> QED
    BY <1>2, <2>1
<1> QED
  BY <1>3, <1>4, <1>5, <1>6

(* Of all that reconcileTemplate may do to a ReplicaSet                    *)
LEMMA OutcomeWaits ==
    ASSUME TypeOK, ObjectsInv, NEW t \in Template, ctx.rs[t].exists => rs[t].exists,
           spec.delay, NEW o \in TemplateOutcomes(t), rs[t].replicas > o.rs.replicas
    PROVE  rs[t].deadline = "passed" \/ o.faults > 0
<1> DEFINE b == Before(t)
<1>1. Plain(t, b) /\ b.rs = rs[t] /\ rs[t] \in ReplicaSet /\ b \in TemplateOutcome
  BY BeforeType DEF Plain, Follows
<1>2. b.faults = 0 /\ (b.seen.deadline = "none" \/ b.seen.deadline = rs[t].deadline)
  <2>1. b.faults = 0
    BY DEF Before
  <2>2. ctx.rs[t] \in ReplicaSet
    BY SMT DEF TypeOK, Context
  <2>3. CASE ctx.rs[t].deadline = "none"
    <3>1. b.seen = ctx.rs[t]
      BY <2>3 DEF Before
    <3> QED
      BY <2>1, <2>3, <3>1
  <2>4. CASE ctx.rs[t].deadline # "none"
    <3> DEFINE seen == [ctx.rs[t] EXCEPT !.deadline = rs[t].deadline]
    <3>1. b.seen = seen
      BY <2>4 DEF Before
    <3>2. seen.deadline = rs[t].deadline
      BY <2>2, SMT DEF ReplicaSet
    <3> QED
      BY <2>1, <3>1, <3>2
  <2> QED
    BY <2>3, <2>4
<1>3. /\ rs[t].replicas \in {0, Replicas} /\ 0 <= Replicas /\ Replicas \in Nat
      /\ ~rs[t].exists => rs[t].replicas = 0
  BY ReplicaSetFields DEF ObjectsInv, ReplicaSetsHold, Empty
<1> HIDE DEF b
<1>4. CASE ~ctx.rs[t].exists
  <2>1. o.rs = rs[t] \/ (o.rs = NewReplicaSet /\ ~rs[t].exists)
    <3>1. o \in {Fault(b)} \cup
            IF b.rs.exists
            THEN {[b EXCEPT !.seen = b.rs, !.touched = TRUE], [b EXCEPT !.error = TRUE]}
            ELSE {[b EXCEPT !.rs = NewReplicaSet, !.seen = NewReplicaSet, !.touched = TRUE,
                            !.created = TRUE]}
      BY <1>4 DEF TemplateOutcomes, Created, CreateReplicaSet, b
    <3>2. CASE o = Fault(b)
      BY <1>1, <3>2, FaultType
    <3>3. CASE o = [b EXCEPT !.seen = b.rs, !.touched = TRUE]
      BY <1>1, <3>3, SMT DEF TemplateOutcome
    <3>4. CASE o = [b EXCEPT !.error = TRUE]
      BY <1>1, <3>4, SMT DEF TemplateOutcome
    <3>5. CASE ~b.rs.exists /\ o = [b EXCEPT !.rs = NewReplicaSet, !.seen = NewReplicaSet,
                                             !.touched = TRUE, !.created = TRUE]
      <4>1. o.rs = NewReplicaSet
        BY <1>1, <3>5, SMT DEF TemplateOutcome
      <4> QED
        BY <1>1, <3>5, <4>1
    <3> QED
      BY <3>1, <3>2, <3>3, <3>4, <3>5
  <2>2. NewReplicaSet.replicas = 0
    BY DEF NewReplicaSet
  <2> QED
    BY <1>3, <2>1, <2>2, SMT
<1>5. CASE ctx.rs[t].exists /\ CalculateTemplateReplicasCount(t) > 0
  <2>1. PICK p \in CreateService(t, b) :
           o \in IF p.seen.replicas = Replicas THEN {p} ELSE ScaleUp(p)
    BY <1>5 DEF TemplateOutcomes, KeptUp, b
  <2>2. p \in TemplateOutcome /\ p.rs = b.rs
    BY <1>1, ServiceType
  <2>3. o.rs.replicas \in {rs[t].replicas, Replicas}
    BY <1>1, <2>1, <2>2, ScaleUpKeeps
  <2> QED
    BY <1>3, <2>3, SMT
<1>6. CASE ctx.rs[t].exists /\ ~(CalculateTemplateReplicasCount(t) > 0)
  <2>1. PICK p \in AddScaleDownDelay(b) :
           o \in IF p.seen.replicas = 0 THEN {p} ELSE ScaleDown(t, p)
    BY <1>6 DEF TemplateOutcomes, TakenDown, b
  <2>2. Follows(t, p) /\ ~p.created
    BY <1>1, <1>6, <2>1, DelayType DEF Plain
  <2>3. \/ p = b /\ b.seen.deadline # "none"
        \/ p.rs.replicas = b.rs.replicas /\ p.seen.deadline = "pending"
        \/ p.rs.replicas = b.rs.replicas /\ p.faults = 1
    BY <1>1, <1>2, <2>1, DelayAdded
  <2>4. p.rs.replicas = rs[t].replicas
    BY <1>1, <2>3
  <2>5. o.rs.replicas # p.rs.replicas
    BY <1>3, <2>4, SMT
  <2>6. o \in ScaleDown(t, p)
    BY <2>1, <2>5
  <2>7. o.faults \in Nat /\ o.faults >= p.faults /\ p.seen.deadline # "pending" /\ p.rs = p.seen
    BY <1>6, <2>2, <2>5, <2>6, ScaleDownKeeps
  <2>8. CASE p.faults = 1
    BY <2>7, <2>8, SMT
  <2>9. CASE p = b /\ b.seen.deadline # "none"
    <3>1. rs[t].deadline = p.seen.deadline /\ p.seen.deadline \notin {"none", "pending"}
      BY <1>1, <2>7, <2>9
    <3>2. rs[t].deadline \in {"none", "pending", "passed"}
      BY <1>1, SMT DEF ReplicaSet
    <3> QED
      BY <3>1, <3>2
  <2> QED
    BY <2>3, <2>7, <2>8, <2>9
<1> QED
  BY <1>4, <1>5, <1>6

\* What DelayHonoured says of one step
DelayStep ==
    \A t \in Template :
        spec.delay /\ rs[t].replicas > rs'[t].replicas =>
            rs[t].deadline = "passed" \/ used'.faults > used.faults

LEMMA StepWaits == TypeOK /\ ObjectsInv /\ Next => DelayStep
<1> SUFFICES ASSUME TypeOK, ObjectsInv, Next, NEW u \in Template,
                    spec.delay, rs[u].replicas > rs'[u].replicas
             PROVE  rs[u].deadline = "passed" \/ used'.faults > used.faults
  BY DEF DelayStep
<1>0. rs'[u].replicas # rs[u].replicas
  BY ReplicaSetFields, SMT
<1>1. CASE \E t \in Template : ReconcileTemplate(t)
  <2>1. PICK t \in Template : ReconcileTemplate(t)
    BY <1>1
  <2>2. ctx.rs[t].exists => rs[t].exists
    BY <2>1, TemplateStep
  <2>3. PICK o \in TemplateOutcomes(t) :
           /\ used' = [used EXCEPT !.faults = @ + o.faults]
           /\ rs' = [rs EXCEPT ![t] = o.rs]
    BY <2>1 DEF ReconcileTemplate, TemplateOutcomes
  <2>4. u = t /\ rs'[t] = o.rs
    BY <1>0, <2>3 DEF TypeOK
  <2>5. rs[t].deadline = "passed" \/ o.faults > 0
    BY <2>2, <2>4, OutcomeWaits
  <2>6. o.faults \in Nat
    BY <2>2, OutcomeType, SMT DEF Follows, TemplateOutcome
  <2>7. used'.faults = used.faults + o.faults /\ used.faults \in Nat
    BY <2>3, SMT DEF TypeOK
  <2> QED
    BY <2>4, <2>5, <2>6, <2>7, SMT
<1>2. CASE \E t \in Template : PodStep(t)
  <2>1. PICK t \in Template : PodStep(t)
    BY <1>2
  <2>2. PICK r \in ReplicaSet : rs' = [rs EXCEPT ![t] = r] /\ r.replicas = rs[t].replicas
    BY <2>1, PodChange
  <2> QED
    BY <1>0, <2>2 DEF TypeOK
<1>3. CASE \/ SyncHandler \/ PersistExperimentStatus \/ ReconcileLost
           \/ DurationPasses \/ Terminate \/ \E t \in Template : ProgressDeadlinePasses(t)
           \/ \E a \in Analysis : ReconcileAnalysisRun(a)
           \/ \E a \in Analysis, i \in 1..MaxRuns, phase \in Phase : RunMoves(a, i, phase)
  <2>1. rs' = rs
    BY <1>3 DEF SyncHandler, PersistExperimentStatus, ReconcileLost, DurationPasses, Terminate,
       ProgressDeadlinePasses, ReconcileAnalysisRun, RunMoves
  <2> QED
    BY <1>0, <2>1
<1> QED
  BY <1>1, <1>2, <1>3, NextCases

(***************************************************************************)
(* scaleDownDelaySeconds: a template gives up its pods only when the delay *)
(* has passed, or a call failed in that very pass (reconcileTemplate,      *)
(* addScaleDownDelayToTemplateRS, scaleTemplateRS).                        *)
(***************************************************************************)
THEOREM DelayKept == Spec => DelayHonoured
<1>1. TypeOK /\ ObjectsInv /\ [Next]_vars => [DelayStep]_vars
  BY StepWaits
<1>2. Spec => [][DelayStep]_vars
  BY <1>1, ObjectsCorrect, PTL DEF Spec
<1> QED
  BY <1>2 DEF DelayHonoured, DelayStep

-----------------------------------------------------------------------------
(* The outcome of an Experiment.                                           *)

\* What one more call does: it fails, or is no error.
Adds(o, p) == p.faults = o.faults + 1 \/ (p.faults = o.faults /\ p.error = o.error)

LEMMA FaultAdds ==
    ASSUME NEW o \in TemplateOutcome
    PROVE  Adds(o, Fault(o)) /\ Adds(o, o)
  BY FaultCounts DEF Adds

(* createTemplateService and deleteTemplateService                         *)
LEMMA ServiceAdds ==
    ASSUME NEW t, NEW o \in TemplateOutcome,
           NEW p \in CreateService(t, o) \cup DeleteService(t, o)
    PROVE  Adds(o, p)
<1>1. p = o \/ p = Fault(o) \/ \E b \in BOOLEAN : p = [o EXCEPT !.svc = b]
  BY DEF CreateService, DeleteService
<1>2. ASSUME NEW b \in BOOLEAN, p = [o EXCEPT !.svc = b] PROVE Adds(o, p)
  <2>1. p.faults = o.faults /\ p.error = o.error
    BY <1>2, SMT DEF TemplateOutcome
  <2> QED
    BY <2>1 DEF Adds
<1> QED
  BY <1>1, <1>2, FaultAdds

(* addScaleDownDelayToTemplateRS                                           *)
LEMMA DelayAdds ==
    ASSUME NEW o \in TemplateOutcome, NEW p \in AddScaleDownDelay(o)
    PROVE  Adds(o, p)
<1> DEFINE annotated == [o.rs EXCEPT !.deadline = "pending"]
           n == o.faults + 1
<1>1. \/ p = o
      \/ p = [o EXCEPT !.rs = annotated, !.seen = annotated]
      \/ p = [o EXCEPT !.faults = n] \/ p = [o EXCEPT !.rs = annotated, !.faults = n]
  BY DEF AddScaleDownDelay
<1>2. n = o.faults + 1
  OBVIOUS
<1> HIDE DEF annotated, n
<1>3. CASE p = [o EXCEPT !.rs = annotated, !.seen = annotated]
  <2>1. p.faults = o.faults /\ p.error = o.error
    BY <1>3, SMT DEF TemplateOutcome
  <2> QED
    BY <2>1 DEF Adds
<1>4. CASE p = [o EXCEPT !.faults = n]
  <2>1. p.faults = n
    BY <1>4, SMT DEF TemplateOutcome
  <2> QED
    BY <1>2, <2>1 DEF Adds
<1>5. CASE p = [o EXCEPT !.rs = annotated, !.faults = n]
  <2>1. p.faults = n
    BY <1>5, SMT DEF TemplateOutcome
  <2> QED
    BY <1>2, <2>1 DEF Adds
<1> QED
  BY <1>1, <1>3, <1>4, <1>5, FaultAdds

(* scaleTemplateRS, up                                                     *)
LEMMA ScaleUpAdds ==
    ASSUME NEW o \in TemplateOutcome, NEW p \in ScaleUp(o)
    PROVE  Adds(o, p)
<1> DEFINE up == [o EXCEPT !.touched = TRUE]
           scaled == [up.rs EXCEPT !.replicas = Replicas]
           n == up.faults + 1
<1>1. up \in TemplateOutcome /\ up.faults = o.faults /\ up.error = o.error
  <2>1. up \in TemplateOutcome
    BY TouchedType
  <2>2. up.faults = o.faults /\ up.error = o.error
    BY SMT DEF TemplateOutcome
  <2> QED
    BY <2>1, <2>2
<1>2. p \in {[up EXCEPT !.lost = TRUE, !.faults = n], up, [up EXCEPT !.faults = n],
             [up EXCEPT !.rs = scaled], Fault(up)}
  BY DEF ScaleUp
<1>3. n = o.faults + 1
  BY <1>1
<1> HIDE DEF up, scaled, n
<1>4. CASE p = [up EXCEPT !.lost = TRUE, !.faults = n]
  <2>1. p.faults = n
    BY <1>1, <1>4, SMT DEF TemplateOutcome
  <2> QED
    BY <1>3, <2>1 DEF Adds
<1>5. CASE p = [up EXCEPT !.rs = scaled]
  <2>1. p.faults = up.faults /\ p.error = up.error
    BY <1>1, <1>5, SMT DEF TemplateOutcome
  <2> QED
    BY <1>1, <2>1 DEF Adds
<1>6. CASE p = Fault(up)
  BY <1>1, <1>6, FaultCounts DEF Adds
<1>7. CASE p = [up EXCEPT !.faults = n]
  <2>1. p.faults = n
    BY <1>1, <1>7, SMT DEF TemplateOutcome
  <2> QED
    BY <1>3, <2>1 DEF Adds
<1> QED
  BY <1>1, <1>2, <1>4, <1>5, <1>6, <1>7 DEF Adds

(* scaleTemplateRS, down                                                   *)
LEMMA ScaleDownAdds ==
    ASSUME NEW t, NEW o, Follows(t, o), ~o.created, rs[t].exists, NEW p \in ScaleDown(t, o)
    PROVE  Adds(o, p)
<1> DEFINE down == [o EXCEPT !.touched = TRUE]
           none == [down.rs EXCEPT !.replicas = 0]
           scaled == [down EXCEPT !.rs = none]
           left == IF o.rs # o.seen THEN down ELSE scaled
<1>1. o \in TemplateOutcome
  BY DEF Follows
<1>2. down \in TemplateOutcome /\ down.rs = o.rs /\ down.created = o.created
      /\ down.seen = o.seen
  BY <1>1, TouchedType
<1>3. down.faults = o.faults /\ down.error = o.error
  BY <1>1, SMT DEF TemplateOutcome
<1>4. Follows(t, down) /\ ~down.created
  BY <1>2, <1>1, SMT DEF Follows, TemplateOutcome
<1>5. p = down \/ p = Fault(down) \/ p \in DeleteService(t, left)
  BY DEF ScaleDown
<1>6. scaled = [down EXCEPT !.rs.replicas = 0]
  OBVIOUS
<1> HIDE DEF down, none
<1>7. scaled \in TemplateOutcome
  BY <1>4, <1>6, ScaledType DEF Follows
<1>8. scaled.faults = down.faults /\ scaled.error = down.error
  BY <1>2, SMT DEF TemplateOutcome
<1> HIDE DEF scaled
<1>9. left \in TemplateOutcome /\ left.faults = o.faults /\ left.error = o.error
  BY <1>2, <1>3, <1>7, <1>8
<1> HIDE DEF left
<1>10. CASE p \in DeleteService(t, left)
  <2>1. Adds(left, p)
    BY <1>9, <1>10, ServiceAdds
  <2> QED
    BY <1>9, <2>1 DEF Adds
<1>11. CASE p = Fault(down)
  BY <1>2, <1>3, <1>11, FaultCounts DEF Adds
<1> QED
  BY <1>3, <1>5, <1>10, <1>11 DEF Adds

(* Where the pass sees every ReplicaSet that is there, an error of         *)
(* reconcileTemplate comes of a call that failed.                          *)
LEMMA OutcomeBlamed ==
    ASSUME TypeOK, NEW t \in Template, ctx.rs[t].exists <=> rs[t].exists,
           NEW o \in TemplateOutcomes(t)
    PROVE  o.faults \in Nat /\ (o.error => o.faults > 0)
<1> DEFINE b == Before(t)
<1>1. Plain(t, b) /\ b.rs = rs[t] /\ b \in TemplateOutcome /\ rs[t] \in ReplicaSet
  BY BeforeType DEF Plain, Follows
<1>2. b.faults = 0 /\ ~b.error
  BY DEF Before
<1>3. o.faults \in Nat
  BY OutcomeType, SMT DEF Follows, TemplateOutcome
<1> HIDE DEF b
<1>4. CASE ~ctx.rs[t].exists
  <2>1. \/ o = Fault(b)
        \/ o = [b EXCEPT !.rs = NewReplicaSet, !.seen = NewReplicaSet, !.touched = TRUE,
                         !.created = TRUE]
    BY <1>1, <1>4 DEF TemplateOutcomes, Created, CreateReplicaSet, b
  <2>2. CASE o = Fault(b)
    BY <1>1, <1>2, <2>2, FaultCounts, SMT
  <2>3. CASE o = [b EXCEPT !.rs = NewReplicaSet, !.seen = NewReplicaSet, !.touched = TRUE,
                           !.created = TRUE]
    BY <1>1, <1>2, <1>3, <2>3, SMT DEF TemplateOutcome
  <2> QED
    BY <1>3, <2>1, <2>2, <2>3
<1>5. CASE ctx.rs[t].exists /\ CalculateTemplateReplicasCount(t) > 0
  <2>1. PICK p \in CreateService(t, b) :
           o \in IF p.seen.replicas = Replicas THEN {p} ELSE ScaleUp(p)
    BY <1>5 DEF TemplateOutcomes, KeptUp, b
  <2>2. p \in TemplateOutcome /\ Adds(b, p)
    BY <1>1, <2>1, ServiceType, ServiceAdds
  <2>3. o = p \/ Adds(p, o)
    BY <2>1, <2>2, ScaleUpAdds
  <2> QED
    BY <1>2, <1>3, <2>2, <2>3, SMT DEF Adds
<1>6. CASE ctx.rs[t].exists /\ ~(CalculateTemplateReplicasCount(t) > 0)
  <2>1. PICK p \in AddScaleDownDelay(b) :
           o \in IF p.seen.replicas = 0 THEN {p} ELSE ScaleDown(t, p)
    BY <1>6 DEF TemplateOutcomes, TakenDown, b
  <2>2. Follows(t, p) /\ ~p.created
    BY <1>1, <1>6, <2>1, DelayType DEF Plain
  <2>3. Adds(b, p)
    BY <1>1, <2>1, DelayAdds
  <2>4. o = p \/ Adds(p, o)
    BY <1>6, <2>1, <2>2, ScaleDownAdds
  <2> QED
    BY <1>2, <1>3, <2>3, <2>4, SMT DEF Adds
<1> QED
  BY <1>4, <1>5, <1>6

\* OutcomesTold of one status, some runs and the number of faults
Told(s, r, faults) ==
    /\ faults = 0 => \A t \in Template : s.templates[t].status # "Error"
    /\ \A a \in Analysis :
          Completed(s.analyses[a].phase) =>
              \/ /\ s.analyses[a].run > 0
                 /\ r[a][s.analyses[a].run].phase = s.analyses[a].phase
              \/ s.analyses[a].phase = "Error" /\ faults > 0

\* Runs that have ended stay as they are.
EndedKept(before, after) ==
    \A i \in 1..Len(before) : Completed(before[i].phase) => after[i].phase = before[i].phase

LEMMA ToldKept ==
    ASSUME NEW s, NEW r, NEW q, NEW f \in Nat, NEW g \in Nat, f <= g, Told(s, r, f),
           \A a \in Analysis : /\ s.analyses[a].run \in Nat
                               /\ s.analyses[a].run <= Len(r[a]) /\ Len(r[a]) \in Nat
                               /\ EndedKept(r[a], q[a])
    PROVE  Told(s, q, g)
<1>1. g = 0 => \A t \in Template : s.templates[t].status # "Error"
  <2>1. g = 0 => f = 0
    BY SMT
  <2> QED
    BY <2>1 DEF Told
<1>2. ASSUME NEW a \in Analysis, Completed(s.analyses[a].phase)
      PROVE  \/ /\ s.analyses[a].run > 0
                /\ q[a][s.analyses[a].run].phase = s.analyses[a].phase
             \/ s.analyses[a].phase = "Error" /\ g > 0
  <2> DEFINE n == s.analyses[a].run
  <2>1. CASE n > 0 /\ r[a][n].phase = s.analyses[a].phase
    <3>1. n \in 1..Len(r[a])
      BY <2>1, SMT
    <3> QED
      BY <1>2, <2>1, <3>1 DEF EndedKept
  <2>2. CASE s.analyses[a].phase = "Error" /\ f > 0
    BY <2>2, SMT
  <2> QED
    BY <1>2, <2>1, <2>2 DEF Told
<1> QED
  BY <1>1, <1>2 DEF Told

LEMMA ToldMeaning ==
    OutcomesTold <=> Told(status, runs, used.faults) /\ Told(ctx.new, runs, used.faults)
  BY DEF OutcomesTold, Told

LEMMA NothingTold ==
    ASSUME NEW r, NEW f
    PROVE  /\ Told(NoStatus, r, f)
           /\ \A t \in Template : NoStatus.templates[t].status # "Successful"
<1>1. \A t \in Template : NoStatus.templates[t].status = "none"
  BY NothingType
<1>2. \A a \in Analysis : ~Completed(NoStatus.analyses[a].phase)
  BY NothingType DEF Completed, Outcome, Bad
<1> QED
  BY <1>1, <1>2 DEF Told

\* The runs that a status names are there, and there is a number of faults.
LEMMA NamedType ==
    ASSUME TypeOK, ObjectsInv
    PROVE  /\ \A a \in Analysis :
                 /\ Len(runs[a]) \in Nat
                 /\ status.analyses[a].run \in Nat /\ status.analyses[a].run <= Len(runs[a])
                 /\ ctx.new.analyses[a].run \in Nat /\ ctx.new.analyses[a].run <= Len(runs[a])
           /\ used.faults \in Nat /\ used.stale \in Nat
<1>1. /\ status \in Status /\ ctx.new \in Status
      /\ used.faults \in Nat /\ used.stale \in Nat
  BY SMT DEF TypeOK, Context
<1>2. \A a \in Analysis : status.analyses[a].run \in Nat /\ ctx.new.analyses[a].run \in Nat
  BY <1>1, BoundAssumption, SMT DEF Status, AnalysisStatus
<1>3. \A a \in Analysis : status.analyses[a].run <= Len(runs[a])
                          /\ ctx.new.analyses[a].run <= Len(runs[a])
  BY DEF ObjectsInv, RunsNamed
<1> QED
  BY <1>1, <1>2, <1>3, RunsType

LEMMA InitOutcome == Init => OutcomeInv
<1> SUFFICES ASSUME Init PROVE OutcomeInv
  OBVIOUS
<1>1. pc = "idle" /\ status = NoStatus /\ ctx.new = NoStatus /\ ~timeUp
  BY NothingType DEF Init
<1>2. ReadsFresh /\ OutcomesKept
  BY <1>1 DEF ReadsFresh, OutcomesKept
<1>3. OutcomesTold
  BY <1>1, NothingTold, ToldMeaning
<1>4. SuccessCaused
  BY <1>1, NothingTold DEF SuccessCaused
<1> QED
  BY <1>2, <1>3, <1>4 DEF OutcomeInv

(* A pass is lost.                                                         *)
LEMMA IdleOutcome ==
    ASSUME TypeOK, ObjectsInv, OutcomeInv, pc' = "idle", ctx' = NoContext,
           UNCHANGED <<spec, status, runs, timeUp>>,
           used'.faults \in Nat, used.faults <= used'.faults
    PROVE  OutcomeInv'
<1>1. ctx'.new = NoStatus
  BY NothingType
<1>2. (ReadsFresh /\ OutcomesKept)'
  BY DEF OutcomeInv, ReadsFresh, OutcomesKept
<1>3. OutcomesTold'
  <2>1. Told(status, runs, used'.faults)
    <3>1. \A a \in Analysis : EndedKept(runs[a], runs[a])
      BY DEF EndedKept
    <3> QED
      BY <3>1, NamedType, ToldMeaning, ToldKept DEF OutcomeInv
  <2>2. Told(ctx'.new, runs', used'.faults)
    BY <1>1, NothingTold
  <2> QED
    BY <2>1, <2>2 DEF OutcomesTold, Told
<1>4. SuccessCaused'
  <2>1. Cause(status)' <=> Cause(status)
    BY DEF Cause, RequiredAnalysisRunsSuccessful
  <2>2. \A t \in Template : ctx'.new.templates[t].status # "Successful"
    BY <1>1, NothingTold
  <2> QED
    BY <2>1, <2>2 DEF OutcomeInv, SuccessCaused
<1> QED
  BY <1>2, <1>3, <1>4 DEF OutcomeInv

LEMMA LostOutcome ==
    ASSUME TypeOK, ObjectsInv, OutcomeInv, ReconcileLost
    PROVE  OutcomeInv'
<1>1. /\ pc' = "idle" /\ ctx' = NoContext
      /\ used' = [used EXCEPT !.faults = used.faults + 1]
      /\ UNCHANGED <<spec, status, runs, timeUp>>
  BY DEF ReconcileLost
<1>2. used'.faults = used.faults + 1
  BY <1>1, SMT DEF TypeOK
<1>3. used'.faults \in Nat /\ used.faults <= used'.faults
  BY <1>2, NamedType, SMT
<1> QED
  BY <1>1, <1>3, IdleOutcome

(* Where no pass reads an old store, it starts from the status as it is.   *)
LEMMA SyncOutcome ==
    ASSUME TypeOK, ObjectsInv, OutcomeInv, MaxStale = 0, SyncHandler
    PROVE  OutcomeInv'
<1>1. PICK lag \in {"none", "status", "replicaSets", "runs"} :
        LET read == IF lag = "status" THEN old.status ELSE status
            listed(t) == rs[t].exists /\ ~(lag = "replicaSets" /\ t \in old.rs)
        IN  /\ lag # "none" => used.stale < MaxStale
            /\ ctx' = [NoContext EXCEPT
                         !.status = read, !.new = read, !.terminate = spec.terminate,
                         !.rs = [t \in Template |-> IF listed(t) THEN rs[t] ELSE NoReplicaSet],
                         !.svc = svc, !.lag = lag,
                         !.templates = Template, !.analyses = Analysis]
            /\ pc' = "templates"
            /\ used' = [used EXCEPT !.stale = IF lag = "none" THEN @ ELSE @ + 1]
            /\ UNCHANGED <<spec, status, rs, svc, runs, timeUp, late, old, ready>>
  BY DEF SyncHandler
<1>2. lag = "none"
  <2>1. ~(used.stale < MaxStale)
    BY NamedType, SMT
  <2> QED
    BY <1>1, <2>1
<1> DEFINE rr == [t \in Template |-> IF rs[t].exists THEN rs[t] ELSE NoReplicaSet]
<1>3. ctx' = [NoContext EXCEPT
                !.status = status, !.new = status, !.terminate = spec.terminate, !.rs = rr,
                !.svc = svc, !.lag = "none", !.templates = Template, !.analyses = Analysis]
  BY <1>1, <1>2
<1>4. \A t \in Template : rs[t].exists => rr[t].exists
  OBVIOUS
<1> HIDE DEF rr
<1>5. ctx'.status = status /\ ctx'.new = status /\ ctx'.rs = rr
  BY <1>3, NothingType, SMT DEF Context
<1>6. ctx'.terminate = spec.terminate /\ ctx'.lag = "none" /\ ctx'.templates = Template
  BY <1>3, NothingType, SMT DEF Context
<1>7. used'.faults = used.faults /\ UNCHANGED <<spec, status, rs, runs, timeUp>>
  BY <1>1, <1>2, SMT DEF TypeOK
<1>8. ReadsFresh'
  BY <1>4, <1>5, <1>6, <1>7 DEF OutcomeInv, ReadsFresh
<1>9. OutcomesTold'
  BY <1>5, <1>7 DEF OutcomeInv, OutcomesTold
<1>10. OutcomesKept'
  BY <1>5, <1>7 DEF OutcomesKept
<1>11. SuccessCaused'
  <2>1. Cause(status)' <=> Cause(status)
    BY <1>7 DEF Cause, RequiredAnalysisRunsSuccessful
  <2> QED
    BY <1>5, <1>7, <2>1 DEF OutcomeInv, SuccessCaused
<1> QED
  BY <1>8, <1>9, <1>10, <1>11 DEF OutcomeInv

(* What IsTerminating goes by, apart from the phase, are causes.           *)
LEMMA TerminatingCaused ==
    ASSUME ReadsFresh, pc # "idle", IsTerminating \/ PassedDuration
    PROVE  Completed(status.phase) \/ Cause(status)
  BY DEF ReadsFresh, IsTerminating, PassedDuration, Cause

(* What AssessTemplate makes of a template, by what it read of it          *)
LEMMA SeenOutcome ==
    ASSUME NEW t \in Template, NEW o
    PROVE  LET code == SeenStatus(t, o).status
               read == ctx.status.templates[t].status
           IN  /\ read \in {"Failed", "Error"} => code \in {"Failed", "Error"}
               /\ code = "Error" => o.error \/ read = "Error"
               /\ code = "Successful" => PassedDuration \/ IsTerminating \/ read = "Successful"
<1> DEFINE read == ctx.status.templates[t].status
           sofar == IF o.error THEN "Error" ELSE read
           moved == o.touched \/ o.seen.available # ctx.status.templates[t].available
           code == AssessTemplate(t, sofar, o.seen.available, moved)
<1>1. SeenStatus(t, o).status = code
  BY DEF SeenStatus
<1>2. sofar \in {"Successful", "Error", "Failed"} => code = sofar
  BY DEF AssessTemplate, TemplateCompleted
<1>3. sofar \notin {"Successful", "Error", "Failed"} =>
         /\ code \in {"Successful", "Running", "Failed", "Progressing"}
         /\ code = "Successful" => PassedDuration \/ IsTerminating
  BY DEF AssessTemplate, TemplateCompleted
<1> HIDE DEF code
<1> QED
  BY <1>1, <1>2, <1>3

LEMMA TemplateOutcomeStep ==
    ASSUME TypeOK, ObjectsInv, OutcomeInv, NEW t \in Template, ReconcileTemplate(t)
    PROVE  OutcomeInv'
<1>1. /\ pc = "templates" /\ t \in ctx.templates
      /\ ctx.rs[t].exists => rs[t].exists
  BY TemplateStep
<1>2. PICK o \in TemplateOutcomes(t), made \in SUBSET Template :
        /\ Follows(t, o)
        /\ made = ctx.created.rs \cup (IF o.created THEN {t} ELSE {})
        /\ rs' = [rs EXCEPT ![t] = o.rs]
        /\ rs' \in [Template -> ReplicaSet] /\ svc' \subseteq Template
        /\ used' \in [faults : Nat, pods : Nat, stale : Nat]
        /\ used'.faults = used.faults + o.faults
        /\ UNCHANGED <<spec, status, runs, timeUp, late, ready>>
        /\ \/ /\ o.lost /\ pc' = "idle" /\ ctx' = NoContext
              /\ old' = Superseded([status |-> old.status, rs |-> made, runs |-> {}])
           \/ /\ ~o.lost /\ old' = old
              /\ pc' \in {"idle", "templates", "analyses", "status"} \ {"idle"}
              /\ pc' = "templates" <=> ctx.templates \ {t} # {}
              /\ ctx' \in Context
              /\ ctx'.templates = ctx.templates \ {t}
              /\ ctx'.created.rs = made
              /\ ctx'.status = ctx.status /\ ctx'.terminate = ctx.terminate
              /\ ctx'.rs = [ctx.rs EXCEPT ![t] = NoReplicaSet]
              /\ ctx'.lag = ctx.lag /\ ctx'.new.phase = ctx.new.phase
              /\ ctx'.new.availableAt = ctx.new.availableAt
              /\ ctx'.new.analyses = ctx.new.analyses
              /\ ctx'.new.templates = [ctx.new.templates EXCEPT ![t] = SeenStatus(t, o)]
  BY TemplateStep
<1>3. ctx.rs[t].exists <=> rs[t].exists
  <2>1. rs[t].exists => ctx.rs[t].exists
    BY <1>1 DEF OutcomeInv, ReadsFresh
  <2> QED
    BY <1>1, <2>1
<1>4. o.faults \in Nat /\ (o.error => o.faults > 0)
  BY <1>3, OutcomeBlamed
<1>5. used'.faults \in Nat /\ used.faults <= used'.faults
  BY <1>2, <1>4, NamedType, SMT
<1>6. UNCHANGED <<spec, status, runs, timeUp>>
  BY <1>2
<1>7. CASE o.lost
  BY <1>2, <1>5, <1>6, <1>7, IdleOutcome
<1>8. CASE ~o.lost
  <2>1. /\ pc' # "idle" /\ ctx'.templates = ctx.templates \ {t}
        /\ ctx'.status = ctx.status /\ ctx'.terminate = ctx.terminate
        /\ ctx'.rs = [ctx.rs EXCEPT ![t] = NoReplicaSet]
        /\ ctx'.lag = ctx.lag /\ ctx'.new.phase = ctx.new.phase
        /\ ctx'.new.analyses = ctx.new.analyses
        /\ ctx'.new.templates = [ctx.new.templates EXCEPT ![t] = SeenStatus(t, o)]
    BY <1>2, <1>8
  <2>2. /\ ctx.new.templates \in [Template -> TemplateStatus]
        /\ ctx.rs \in [Template -> ReplicaSet] /\ ctx.templates \subseteq Template
        /\ rs \in [Template -> ReplicaSet]
    BY SMT DEF TypeOK, Context, Status
  <2>3. /\ \A u \in Template : u # t => ctx'.new.templates[u] = ctx.new.templates[u]
        /\ ctx'.new.templates[t] = SeenStatus(t, o)
        /\ \A u \in Template : u # t => ctx'.rs[u] = ctx.rs[u] /\ rs'[u] = rs[u]
    BY <1>2, <2>1, <2>2
  <2>4. LET code == SeenStatus(t, o).status
            read == status.templates[t].status
        IN  /\ read \in {"Failed", "Error"} => code \in {"Failed", "Error"}
            /\ code = "Error" => o.error \/ read = "Error"
            /\ code = "Successful" => PassedDuration \/ IsTerminating \/ read = "Successful"
    <3>1. ctx.status = status
      BY <1>1 DEF OutcomeInv, ReadsFresh
    <3> QED
      BY <3>1, SeenOutcome
  <2>5. ReadsFresh'
    <3>1. \A u \in ctx'.templates : rs'[u].exists => ctx'.rs[u].exists
      BY <1>1, <2>1, <2>2, <2>3 DEF OutcomeInv, ReadsFresh
    <3> QED
      BY <1>1, <1>6, <2>1, <3>1 DEF OutcomeInv, ReadsFresh
  <2>6. OutcomesTold'
    <3>1. Told(status, runs, used'.faults) /\ Told(ctx.new, runs, used'.faults)
      <4>1. \A a \in Analysis : EndedKept(runs[a], runs[a])
        BY DEF EndedKept
      <4> QED
        BY <1>5, <4>1, NamedType, ToldMeaning, ToldKept DEF OutcomeInv
    <3>2. used'.faults = 0 => SeenStatus(t, o).status # "Error"
      <4> SUFFICES ASSUME used'.faults = 0, SeenStatus(t, o).status = "Error"
                   PROVE  FALSE
        OBVIOUS
      <4>1. ~o.error
        BY <1>2, <1>4, NamedType, SMT
      <4>2. status.templates[t].status = "Error"
        BY <2>4, <4>1
      <4> QED
        BY <3>1, <4>2 DEF Told
    <3>3. Told(ctx'.new, runs, used'.faults)
      BY <2>1, <2>3, <3>1, <3>2 DEF Told
    <3> QED
      BY <1>6, <3>1, <3>3 DEF OutcomesTold, Told
  <2>7. OutcomesKept'
    <3>1. \A u \in Template : status.templates[u].status \in {"Failed", "Error"} =>
              ctx'.new.templates[u].status \in {"Failed", "Error"}
      BY <1>1, <2>3, <2>4 DEF OutcomeInv, OutcomesKept
    <3>2. \A a \in Analysis :
              LET read == status.analyses[a]
                  now == ctx.new.analyses[a]
              IN  /\ read.phase \in Bad => now.phase \in Bad
                  /\ Completed(read.phase) => Completed(now.phase)
                  /\ Completed(now.phase) => now.run = read.run
      BY <1>1 DEF OutcomeInv, OutcomesKept
    <3> QED
      BY <1>6, <2>1, <3>1, <3>2 DEF OutcomesKept, Completed
  <2>8. SuccessCaused'
    <3>1. Cause(status)' <=> Cause(status)
      BY <1>6 DEF Cause, RequiredAnalysisRunsSuccessful
    <3>2. SeenStatus(t, o).status = "Successful" =>
              Completed(status.phase) \/ Cause(status)
      BY <1>1, <2>4, TerminatingCaused DEF OutcomeInv, SuccessCaused
    <3> QED
      BY <1>6, <2>3, <3>1, <3>2 DEF OutcomeInv, SuccessCaused
  <2> QED
    BY <2>5, <2>6, <2>7, <2>8 DEF OutcomeInv
<1> QED
  BY <1>7, <1>8

(* The clock, the pods, the user and the runs change no status.            *)
LEMMA OtherOutcome ==
    ASSUME TypeOK, ObjectsInv, OutcomeInv, UNCHANGED <<status, pc, ctx>>,
           spec'.required = spec.required, spec.terminate => spec'.terminate,
           timeUp => timeUp', timeUp' => status.availableAt,
           used'.faults = used.faults,
           \A t \in Template : rs'[t].exists => rs[t].exists,
           \A a \in Analysis : EndedKept(runs[a], runs'[a])
    PROVE  OutcomeInv'
<1>1. ctx.templates \subseteq Template
  BY SMT DEF TypeOK, Context
<1>2. ReadsFresh'
  BY <1>1 DEF OutcomeInv, ReadsFresh
<1>3. OutcomesTold'
  <2>1. Told(status, runs', used.faults) /\ Told(ctx.new, runs', used.faults)
    <3>1. used.faults <= used.faults
      BY NamedType, SMT
    <3> QED
      BY <3>1, NamedType, ToldMeaning, ToldKept DEF OutcomeInv
  <2> QED
    BY <2>1 DEF OutcomesTold, Told
<1>4. OutcomesKept'
  BY DEF OutcomeInv, OutcomesKept
<1>5. SuccessCaused'
  <2>1. Cause(status) => Cause(status)'
    BY DEF Cause, RequiredAnalysisRunsSuccessful
  <2> QED
    BY <2>1 DEF OutcomeInv, SuccessCaused
<1> QED
  BY <1>2, <1>3, <1>4, <1>5 DEF OutcomeInv

(* What reconcileAnalysisRun makes of an analysis: an outcome is that of   *)
(* the run that the status names, or an error.                             *)
LEMMA AnalysisOutcomeTold ==
    ASSUME TypeOK, ObjectsInv, OutcomeInv, pc # "idle", NEW a \in Analysis,
           NEW o \in AnalysisOutcomes(a)
    PROVE  LET now == status.analyses[a]
           IN  /\ EndedKept(runs[a], o.runs) /\ o.faults \in Nat
               /\ now.phase \in Bad => o.status.phase \in Bad
               /\ Completed(now.phase) => Completed(o.status.phase)
               /\ Completed(o.status.phase) =>
                     /\ o.status.run = now.run
                     /\ \/ now.run > 0 /\ runs[a][now.run].phase = o.status.phase
                        \/ o.status.phase = "Error" /\ used.faults + o.faults > 0
<1> DEFINE now == status.analyses[a]
           error == [now EXCEPT !.phase = "Error"]
           copied == [now EXCEPT !.phase = runs[a][now.run].phase]
<1>1. /\ ctx.status = status /\ ctx.lag = "none"
      /\ Told(status, runs, used.faults) /\ used.faults \in Nat
  BY NamedType, ToldMeaning DEF OutcomeInv, ReadsFresh
<1>2. now \in AnalysisStatus /\ now.run \in Nat /\ now.run <= Len(runs[a])
  BY NamedType, SMT DEF TypeOK, Status
<1>3. error.phase = "Error" /\ error.run = now.run
  BY <1>2, SMT DEF AnalysisStatus
<1>4. copied.phase = runs[a][now.run].phase /\ copied.run = now.run
  BY <1>2, SMT DEF AnalysisStatus
<1>5. Completed(now.phase) => \/ now.run > 0 /\ runs[a][now.run].phase = now.phase
                              \/ now.phase = "Error" /\ used.faults > 0
  BY <1>1 DEF Told
<1>6. now.run = 0 /\ Completed(now.phase) => IsTerminating
  <2>1. ~(0 > 0)
    BY SMT
  <2> QED
    BY <1>1, <1>5, <2>1 DEF IsTerminating, Bad
<1>7. EndedKept(runs[a], runs[a]) /\ "Error" \in Bad /\ Completed("Error") /\ ~Completed("Pending")
  BY DEF EndedKept, Bad, Completed, Outcome
<1>8. \/ \E f \in {0, 1} : o = AnalysisOutcome(now, runs[a], f)
      \/ o = AnalysisOutcome(error, runs[a], 1)
      \/ now.run = 0 /\ ~IsTerminating /\ ctx.status.availableAt /\ o \in CreateAnalysisRun(a)
      \/ now.run # 0 /\ ~Completed(now.phase) /\ o \in TerminateRun(a)
      \/ now.run # 0 /\ ~Completed(now.phase) /\ o = AnalysisOutcome(copied, runs[a], 0)
  BY <1>1 DEF AnalysisOutcomes, BeforeAvailable
<1> HIDE DEF error, copied
<1>9. CASE \E f \in {0, 1} : o = AnalysisOutcome(now, runs[a], f)
  <2>1. PICK f \in {0, 1} : o = AnalysisOutcome(now, runs[a], f)
    BY <1>9
  <2>2. o.status = now /\ o.runs = runs[a] /\ o.faults = f
    BY <2>1 DEF AnalysisOutcome
  <2>3. used.faults > 0 => used.faults + f > 0
    BY <1>1, SMT
  <2> QED
    BY <1>5, <1>7, <2>2, <2>3
<1>10. CASE o = AnalysisOutcome(error, runs[a], 1)
  <2>1. o.status = error /\ o.runs = runs[a] /\ o.faults = 1
    BY <1>10 DEF AnalysisOutcome
  <2>2. used.faults + 1 > 0
    BY <1>1, SMT
  <2> QED
    BY <1>3, <1>7, <2>1, <2>2
<1>11. CASE now.run = 0 /\ ~IsTerminating /\ ctx.status.availableAt /\ o \in CreateAnalysisRun(a)
  <2> DEFINE i == CreatedRun(a)
             r == [phase |-> "none", terminate |-> FALSE]
             made == IF i > Len(runs[a]) THEN Append(runs[a], r) ELSE runs[a]
             pending == [phase |-> "Pending", run |-> i]
  <2>1. o = AnalysisOutcome(error, runs[a], 1) \/ o = AnalysisOutcome(pending, made, 0)
    BY <1>1, <1>11 DEF CreateAnalysisRun, error
  <2>2. ~Completed(now.phase) /\ now.phase \notin Bad
    BY <1>6, <1>11 DEF Completed, Outcome
  <2>3. EndedKept(runs[a], made)
    <3>1. runs[a] \in Seq(Run) /\ Len(runs[a]) \in Nat
      BY RunsType
    <3>2. \A j \in 1..Len(runs[a]) : Append(runs[a], r)[j] = runs[a][j]
      <4> HIDE DEF r
      <4> QED
        BY <3>1, SMT
    <3> HIDE DEF r
    <3> QED
      BY <3>2 DEF EndedKept
  <2>4. CASE o = AnalysisOutcome(pending, made, 0)
    <3>1. o.status = pending /\ o.runs = made /\ o.faults = 0
      BY <2>4 DEF AnalysisOutcome
    <3>2. o.status.phase = "Pending"
      BY <3>1
    <3> HIDE DEF pending, made
    <3> QED
      BY <1>7, <2>2, <2>3, <3>1, <3>2
  <2> QED
    BY <1>10, <2>1, <2>4
<1>12. CASE now.run # 0 /\ ~Completed(now.phase) /\ o \in TerminateRun(a)
  <2> DEFINE k == now.run
             r == [runs[a][k] EXCEPT !.terminate = TRUE]
             left == [runs[a] EXCEPT ![k] = r]
  <2>1. \/ o = AnalysisOutcome(now, runs[a], 0)
        \/ o = AnalysisOutcome(error, runs[a], 1)
        \/ o = AnalysisOutcome(now, [runs[a] EXCEPT ![k].terminate = TRUE], 0)
    BY <1>1, <1>12 DEF TerminateRun, error
  <2>2. CASE o = AnalysisOutcome(now, [runs[a] EXCEPT ![k].terminate = TRUE], 0)
    <3>1. /\ o.status = now /\ o.faults = 0
          /\ o.runs = [runs[a] EXCEPT ![k].terminate = TRUE]
      BY <2>2, Zenon DEF AnalysisOutcome
    <3>2. o.runs = left
      BY <3>1
    <3>3. k \in 1..Len(runs[a])
      BY <1>2, <1>12, RunsType, SMT
    <3>4. runs[a] \in Seq(Run) /\ Len(runs[a]) \in Nat /\ runs[a][k] \in Run
      BY <3>3, RunsType
    <3>5. r.phase = runs[a][k].phase
      BY <3>4, SMT DEF Run
    <3> HIDE DEF r
    <3>6. \A j \in 1..Len(runs[a]) : left[j].phase = runs[a][j].phase
      BY <3>3, <3>4, <3>5, SMT
    <3> HIDE DEF left
    <3>7. EndedKept(runs[a], o.runs)
      BY <3>2, <3>6 DEF EndedKept
    <3>8. now.phase \notin Bad
      BY <1>12 DEF Completed, Outcome
    <3> QED
      BY <1>12, <3>1, <3>7, <3>8
  <2> QED
    BY <1>9, <1>10, <2>1, <2>2
<1>13. CASE now.run # 0 /\ ~Completed(now.phase) /\ o = AnalysisOutcome(copied, runs[a], 0)
  <2>1. o.status = copied /\ o.runs = runs[a] /\ o.faults = 0
    BY <1>13 DEF AnalysisOutcome
  <2>2. now.run > 0
    BY <1>2, <1>13, SMT
  <2>3. now.phase \notin Bad
    BY <1>13 DEF Completed, Outcome
  <2> QED
    BY <1>4, <1>7, <1>13, <2>1, <2>2, <2>3
<1> QED
  BY <1>8, <1>9, <1>10, <1>11, <1>12, <1>13

LEMMA AnalysisOutcomeStep ==
    ASSUME TypeOK, ObjectsInv, OutcomeInv, NEW a \in Analysis, ReconcileAnalysisRun(a)
    PROVE  OutcomeInv'
<1>1. PICK o \in AnalysisOutcomes(a) :
        /\ pc = "analyses" /\ pc' \in {"analyses", "status"}
        /\ Sound(a, o) /\ runs' = [runs EXCEPT ![a] = o.runs]
        /\ used'.faults = used.faults + o.faults
        /\ UNCHANGED <<spec, status, rs, svc, timeUp, late, old, ready>>
        /\ ctx'.status = ctx.status /\ ctx'.terminate = ctx.terminate
        /\ ctx'.rs = ctx.rs /\ ctx'.templates = ctx.templates
        /\ ctx'.lag = ctx.lag /\ ctx'.new.phase = ctx.new.phase
        /\ ctx'.new.templates = ctx.new.templates
        /\ ctx'.new.analyses = [ctx.new.analyses EXCEPT ![a] = o.status]
  BY AnalysisStep
<1> DEFINE now == status.analyses[a]
<1>2. /\ EndedKept(runs[a], o.runs) /\ o.faults \in Nat
      /\ now.phase \in Bad => o.status.phase \in Bad
      /\ Completed(now.phase) => Completed(o.status.phase)
      /\ Completed(o.status.phase) =>
            /\ o.status.run = now.run
            /\ \/ now.run > 0 /\ runs[a][now.run].phase = o.status.phase
               \/ o.status.phase = "Error" /\ used.faults + o.faults > 0
  BY <1>1, AnalysisOutcomeTold
<1>3. /\ ctx.new.analyses \in [Analysis -> AnalysisStatus]
      /\ runs \in [Analysis -> Seq(Run)]
  BY SMT DEF TypeOK, Context, Status
<1>4. /\ \A b \in Analysis : b # a => ctx'.new.analyses[b] = ctx.new.analyses[b]
      /\ ctx'.new.analyses[a] = o.status
      /\ \A b \in Analysis : b # a => runs'[b] = runs[b]
      /\ runs'[a] = o.runs
  BY <1>1, <1>3
<1>5. \A b \in Analysis : EndedKept(runs[b], runs'[b])
  <2>1. \A b \in Analysis : EndedKept(runs[b], runs[b])
    BY DEF EndedKept
  <2> QED
    BY <1>2, <1>4, <2>1
<1>6. used'.faults \in Nat /\ used.faults <= used'.faults
  BY <1>1, <1>2, NamedType, SMT
<1>7. Told(status, runs', used'.faults) /\ Told(ctx.new, runs', used'.faults)
  BY <1>5, <1>6, NamedType, ToldMeaning, ToldKept DEF OutcomeInv
<1>8. ReadsFresh'
  BY <1>1 DEF OutcomeInv, ReadsFresh
<1>9. Completed(o.status.phase) =>
         \/ o.status.run > 0 /\ o.runs[o.status.run].phase = o.status.phase
         \/ o.status.phase = "Error" /\ used'.faults > 0
  <2> SUFFICES ASSUME Completed(o.status.phase), now.run > 0,
                      runs[a][now.run].phase = o.status.phase
               PROVE  o.runs[now.run].phase = o.status.phase
    BY <1>1, <1>2
  <2>1. now.run \in 1..Len(runs[a])
    BY NamedType, SMT
  <2> QED
    BY <1>2, <2>1 DEF EndedKept
<1>10. Told(ctx'.new, runs', used'.faults)
  BY <1>1, <1>4, <1>7, <1>9 DEF Told
<1>11. OutcomesTold'
  BY <1>1, <1>7, <1>10 DEF OutcomesTold, Told
<1>12. OutcomesKept'
  <2>1. \A t \in Template : status.templates[t].status \in {"Failed", "Error"} =>
            ctx.new.templates[t].status \in {"Failed", "Error"}
    BY <1>1 DEF OutcomeInv, OutcomesKept
  <2>2. \A b \in Analysis :
            LET read == status.analyses[b]
                new == ctx'.new.analyses[b]
            IN  /\ read.phase \in Bad => new.phase \in Bad
                /\ Completed(read.phase) => Completed(new.phase)
                /\ Completed(new.phase) => new.run = read.run
    BY <1>1, <1>2, <1>4 DEF OutcomeInv, OutcomesKept
  <2> QED
    BY <1>1, <2>1, <2>2 DEF OutcomesKept, Completed
<1>13. SuccessCaused'
  <2>1. Cause(status)' <=> Cause(status)
    BY <1>1 DEF Cause, RequiredAnalysisRunsSuccessful
  <2> QED
    BY <1>1, <2>1 DEF OutcomeInv, SuccessCaused
<1> QED
  BY <1>8, <1>11, <1>12, <1>13 DEF OutcomeInv

LEMMA PodOutcome ==
    ASSUME TypeOK, ObjectsInv, OutcomeInv, NEW t \in Template, PodStep(t)
    PROVE  OutcomeInv'
<1>1. PICK r \in ReplicaSet : rs' = [rs EXCEPT ![t] = r] /\ r.exists = rs[t].exists
  BY PodChange
<1>2. UNCHANGED <<spec, status, svc, runs, timeUp, late, old, pc, ctx>>
  BY PodChange
<1>3. \A u \in Template : rs'[u].exists => rs[u].exists
  BY <1>1 DEF TypeOK
<1>4. used' = used \/ used' = [used EXCEPT !.pods = used.pods + 1]
  BY DEF PodStep, ScaleDownDeadlinePasses, PodBecomesAvailable, SurplusPodsDeleted, PodFails
<1>5. used'.faults = used.faults
  BY <1>4, SMT DEF TypeOK
<1>6. \A a \in Analysis : EndedKept(runs[a], runs'[a])
  BY <1>2 DEF EndedKept
<1>7. timeUp' => status.availableAt
  BY <1>2 DEF OutcomeInv, ReadsFresh
<1> QED
  BY <1>2, <1>3, <1>5, <1>6, <1>7, OtherOutcome

LEMMA ClockOutcome ==
    ASSUME TypeOK, ObjectsInv, OutcomeInv,
           DurationPasses \/ Terminate \/ \E t \in Template : ProgressDeadlinePasses(t)
    PROVE  OutcomeInv'
<1>1. UNCHANGED <<status, rs, runs, pc, ctx, used>>
  BY DEF DurationPasses, Terminate, ProgressDeadlinePasses
<1>2. spec' = spec \/ spec' = [spec EXCEPT !.terminate = TRUE]
  BY DEF DurationPasses, Terminate, ProgressDeadlinePasses
<1>3. spec'.required = spec.required /\ (spec.terminate => spec'.terminate)
  BY <1>2, SMT DEF TypeOK
<1>4. timeUp' = timeUp \/ (timeUp' = TRUE /\ status.availableAt)
  BY DEF DurationPasses, Terminate, ProgressDeadlinePasses
<1>5. (timeUp => timeUp') /\ (timeUp' => status.availableAt)
  BY <1>4 DEF OutcomeInv, ReadsFresh
<1>6. \A a \in Analysis : EndedKept(runs[a], runs'[a])
  BY <1>1 DEF EndedKept
<1> QED
  BY <1>1, <1>3, <1>5, <1>6, OtherOutcome

LEMMA RunOutcome ==
    ASSUME TypeOK, ObjectsInv, OutcomeInv, NEW a \in Analysis, NEW i,
           NEW phase \in Phase, RunMoves(a, i, phase)
    PROVE  OutcomeInv'
<1> DEFINE r == [runs[a][i] EXCEPT !.phase = phase]
           left == [runs[a] EXCEPT ![i] = r]
<1>1. runs[a] \in Seq(Run) /\ Len(runs[a]) \in Nat
  BY RunsType
<1>2. ~Completed(runs[a][i].phase)
  BY DEF RunMoves
<1>3. runs' = [runs EXCEPT ![a][i].phase = phase]
  BY DEF RunMoves
<1>4. runs' = [runs EXCEPT ![a] = left]
  BY <1>3
<1>5. UNCHANGED <<spec, status, rs, svc, timeUp, late, old, pc, ctx, used, ready>>
  BY DEF RunMoves
<1> HIDE DEF r
<1>6. \A j \in 1..Len(runs[a]) : j # i => left[j] = runs[a][j]
  BY <1>1, SMT
<1> HIDE DEF left
<1>7. EndedKept(runs[a], left)
  BY <1>2, <1>6 DEF EndedKept
<1>8. \A b \in Analysis : EndedKept(runs[b], runs'[b])
  <2>1. \A b \in Analysis : b # a => runs'[b] = runs[b]
    BY <1>4 DEF TypeOK
  <2>2. runs'[a] = left
    BY <1>4 DEF TypeOK
  <2>3. \A b \in Analysis : EndedKept(runs[b], runs[b])
    BY DEF EndedKept
  <2> QED
    BY <1>7, <2>1, <2>2, <2>3
<1>9. timeUp => status.availableAt
  BY DEF OutcomeInv, ReadsFresh
<1> QED
  BY <1>5, <1>8, <1>9, OtherOutcome

(* calculateStatus, from what became of the templates and the analyses     *)
LEMMA AssessedTemplates ==
    ASSUME NEW new
    PROVE  LET codes == {new.templates[t].status : t \in Template}
               worst == AssessTemplates(new)
           IN  /\ worst \in {"Failed", "Error"} => worst \in codes
               /\ worst = "Successful" => codes \cap {"Failed", "Error", "Progressing", "Running"} = {}
               /\ Completed(worst) => worst \in {"Failed", "Error", "Successful"}
<1> DEFINE codes == {new.templates[t].status : t \in Template}
           worst == Worst(<<"Failed", "Error", "Progressing", "Running">>, codes, "Successful")
<1>1. worst = IF "Failed" \in codes THEN "Failed" ELSE IF "Error" \in codes THEN "Error"
              ELSE IF "Progressing" \in codes THEN "Progressing"
              ELSE IF "Running" \in codes THEN "Running" ELSE "Successful"
  BY WorstOfFour
<1>2. AssessTemplates(new) = IF worst = "Progressing" THEN "Pending" ELSE worst
  BY DEF AssessTemplates
<1> HIDE DEF codes, worst
<1>3. /\ AssessTemplates(new) \in {"Failed", "Error"} => AssessTemplates(new) \in codes
      /\ AssessTemplates(new) = "Successful" =>
            codes \cap {"Failed", "Error", "Progressing", "Running"} = {}
      /\ AssessTemplates(new) \in {"Failed", "Error", "Successful", "Pending", "Running"}
  BY <1>1, <1>2
<1> QED
  BY <1>3 DEF Completed, Outcome, Bad, codes

LEMMA AssessedAnalyses ==
    ASSUME NEW new
    PROVE  LET phases == {new.analyses[a].phase : a \in Analysis}
               worst == AssessAnalysisRuns(new)
           IN  /\ worst \in Bad => worst \in phases
               /\ worst \in {"Successful", "Running"} => phases \cap Bad = {}
               /\ worst \in Bad \cup {"Successful", "Running"}
<1> DEFINE phases == {new.analyses[a].phase : a \in Analysis}
           worst == Worst(<<"Failed", "Error", "Inconclusive", "Pending", "Running">>, phases,
                          "Successful")
<1>1. worst = IF "Failed" \in phases THEN "Failed" ELSE IF "Error" \in phases THEN "Error"
              ELSE IF "Inconclusive" \in phases THEN "Inconclusive"
              ELSE IF "Pending" \in phases THEN "Pending"
              ELSE IF "Running" \in phases THEN "Running" ELSE "Successful"
  BY WorstOfFive
<1>2. AssessAnalysisRuns(new) = IF worst = "Pending" THEN "Running" ELSE worst
  BY DEF AssessAnalysisRuns
<1> HIDE DEF phases, worst
<1>3. /\ AssessAnalysisRuns(new) \in Bad => AssessAnalysisRuns(new) \in phases
      /\ AssessAnalysisRuns(new) \in {"Successful", "Running"} => phases \cap Bad = {}
      /\ AssessAnalysisRuns(new) \in Bad \cup {"Successful", "Running"}
  BY <1>1, <1>2 DEF Bad
<1> QED
  BY <1>3 DEF phases

(* With a fresh read, the patch writes every field of the new status.      *)
LEMMA PersistFresh ==
    ASSUME TypeOK, ReadsFresh, PersistExperimentStatus
    PROVE  /\ pc = "status" /\ pc' = "idle" /\ ctx' = NoContext
           /\ status'.phase = DecidedPhase(ctx.new)
           /\ status'.templates = ctx.new.templates /\ status'.analyses = ctx.new.analyses
           /\ timeUp' = timeUp /\ (timeUp => status'.availableAt)
           /\ UNCHANGED <<spec, rs, runs, used>>
<1> DEFINE new == CalculateStatus
           decided == DecidedPhase(ctx.new)
           known == \/ ctx.new.availableAt
                    \/ /\ ctx.new.phase \in {"Pending", "Running"}
                       /\ AssessTemplates(ctx.new) = "Running"
           relisted == new.templates # ctx.status.templates \/ ctx.touched # {}
           phase == IF new.phase # ctx.status.phase THEN new.phase ELSE status.phase
           availableAt == new.availableAt \/ status.availableAt
           templates == IF relisted THEN new.templates ELSE status.templates
           analyses == IF new.analyses # ctx.status.analyses THEN new.analyses ELSE status.analyses
<1>1. /\ new \in Status /\ new.templates = ctx.new.templates
      /\ new.analyses = ctx.new.analyses
  BY CalculatedType
<1>2. new.phase = decided
  <2>1. ctx.new \in Status
    BY SMT DEF TypeOK, Context
  <2>2. new = [ctx.new EXCEPT !.phase = decided, !.availableAt = known]
    BY DEF CalculateStatus
  <2> HIDE DEF new, decided, known
  <2> QED
    BY <2>1, <2>2, SMT DEF Status
<1>3. status' = [phase |-> phase, availableAt |-> availableAt, templates |-> templates,
                 analyses |-> analyses]
  BY DEF PersistExperimentStatus
<1>4. /\ pc = "status" /\ pc' = "idle" /\ ctx' = NoContext
      /\ timeUp' = (timeUp /\ ~(new.availableAt /\ ~ctx.status.availableAt))
      /\ UNCHANGED <<spec, rs, runs, used>>
  BY DEF PersistExperimentStatus
<1> HIDE DEF new, decided
<1>5. ctx.status = status /\ (timeUp => status.availableAt)
  BY <1>4 DEF ReadsFresh
<1>6. phase = decided /\ templates = ctx.new.templates /\ analyses = ctx.new.analyses
  BY <1>1, <1>2, <1>5
<1>7. timeUp => availableAt
  BY <1>5
<1> HIDE DEF phase, availableAt, templates, analyses
<1>8. /\ status'.phase = decided /\ status'.templates = ctx.new.templates
      /\ status'.analyses = ctx.new.analyses /\ status'.availableAt = availableAt
  BY <1>3, <1>6
<1>9. timeUp' = timeUp
  <2>1. timeUp \in BOOLEAN
    BY DEF TypeOK
  <2> QED
    BY <1>4, <1>5, <2>1
<1> QED
  BY <1>4, <1>7, <1>8, <1>9 DEF decided

(* What a pass read as a cause is one in the status that it writes.        *)
LEMMA CauseKept ==
    ASSUME TypeOK, OutcomeInv, pc # "idle", Cause(status)
    PROVE  Cause(ctx.new)
<1>1. CASE RequiredAnalysisRunsSuccessful(status)
  <2>1. spec.required \subseteq Analysis
    BY SMT DEF TypeOK
  <2>2. \A a \in spec.required : Completed(status.analyses[a].phase)
    BY <1>1 DEF RequiredAnalysisRunsSuccessful, Completed, Outcome
  <2>3. \A a \in spec.required : Completed(ctx.new.analyses[a].phase)
    BY <2>1, <2>2 DEF OutcomeInv, OutcomesKept
  <2>4. CASE \E a \in spec.required : ctx.new.analyses[a].phase \in Bad
    BY <2>1, <2>4 DEF Cause
  <2>5. CASE \A a \in spec.required : ctx.new.analyses[a].phase = "Successful"
    BY <1>1, <2>5 DEF RequiredAnalysisRunsSuccessful, Cause
  <2> QED
    BY <2>3, <2>4, <2>5 DEF Completed, Outcome
<1>2. CASE ~RequiredAnalysisRunsSuccessful(status)
  BY <1>2 DEF OutcomeInv, OutcomesKept, Cause
<1> QED
  BY <1>1, <1>2

LEMMA PersistOutcome ==
    ASSUME TypeOK, ObjectsInv, OutcomeInv, PersistExperimentStatus
    PROVE  OutcomeInv'
<1>1. /\ pc = "status" /\ pc' = "idle" /\ ctx' = NoContext
      /\ status'.phase = DecidedPhase(ctx.new)
      /\ status'.templates = ctx.new.templates /\ status'.analyses = ctx.new.analyses
      /\ timeUp' = timeUp /\ (timeUp => status'.availableAt)
      /\ UNCHANGED <<spec, rs, runs, used>>
  BY PersistFresh DEF OutcomeInv
<1>2. ctx'.new = NoStatus
  BY <1>1, NothingType
<1>3. ReadsFresh' /\ OutcomesKept'
  BY <1>1 DEF ReadsFresh, OutcomesKept
<1>4. OutcomesTold'
  <2>1. Told(status', runs, used.faults)
    BY <1>1, ToldMeaning DEF OutcomeInv, Told
  <2>2. Told(ctx'.new, runs, used.faults)
    BY <1>2, NothingTold
  <2> QED
    BY <1>1, <2>1, <2>2 DEF OutcomesTold, Told
<1>5. SuccessCaused'
  <2>1. Cause(status)' <=> Cause(ctx.new)
    BY <1>1 DEF Cause, RequiredAnalysisRunsSuccessful
  <2>2. \A t \in Template : ctx'.new.templates[t].status # "Successful"
    BY <1>2, NothingTold
  <2>3. Completed(status.phase) => Completed(status'.phase)
    <3>1. ctx.new.phase = status.phase
      BY <1>1 DEF OutcomeInv, ReadsFresh
    <3> QED
      BY <1>1, <3>1 DEF DecidedPhase, Completed, Outcome, Bad
  <2> QED
    BY <1>1, <2>1, <2>2, <2>3, CauseKept DEF OutcomeInv, SuccessCaused
<1> QED
  BY <1>3, <1>4, <1>5 DEF OutcomeInv

LEMMA OutcomeStepKept ==
    ASSUME MaxStale = 0, TypeOK, ObjectsInv, OutcomeInv, [Next]_vars
    PROVE  OutcomeInv'
<1>1. CASE Next
  <2>1. CASE SyncHandler
    BY <2>1, SyncOutcome
  <2>2. CASE PersistExperimentStatus
    BY <2>2, PersistOutcome
  <2>3. CASE ReconcileLost
    BY <2>3, LostOutcome
  <2>4. CASE \E t \in Template : ReconcileTemplate(t)
    BY <2>4, TemplateOutcomeStep
  <2>5. CASE \E a \in Analysis : ReconcileAnalysisRun(a)
    BY <2>5, AnalysisOutcomeStep
  <2>6. CASE DurationPasses \/ Terminate \/ \E t \in Template : ProgressDeadlinePasses(t)
    BY <2>6, ClockOutcome
  <2>7. CASE \E t \in Template : PodStep(t)
    BY <2>7, PodOutcome
  <2>8. CASE \E a \in Analysis, i \in 1..MaxRuns, phase \in Phase : RunMoves(a, i, phase)
    BY <2>8, RunOutcome
  <2> QED
    BY <1>1, NextCases, <2>1, <2>2, <2>3, <2>4, <2>5, <2>6, <2>7, <2>8
<1>2. CASE UNCHANGED vars
  <2>1. UNCHANGED <<spec, status, rs, runs, timeUp, pc, ctx, used>>
    BY <1>2 DEF vars
  <2> QED
    BY <2>1 DEF OutcomeInv, ReadsFresh, OutcomesTold, OutcomesKept, SuccessCaused, Cause,
       RequiredAnalysisRunsSuccessful
<1> QED
  BY <1>1, <1>2

\* What OutcomeEarned says of one step
OutcomeStep ==
    LET phase == status'.phase
    IN  Completed(phase) /\ phase # status.phase =>
              \/ phase = "Successful"
                 /\ \/ spec.terminate \/ timeUp
                    \/ spec.required # {} /\ \A a \in spec.required : Ended(a, phase)
              \/ phase \in Bad /\ \E a \in Analysis : Ended(a, phase)
              \/ phase = "Failed" /\ \E t \in Template : status'.templates[t].status = phase
              \/ phase = "Error" /\ used # [faults |-> 0, pods |-> used.pods, stale |-> 0]

(* calculateStatus concludes from what the pass found.                     *)
LEMMA PersistEarned ==
    ASSUME TypeOK, ObjectsInv, AvailabilityInv, OutcomeInv, PersistExperimentStatus
    PROVE  OutcomeStep
<1> DEFINE new == ctx.new
           templates == AssessTemplates(new)
           analyses == AssessAnalysisRuns(new)
           phase == status'.phase
<1> SUFFICES ASSUME Completed(phase), phase # status.phase
             PROVE  \/ phase = "Successful"
                       /\ \/ spec.terminate \/ timeUp
                          \/ spec.required # {} /\ \A a \in spec.required : Ended(a, phase)
                    \/ phase \in Bad /\ \E a \in Analysis : Ended(a, phase)
                    \/ phase = "Failed" /\ \E t \in Template : status'.templates[t].status = phase
                    \/ phase = "Error" /\ used # [faults |-> 0, pods |-> used.pods, stale |-> 0]
  BY DEF OutcomeStep
<1>1. /\ pc = "status" /\ phase = DecidedPhase(new)
      /\ status'.templates = new.templates
  BY PersistFresh DEF OutcomeInv
<1>2. new.phase = status.phase
  BY <1>1 DEF OutcomeInv, ReadsFresh
<1>3. Told(new, runs, used.faults) /\ used.faults \in Nat
  BY NamedType, ToldMeaning DEF OutcomeInv
<1>4. spec.required \subseteq Analysis
  BY SMT DEF TypeOK
<1>5. \A a \in Analysis :
         Completed(new.analyses[a].phase) =>
            Ended(a, new.analyses[a].phase) \/ (new.analyses[a].phase = "Error" /\ used.faults > 0)
  <2>1. \A a \in Analysis : Completed(new.analyses[a].phase) =>
            new.analyses[a].run = status.analyses[a].run
    BY <1>1 DEF OutcomeInv, OutcomesKept
  <2> QED
    BY <1>3, <2>1 DEF Told, Ended, NamedRun
<1>6. used.faults > 0 => used # [faults |-> 0, pods |-> used.pods, stale |-> 0]
  BY <1>3, SMT
<1>7. ~Completed(status.phase)
  BY <1>1, <1>2 DEF DecidedPhase, Completed, Outcome, Bad
<1>8. \/ phase = templates /\ Completed(templates)
         /\ ~(templates = "Successful" /\ (Completed(analyses) \/ spec.required # {}))
      \/ phase = analyses /\ templates = "Successful"
      \/ phase = analyses /\ analyses \in Bad
      \/ phase = analyses /\ RequiredAnalysisRunsSuccessful(new)
  BY <1>1, <1>2 DEF DecidedPhase, Completed, Outcome, Bad
<1>9. analyses \in Bad \cup {"Successful", "Running"}
  BY AssessedAnalyses
<1> HIDE DEF new, templates, analyses, phase
<1>10. ASSUME analyses \in Bad
       PROVE  \/ \E a \in Analysis : Ended(a, analyses)
              \/ analyses = "Error" /\ used # [faults |-> 0, pods |-> used.pods, stale |-> 0]
  <2>1. PICK a \in Analysis : new.analyses[a].phase = analyses
    BY <1>10, AssessedAnalyses DEF analyses
  <2>2. Completed(new.analyses[a].phase)
    BY <1>10, <2>1 DEF Completed, Outcome
  <2> QED
    BY <1>5, <1>6, <2>1, <2>2
<1>11. ASSUME RequiredAnalysisRunsSuccessful(new)
       PROVE  spec.required # {} /\ \A a \in spec.required : Ended(a, "Successful")
  <2>1. Completed("Successful") /\ "Successful" # "Error"
    BY DEF Completed, Outcome
  <2> QED
    BY <1>4, <1>5, <1>11, <2>1 DEF RequiredAnalysisRunsSuccessful
\* All templates are done, and no analysis is bad.
<1>12. ASSUME templates = "Successful", analyses \notin Bad
       PROVE  spec.terminate \/ timeUp \/ RequiredAnalysisRunsSuccessful(new)
  <2>1. \A t \in Template : new.templates[t].status = "Successful"
    <3>1. \A t \in Template :
             new.templates[t].status \notin {"Failed", "Error", "Progressing", "Running"}
      BY <1>12, AssessedTemplates DEF templates
    <3>2. \A t \in Template : new.templates[t].status \in TemplateStatusCode
      BY SMT DEF TypeOK, Context, Status, TemplateStatus, new
    <3>3. \A t \in Template : new.templates[t].status # "none"
      BY <1>1 DEF AvailabilityInv, AssessedHold, ObjectsInv, PassInTurn, new
    <3> QED
      BY <3>1, <3>2, <3>3 DEF TemplateStatusCode
  <2>2. Cause(new)
    <3>1. PICK t \in Template : TRUE
      BY SpecAssumption
    <3> QED
      BY <1>1, <1>7, <2>1, <3>1, CauseKept DEF OutcomeInv, SuccessCaused, new
  <2>3. \A a \in Analysis : new.analyses[a].phase \notin Bad
    BY <1>9, <1>12, AssessedAnalyses DEF analyses
  <2> QED
    BY <2>1, <2>2, <2>3 DEF Cause
<1>13. CASE phase = templates /\ Completed(templates)
            /\ ~(templates = "Successful" /\ (Completed(analyses) \/ spec.required # {}))
  <2>1. templates \in {"Failed", "Error", "Successful"}
    BY <1>13, AssessedTemplates DEF templates
  <2>2. CASE templates \in {"Failed", "Error"}
    <3>1. PICK t \in Template : new.templates[t].status = templates
      BY <2>2, AssessedTemplates DEF templates
    <3>2. templates = "Error" => used.faults > 0
      <4>1. templates = "Error" => used.faults # 0
        BY <1>3, <3>1 DEF Told
      <4> QED
        BY <1>3, <4>1, SMT
    <3> QED
      BY <1>1, <1>6, <1>13, <2>2, <3>1, <3>2
  <2>3. CASE templates = "Successful"
    <3>1. analyses \notin Bad /\ spec.required = {}
      BY <1>13, <2>3 DEF Completed, Outcome
    <3> QED
      BY <1>12, <1>13, <2>3, <3>1 DEF RequiredAnalysisRunsSuccessful
  <2> QED
    BY <2>1, <2>2, <2>3
<1>14. CASE phase = analyses /\ analyses \in Bad
  BY <1>10, <1>14
<1>15. CASE phase = analyses /\ analyses \notin Bad
            /\ (templates = "Successful" \/ RequiredAnalysisRunsSuccessful(new))
  <2>1. phase = "Successful"
    BY <1>9, <1>15 DEF Completed, Outcome, Bad, phase
  <2> QED
    BY <1>11, <1>12, <1>15, <2>1
<1> QED
  BY <1>8, <1>13, <1>14, <1>15

LEMMA StepEarned ==
    TypeOK /\ ObjectsInv /\ AvailabilityInv /\ OutcomeInv /\ Next => OutcomeStep
<1> SUFFICES ASSUME TypeOK, ObjectsInv, AvailabilityInv, OutcomeInv, Next
             PROVE  OutcomeStep
  OBVIOUS
<1>1. CASE PersistExperimentStatus
  BY <1>1, PersistEarned
<1>2. CASE status' = status
  BY <1>2 DEF OutcomeStep
<1>3. CASE \E t \in Template : PodStep(t)
  BY <1>2, <1>3, PodChange
<1>4. CASE \/ SyncHandler \/ ReconcileLost \/ DurationPasses \/ Terminate
           \/ \E t \in Template : ProgressDeadlinePasses(t) \/ ReconcileTemplate(t)
           \/ \E a \in Analysis : ReconcileAnalysisRun(a)
           \/ \E a \in Analysis, i \in 1..MaxRuns, phase \in Phase : RunMoves(a, i, phase)
  <2>1. status' = status
    BY <1>4 DEF SyncHandler, ReconcileLost, DurationPasses, Terminate, ReconcileTemplate,
       ProgressDeadlinePasses, ReconcileAnalysisRun, RunMoves
  <2> QED
    BY <1>2, <2>1
<1> QED
  BY <1>1, <1>3, <1>4, NextCases

(***************************************************************************)
(* The phase an Experiment ends in is one that a termination, the passing  *)
(* of the duration, its required runs, the run that its status names, a    *)
(* late template or an error gave rise to (calculateStatus), however calls *)
(* and pods fail, where every pass reads what the one before it wrote.     *)
(***************************************************************************)
THEOREM OutcomeIsEarned ==
    ASSUME MaxStale = 0
    PROVE  Spec => OutcomeEarned
<1>1. Spec => []OutcomeInv
  <2>1. OutcomeInv /\ TypeOK /\ ObjectsInv /\ [Next]_vars => OutcomeInv'
    BY OutcomeStepKept
  <2> QED
    BY <2>1, InitOutcome, ObjectsCorrect, PTL DEF Spec
<1>2. Spec => []AvailabilityInv
  BY InitAvailability, AvailabilityStep, ObjectsCorrect, PTL DEF Spec
<1>3. TypeOK /\ ObjectsInv /\ AvailabilityInv /\ OutcomeInv /\ [Next]_vars => [OutcomeStep]_vars
  BY StepEarned
<1>4. Spec => [][OutcomeStep]_vars
  BY <1>1, <1>2, <1>3, ObjectsCorrect, PTL DEF Spec
<1> QED
  BY <1>4 DEF OutcomeEarned, OutcomeStep
=============================================================================
