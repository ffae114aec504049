------------------------- MODULE ExperimentProperties -------------------------
(* What the experiment controller promises.                                *)
EXTENDS Experiment

NamedRun(a) == runs[a][status.analyses[a].run]
Ended(a, phase) == status.analyses[a].run > 0 /\ NamedRun(a).phase = phase

(***************************************************************************)
(* An analysis that starts before all templates serve measures nothing:    *)
(* reconcileAnalysisRun waits for status.availableAt, which only a pass    *)
(* that found every template complete sets, though the store of that pass, *)
(* and the status that a later one reads, may be old.                      *)
(***************************************************************************)
RunsAfterAvailability == (\E a \in Analysis : runs[a] # <<>>) => ready

(***************************************************************************)
(* CreateWithCollisionCounter: however often a pass is cut short or reads  *)
(* an old status, no analysis has two AnalysisRuns that measure at once.   *)
(***************************************************************************)
OneOpenRun ==
    \A a \in Analysis : \A i, j \in DOMAIN runs[a] :
        ~Completed(runs[a][i].phase) /\ ~Completed(runs[a][j].phase) => i = j

(***************************************************************************)
(* What RunsAfterAvailability and OneOpenRun rest on: the objects first.   *)
(* All runs of an analysis but the last one have ended.                    *)
(***************************************************************************)
RunsInTurn ==
    \A a \in Analysis : \A i \in 1..Len(runs[a]) - 1 : Completed(runs[a][i].phase)

\* The runs that a status names are there.
RunsNamed ==
    \A s \in {status, old.status, ctx.status, ctx.new} :
        \A a \in Analysis : s.analyses[a].run <= Len(runs[a])

\* The templates are what is left of a pass, or none is.
PassInTurn == pc # "idle" => (pc = "templates" <=> ctx.templates # {})

Empty(r) == r.replicas = 0 /\ r.available = 0

\* A ReplicaSet never has more pods than the template asks for, and none
\* before a pass has seen it in the store.
ReplicaSetsHold ==
    /\ \A t \in Template :
          /\ rs[t].replicas \in {0, Replicas} /\ rs[t].available <= Replicas
          /\ ~rs[t].exists => Empty(rs[t])
    /\ \A t \in ctx.created.rs : Empty(rs[t]) /\ t \notin ctx.templates
    /\ \A t \in old.rs : pc = "idle" \/ t \in ctx.templates => Empty(rs[t])
    /\ MaxStale = 0 => old.rs = {}
    /\ pc # "idle" => \A t \in ctx.templates :
          IF ctx.rs[t].exists THEN rs[t].exists ELSE Empty(rs[t]) /\ ctx.rs[t].available = 0

\* Inductive with TypeOK
ObjectsInv == RunsInTurn /\ RunsNamed /\ PassInTurn /\ ReplicaSetsHold

\* The status of a template that the pass has been through
AssessedHold ==
    pc # "idle" =>
        \A t \in Template \ ctx.templates :
            LET code == ctx.new.templates[t].status
                read == ctx.status.templates[t].status
            IN  /\ code # "none"
                /\ code = "Running" => ctx.new.templates[t].available = Replicas
                /\ TemplateCompleted(read) \/ IsTerminating => TemplateCompleted(code)
                /\ code = "Successful" => ready \/ IsTerminating \/ read = "Successful"

\* Until all templates were available at once, one that is done means that
\* all of them are: a termination ends them in one pass.
AllDone(s) ==
    (\E t \in Template : s.templates[t].status = "Successful") =>
        \A t \in Template : TemplateCompleted(s.templates[t].status)

\* All templates were available at once where they are now, where a pass has
\* read so, and where some status says so.
AvailabilityKnown ==
    /\ (\A t \in Template : rs[t].available = Replicas) => ready
    /\ pc # "idle" /\ (\A t \in Template :
            IF t \in ctx.templates THEN ctx.rs[t].available = Replicas
            ELSE /\ ctx.new.templates[t].status = "Running"
                 /\ ctx.new.templates[t].available = Replicas) => ready
    /\ \A s \in {status, old.status, ctx.status, ctx.new} : s.availableAt => ready
    /\ \A s \in {status, old.status, ctx.status} : ready \/ AllDone(s)

\* Inductive with TypeOK and ObjectsInv
AvailabilityInv == AssessedHold /\ AvailabilityKnown /\ RunsAfterAvailability

(***************************************************************************)
(* The phase an Experiment ends in is one that something gave rise to:     *)
(* Successful takes a termination, the duration or the success of every    *)
(* required run; the others take a run with that outcome, a template that  *)
(* was late, or an error (calculateStatus).                                *)
(***************************************************************************)
OutcomeEarned ==
    [][LET phase == status'.phase
       IN  Completed(phase) /\ phase # status.phase =>
              \/ phase = "Successful"
                 /\ \/ spec.terminate \/ timeUp
                    \/ spec.required # {} /\ \A a \in spec.required : Ended(a, phase)
              \/ phase \in Bad /\ \E a \in Analysis : Ended(a, phase)
              \/ phase = "Failed" /\ \E t \in Template : status'.templates[t].status = phase
              \/ phase = "Error" /\ used # [faults |-> 0, pods |-> used.pods, stale |-> 0]]_vars

(***************************************************************************)
(* What OutcomeEarned rests on where every pass reads what the last one    *)
(* wrote: such a pass knows the status as it is.                           *)
(***************************************************************************)
ReadsFresh ==
    /\ timeUp => status.availableAt
    /\ pc # "idle" =>
        /\ ctx.status = status /\ ctx.new.phase = status.phase /\ ctx.lag = "none"
        /\ ctx.terminate => spec.terminate
        /\ \A t \in ctx.templates : rs[t].exists => ctx.rs[t].exists

\* An error comes of a fault, any other outcome of an analysis of the run
\* that the status names.
OutcomesTold ==
    \A s \in {status, ctx.new} :
        /\ used.faults = 0 => \A t \in Template : s.templates[t].status # "Error"
        /\ \A a \in Analysis :
              LET now == s.analyses[a]
              IN  Completed(now.phase) =>
                    \/ now.run > 0 /\ runs[a][now.run].phase = now.phase
                    \/ now.phase = "Error" /\ used.faults > 0

\* A pass takes back no outcome that it read, and ends no run that is not
\* the one named.
OutcomesKept ==
    pc # "idle" =>
        /\ \A t \in Template :
              status.templates[t].status \in {"Failed", "Error"} =>
                  ctx.new.templates[t].status \in {"Failed", "Error"}
        /\ \A a \in Analysis :
              LET read == status.analyses[a]
                  now == ctx.new.analyses[a]
              IN  /\ read.phase \in Bad => now.phase \in Bad
                  /\ Completed(read.phase) => Completed(now.phase)
                  /\ Completed(now.phase) => now.run = read.run

\* What makes IsTerminating or PassedDuration hold, but for the phase
Cause(s) ==
    \/ spec.terminate \/ timeUp \/ RequiredAnalysisRunsSuccessful(s)
    \/ \E t \in Template : s.templates[t].status \in {"Failed", "Error"}
    \/ \E a \in Analysis : s.analyses[a].phase \in Bad

\* No template succeeds before there is a cause.
SuccessCaused ==
    \/ Completed(status.phase) \/ Cause(status)
    \/ \A t \in Template : /\ status.templates[t].status # "Successful"
                           /\ ctx.new.templates[t].status # "Successful"

\* Inductive with TypeOK and ObjectsInv if MaxStale = 0
OutcomeInv == ReadsFresh /\ OutcomesTold /\ OutcomesKept /\ SuccessCaused

(***************************************************************************)
(* scaleDownDelaySeconds: a template gives up its pods only when the delay *)
(* that was set has passed, unless setting it failed in that very pass     *)
(* (addScaleDownDelayToTemplateRS goes on after a warning).                *)
(***************************************************************************)
DelayHonoured ==
    [][\A t \in Template :
          spec.delay /\ rs[t].replicas > rs'[t].replicas =>
              rs[t].deadline = "passed" \/ used'.faults > used.faults]_vars

(***************************************************************************)
(* An Experiment whose pods never come up does not wait for ever, nor does *)
(* one without required runs whose time is up or that is terminated.       *)
(***************************************************************************)
Completes ==
    /\ <>(status.availableAt \/ Completed(status.phase))
    /\ (spec.required = {} /\ (spec.terminate \/ timeUp)) ~> Completed(status.phase)

(***************************************************************************)
(* What an Experiment started it takes down again: once it is over, the    *)
(* ReplicaSets go to zero after their delay and the runs it names end, but *)
(* for those whose status became Error of itself: TerminateRun is tried    *)
(* once.  A Service stays behind only if a call failed.                    *)
(***************************************************************************)
Tidies ==
    Completed(status.phase) ~>
        [](/\ \A t \in Template : rs[t].replicas = 0 /\ rs[t].available = 0
           /\ svc # {} => used.faults > 0
           /\ \A a \in Analysis :
                 status.analyses[a].run = 0 \/ status.analyses[a].phase = "Error"
                     \/ Completed(NamedRun(a).phase))

(***************************************************************************)
(* calculateStatus: "All the required analysis runs have completed         *)
(* successfully so we can conclude the experiment successfully."           *)
(***************************************************************************)
RequiredConcludes ==
    RequiredAnalysisRunsSuccessful(status) ~> Completed(status.phase)

=============================================================================
