------------------------------- MODULE MCCanary -------------------------------
(* Instances of Canary for TLC.                                            *)
EXTENDS CanaryProperties, TLC

Step(kind) == [kind |-> kind, value |-> 0, by |-> "none", timed |-> FALSE]
SetWeight(n) == [Step("setWeight") EXCEPT !.value = n]
SetCanaryScale(by, n) == [Step("setCanaryScale") EXCEPT !.by = by, !.value = n]
TimedPause == [Step("pause") EXCEPT !.timed = TRUE]

\* A timed pause; a pause and an analysis; an experiment; a canary whose scale
\* is set apart from its weight
TimedSteps == <<SetWeight(1), TimedPause>>
GatedSteps == <<SetWeight(1), Step("pause"), Step("analysis")>>
ExperimentSteps == <<SetWeight(1), Step("experiment")>>
ScaledSteps == <<SetCanaryScale("replicas", 1), SetWeight(1), Step("experiment"),
                 SetCanaryScale("matchTrafficWeight", 0)>>

\* Every kind of step that is waited for; what follows one that was interrupted
MixedSteps == <<SetWeight(1), Step("pause"), Step("analysis"), SetWeight(2)>>
TwoAnalyses == <<Step("analysis"), Step("analysis")>>
TwoPauses == <<Step("pause"), Step("pause")>>

Symmetry == Permutations(Hash)
=============================================================================
