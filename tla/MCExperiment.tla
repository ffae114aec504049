----------------------------- MODULE MCExperiment -----------------------------
EXTENDS ExperimentProperties

CONSTANT A       \* the required analysis

Required == {[duration |-> FALSE, delay |-> TRUE, required |-> {A}]}
TimedOrRequired == {[duration |-> d, delay |-> d, required |-> IF d THEN {} ELSE {A}] : d \in BOOLEAN}
=============================================================================
