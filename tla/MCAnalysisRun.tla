---------------------------- MODULE MCAnalysisRun ----------------------------
EXTENDS AnalysisRunProperties

CONSTANTS J, K, W   \* a metric of each provider

ByProvider == [m \in Metric |-> IF m = J THEN "job" ELSE IF m = K THEN "kayenta" ELSE "instant"]

Once == [m \in Metric |-> 1]
Twice == [m \in Metric |-> 2]
TwiceTheJob == [m \in Metric |-> IF m = J THEN 2 ELSE 1]
WForEver == [m \in Metric |-> IF m = W THEN 0 ELSE 1]

Zero == [m \in Metric |-> 0]
JobMayFailOnce == [m \in Metric |-> IF m = J THEN 1 ELSE 0]
=============================================================================
