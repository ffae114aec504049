--------------------------- MODULE AnalysisVerdict ---------------------------
(***************************************************************************)
(* What an AnalysisRun promises whoever waits for it, the Rollout or the   *)
(* Experiment that created it: each metric gets at most one verdict, the   *)
(* run gets at most one outcome, neither is ever taken back, and the       *)
(* outcome is the worst verdict of the metrics that are not in dry-run     *)
(* mode, given once all have theirs, or one of them spoils the run, or     *)
(* somebody cancelled it.                                                  *)
(***************************************************************************)
CONSTANTS Metric, DryRun

VARIABLES cancelled, verdict, outcome

vars == <<cancelled, verdict, outcome>>

Verdict == {"Successful", "Inconclusive", "Error", "Failed"}

\* From best to worst (analysisStatusOrder)
Worse(p) ==
    CASE p = "Successful" -> {"Inconclusive", "Error", "Failed"}
      [] p = "Inconclusive" -> {"Error", "Failed"}
      [] p = "Error" -> {"Failed"}
      [] OTHER -> {}

IsWorst(p, verdicts) ==
    /\ p \in verdicts \cup {"Successful"}
    /\ verdicts \cap Worse(p) = {}

Init ==
    /\ cancelled = FALSE
    /\ verdict = [m \in Metric |-> "open"]
    /\ outcome = "open"

Cancel == cancelled' = TRUE /\ UNCHANGED <<verdict, outcome>>

Spoiled == \E m \in Metric \ DryRun : verdict[m] \in Verdict \ {"Successful"}

\* Some metrics get their verdicts, and with them the run perhaps its outcome.
Decide ==
    /\ outcome = "open"
    /\ verdict' \in [Metric -> Verdict \cup {"open"}]
    /\ \A m \in Metric : verdict[m] # "open" => verdict'[m] = verdict[m]
    /\ \/ outcome' = "open"
       \/ /\ cancelled \/ Spoiled \/ \A m \in Metric : verdict'[m] # "open"
          /\ IsWorst(outcome', {verdict'[m] : m \in Metric \ DryRun})
    /\ UNCHANGED cancelled

\* The run cannot be carried out.
GiveUp == outcome = "open" /\ outcome' = "Error" /\ UNCHANGED <<cancelled, verdict>>

Next == Cancel \/ Decide \/ GiveUp

Spec == Init /\ [][Next]_vars
=============================================================================
