--------------------------- MODULE PolicyEvidence ---------------------------
(***************************************************************************)
(* The evidence about one package grows: feeds, scans and reviews add      *)
(* signals one at a time, and the engine is asked again after each.        *)
(***************************************************************************)
EXTENDS DecisionEngine

CONSTANTS Observable,   \* signals that may be observed
          Configurable  \* Scorecard checks the snapshot configures

ASSUME ObservableAssumption == Observable \subseteq Signal
ASSUME ConfigurableAssumption == Configurable \subseteq ScorecardCheck

VARIABLES signals,  \* the evidence
          config    \* the policy snapshot's configuration

vars == <<signals, config>>

\* The checks that are not configured keep the default action, "warn".
Init ==
    /\ signals = {}
    /\ config \in Configuration
    /\ \A c \in ScorecardCheck \ Configurable : config.scorecard[c] = "warn"

Observe(s) ==
    /\ s \notin signals
    /\ signals' = signals \cup {s}
    /\ UNCHANGED config

Next == \E s \in Observable : Observe(s)

Spec == Init /\ [][Next]_vars

-----------------------------------------------------------------------------

Answer == Evaluate(signals, config)

\* The vulnerability rule comes before the Scorecard rule, so that a snapshot
\* that only warns of vulnerabilities hides what it says of the Scorecard.
WarnsOfVulnerability ==
    "vulnerable_above_threshold" \in signals /\ config.vulnerability = "warn"

\* A step that adds only adverse signals does not release the package.
KeepsRefusing ==
    signals' \ signals \subseteq Adverse /\ ~WarnsOfVulnerability'
        /\ ~Serves(Answer.decision) => ~Serves(Answer'.decision)

\* Evidence against a package never makes it available: whatever the engine
\* refuses to hand out it still refuses when one more adverse signal is
\* observed, for every configuration of the snapshot -- with the one exception
\* that a vulnerability the snapshot only warns of may release it.
AdverseNeverReleases == [][KeepsRefusing]_vars

=============================================================================
