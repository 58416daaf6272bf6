-------------------------- MODULE MCTriageCounter --------------------------
(***************************************************************************)
(* Small instances of the Triage Counter.                                  *)
(***************************************************************************)
EXTENDS TriageCounter, TLC

\* Every profile warns of vulnerabilities and of the Scorecard, the defaults.
MCConfig ==
    [p \in Profile |-> [vulnerability |-> "warn",
                        scorecard |-> [c \in ScorecardCheck |-> "warn"]]]

\* All versions consist of the same bytes, d1.
MCDigestOf == [v \in Version |-> CHOOSE d \in Digest : TRUE]

\* Versions of the same bytes are as interchangeable as the handlers.
Symmetry == Permutations(Handler) \cup Permutations(Version)

\* What is read when neither simulations nor packuments are asked for: not the
\* history, not the latest approved version, and of the jobs the fetchable ones.
Read ==
    <<decision_cache, handlers, safe, {v \in Version : "fetchable" \in jobs[v]},
      envVars, overrides>>

=============================================================================
