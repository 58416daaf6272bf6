--------------------------- MODULE DecisionEngine ---------------------------
(***************************************************************************)
(* The policy engine (crates/aegiscudo-policy/src/lib.rs): a pure function *)
(* from the evidence bound to a request to one of seven decisions.  The    *)
(* Boolean fields of PolicyInput become the set of signals that are TRUE;  *)
(* rationale texts become the name of the rule that decided.               *)
(***************************************************************************)

\* The signals that end in BLOCK_POLICY_VIOLATION.
RiskSignal ==
    {"dependency_confusion_risk", "typosquat_risk",
     "artifact_digest_reputation_risk", "cross_ecosystem_ioc_correlation_risk",
     "static_analysis_score_violation", "dynamic_sandbox_policy_violation",
     "github_to_registry_publish_gap_risk", "ai_agent_injection_indicator",
     "minimum_release_age_violation", "maintainer_account_age_risk",
     "recent_maintainer_change_risk", "new_maintainer_ratio_risk"}

\* The signals that end in ALLOW_WITH_WARNING.
WarningSignal ==
    {"install_script_detected", "trusted_publisher_identity_mismatch",
     "provenance_or_signature_verification_failed",
     "missing_or_failed_attestation"}

\* The OpenSSF Scorecard checks, each with an action of its own.
ScorecardCheck == {"code_review", "branch_protection", "ci_cd", "maintained",
                   "signed_releases"}

\* The signals that can only count against a package ...
Adverse ==
    RiskSignal \cup WarningSignal \cup ScorecardCheck
        \cup {"known_malicious", "hitl_required", "unknown_artifact",
              "vulnerable_above_threshold"}

\* ... and the ones that can make it available.
Releasing == {"active_override", "emergency_bypass", "known_safe_verdict",
              "fallback_candidate"}

Signal == Adverse \cup Releasing

SignalPolicyAction == {"allow", "warn", "block", "hitl"}
VulnerabilityPolicyAction == {"warn", "block"}

\* What a policy snapshot configures of the engine.
Configuration ==
    [vulnerability: VulnerabilityPolicyAction,
     scorecard: [ScorecardCheck -> SignalPolicyAction]]

Decision == {"ALLOW", "ALLOW_WITH_WARNING", "QUARANTINE_PENDING_ANALYSIS",
             "BLOCK_KNOWN_MALICIOUS", "BLOCK_POLICY_VIOLATION",
             "REQUIRE_HITL_APPROVAL", "FALLBACK_TO_APPROVED_CANDIDATE"}

Rule == {"override", "malicious", "known-safe", "risk", "hitl", "fallback",
         "unknown", "vulnerable", "scorecard", "warning", "clean"}

-----------------------------------------------------------------------------

\* The actions of the failed checks; a check set to "allow" is passed over.
ScorecardActions(signals, config) ==
    {config.scorecard[c] : c \in signals \cap ScorecardCheck} \ {"allow"}

\* scorecard_policy_outcome: the most severe action among the failed checks.
ScorecardOutcome(actions) ==
    IF "block" \in actions THEN "BLOCK_POLICY_VIOLATION"
    ELSE IF "hitl" \in actions THEN "REQUIRE_HITL_APPROVAL"
    ELSE "ALLOW_WITH_WARNING"

VulnerabilityOutcome(config) ==
    IF config.vulnerability = "block" THEN "BLOCK_POLICY_VIOLATION"
    ELSE "ALLOW_WITH_WARNING"

Verdict(decision, rule) == [decision |-> decision, rule |-> rule]

\* Mutant: a known-safe verdict is looked at before the malware match.
EvaluateSafeFirst(signals, config) ==
    IF "known_safe_verdict" \in signals THEN Verdict("ALLOW", "known-safe")
    ELSE IF "known_malicious" \in signals
    THEN Verdict("BLOCK_KNOWN_MALICIOUS", "malicious")
    ELSE IF "unknown_artifact" \in signals
    THEN Verdict("QUARANTINE_PENDING_ANALYSIS", "unknown")
    ELSE Verdict("ALLOW", "clean")

\* Mutant: warnings are looked at before the Scorecard outcome.
EvaluateWarningFirst(signals, config) ==
    IF signals \cap {"active_override", "emergency_bypass"} # {}
    THEN Verdict("ALLOW_WITH_WARNING", "override")
    ELSE IF "known_malicious" \in signals
    THEN Verdict("BLOCK_KNOWN_MALICIOUS", "malicious")
    ELSE IF "known_safe_verdict" \in signals THEN Verdict("ALLOW", "known-safe")
    ELSE IF signals \cap WarningSignal # {}
    THEN Verdict("ALLOW_WITH_WARNING", "warning")
    ELSE IF signals \cap RiskSignal # {}
    THEN Verdict("BLOCK_POLICY_VIOLATION", "risk")
    ELSE Verdict("ALLOW", "clean")

\* DecisionEngine::evaluate: the first rule that matches decides.  An
\* analysis job is asked for exactly by the rule "unknown".
Evaluate(signals, config) ==
    LET Has(s) == s \in signals
        actions == ScorecardActions(signals, config)
    IN  IF Has("active_override") \/ Has("emergency_bypass")
        THEN Verdict("ALLOW_WITH_WARNING", "override")
        ELSE IF Has("known_malicious")
        THEN Verdict("BLOCK_KNOWN_MALICIOUS", "malicious")
        ELSE IF Has("known_safe_verdict")
        THEN Verdict("ALLOW", "known-safe")
        ELSE IF signals \cap RiskSignal # {}
        THEN Verdict("BLOCK_POLICY_VIOLATION", "risk")
        ELSE IF Has("hitl_required")
        THEN Verdict("REQUIRE_HITL_APPROVAL", "hitl")
        ELSE IF Has("fallback_candidate")
        THEN Verdict("FALLBACK_TO_APPROVED_CANDIDATE", "fallback")
        ELSE IF Has("unknown_artifact")
        THEN Verdict("QUARANTINE_PENDING_ANALYSIS", "unknown")
        ELSE IF Has("vulnerable_above_threshold")
        THEN Verdict(VulnerabilityOutcome(config), "vulnerable")
        ELSE IF actions # {}
        THEN Verdict(ScorecardOutcome(actions), "scorecard")
        ELSE IF signals \cap WarningSignal # {}
        THEN Verdict("ALLOW_WITH_WARNING", "warning")
        ELSE Verdict("ALLOW", "clean")

\* The version asked for is handed out: the decision neither blocks
\* (PolicyDecision::is_blocking) nor puts a fallback candidate in its place.
Serves(decision) == decision \in {"ALLOW", "ALLOW_WITH_WARNING"}

=============================================================================
