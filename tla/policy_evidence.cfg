SPECIFICATION Spec
CONSTANTS
    Observable = {"active_override", "known_malicious", "known_safe_verdict",
        "typosquat_risk", "static_analysis_score_violation", "hitl_required",
        "fallback_candidate", "unknown_artifact", "vulnerable_above_threshold",
        "code_review", "ci_cd", "install_script_detected"}
    Configurable = {"code_review", "ci_cd"}
PROPERTY AdverseNeverReleases
CHECK_DEADLOCK FALSE
