SPECIFICATION Spec
CONSTANTS
    Job = {j1}
    Digest = {d1}
    Ecosystem = {"npm", "cargo"}
    NoArtifact = NoArtifact
    NoJob = NoJob
    MaxRetries = 2
    Faults = {"crash", "registry", "audit", "static", "sandbox", "ai", "degrade", "summary"}
    Surgeons = {s1, s2}
    Sandboxes = {e1, e2}
    Analysts = {a1, a2}
    Finalizers = {f1}
SYMMETRY Symmetry
INVARIANTS TypeOK SurgeonExclusive QueuedWithinBudget ArtifactLinked CompletedHasSummary RunsCovered SandboxExclusive
PROPERTIES SettledIsFinal LeaseSpec
CHECK_DEADLOCK FALSE
