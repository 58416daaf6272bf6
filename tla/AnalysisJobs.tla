--------------------------- MODULE AnalysisJobs ---------------------------
(***************************************************************************)
(* The analysis_jobs table of the control plane and the two tables the    *)
(* Triage Counter reads and writes together with it.  Every stage of the   *)
(* analysis plane works on this one table: a worker claims a row with one  *)
(* autocommitted UPDATE, works on it without any lock, and writes the next *)
(* state by primary key, whatever the state has become in the meantime.    *)
(*                                                                         *)
(* One tenant is modelled: every statement of the code is keyed by         *)
(* tenant_id, so tenants do not interact.                                  *)
(***************************************************************************)
EXTENDS Naturals, FiniteSets

CONSTANTS Job,         \* ids of analysis_jobs rows that may ever be inserted
          Digest,      \* artifact SHA-256 digests
          Ecosystem,   \* ecosystems of the requested packages
          NoArtifact,  \* NULL in analysis_jobs.artifact_id
          NoJob,       \* what a worker holds that holds no job
          MaxRetries,  \* max_retries of every worker (the default is 3)
          Faults       \* the failures the environment may inject

AllFaults == {"crash", "registry", "audit", "static", "sandbox", "ai",
              "degrade", "summary"}

ASSUME MaxRetriesAssumption == MaxRetries \in Nat \ {0}
ASSUME NoArtifactAssumption == NoArtifact \notin Digest
ASSUME NoJobAssumption == NoJob \notin Job
ASSUME FaultsAssumption == Faults \subseteq AllFaults

VARIABLES
    state,         \* analysis_jobs.state, or a phase before the INSERT
    retry_count,   \* analysis_jobs.retry_count, shared by all the stages
    artifact_id,   \* analysis_jobs.artifact_id: a digest or NoArtifact
    row,           \* the columns that never change after the INSERT
    ripe,          \* rows whose updated_at is older than their backoff
    artifacts,     \* digests with a row in artifacts
    reports        \* jobs with a row in static_analysis_reports

jobVars == <<state, retry_count, artifact_id, row, ripe, artifacts, reports>>

-----------------------------------------------------------------------------

\* The analysis_job_state enum.  No statement of the code writes 'cancelled'.
JobState == {"queued", "fetching", "static-running", "sandbox-pending",
             "sandbox-running", "ai-pending", "finalizing", "completed",
             "failed", "cancelled"}

\* Before the row exists: nobody asked for the package yet, or the Triage
\* Counter has decided to quarantine it and is about to insert the row.
NoRow == {"absent", "deciding"}

Row == [sha256: Digest, ecosystem: Ecosystem, source_url: BOOLEAN]

JobsTypeOK ==
    /\ state \in [Job -> JobState \cup NoRow]
    /\ retry_count \in [Job -> Nat]
    /\ artifact_id \in [Job -> Digest \cup {NoArtifact}]
    /\ row \in [Job -> Row]
    /\ ripe \in SUBSET Job
    /\ artifacts \in SUBSET Digest
    /\ reports \in SUBSET Job

\* Immutable columns are chosen before the row is inserted, so that a row's
\* value never changes afterwards.
JobsInit ==
    /\ state = [j \in Job |-> "absent"]
    /\ retry_count = [j \in Job |-> 0]
    /\ artifact_id = [j \in Job |-> NoArtifact]
    /\ row \in [Job -> Row]
    /\ ripe = {}
    /\ artifacts = {}
    /\ reports = {}

-----------------------------------------------------------------------------

\* The WHERE clause all the claims share: a first attempt is due at once, a
\* retry after LEAST(300, 2^(retry_count - 1)) seconds without any UPDATE.
BackoffElapsed(j) == retry_count[j] = 0 \/ j \in ripe

\* Every UPDATE of the row sets updated_at = now().
Touch(j) == ripe' = ripe \ {j}

\* UPDATE analysis_jobs SET state = ... WHERE id = ...: unconditional.
UpdateState(j, s) ==
    /\ state' = [state EXCEPT ![j] = s]
    /\ Touch(j)

\* The failure UPDATE of the Python workers: the next state comes from the
\* retry_count read by the claim, the increment from the column itself.
RecordFailure(j, claimedRetryCount, exhausted, again) ==
    /\ UpdateState(j, IF claimedRetryCount + 1 >= MaxRetries
                      THEN exhausted ELSE again)
    /\ retry_count' = [retry_count EXCEPT ![j] = @ + 1]

-----------------------------------------------------------------------------

\* Triage Counter, bind: the digest has no artifacts row, so the engine
\* answers QUARANTINE_PENDING_ANALYSIS with create_analysis_job.
TriageQuarantine(j) ==
    /\ state[j] = "absent"
    /\ row[j].sha256 \notin artifacts
    /\ state' = [state EXCEPT ![j] = "deciding"]
    /\ UNCHANGED <<retry_count, artifact_id, row, ripe, artifacts, reports>>

\* create_analysis_job_if_needed: the artifact is looked up again and its id,
\* if an analysis of the same digest has finished since, goes into the row.
\* The row is inserted even when source_url is missing: the error comes after.
TriageCreateJob(j) ==
    /\ state[j] = "deciding"
    /\ UpdateState(j, "queued")
    /\ artifact_id' = [artifact_id EXCEPT ![j] =
                          IF row[j].sha256 \in artifacts
                          THEN row[j].sha256 ELSE NoArtifact]
    /\ UNCHANGED <<retry_count, row, artifacts, reports>>

\* The clock: the row has not been updated for the length of its backoff.  It
\* is told apart only in the states some worker claims from.
BackoffElapses(j) ==
    /\ state[j] \in {"queued", "sandbox-pending", "ai-pending", "finalizing"}
    /\ retry_count[j] > 0
    /\ j \notin ripe
    /\ ripe' = ripe \cup {j}
    /\ UNCHANGED <<state, retry_count, artifact_id, row, artifacts, reports>>

=============================================================================
