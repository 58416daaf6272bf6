------------------------------ MODULE Surgeon ------------------------------
(***************************************************************************)
(* The Surgeon worker (services/surgeon/src/worker.rs): claims a queued    *)
(* job, fetches the artifact, scans it, stores the static evidence in one  *)
(* transaction and hands the job to the sandbox stage.  Each action ends   *)
(* at the statement the rest of the system can observe.                    *)
(***************************************************************************)
EXTENDS AnalysisJobs

CONSTANT Surgeons  \* worker processes

ASSUME SurgeonsAssumption == NoJob \notin Surgeons

VARIABLE surgeon   \* where each worker is, and the job it claimed

SurgeonPC == {"idle", "claimed", "fetching", "scanning", "persisting",
              "handing-off", "announcing", "failing"}

SurgeonIdle == [pc |-> "idle", job |-> NoJob]

\* A worker is idle without a job or somewhere else with one.
SurgeonTypeOK ==
    surgeon \in [Surgeons -> {SurgeonIdle} \cup
                              [pc: SurgeonPC \ {"idle"}, job: Job]]

SurgeonInit == surgeon = [w \in Surgeons |-> SurgeonIdle]

SurgeonHolds(w, j) == surgeon[w].pc # "idle" /\ surgeon[w].job = j

SurgeonMoves(w, from, to) ==
    /\ surgeon[w].pc = from
    /\ surgeon' = [surgeon EXCEPT ![w].pc = to]

SurgeonStops(w) == surgeon' = [surgeon EXCEPT ![w] = SurgeonIdle]

-----------------------------------------------------------------------------

\* Mutant: the claim leaves the state as it is, as the AI Analyst's does.
SurgeonClaimKeepsState(w, j) ==
    /\ surgeon[w].pc = "idle"
    /\ state[j] = "queued"
    /\ row[j].source_url
    /\ BackoffElapsed(j)
    /\ Touch(j)
    /\ surgeon' = [surgeon EXCEPT ![w] = [pc |-> "claimed", job |-> j]]
    /\ UNCHANGED <<state, retry_count, artifact_id, row, artifacts, reports>>

\* Mutant: the candidate SELECT also takes failed jobs.
SurgeonClaimsFailed(w, j) ==
    /\ surgeon[w].pc = "idle"
    /\ state[j] \in {"queued", "failed"}
    /\ row[j].source_url
    /\ UpdateState(j, "fetching")
    /\ surgeon' = [surgeon EXCEPT ![w] = [pc |-> "claimed", job |-> j]]
    /\ UNCHANGED <<retry_count, artifact_id, row, artifacts, reports>>

\* claim_next_job, the candidate UPDATE.  SKIP LOCKED lets a worker pass over
\* an older row that another statement has locked, so any due row may be taken.
SurgeonClaim(w, j) ==
    /\ surgeon[w].pc = "idle"
    /\ state[j] = "queued"
    /\ row[j].source_url
    /\ BackoffElapsed(j)
    /\ UpdateState(j, "fetching")
    /\ surgeon' = [surgeon EXCEPT ![w] = [pc |-> "claimed", job |-> j]]
    /\ UNCHANGED <<retry_count, artifact_id, row, artifacts, reports>>

\* The rest of claim_next_job and the audit event "analysis.job.fetching".
SurgeonAdmit(w) ==
    /\ SurgeonMoves(w, "claimed", "fetching")
    /\ UNCHANGED jobVars

\* The registry has been disabled or deleted since (fetch_one), or the audit
\* event was not written: `?` leaves without mark_job_failure.
SurgeonAbandon(w) ==
    /\ "registry" \in Faults
    /\ surgeon[w].pc = "claimed"
    /\ SurgeonStops(w)
    /\ UNCHANGED jobVars

\* Source URL valid, artifact fetched, digest as requested, file stored.
SurgeonFetch(w) ==
    /\ SurgeonMoves(w, "fetching", "scanning")
    /\ UpdateState(surgeon[w].job, "static-running")
    /\ UNCHANGED <<retry_count, artifact_id, row, artifacts, reports>>

\* Mutant: the artifact is linked to the job before the evidence is stored.
SurgeonScanLinksEarly(w) ==
    LET j == surgeon[w].job
    IN /\ SurgeonMoves(w, "scanning", "persisting")
       /\ UpdateState(j, "finalizing")
       /\ artifact_id' = [artifact_id EXCEPT ![j] = row[j].sha256]
       /\ UNCHANGED <<retry_count, row, artifacts, reports>>

\* scan_artifact_package returned in time.  The state written before the
\* evidence is stored is 'finalizing', the state the Finalizer claims from.
SurgeonScan(w) ==
    /\ SurgeonMoves(w, "scanning", "persisting")
    /\ UpdateState(surgeon[w].job, "finalizing")
    /\ UNCHANGED <<retry_count, artifact_id, row, artifacts, reports>>

\* persist_static_report: one transaction.
SurgeonPersist(w) ==
    LET j == surgeon[w].job
        d == row[j].sha256
    IN /\ SurgeonMoves(w, "persisting", "handing-off")
       /\ artifacts' = artifacts \cup {d}
       /\ reports' = reports \cup {j}
       /\ artifact_id' = [artifact_id EXCEPT ![j] = d]
       /\ Touch(j)
       /\ UNCHANGED <<state, retry_count, row>>

SurgeonHandOff(w) ==
    /\ SurgeonMoves(w, "handing-off", "announcing")
    /\ UpdateState(surgeon[w].job, "sandbox-pending")
    /\ UNCHANGED <<retry_count, artifact_id, row, artifacts, reports>>

\* The audit event "analysis.job.sandbox_pending" was written.
SurgeonAnnounce(w) ==
    /\ surgeon[w].pc = "announcing"
    /\ SurgeonStops(w)
    /\ UNCHANGED jobVars

\* process_claimed_job returns Err: a bad URL, a failed fetch, a digest
\* mismatch, a scan error or timeout, a failed statement ("static"); or the
\* last audit event, when the job is already sandbox-pending ("audit").
SurgeonFail(w) ==
    /\ \/ /\ "static" \in Faults
          /\ surgeon[w].pc \in {"fetching", "scanning", "persisting", "handing-off"}
       \/ /\ "audit" \in Faults
          /\ surgeon[w].pc = "announcing"
    /\ surgeon' = [surgeon EXCEPT ![w].pc = "failing"]
    /\ UNCHANGED jobVars

\* Mutant: the retry budget is off by one.
SurgeonMarkFailureOffByOne(w) ==
    LET j == surgeon[w].job
        n == retry_count[j] + 1
    IN /\ surgeon[w].pc = "failing"
       /\ UpdateState(j, IF n > MaxRetries THEN "failed" ELSE "queued")
       /\ retry_count' = [retry_count EXCEPT ![j] = n]
       /\ SurgeonStops(w)
       /\ UNCHANGED <<artifact_id, row, artifacts, reports>>

\* Mutant: a failed attempt is not counted.
SurgeonMarkFailureUncounted(w) ==
    /\ surgeon[w].pc = "failing"
    /\ UpdateState(surgeon[w].job, "queued")
    /\ SurgeonStops(w)
    /\ UNCHANGED <<retry_count, artifact_id, row, artifacts, reports>>

\* mark_job_failure: the CASE reads the row's current retry_count.
SurgeonMarkFailure(w) ==
    LET j == surgeon[w].job
        n == retry_count[j] + 1
    IN /\ surgeon[w].pc = "failing"
       /\ UpdateState(j, IF n >= MaxRetries THEN "failed" ELSE "queued")
       /\ retry_count' = [retry_count EXCEPT ![j] = n]
       /\ SurgeonStops(w)
       /\ UNCHANGED <<artifact_id, row, artifacts, reports>>

\* The process dies, or the connection to the database is lost: nothing else
\* is written and nobody takes the job over.
SurgeonCrash(w) ==
    /\ "crash" \in Faults
    /\ surgeon[w].pc # "idle"
    /\ SurgeonStops(w)
    /\ UNCHANGED jobVars

\* What a running worker does next, whatever the outcome.
SurgeonWorks(w) ==
    \/ SurgeonAdmit(w) \/ SurgeonAbandon(w) \/ SurgeonFetch(w) \/ SurgeonScan(w)
    \/ SurgeonPersist(w) \/ SurgeonHandOff(w) \/ SurgeonAnnounce(w)
    \/ SurgeonFail(w) \/ SurgeonMarkFailure(w)

SurgeonNext(w) ==
    \/ \E j \in Job : SurgeonClaim(w, j)
    \/ SurgeonWorks(w)
    \/ SurgeonCrash(w)

=============================================================================
