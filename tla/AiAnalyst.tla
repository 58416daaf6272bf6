----------------------------- MODULE AiAnalyst -----------------------------
(***************************************************************************)
(* The AI Analyst worker (services/ai-analyst/src/ai_analyst/worker.py):   *)
(* claims an ai-pending job, asks the tenant's provider for an advisory    *)
(* explanation of the evidence, stores it and moves the job to finalizing. *)
(* The claim only refreshes updated_at: the job stays ai-pending.          *)
(***************************************************************************)
EXTENDS AnalysisJobs

CONSTANT Analysts  \* worker processes

VARIABLES ai,             \* where each worker is and what its claim returned
          explanations    \* jobs with a row in ai_explanations

AiIdle == [pc |-> "idle", job |-> NoJob, retry_count |-> 0]

AiTypeOK ==
    /\ ai \in [Analysts -> {AiIdle} \cup
                  [pc: {"explaining", "recording"}, job: Job, retry_count: Nat]]
    /\ explanations \in SUBSET Job

AiInit ==
    /\ ai = [w \in Analysts |-> AiIdle]
    /\ explanations = {}

AiHolds(w, j) == ai[w].pc # "idle" /\ ai[w].job = j

-----------------------------------------------------------------------------

\* claim_next_ai_job.
AiClaim(w, j) ==
    /\ ai[w].pc = "idle"
    /\ state[j] = "ai-pending"
    /\ artifact_id[j] # NoArtifact
    /\ retry_count[j] < MaxRetries
    /\ BackoffElapsed(j)
    /\ Touch(j)
    /\ ai' = [ai EXCEPT ![w] = [pc |-> "explaining", job |-> j,
                                retry_count |-> retry_count[j]]]
    /\ UNCHANGED <<state, retry_count, artifact_id, row, artifacts, reports, explanations>>

\* The provider answered with a valid explanation; persist_ai_explanation
\* inserts it.  The llm_usage_events row follows in a statement of its own.
AiExplain(w) ==
    /\ ai[w].pc = "explaining"
    /\ explanations' = explanations \cup {ai[w].job}
    /\ ai' = [ai EXCEPT ![w].pc = "recording"]
    /\ UNCHANGED jobVars

\* The usage row is inserted and finalize_ai_job runs.
AiFinalize(w) ==
    /\ ai[w].pc = "recording"
    /\ UpdateState(ai[w].job, "finalizing")
    /\ ai' = [ai EXCEPT ![w] = AiIdle]
    /\ UNCHANGED <<retry_count, artifact_id, row, artifacts, reports, explanations>>

\* An error should_degrade_without_ai_explanation accepts (no provider, no
\* credential, provider down, invalid or unsafe answer): degrade_ai_job.
AiDegrade(w) ==
    /\ "degrade" \in Faults
    /\ ai[w].pc = "explaining"
    /\ UpdateState(ai[w].job, "finalizing")
    /\ ai' = [ai EXCEPT ![w] = AiIdle]
    /\ UNCHANGED <<retry_count, artifact_id, row, artifacts, reports, explanations>>

\* Any other error, before or after the explanation is stored: fail_ai_job.
AiFail(w) ==
    /\ "ai" \in Faults
    /\ ai[w].pc # "idle"
    /\ RecordFailure(ai[w].job, ai[w].retry_count, "failed", "ai-pending")
    /\ ai' = [ai EXCEPT ![w] = AiIdle]
    /\ UNCHANGED <<artifact_id, row, artifacts, reports, explanations>>

AiCrash(w) ==
    /\ "crash" \in Faults
    /\ ai[w].pc # "idle"
    /\ ai' = [ai EXCEPT ![w] = AiIdle]
    /\ UNCHANGED <<jobVars, explanations>>

AiWorks(w) == AiExplain(w) \/ AiFinalize(w) \/ AiDegrade(w) \/ AiFail(w)

AiNext(w) ==
    \/ \E j \in Job : AiClaim(w, j)
    \/ AiWorks(w)
    \/ AiCrash(w)

=============================================================================
