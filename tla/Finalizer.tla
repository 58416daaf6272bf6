----------------------------- MODULE Finalizer -----------------------------
(***************************************************************************)
(* The finalization worker                                                 *)
(* (services/ai-analyst/src/ai_analyst/finalizer.py): claims a finalizing  *)
(* job, reads the evidence of all the stages, stores an analysis summary   *)
(* and completes the job.  The claim only refreshes updated_at.            *)
(***************************************************************************)
EXTENDS EmergencyRoom, AiAnalyst

CONSTANT Finalizers  \* worker processes

VARIABLES fin,         \* where each worker is, its claim and the evidence read
          summaries    \* per job, the evidence its analysis summaries rest on

\* What load_finalization_inputs found: static reports of this job, a
\* completed sandbox run, an AI explanation.
Evidence == [static: BOOLEAN, sandbox: BOOLEAN, ai: BOOLEAN]

NoEvidence == [static |-> FALSE, sandbox |-> FALSE, ai |-> FALSE]

FinIdle == [pc |-> "idle", job |-> NoJob, retry_count |-> 0, seen |-> NoEvidence]

FinPC == {"claimed", "loading-sandbox", "loading-ai", "summarizing", "completing"}

FinTypeOK ==
    /\ fin \in [Finalizers -> {FinIdle} \cup
                  [pc: FinPC, job: Job, retry_count: Nat, seen: Evidence]]
    /\ summaries \in [Job -> SUBSET Evidence]

FinInit ==
    /\ fin = [w \in Finalizers |-> FinIdle]
    /\ summaries = [j \in Job |-> {}]

FinHolds(w, j) == fin[w].pc # "idle" /\ fin[w].job = j

-----------------------------------------------------------------------------

\* Mutant: the claim does not require the artifact.
FinClaimWithoutArtifact(w, j) ==
    /\ fin[w].pc = "idle"
    /\ state[j] = "finalizing"
    /\ retry_count[j] < MaxRetries
    /\ BackoffElapsed(j)
    /\ Touch(j)
    /\ fin' = [fin EXCEPT ![w] = [pc |-> "claimed", job |-> j,
                                  retry_count |-> retry_count[j],
                                  seen |-> NoEvidence]]
    /\ UNCHANGED <<state, retry_count, artifact_id, row, artifacts, reports, summaries>>

\* claim_next_finalization_job.
FinClaim(w, j) ==
    /\ fin[w].pc = "idle"
    /\ state[j] = "finalizing"
    /\ artifact_id[j] # NoArtifact
    /\ retry_count[j] < MaxRetries
    /\ BackoffElapsed(j)
    /\ Touch(j)
    /\ fin' = [fin EXCEPT ![w] = [pc |-> "claimed", job |-> j,
                                  retry_count |-> retry_count[j],
                                  seen |-> NoEvidence]]
    /\ UNCHANGED <<state, retry_count, artifact_id, row, artifacts, reports, summaries>>

\* load_finalization_inputs: a query per kind of evidence, no transaction.
FinLoadStatic(w) ==
    /\ fin[w].pc = "claimed"
    /\ fin' = [fin EXCEPT ![w].pc = "loading-sandbox",
                          ![w].seen.static = fin[w].job \in reports]
    /\ UNCHANGED <<jobVars, summaries>>

\* Only a completed run has phases in its telemetry.
FinLoadSandbox(w) ==
    /\ fin[w].pc = "loading-sandbox"
    /\ fin' = [fin EXCEPT ![w].pc = "loading-ai",
                  ![w].seen.sandbox = sandbox_runs[fin[w].job]["completed"] > 0]
    /\ UNCHANGED <<jobVars, summaries>>

FinLoadAi(w) ==
    /\ fin[w].pc = "loading-ai"
    /\ fin' = [fin EXCEPT ![w].pc = "summarizing",
                          ![w].seen.ai = fin[w].job \in explanations]
    /\ UNCHANGED <<jobVars, summaries>>

\* build_final_analysis_summary and persist_analysis_summary.
FinPersist(w) ==
    /\ fin[w].pc = "summarizing"
    /\ summaries' = [summaries EXCEPT ![fin[w].job] = @ \cup {fin[w].seen}]
    /\ fin' = [fin EXCEPT ![w].pc = "completing"]
    /\ UNCHANGED jobVars

\* complete_finalization_job: unconditional.
FinComplete(w) ==
    /\ fin[w].pc = "completing"
    /\ UpdateState(fin[w].job, "completed")
    /\ fin' = [fin EXCEPT ![w] = FinIdle]
    /\ UNCHANGED <<retry_count, artifact_id, row, artifacts, reports, summaries>>

\* fail_finalization_job, for an exception of any of these statements.
FinFail(w) ==
    /\ "summary" \in Faults
    /\ fin[w].pc # "idle"
    /\ RecordFailure(fin[w].job, fin[w].retry_count, "failed", "finalizing")
    /\ fin' = [fin EXCEPT ![w] = FinIdle]
    /\ UNCHANGED <<artifact_id, row, artifacts, reports, summaries>>

FinCrash(w) ==
    /\ "crash" \in Faults
    /\ fin[w].pc # "idle"
    /\ fin' = [fin EXCEPT ![w] = FinIdle]
    /\ UNCHANGED <<jobVars, summaries>>

FinWorks(w) ==
    \/ FinLoadStatic(w) \/ FinLoadSandbox(w) \/ FinLoadAi(w)
    \/ FinPersist(w) \/ FinComplete(w) \/ FinFail(w)

FinNext(w) ==
    \/ \E j \in Job : FinClaim(w, j)
    \/ FinWorks(w)
    \/ FinCrash(w)

=============================================================================
