------------------------- MODULE AnalysisPipeline -------------------------
(***************************************************************************)
(* The analysis plane: the Triage Counter inserts jobs, and any number of  *)
(* Surgeon, Emergency Room, AI Analyst and Finalizer workers move them     *)
(* along by updates of the same rows.                                      *)
(***************************************************************************)
EXTENDS Surgeon, Finalizer

vars == <<jobVars, surgeon, er, sandbox_runs, ai, explanations, fin, summaries>>

Init ==
    /\ JobsInit
    /\ SurgeonInit
    /\ ErInit
    /\ AiInit
    /\ FinInit

TriageStep ==
    /\ \E j \in Job : TriageQuarantine(j) \/ TriageCreateJob(j) \/ BackoffElapses(j)
    /\ UNCHANGED <<surgeon, er, sandbox_runs, ai, explanations, fin, summaries>>

SurgeonStep ==
    /\ \E w \in Surgeons : SurgeonNext(w)
    /\ UNCHANGED <<er, sandbox_runs, ai, explanations, fin, summaries>>

ErStep ==
    /\ \E w \in Sandboxes : ErNext(w)
    /\ UNCHANGED <<surgeon, ai, explanations, fin, summaries>>

AiStep ==
    /\ \E w \in Analysts : AiNext(w)
    /\ UNCHANGED <<surgeon, er, sandbox_runs, fin, summaries>>

FinStep ==
    /\ \E w \in Finalizers : FinNext(w)
    /\ UNCHANGED <<surgeon, er, sandbox_runs, ai, explanations>>

Next == TriageStep \/ SurgeonStep \/ ErStep \/ AiStep \/ FinStep

Spec == Init /\ [][Next]_vars

\* The workers are invoked over and over (process-next-job): one that is not
\* killed takes its next step, an idle one claims what it can, the clock runs.
Fairness ==
    /\ \A j \in Job : WF_vars(BackoffElapses(j) /\ TriageStep)
    /\ \A w \in Surgeons :
         WF_vars((SurgeonWorks(w) \/ \E j \in Job : SurgeonClaim(w, j)) /\ SurgeonStep)
    /\ \A w \in Sandboxes :
         WF_vars((ErWorks(w) \/ \E j \in Job : ErClaim(w, j)) /\ ErStep)
    /\ \A w \in Analysts :
         WF_vars((AiWorks(w) \/ \E j \in Job : AiClaim(w, j)) /\ AiStep)
    /\ \A w \in Finalizers :
         WF_vars((FinWorks(w) \/ \E j \in Job : FinClaim(w, j)) /\ FinStep)

FairSpec == Spec /\ Fairness

-----------------------------------------------------------------------------

\* Every variable stays in its type.
TypeOK ==
    /\ JobsTypeOK
    /\ SurgeonTypeOK
    /\ ErTypeOK
    /\ AiTypeOK
    /\ FinTypeOK

\* Some worker of some stage is working on the job.
Held(j) ==
    \/ \E w \in Surgeons : SurgeonHolds(w, j)
    \/ \E w \in Sandboxes : ErHolds(w, j)
    \/ \E w \in Analysts : AiHolds(w, j)
    \/ \E w \in Finalizers : FinHolds(w, j)

\* A job is fetched, scanned and stored by one Surgeon at a time, and a queued
\* job by none: claim_next_job takes it out of 'queued', and only the Surgeon
\* that holds it (mark_job_failure) puts it back -- whatever the later stages
\* write into the row in the meantime, and whoever crashes.
SurgeonExclusive ==
    /\ \A v, w \in Surgeons : \A j \in Job :
          SurgeonHolds(v, j) /\ SurgeonHolds(w, j) => v = w
    /\ \A w \in Surgeons : \A j \in Job :
          SurgeonHolds(w, j) => state[j] \notin NoRow \cup {"queued"}

\* claim_next_job does not look at the retry budget; it need not, because no
\* sequence of failures of the four stages leaves an exhausted job 'queued'.
QueuedWithinBudget ==
    \A j \in Job : state[j] = "queued" => retry_count[j] < MaxRetries

\* A job's artifact is the artifact it asked for, it has a row, and some job
\* has stored a static report for it: what lets claim_next_sandbox_job find the
\* artifact, and the Triage Counter take an existing artifact as analysed.
ArtifactLinked ==
    /\ \A j \in Job : artifact_id[j] # NoArtifact =>
          artifact_id[j] = row[j].sha256 /\ artifact_id[j] \in artifacts
    /\ \A d \in artifacts : \E j \in reports : row[j].sha256 = d

\* What a summary says of job j was really stored.
EvidenceStored(j, e) ==
    /\ e.static => j \in reports
    /\ e.sandbox => sandbox_runs[j]["completed"] > 0
    /\ e.ai => j \in explanations

\* A completed job has a summary and an artifact, however many workers took it
\* and in whichever order their unconditional updates landed; and a summary
\* claims no evidence its job does not have, although load_finalization_inputs
\* reads it in three SELECTs while the other stages go on working on the job.
CompletedHasSummary ==
    \A j \in Job :
        /\ state[j] = "completed" => summaries[j] # {} /\ artifact_id[j] # NoArtifact
        /\ \A e \in summaries[j] : EvidenceStored(j, e)

\* Once no worker holds it, a completed or failed job is not touched again.
SettledIsFinal ==
    [][\A j \in Job : state[j] \in {"completed", "failed"} /\ ~Held(j)
          => state'[j] = state[j] /\ retry_count'[j] = retry_count[j]]_vars

\* A package is executed by one sandbox worker at a time, also when workers
\* crash and attempts fail late.  Two workers hold one job only when a Surgeon
\* whose last audit event failed has requeued it, and then for different
\* attempts, unless a sandbox failure has handed the job back as well: two
\* failures have then been counted, and a budget of two allows no third attempt.
SandboxExclusive ==
    \A v, w \in Sandboxes : \A j \in Job :
        ErHolds(v, j) /\ ErHolds(w, j) /\ v # w =>
            /\ "audit" \in Faults
            /\ \/ er[v].retry_count # er[w].retry_count
               \/ "sandbox" \in Faults /\ er[v].retry_count >= 2

\* Every Emergency Room worker that executes a package has a running row of its
\* own: nobody else closes it, also when a requeued job is executed by two of
\* them at the same time or one of them crashes.
RunsCovered ==
    \A j \in Job : Cardinality(Executing(j)) <= sandbox_runs[j]["running"]

\* Where a job may be left although every worker keeps running: in a state whose
\* claim asks for retry_count < max_retries when the shared count has reached it
\* (a sandbox stage that used the budget up and passed the job on; two workers
\* that held the job at once and both failed, each counting from its own copy),
\* or claimed by an Emergency Room worker that has no profile for it.
Stranded(j) ==
    \/ /\ state[j] \in {"sandbox-pending", "ai-pending", "finalizing"}
       /\ retry_count[j] >= MaxRetries
    \/ /\ state[j] = "sandbox-running"
       /\ row[j].ecosystem \notin Profiled

\* A submitted job with a source URL comes to rest, completed, failed or
\* stranded as above, and stays so, whatever attempts of the four stages fail
\* and although two workers of a stage may work on it at once: while the budget
\* lasts no failure and no late update leaves it where nobody claims it, and it
\* is not passed round for ever.  Crashes, and claims abandoned over a registry
\* that is gone, are left out: they leave a job where it is, for good.
SubmittedJobSettles ==
    \A j \in Job :
        (state[j] = "queued" /\ row[j].source_url)
            ~> [](state[j] \in {"completed", "failed"} \/ Stranded(j))

\* The lease a Surgeon's claim amounts to.
LeasePhase ==
    [j \in Job |-> IF state[j] \in NoRow THEN "none"
                   ELSE IF state[j] = "queued" THEN "waiting"
                   ELSE IF \E w \in Surgeons : SurgeonHolds(w, j) THEN "leased"
                   ELSE "gone"]
LeaseOwner ==
    [j \in Job |-> IF \E w \in Surgeons : SurgeonHolds(w, j)
                   THEN CHOOSE w \in Surgeons : SurgeonHolds(w, j)
                   ELSE NoJob]

Lease == INSTANCE WorkLease WITH Worker <- Surgeons, NoOwner <- NoJob,
                                 phase <- LeasePhase, owner <- LeaseOwner

\* The Surgeons' use of the table implements the exclusive lease: one owner, and
\* only the owner gives a job back, while the other stages update the same rows.
LeaseSpec == Lease!Spec

=============================================================================
