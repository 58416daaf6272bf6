--------------------------- MODULE EmergencyRoom ---------------------------
(***************************************************************************)
(* The Emergency Room worker                                               *)
(* (services/emergency-room/src/emergency_room/worker.py): claims a        *)
(* sandbox-pending job, opens a sandbox_runs row, executes the package in  *)
(* the sandbox and closes run and job in one transaction.                  *)
(***************************************************************************)
EXTENDS AnalysisJobs

CONSTANT Sandboxes  \* worker processes

ASSUME SandboxesAssumption == IsFiniteSet(Sandboxes)

VARIABLES er,            \* where each worker is and what its claim returned
          sandbox_runs   \* per job, the number of runs in each state

RunState == {"running", "completed", "failed"}

\* profile_for_job knows a profile for these ecosystems only.
Profiled == {"npm", "pypi", "maven"}

ErIdle == [pc |-> "idle", job |-> NoJob, retry_count |-> 0]

ErTypeOK ==
    /\ er \in [Sandboxes -> {ErIdle} \cup
                  [pc: {"claimed", "running"}, job: Job, retry_count: Nat]]
    /\ sandbox_runs \in [Job -> [RunState -> Nat]]

ErInit ==
    /\ er = [w \in Sandboxes |-> ErIdle]
    /\ sandbox_runs = [j \in Job |-> [s \in RunState |-> 0]]

\* The workers that execute a run of job j.
Executing(j) == {w \in Sandboxes : er[w].pc = "running" /\ er[w].job = j}

ErHolds(w, j) == er[w].pc # "idle" /\ er[w].job = j

\* Mutant: the UPDATE names the job instead of the run.
CloseRunsOfJob(j, s) ==
    sandbox_runs' = [sandbox_runs EXCEPT ![j]["running"] = 0,
                                         ![j][s] = @ + sandbox_runs[j]["running"]]

\* The run the worker opened changes from 'running' to s.
CloseRun(j, s) ==
    sandbox_runs' = [sandbox_runs EXCEPT ![j]["running"] = @ - 1, ![j][s] = @ + 1]

-----------------------------------------------------------------------------

\* Mutant: the claim leaves the job sandbox-pending.
ErClaimKeepsState(w, j) ==
    /\ er[w].pc = "idle"
    /\ state[j] = "sandbox-pending"
    /\ artifact_id[j] # NoArtifact
    /\ retry_count[j] < MaxRetries
    /\ BackoffElapsed(j)
    /\ Touch(j)
    /\ er' = [er EXCEPT ![w] = [pc |-> "claimed", job |-> j,
                                retry_count |-> retry_count[j]]]
    /\ UNCHANGED <<state, retry_count, artifact_id, row, artifacts, reports, sandbox_runs>>

\* claim_next_sandbox_job, the candidate UPDATE.
ErClaim(w, j) ==
    /\ er[w].pc = "idle"
    /\ state[j] = "sandbox-pending"
    /\ artifact_id[j] # NoArtifact
    /\ retry_count[j] < MaxRetries
    /\ BackoffElapsed(j)
    /\ UpdateState(j, "sandbox-running")
    /\ er' = [er EXCEPT ![w] = [pc |-> "claimed", job |-> j,
                                retry_count |-> retry_count[j]]]
    /\ UNCHANGED <<retry_count, artifact_id, row, artifacts, reports, sandbox_runs>>

\* Mutant: the run is not opened.
ErStartWithoutRun(w) ==
    /\ er[w].pc = "claimed"
    /\ row[er[w].job].ecosystem \in Profiled
    /\ er' = [er EXCEPT ![w].pc = "running"]
    /\ UNCHANGED <<jobVars, sandbox_runs>>

\* The artifact row and a profile are found and the run is opened.
ErStart(w) ==
    LET j == er[w].job
    IN /\ er[w].pc = "claimed"
       /\ artifact_id[j] \in artifacts
       /\ row[j].ecosystem \in Profiled
       /\ sandbox_runs' = [sandbox_runs EXCEPT ![j]["running"] = @ + 1]
       /\ er' = [er EXCEPT ![w].pc = "running"]
       /\ UNCHANGED jobVars

\* profile_for_job raises before the try block, so the job stays
\* sandbox-running.  (The other error of these lines, a job whose artifact row
\* is missing, cannot happen: ArtifactLinked in AnalysisPipeline.)
ErAbandon(w) ==
    /\ er[w].pc = "claimed"
    /\ row[er[w].job].ecosystem \notin Profiled
    /\ er' = [er EXCEPT ![w] = ErIdle]
    /\ UNCHANGED <<jobVars, sandbox_runs>>

\* complete_sandbox_run: one transaction.
ErComplete(w) ==
    /\ er[w].pc = "running"
    /\ CloseRun(er[w].job, "completed")
    /\ UpdateState(er[w].job, "ai-pending")
    /\ er' = [er EXCEPT ![w] = ErIdle]
    /\ UNCHANGED <<retry_count, artifact_id, row, artifacts, reports>>

\* run_sandbox_profile raised: fail_sandbox_run, one transaction.
ErFail(w) ==
    /\ "sandbox" \in Faults
    /\ er[w].pc = "running"
    /\ CloseRun(er[w].job, "failed")
    /\ RecordFailure(er[w].job, er[w].retry_count, "ai-pending", "sandbox-pending")
    /\ er' = [er EXCEPT ![w] = ErIdle]
    /\ UNCHANGED <<artifact_id, row, artifacts, reports>>

ErCrash(w) ==
    /\ "crash" \in Faults
    /\ er[w].pc # "idle"
    /\ er' = [er EXCEPT ![w] = ErIdle]
    /\ UNCHANGED <<jobVars, sandbox_runs>>

ErWorks(w) == ErStart(w) \/ ErAbandon(w) \/ ErComplete(w) \/ ErFail(w)

ErNext(w) ==
    \/ \E j \in Job : ErClaim(w, j)
    \/ ErWorks(w)
    \/ ErCrash(w)

=============================================================================
