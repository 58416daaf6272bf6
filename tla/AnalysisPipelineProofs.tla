----------------------- MODULE AnalysisPipelineProofs -----------------------
(***************************************************************************)
(* Proofs about AnalysisPipeline, for any number of jobs, digests and      *)
(* workers, any retry budget and any set of faults.                        *)
(***************************************************************************)
EXTENDS AnalysisPipeline, FiniteSetTheorems, TLAPS

(***************************************************************************)
(* Types.  sandbox_runs counts rows, so that a count never drops below     *)
(* zero is part of the type; it holds because every worker that executes a *)
(* package has opened a row that is still running.                         *)
(***************************************************************************)

\* The empty tables and idle workers are well typed.
LEMMA InitType == Init => TypeOK /\ RunsCovered
<1> SUFFICES ASSUME Init PROVE TypeOK /\ RunsCovered
  OBVIOUS
<1> USE DEF Init
<1>1. JobsTypeOK
  BY MaxRetriesAssumption DEF JobsInit, JobsTypeOK, NoRow, JobState
<1>2. SurgeonTypeOK
  BY DEF SurgeonInit, SurgeonTypeOK, SurgeonIdle
<1>3. ErTypeOK
  BY DEF ErInit, ErTypeOK, ErIdle
<1>4. AiTypeOK
  BY DEF AiInit, AiTypeOK
<1>5. FinTypeOK
  BY DEF FinInit, FinTypeOK
<1>6. RunsCovered
  <2> SUFFICES ASSUME NEW j \in Job
               PROVE  Cardinality(Executing(j)) <= sandbox_runs[j]["running"]
    BY DEF RunsCovered
  <2>1. Executing(j) = {}
    BY DEF Executing, ErInit, ErIdle
  <2>2. sandbox_runs[j]["running"] = 0
    BY DEF ErInit, RunState
  <2> QED
    BY <2>1, <2>2, FS_EmptySet
<1> QED
  BY <1>1, <1>2, <1>3, <1>4, <1>5, <1>6 DEF TypeOK

\* A Surgeon step keeps the types of the table and of the workers.
LEMMA SurgeonType ==
    ASSUME JobsTypeOK, SurgeonTypeOK, NEW w \in Surgeons, SurgeonNext(w)
    PROVE  JobsTypeOK' /\ SurgeonTypeOK'
<1> DEFINE j == surgeon[w].job
<1>0. surgeon[w] \in {SurgeonIdle} \cup [pc: SurgeonPC \ {"idle"}, job: Job]
  BY DEF SurgeonTypeOK
<1>1. ASSUME NEW k \in Job, SurgeonClaim(w, k) PROVE JobsTypeOK' /\ SurgeonTypeOK'
  BY <1>1 DEF SurgeonClaim, UpdateState, Touch, JobsTypeOK, SurgeonTypeOK, JobState,
     SurgeonPC
<1>2. CASE SurgeonAdmit(w)
  BY <1>0, <1>2 DEF SurgeonAdmit, SurgeonMoves, jobVars, JobsTypeOK, SurgeonTypeOK,
     SurgeonPC, SurgeonIdle
<1>3. CASE SurgeonAbandon(w)
  BY <1>3 DEF SurgeonAbandon, SurgeonStops, jobVars, JobsTypeOK, SurgeonTypeOK
<1>4. CASE SurgeonFetch(w)
  BY <1>0, <1>4 DEF SurgeonFetch, SurgeonMoves, UpdateState, Touch, JobsTypeOK,
     SurgeonTypeOK, JobState, SurgeonPC, SurgeonIdle
<1>5. CASE SurgeonScan(w)
  BY <1>0, <1>5 DEF SurgeonScan, SurgeonMoves, UpdateState, Touch, JobsTypeOK,
     SurgeonTypeOK, JobState, SurgeonPC, SurgeonIdle
<1>6. CASE SurgeonPersist(w)
  <2>1. j \in Job
    BY <1>0, <1>6 DEF SurgeonPersist, SurgeonMoves, SurgeonIdle
  <2>2. row[j].sha256 \in Digest
    BY <2>1 DEF JobsTypeOK, Row
  <2>3. SurgeonTypeOK'
    BY <1>0, <1>6 DEF SurgeonPersist, SurgeonMoves, SurgeonTypeOK, SurgeonPC, SurgeonIdle
  <2> QED
    BY <1>6, <2>1, <2>2, <2>3 DEF SurgeonPersist, Touch, JobsTypeOK
<1>7. CASE SurgeonHandOff(w)
  BY <1>0, <1>7 DEF SurgeonHandOff, SurgeonMoves, UpdateState, Touch, JobsTypeOK,
     SurgeonTypeOK, JobState, SurgeonPC, SurgeonIdle
<1>8. CASE SurgeonAnnounce(w)
  BY <1>8 DEF SurgeonAnnounce, SurgeonStops, jobVars, JobsTypeOK, SurgeonTypeOK
<1>9. CASE SurgeonFail(w)
  BY <1>0, <1>9 DEF SurgeonFail, jobVars, JobsTypeOK, SurgeonTypeOK, SurgeonPC, SurgeonIdle
<1>10. CASE SurgeonMarkFailure(w)
  <2>1. j \in Job
    BY <1>0, <1>10 DEF SurgeonMarkFailure, SurgeonIdle
  <2>2. retry_count[j] + 1 \in Nat
    BY <2>1 DEF JobsTypeOK
  <2>3. SurgeonTypeOK'
    BY <1>10 DEF SurgeonMarkFailure, SurgeonStops, SurgeonTypeOK
  <2> QED
    BY <1>10, <2>1, <2>2, <2>3
    DEF SurgeonMarkFailure, UpdateState, Touch, JobsTypeOK, JobState
<1>11. CASE SurgeonCrash(w)
  BY <1>11 DEF SurgeonCrash, SurgeonStops, jobVars, JobsTypeOK, SurgeonTypeOK
<1> QED
  BY <1>1, <1>2, <1>3, <1>4, <1>5, <1>6, <1>7, <1>8, <1>9, <1>10, <1>11
  DEF SurgeonNext, SurgeonWorks

\* The failure UPDATE of the Python workers keeps the table's types.
LEMMA RecordFailureType ==
    ASSUME JobsTypeOK, NEW j \in Job, NEW n \in Nat,
           NEW s \in JobState, NEW t \in JobState, RecordFailure(j, n, s, t),
           UNCHANGED <<artifact_id, row, artifacts, reports>>
    PROVE  JobsTypeOK'
<1>1. (IF n + 1 >= MaxRetries THEN s ELSE t) \in JobState
  OBVIOUS
<1>2. retry_count[j] + 1 \in Nat
  BY DEF JobsTypeOK
<1> QED
  BY <1>1, <1>2 DEF RecordFailure, UpdateState, Touch, JobsTypeOK

\* An Emergency Room step keeps the types and the cover of the executed runs.
LEMMA ErType ==
    ASSUME JobsTypeOK, ErTypeOK, RunsCovered, NEW w \in Sandboxes, ErNext(w)
    PROVE  JobsTypeOK' /\ ErTypeOK' /\ RunsCovered'
<1>0. er[w] \in {ErIdle} \cup [pc: {"claimed", "running"}, job: Job, retry_count: Nat]
  BY DEF ErTypeOK
<1>a. \A k \in Job : IsFiniteSet(Executing(k)) /\ Cardinality(Executing(k)) \in Nat
  BY SandboxesAssumption, FS_Subset, FS_CardinalityType DEF Executing
<1>b. \A k \in Job : sandbox_runs[k]["running"] \in Nat
  BY DEF ErTypeOK, RunState
\* Stopping w, or moving it without opening a run, executes no more runs.
<1>c. ASSUME NEW r, r.pc # "running", er' = [er EXCEPT ![w] = r], UNCHANGED sandbox_runs
      PROVE  RunsCovered'
  <2> SUFFICES ASSUME NEW k \in Job
               PROVE  Cardinality(Executing(k)') <= sandbox_runs[k]["running"]
    BY <1>c DEF RunsCovered
  <2>1. Executing(k)' \subseteq Executing(k)
    BY <1>c DEF Executing, ErTypeOK
  <2>2. Cardinality(Executing(k)') <= Cardinality(Executing(k))
    BY <1>a, <2>1, FS_Subset
  <2>3. Cardinality(Executing(k)') \in Nat
    BY <1>a, <2>1, FS_Subset, FS_CardinalityType
  <2> QED
    BY <1>a, <1>b, <2>2, <2>3 DEF RunsCovered
\* Closing the run of w and stopping w balance each other.
<1>d. ASSUME NEW s \in {"completed", "failed"}, er[w].pc = "running",
             CloseRun(er[w].job, s), er' = [er EXCEPT ![w] = ErIdle]
      PROVE  ErTypeOK' /\ RunsCovered'
  <2>0. PICK j \in Job : j = er[w].job
    BY <1>0, <1>d DEF ErIdle
  <2>1. w \in Executing(j)
    BY <1>d, <2>0 DEF Executing
  <2>2. Executing(j)' = Executing(j) \ {w}
    BY <1>d, <2>0 DEF Executing, ErTypeOK, ErIdle
  <2>3. Cardinality(Executing(j)') = Cardinality(Executing(j)) - 1
    BY <1>a, <2>1, <2>2, FS_RemoveElement
  <2>4. Cardinality(Executing(j)) >= 1
    BY <1>a, <2>1, FS_EmptySet
  <2>5. sandbox_runs[j]["running"] - 1 \in Nat
    BY <1>a, <1>b, <2>1, <2>4 DEF RunsCovered
  <2>6. /\ sandbox_runs' \in [Job -> [RunState -> Nat]]
        /\ sandbox_runs'[j]["running"] = sandbox_runs[j]["running"] - 1
        /\ \A k \in Job \ {j} : sandbox_runs'[k] = sandbox_runs[k]
    <3>1. sandbox_runs[j] \in [RunState -> Nat] /\ sandbox_runs[j][s] + 1 \in Nat
      BY <2>1 DEF ErTypeOK, RunState
    <3> DEFINE r == [sandbox_runs[j] EXCEPT !["running"] = @ - 1]
    <3>2. r \in [RunState -> Nat] /\ r[s] = sandbox_runs[j][s]
      BY <2>5, <3>1 DEF RunState
    <3> DEFINE q == [r EXCEPT ![s] = @ + 1]
    <3>3. q \in [RunState -> Nat] /\ q["running"] = sandbox_runs[j]["running"] - 1
      BY <3>1, <3>2 DEF RunState
    <3>4. sandbox_runs' = [sandbox_runs EXCEPT ![j] = q]
      BY <1>d, <2>0 DEF CloseRun, ErTypeOK
    <3> QED
      BY <2>1, <3>3, <3>4 DEF ErTypeOK
  <2>7. ErTypeOK'
    BY <1>d, <2>6 DEF ErTypeOK
  <2>8. ASSUME NEW k \in Job
        PROVE  Cardinality(Executing(k)') <= sandbox_runs'[k]["running"]
    <3>1. CASE k = j
      BY <1>a, <1>b, <2>1, <2>3, <2>6, <3>1 DEF RunsCovered
    <3>2. CASE k # j
      <4>1. Executing(k)' = Executing(k)
        BY <1>d, <2>0, <3>2 DEF Executing, ErTypeOK, ErIdle
      <4> QED
        BY <2>6, <3>2, <4>1 DEF RunsCovered
    <3> QED
      BY <3>1, <3>2
  <2> QED
    BY <2>7, <2>8 DEF RunsCovered
<1>1. ASSUME NEW k \in Job, ErClaim(w, k) PROVE JobsTypeOK' /\ ErTypeOK' /\ RunsCovered'
  <2>1. JobsTypeOK' /\ ErTypeOK'
    BY <1>1 DEF ErClaim, UpdateState, Touch, JobsTypeOK, JobState, ErTypeOK
  <2> QED
    BY <1>1, <1>c, <2>1 DEF ErClaim
<1>2. CASE ErStart(w)
  <2>1. PICK j \in Job : j = er[w].job
    BY <1>0, <1>2 DEF ErStart, ErIdle
  <2>2. JobsTypeOK'
    BY <1>2 DEF ErStart, jobVars, JobsTypeOK
  <2>3. /\ sandbox_runs' \in [Job -> [RunState -> Nat]]
        /\ sandbox_runs'[j]["running"] = sandbox_runs[j]["running"] + 1
        /\ \A k \in Job \ {j} : sandbox_runs'[k] = sandbox_runs[k]
    BY <1>2, <1>b, <2>1 DEF ErStart, ErTypeOK, RunState
  <2>4. er' = [er EXCEPT ![w] = [@ EXCEPT !.pc = "running"]]
    BY <1>2 DEF ErStart
  <2>5. ErTypeOK'
    BY <1>0, <1>2, <2>1, <2>3, <2>4 DEF ErStart, ErTypeOK, ErIdle
  <2>6. w \notin Executing(j) /\ Executing(j)' = Executing(j) \cup {w}
    BY <1>2, <2>1, <2>4 DEF ErStart, Executing, ErTypeOK
  <2>7. Cardinality(Executing(j)') = Cardinality(Executing(j)) + 1
    BY <1>a, <2>1, <2>6, FS_AddElement
  <2>8. ASSUME NEW k \in Job
        PROVE  Cardinality(Executing(k)') <= sandbox_runs'[k]["running"]
    <3>1. CASE k = j
      BY <1>a, <1>b, <2>1, <2>3, <2>7, <3>1 DEF RunsCovered
    <3>2. CASE k # j
      <4>1. Executing(k)' = Executing(k)
        BY <1>2, <2>1, <2>4, <3>2 DEF ErStart, Executing, ErTypeOK
      <4> QED
        BY <2>3, <3>2, <4>1 DEF RunsCovered
    <3> QED
      BY <3>1, <3>2
  <2> QED
    BY <2>2, <2>5, <2>8 DEF RunsCovered
<1>3. CASE ErAbandon(w)
  BY <1>3, <1>c DEF ErAbandon, jobVars, JobsTypeOK, ErTypeOK, ErIdle
<1>4. CASE ErComplete(w)
  <2>1. JobsTypeOK'
    BY <1>0, <1>4 DEF ErComplete, UpdateState, Touch, JobsTypeOK, JobState, ErIdle
  <2> QED
    BY <1>4, <1>d, <2>1 DEF ErComplete
<1>5. CASE ErFail(w)
  <2>1. JobsTypeOK'
    BY <1>0, <1>5, RecordFailureType DEF ErFail, JobState, ErIdle
  <2> QED
    BY <1>5, <1>d, <2>1 DEF ErFail
<1>6. CASE ErCrash(w)
  BY <1>6, <1>c DEF ErCrash, jobVars, JobsTypeOK, ErTypeOK, ErIdle
<1> QED
  BY <1>1, <1>2, <1>3, <1>4, <1>5, <1>6 DEF ErNext, ErWorks

\* An AI Analyst step keeps the types.
LEMMA AiType ==
    ASSUME JobsTypeOK, AiTypeOK, NEW w \in Analysts, AiNext(w)
    PROVE  JobsTypeOK' /\ AiTypeOK'
<1>0. ai[w] \in {AiIdle} \cup [pc: {"explaining", "recording"}, job: Job, retry_count: Nat]
  BY DEF AiTypeOK
<1>1. ASSUME NEW k \in Job, AiClaim(w, k) PROVE JobsTypeOK' /\ AiTypeOK'
  BY <1>1 DEF AiClaim, Touch, JobsTypeOK, AiTypeOK
<1>2. CASE AiExplain(w)
  BY <1>0, <1>2 DEF AiExplain, jobVars, JobsTypeOK, AiTypeOK, AiIdle
<1>3. CASE AiFinalize(w)
  BY <1>0, <1>3 DEF AiFinalize, UpdateState, Touch, JobsTypeOK, JobState, AiTypeOK, AiIdle
<1>4. CASE AiDegrade(w)
  BY <1>0, <1>4 DEF AiDegrade, UpdateState, Touch, JobsTypeOK, JobState, AiTypeOK, AiIdle
<1>5. CASE AiFail(w)
  <2>1. JobsTypeOK'
    BY <1>0, <1>5, RecordFailureType DEF AiFail, JobState, AiIdle
  <2> QED
    BY <1>5, <2>1 DEF AiFail, AiTypeOK
<1>6. CASE AiCrash(w)
  BY <1>6 DEF AiCrash, jobVars, JobsTypeOK, AiTypeOK
<1> QED
  BY <1>1, <1>2, <1>3, <1>4, <1>5, <1>6 DEF AiNext, AiWorks

\* Noting one more kind of evidence gives evidence.
LEMMA EvidenceNoted ==
    ASSUME NEW e \in Evidence, NEW b \in BOOLEAN
    PROVE  /\ [e EXCEPT !.static = b] \in Evidence
           /\ [e EXCEPT !.sandbox = b] \in Evidence
           /\ [e EXCEPT !.ai = b] \in Evidence
BY DEF Evidence

\* A Finalizer step keeps the types.
LEMMA FinType ==
    ASSUME JobsTypeOK, FinTypeOK, NEW w \in Finalizers, FinNext(w)
    PROVE  JobsTypeOK' /\ FinTypeOK'
<1>0. fin[w] \in {FinIdle} \cup [pc: FinPC, job: Job, retry_count: Nat, seen: Evidence]
  BY DEF FinTypeOK
<1>a. FinIdle.pc = "idle" /\ "idle" \notin FinPC
  BY DEF FinIdle, FinPC
\* Moving on with more evidence read.
<1>b. ASSUME NEW pc \in FinPC, NEW e \in Evidence, fin[w].pc # "idle",
             fin' = [fin EXCEPT ![w] = [@ EXCEPT !.pc = pc, !.seen = e]]
      PROVE  fin' \in [Finalizers -> {FinIdle} \cup
                         [pc: FinPC, job: Job, retry_count: Nat, seen: Evidence]]
  <2>1. [fin[w] EXCEPT !.pc = pc, !.seen = e]
           \in [pc: FinPC, job: Job, retry_count: Nat, seen: Evidence]
    BY <1>0, <1>a, <1>b
  <2> QED
    BY <1>b, <2>1 DEF FinTypeOK
<1>c. fin[w].pc # "idle" => fin[w].seen \in Evidence /\ fin[w].job \in Job
  BY <1>0, <1>a
<1>1. ASSUME NEW k \in Job, FinClaim(w, k) PROVE JobsTypeOK' /\ FinTypeOK'
  BY <1>1 DEF FinClaim, Touch, JobsTypeOK, FinTypeOK, FinPC, NoEvidence, Evidence
<1>2. CASE FinLoadStatic(w)
  <2> DEFINE e == [fin[w].seen EXCEPT !.static = fin[w].job \in reports]
  <2>1. e \in Evidence
    <3>1. fin[w].seen \in Evidence
      BY <1>2, <1>c DEF FinLoadStatic
    <3>2. (fin[w].job \in reports) \in BOOLEAN
      OBVIOUS
    <3> QED
      BY <3>1, <3>2, EvidenceNoted
  <2>2. fin' = [fin EXCEPT ![w] = [@ EXCEPT !.pc = "loading-sandbox", !.seen = e]]
    BY <1>2 DEF FinLoadStatic
  <2>3. fin' \in [Finalizers -> {FinIdle} \cup
                    [pc: FinPC, job: Job, retry_count: Nat, seen: Evidence]]
    BY <1>2, <1>b, <2>1, <2>2 DEF FinLoadStatic, FinPC
  <2> QED
    BY <1>2, <2>3 DEF FinLoadStatic, jobVars, JobsTypeOK, FinTypeOK
<1>3. CASE FinLoadSandbox(w)
  <2> DEFINE e == [fin[w].seen EXCEPT
                      !.sandbox = sandbox_runs[fin[w].job]["completed"] > 0]
  <2>1. e \in Evidence
    <3>1. fin[w].seen \in Evidence
      BY <1>3, <1>c DEF FinLoadSandbox
    <3>2. (sandbox_runs[fin[w].job]["completed"] > 0) \in BOOLEAN
      OBVIOUS
    <3> QED
      BY <3>1, <3>2, EvidenceNoted
  <2>2. fin' = [fin EXCEPT ![w] = [@ EXCEPT !.pc = "loading-ai", !.seen = e]]
    BY <1>3 DEF FinLoadSandbox
  <2>3. fin' \in [Finalizers -> {FinIdle} \cup
                    [pc: FinPC, job: Job, retry_count: Nat, seen: Evidence]]
    BY <1>3, <1>b, <2>1, <2>2 DEF FinLoadSandbox, FinPC
  <2> QED
    BY <1>3, <2>3 DEF FinLoadSandbox, jobVars, JobsTypeOK, FinTypeOK
<1>4. CASE FinLoadAi(w)
  <2> DEFINE e == [fin[w].seen EXCEPT !.ai = fin[w].job \in explanations]
  <2>1. e \in Evidence
    <3>1. fin[w].seen \in Evidence
      BY <1>4, <1>c DEF FinLoadAi
    <3>2. (fin[w].job \in explanations) \in BOOLEAN
      OBVIOUS
    <3> QED
      BY <3>1, <3>2, EvidenceNoted
  <2>2. fin' = [fin EXCEPT ![w] = [@ EXCEPT !.pc = "summarizing", !.seen = e]]
    BY <1>4 DEF FinLoadAi
  <2>3. fin' \in [Finalizers -> {FinIdle} \cup
                    [pc: FinPC, job: Job, retry_count: Nat, seen: Evidence]]
    BY <1>4, <1>b, <2>1, <2>2 DEF FinLoadAi, FinPC
  <2> QED
    BY <1>4, <2>3 DEF FinLoadAi, jobVars, JobsTypeOK, FinTypeOK
<1>5. CASE FinPersist(w)
  <2>1. [fin[w] EXCEPT !.pc = "completing"]
           \in [pc: FinPC, job: Job, retry_count: Nat, seen: Evidence]
    BY <1>0, <1>a, <1>5 DEF FinPersist, FinPC
  <2>2. fin' = [fin EXCEPT ![w] = [@ EXCEPT !.pc = "completing"]]
    BY <1>5 DEF FinPersist
  <2>3. summaries' \in [Job -> SUBSET Evidence]
    BY <1>5, <1>c DEF FinPersist, FinTypeOK
  <2> QED
    BY <1>5, <2>1, <2>2, <2>3 DEF FinPersist, jobVars, JobsTypeOK, FinTypeOK
<1>6. CASE FinComplete(w)
  BY <1>6, <1>c DEF FinComplete, UpdateState, Touch, JobsTypeOK, JobState, FinTypeOK
<1>7. CASE FinFail(w)
  <2>1. fin[w].retry_count \in Nat
    BY <1>0, <1>a, <1>7 DEF FinFail
  <2>2. JobsTypeOK'
    BY <1>c, <1>7, <2>1, RecordFailureType DEF FinFail, JobState
  <2> QED
    BY <1>7, <2>2 DEF FinFail, FinTypeOK
<1>8. CASE FinCrash(w)
  BY <1>8 DEF FinCrash, jobVars, JobsTypeOK, FinTypeOK
<1> QED
  BY <1>1, <1>2, <1>3, <1>4, <1>5, <1>6, <1>7, <1>8 DEF FinNext, FinWorks

\* The Triage Counter and the clock keep the table's types.
LEMMA TriageType ==
    ASSUME JobsTypeOK, NEW j \in Job,
           TriageQuarantine(j) \/ TriageCreateJob(j) \/ BackoffElapses(j)
    PROVE  JobsTypeOK'
<1>1. CASE TriageQuarantine(j)
  BY <1>1 DEF TriageQuarantine, JobsTypeOK, NoRow
<1>2. CASE TriageCreateJob(j)
  <2>1. row[j].sha256 \in Digest
    BY DEF JobsTypeOK, Row
  <2> QED
    BY <1>2, <2>1 DEF TriageCreateJob, UpdateState, Touch, JobsTypeOK, JobState
<1>3. CASE BackoffElapses(j)
  BY <1>3 DEF BackoffElapses, JobsTypeOK
<1> QED
  BY <1>1, <1>2, <1>3

\* No step breaks the types.
LEMMA NextType == TypeOK /\ RunsCovered /\ [Next]_vars => (TypeOK /\ RunsCovered)'
<1> SUFFICES ASSUME TypeOK, RunsCovered, [Next]_vars PROVE TypeOK' /\ RunsCovered'
  OBVIOUS
<1>a. UNCHANGED <<er, sandbox_runs>> => RunsCovered' /\ ErTypeOK'
  BY DEF TypeOK, RunsCovered, Executing, ErTypeOK
<1>1. CASE TriageStep
  BY <1>1, <1>a, TriageType
  DEF TriageStep, TypeOK, SurgeonTypeOK, AiTypeOK, FinTypeOK
<1>2. CASE SurgeonStep
  BY <1>2, <1>a, SurgeonType DEF SurgeonStep, TypeOK, AiTypeOK, FinTypeOK
<1>3. CASE ErStep
  BY <1>3, ErType DEF ErStep, TypeOK, SurgeonTypeOK, AiTypeOK, FinTypeOK
<1>4. CASE AiStep
  BY <1>4, <1>a, AiType DEF AiStep, TypeOK, SurgeonTypeOK, FinTypeOK
<1>5. CASE FinStep
  BY <1>5, <1>a, FinType DEF FinStep, TypeOK, SurgeonTypeOK, AiTypeOK
<1>6. CASE UNCHANGED vars
  BY <1>6, <1>a DEF vars, jobVars, TypeOK, JobsTypeOK, SurgeonTypeOK, AiTypeOK, FinTypeOK
<1> QED
  BY <1>1, <1>2, <1>3, <1>4, <1>5, <1>6 DEF Next

\* Type correctness: the table and every worker's state keep their types, and no
\* sandbox_runs count drops below zero, whatever fails.
THEOREM TypeCorrect == Spec => [](TypeOK /\ RunsCovered)
<1>1. Init => TypeOK /\ RunsCovered
  BY InitType
<1>2. TypeOK /\ RunsCovered /\ [Next]_vars => (TypeOK /\ RunsCovered)'
  BY NextType
<1> QED
  BY <1>1, <1>2, PTL DEF Spec

\* A sandbox worker's running row is closed by nobody else.
THEOREM RunsCover == Spec => []RunsCovered
  BY TypeCorrect, PTL

-----------------------------------------------------------------------------
(***************************************************************************)
(* Safety.  The inductive invariant adds to the properties that a job      *)
(* without a row has not been retried, and that a Finalizer works on a row *)
(* that exists and has an artifact (the row's artifact_id is written again *)
(* only by a Surgeon, never back to NULL).                                 *)
(***************************************************************************)

\* A job that has not been inserted has not failed.
FreshBeforeInsert ==
    \A j \in Job : state[j] \in NoRow => retry_count[j] = 0

\* What a Finalizer knows of the job it claimed, and of what it has stored.
FinGrounded ==
    \A w \in Finalizers : fin[w].pc # "idle" =>
        /\ state[fin[w].job] \notin NoRow
        /\ artifact_id[fin[w].job] # NoArtifact
        /\ fin[w].pc = "completing" => summaries[fin[w].job] # {}

\* A job is completed with a summary stored, for an artifact.
CompletedIsSummarized ==
    \A j \in Job : state[j] = "completed" =>
        summaries[j] # {} /\ artifact_id[j] # NoArtifact

Inv ==
    /\ FreshBeforeInsert
    /\ SurgeonExclusive
    /\ QueuedWithinBudget
    /\ ArtifactLinked
    /\ FinGrounded
    /\ CompletedIsSummarized

\* The states the stages after the Surgeon write.
LaterState == {"sandbox-pending", "sandbox-running", "ai-pending", "finalizing",
               "completed", "failed"}

\* What a step of a later stage may do to the table.
LaterUpdate ==
    /\ UNCHANGED <<artifact_id, row, artifacts, reports>>
    /\ \A j \in Job : state'[j] # state[j] => state'[j] \in LaterState
    /\ \A j \in Job : retry_count'[j] # retry_count[j] => state'[j] \in LaterState

\* The failure UPDATE is such an update.
LEMMA RecordFailureLater ==
    ASSUME JobsTypeOK, NEW j \in Job, NEW n, NEW s \in LaterState, NEW t \in LaterState,
           RecordFailure(j, n, s, t), UNCHANGED <<artifact_id, row, artifacts, reports>>
    PROVE  LaterUpdate
<1>1. (IF n + 1 >= MaxRetries THEN s ELSE t) \in LaterState
  OBVIOUS
<1> QED
  BY <1>1 DEF RecordFailure, UpdateState, Touch, JobsTypeOK, LaterUpdate

\* The Emergency Room never queues or completes a job.
LEMMA ErLater ==
    ASSUME TypeOK, ErStep
    PROVE  LaterUpdate /\ \A j \in Job : state'[j] = "completed" => state[j] = "completed"
<1>0. PICK w \in Sandboxes : ErNext(w)
  BY DEF ErStep
<1>a. er[w] \in {ErIdle} \cup [pc: {"claimed", "running"}, job: Job, retry_count: Nat]
  BY DEF TypeOK, ErTypeOK
<1> USE DEF TypeOK, JobsTypeOK
<1>1. ASSUME NEW k \in Job, ErClaim(w, k)
      PROVE  LaterUpdate /\ \A j \in Job : state'[j] = "completed" => state[j] = "completed"
  BY <1>1 DEF ErClaim, UpdateState, LaterUpdate, LaterState
<1>2. CASE ErStart(w) \/ ErAbandon(w) \/ ErCrash(w)
  BY <1>2 DEF ErStart, ErAbandon, ErCrash, jobVars, LaterUpdate
<1>3. CASE ErComplete(w)
  BY <1>a, <1>3 DEF ErComplete, UpdateState, LaterUpdate, LaterState, ErIdle
<1>4. CASE ErFail(w)
  <2>1. er[w].job \in Job
    BY <1>a, <1>4 DEF ErFail, ErIdle
  <2>2. LaterUpdate
    BY <1>4, <2>1, RecordFailureLater DEF ErFail, LaterState
  <2> QED
    BY <1>4, <2>1, <2>2 DEF ErFail, RecordFailure, UpdateState
<1> QED
  BY <1>0, <1>1, <1>2, <1>3, <1>4 DEF ErNext, ErWorks

\* Nor does the AI Analyst.
LEMMA AiLater ==
    ASSUME TypeOK, AiStep
    PROVE  LaterUpdate /\ \A j \in Job : state'[j] = "completed" => state[j] = "completed"
<1>0. PICK w \in Analysts : AiNext(w)
  BY DEF AiStep
<1>a. ai[w] \in {AiIdle} \cup [pc: {"explaining", "recording"}, job: Job, retry_count: Nat]
  BY DEF TypeOK, AiTypeOK
<1> USE DEF TypeOK, JobsTypeOK
<1>1. ASSUME NEW k \in Job, AiClaim(w, k)
      PROVE  LaterUpdate /\ \A j \in Job : state'[j] = "completed" => state[j] = "completed"
  BY <1>1 DEF AiClaim, LaterUpdate
<1>2. CASE AiExplain(w) \/ AiCrash(w)
  BY <1>2 DEF AiExplain, AiCrash, jobVars, LaterUpdate
<1>3. CASE AiFinalize(w) \/ AiDegrade(w)
  BY <1>a, <1>3 DEF AiFinalize, AiDegrade, UpdateState, LaterUpdate, LaterState, AiIdle
<1>4. CASE AiFail(w)
  <2>1. ai[w].job \in Job
    BY <1>a, <1>4 DEF AiFail, AiIdle
  <2>2. LaterUpdate
    BY <1>4, <2>1, RecordFailureLater DEF AiFail, LaterState
  <2> QED
    BY <1>4, <2>1, <2>2 DEF AiFail, RecordFailure, UpdateState
<1> QED
  BY <1>0, <1>1, <1>2, <1>3, <1>4 DEF AiNext, AiWorks

\* The Finalizer completes a job only from "completing", with a summary stored,
\* and what it knows of its job stays true.
LEMMA FinLater ==
    ASSUME TypeOK, FinGrounded, FinStep
    PROVE  /\ LaterUpdate
           /\ FinGrounded'
           /\ \A j \in Job : summaries[j] \subseteq summaries'[j]
           /\ \A j \in Job : state'[j] = "completed" /\ state[j] # "completed" =>
                 summaries'[j] # {} /\ artifact_id[j] # NoArtifact
<1> DEFINE Goal == /\ LaterUpdate
                   /\ FinGrounded'
                   /\ \A j \in Job : summaries[j] \subseteq summaries'[j]
                   /\ \A j \in Job : state'[j] = "completed" /\ state[j] # "completed" =>
                         summaries'[j] # {} /\ artifact_id[j] # NoArtifact
<1>0. PICK w \in Finalizers : FinNext(w)
  BY DEF FinStep
<1>a. \A v \in Finalizers : fin[v].pc # "idle" => fin[v].job \in Job
  BY DEF TypeOK, FinTypeOK, FinIdle
<1>b. fin \in [Finalizers -> {FinIdle} \cup
                  [pc: FinPC, job: Job, retry_count: Nat, seen: Evidence]]
  BY DEF TypeOK, FinTypeOK
<1>c. /\ state \in [Job -> JobState \cup NoRow] /\ retry_count \in [Job -> Nat]
      /\ artifact_id \in [Job -> Digest \cup {NoArtifact}]
      /\ summaries \in [Job -> SUBSET Evidence]
  BY DEF TypeOK, JobsTypeOK, FinTypeOK
<1>d. LaterState \cap NoRow = {} /\ "completed" \in LaterState
  BY DEF LaterState, NoRow
<1>1. ASSUME NEW k \in Job, FinClaim(w, k) PROVE Goal
  <2>1. LaterUpdate
    BY <1>1 DEF FinClaim, LaterUpdate
  <2>2. FinGrounded'
    BY <1>1, <1>a, <1>b DEF FinClaim, FinGrounded, NoRow
  <2> QED
    BY <1>1, <2>1, <2>2 DEF FinClaim
<1>2. CASE FinLoadStatic(w) \/ FinLoadSandbox(w) \/ FinLoadAi(w)
  <2>1. LaterUpdate /\ UNCHANGED <<state, artifact_id, summaries>>
    BY <1>2 DEF FinLoadStatic, FinLoadSandbox, FinLoadAi, jobVars, LaterUpdate
  <2>2. /\ fin[w].pc # "idle" /\ fin'[w].pc # "completing" /\ fin'[w].job = fin[w].job
        /\ \A v \in Finalizers : v # w => fin'[v] = fin[v]
    <3>1. ASSUME NEW pc \in {"loading-sandbox", "loading-ai", "summarizing"}, NEW e,
                 fin[w].pc # "idle",
                 fin' = [fin EXCEPT ![w] = [@ EXCEPT !.pc = pc, !.seen = e]]
          PROVE  /\ fin'[w].pc = pc /\ fin'[w].job = fin[w].job
                 /\ \A v \in Finalizers : v # w => fin'[v] = fin[v]
      <4>1. fin[w] \in [pc: FinPC, job: Job, retry_count: Nat, seen: Evidence]
        BY <1>b, <3>1 DEF FinIdle
      <4> QED
        BY <1>b, <3>1, <4>1
    <3>2. CASE FinLoadStatic(w)
      <4>1. fin' = [fin EXCEPT ![w] = [@ EXCEPT !.pc = "loading-sandbox",
               !.seen = [fin[w].seen EXCEPT !.static = fin[w].job \in reports]]]
        BY <3>2 DEF FinLoadStatic
      <4>2. fin[w].pc # "idle"
        BY <3>2 DEF FinLoadStatic
      <4> QED
        BY <3>1, <4>1, <4>2
    <3>3. CASE FinLoadSandbox(w)
      <4>1. fin' = [fin EXCEPT ![w] = [@ EXCEPT !.pc = "loading-ai",
               !.seen = [fin[w].seen EXCEPT
                            !.sandbox = sandbox_runs[fin[w].job]["completed"] > 0]]]
        BY <3>3 DEF FinLoadSandbox
      <4>2. fin[w].pc # "idle"
        BY <3>3 DEF FinLoadSandbox
      <4> QED
        BY <3>1, <4>1, <4>2
    <3>4. CASE FinLoadAi(w)
      <4>1. fin' = [fin EXCEPT ![w] = [@ EXCEPT !.pc = "summarizing",
               !.seen = [fin[w].seen EXCEPT !.ai = fin[w].job \in explanations]]]
        BY <3>4 DEF FinLoadAi
      <4>2. fin[w].pc # "idle"
        BY <3>4 DEF FinLoadAi
      <4> QED
        BY <3>1, <4>1, <4>2
    <3> QED
      BY <1>2, <3>2, <3>3, <3>4 DEF FinLoadStatic, FinLoadSandbox, FinLoadAi
  <2>3. FinGrounded'
    BY <2>1, <2>2 DEF FinGrounded
  <2> QED
    BY <2>1, <2>3
<1>3. CASE FinPersist(w)
  <2>1. LaterUpdate /\ UNCHANGED <<state, artifact_id>>
    BY <1>3 DEF FinPersist, jobVars, LaterUpdate
  <2>2. /\ fin[w].pc # "idle" /\ fin'[w].job = fin[w].job
        /\ \A v \in Finalizers : v # w => fin'[v] = fin[v]
    BY <1>3, <1>b DEF FinPersist
  <2>3. \A j \in Job : summaries[j] \subseteq summaries'[j]
    BY <1>3, <1>a, <1>c DEF FinPersist
  <2>4. summaries'[fin[w].job] # {}
    BY <1>3, <1>a, <1>c DEF FinPersist
  <2>5. FinGrounded'
    BY <1>a, <2>1, <2>2, <2>3, <2>4 DEF FinGrounded
  <2> QED
    BY <2>1, <2>3, <2>5
<1>4. CASE FinComplete(w)
  <2>1. /\ fin[w].job \in Job /\ UNCHANGED <<summaries, artifact_id>>
        /\ state' = [state EXCEPT ![fin[w].job] = "completed"]
        /\ fin' = [fin EXCEPT ![w] = FinIdle]
    BY <1>4, <1>a DEF FinComplete, UpdateState
  <2>2. LaterUpdate
    BY <1>4, <1>c, <1>d, <2>1 DEF FinComplete, LaterUpdate
  <2>3. FinGrounded'
    BY <1>a, <1>b, <1>c, <1>d, <2>1 DEF FinGrounded, FinIdle
  <2>4. summaries[fin[w].job] # {} /\ artifact_id[fin[w].job] # NoArtifact
    BY <1>4 DEF FinComplete, FinGrounded
  <2> QED
    BY <1>c, <2>1, <2>2, <2>3, <2>4
<1>5. CASE FinFail(w)
  <2>1. /\ fin[w].job \in Job /\ UNCHANGED <<summaries, artifact_id>>
        /\ fin' = [fin EXCEPT ![w] = FinIdle]
    BY <1>5, <1>a DEF FinFail
  <2>2. LaterUpdate
    BY <1>5, <2>1, RecordFailureLater DEF FinFail, LaterState, TypeOK
  <2>3. FinGrounded'
    BY <1>a, <1>b, <1>d, <2>1, <2>2 DEF FinGrounded, FinIdle, LaterUpdate
  <2>4. \A j \in Job : state'[j] = "completed" => state[j] = "completed"
    BY <1>5, <1>c, <2>1 DEF FinFail, RecordFailure, UpdateState
  <2> QED
    BY <2>1, <2>2, <2>3, <2>4
<1>6. CASE FinCrash(w)
  <2>1. LaterUpdate /\ UNCHANGED <<state, artifact_id, summaries>>
    BY <1>6 DEF FinCrash, jobVars, LaterUpdate
  <2>2. FinGrounded'
    BY <1>6, <1>b, <2>1 DEF FinCrash, FinGrounded, FinIdle
  <2> QED
    BY <2>1, <2>2
<1> QED
  BY <1>0, <1>1, <1>2, <1>3, <1>4, <1>5, <1>6 DEF FinNext, FinWorks

\* After an update of a later stage the table's part of the invariant holds.
LEMMA LaterKeeps ==
    ASSUME TypeOK, Inv, LaterUpdate, UNCHANGED surgeon
    PROVE  (FreshBeforeInsert /\ SurgeonExclusive /\ QueuedWithinBudget /\ ArtifactLinked)'
<1> USE DEF Inv, LaterUpdate
<1>1. FreshBeforeInsert'
  BY DEF FreshBeforeInsert, LaterState, NoRow
<1>2. SurgeonExclusive'
  BY DEF SurgeonExclusive, SurgeonHolds, LaterState, NoRow
<1>3. QueuedWithinBudget'
  BY DEF QueuedWithinBudget, LaterState
<1>4. ArtifactLinked'
  BY DEF ArtifactLinked
<1> QED
  BY <1>1, <1>2, <1>3, <1>4

\* A Surgeon's update concerns the job it holds or claims; it never completes a
\* job and never takes an artifact away.
LEMMA SurgeonKeeps ==
    ASSUME TypeOK, Inv, SurgeonStep
    PROVE  Inv'
<1>0. PICK w \in Surgeons : SurgeonNext(w)
  BY DEF SurgeonStep
<1>t. /\ state \in [Job -> JobState \cup NoRow] /\ retry_count \in [Job -> Nat]
      /\ artifact_id \in [Job -> Digest \cup {NoArtifact}]
      /\ row \in [Job -> Row]
      /\ surgeon \in [Surgeons -> {SurgeonIdle} \cup
                          [pc: SurgeonPC \ {"idle"}, job: Job]]
  BY DEF TypeOK, JobsTypeOK, SurgeonTypeOK
<1>f. \A v \in Finalizers : fin[v].pc # "idle" => fin[v].job \in Job
  BY DEF TypeOK, FinTypeOK, FinIdle
<1>u. UNCHANGED <<fin, summaries>>
  BY DEF SurgeonStep
\* Steps that change no row: the worker moves on, or stops.
<1>1. ASSUME UNCHANGED jobVars,
             \/ surgeon' = [surgeon EXCEPT ![w] = SurgeonIdle]
             \/ \E pc \in SurgeonPC \ {"idle"} : surgeon[w].pc # "idle" /\
                   surgeon' = [surgeon EXCEPT ![w] = [@ EXCEPT !.pc = pc]]
      PROVE  Inv'
  <2>1. \A v \in Surgeons, j \in Job : SurgeonHolds(v, j)' => SurgeonHolds(v, j)
    <3>1. CASE surgeon' = [surgeon EXCEPT ![w] = SurgeonIdle]
      BY <1>t, <3>1 DEF SurgeonHolds, SurgeonIdle
    <3>2. ASSUME NEW pc \in SurgeonPC \ {"idle"}, surgeon[w].pc # "idle",
                 surgeon' = [surgeon EXCEPT ![w] = [@ EXCEPT !.pc = pc]]
          PROVE  \A v \in Surgeons, j \in Job : SurgeonHolds(v, j)' => SurgeonHolds(v, j)
      <4>1. surgeon[w] \in [pc: SurgeonPC \ {"idle"}, job: Job]
        BY <1>t, <3>2 DEF SurgeonIdle
      <4> QED
        BY <1>t, <3>2, <4>1 DEF SurgeonHolds
    <3> QED
      BY <1>1, <3>1, <3>2
  <2>2. SurgeonExclusive'
    BY <1>1, <2>1 DEF Inv, SurgeonExclusive, jobVars
  <2> QED
    BY <1>1, <1>u, <2>2 DEF Inv, jobVars, FreshBeforeInsert, QueuedWithinBudget,
       ArtifactLinked, FinGrounded, CompletedIsSummarized
\* Steps that write a state other than queued into the row the worker holds.
<1>2. ASSUME NEW j \in Job, NEW s \in JobState \ {"queued", "completed"},
             NEW pc \in SurgeonPC \ {"idle"},
             SurgeonHolds(w, j), state' = [state EXCEPT ![j] = s],
             surgeon' = [surgeon EXCEPT ![w] = [@ EXCEPT !.pc = pc]],
             UNCHANGED <<retry_count, artifact_id, row, artifacts, reports>>
      PROVE  Inv'
  <2>1. surgeon[w] \in [pc: SurgeonPC \ {"idle"}, job: Job]
    BY <1>t, <1>2 DEF SurgeonIdle, SurgeonHolds
  <2>2. \A v \in Surgeons, k \in Job : SurgeonHolds(v, k)' => SurgeonHolds(v, k)
    BY <1>t, <1>2, <2>1 DEF SurgeonHolds
  <2>3. s \notin NoRow
    BY DEF NoRow, JobState
  <2>4. SurgeonExclusive'
    BY <1>t, <1>2, <2>2, <2>3 DEF Inv, SurgeonExclusive
  <2>5. FreshBeforeInsert' /\ QueuedWithinBudget'
    BY <1>t, <1>2, <2>3 DEF Inv, FreshBeforeInsert, QueuedWithinBudget
  <2>6. FinGrounded' /\ CompletedIsSummarized'
    BY <1>t, <1>f, <1>u, <1>2, <2>3 DEF Inv, FinGrounded, CompletedIsSummarized
  <2> QED
    BY <1>2, <2>4, <2>5, <2>6 DEF Inv, ArtifactLinked
<1>3. ASSUME NEW j \in Job, SurgeonClaim(w, j) PROVE Inv'
  <2>1. /\ state[j] = "queued" /\ state' = [state EXCEPT ![j] = "fetching"]
        /\ surgeon' = [surgeon EXCEPT ![w] = [pc |-> "claimed", job |-> j]]
        /\ UNCHANGED <<retry_count, artifact_id, row, artifacts, reports>>
    BY <1>3 DEF SurgeonClaim, UpdateState
  <2>2. \A v \in Surgeons : ~SurgeonHolds(v, j)
    BY <2>1 DEF Inv, SurgeonExclusive
  <2>3. \A v \in Surgeons, k \in Job :
           SurgeonHolds(v, k)' <=> IF v = w THEN k = j ELSE SurgeonHolds(v, k)
    BY <1>t, <2>1 DEF SurgeonHolds
  <2>4. SurgeonExclusive'
    BY <1>t, <2>1, <2>2, <2>3 DEF Inv, SurgeonExclusive, NoRow
  <2>5. FreshBeforeInsert' /\ QueuedWithinBudget'
    BY <1>t, <2>1 DEF Inv, FreshBeforeInsert, QueuedWithinBudget, NoRow
  <2>6. FinGrounded' /\ CompletedIsSummarized'
    BY <1>t, <1>f, <1>u, <2>1 DEF Inv, FinGrounded, CompletedIsSummarized, NoRow
  <2> QED
    BY <2>1, <2>4, <2>5, <2>6 DEF Inv, ArtifactLinked
<1>4. CASE SurgeonPersist(w)
  <2>1. PICK j \in Job : j = surgeon[w].job /\ surgeon[w] \in [pc: SurgeonPC \ {"idle"}, job: Job]
    BY <1>t, <1>4 DEF SurgeonPersist, SurgeonMoves, SurgeonIdle
  <2>2. /\ artifacts' = artifacts \cup {row[j].sha256} /\ reports' = reports \cup {j}
        /\ artifact_id' = [artifact_id EXCEPT ![j] = row[j].sha256]
        /\ UNCHANGED <<state, retry_count, row>>
        /\ surgeon' = [surgeon EXCEPT ![w] = [@ EXCEPT !.pc = "handing-off"]]
        /\ surgeon[w].pc = "persisting"
    BY <1>4, <2>1 DEF SurgeonPersist, SurgeonMoves
  <2>3. \A v \in Surgeons, k \in Job : SurgeonHolds(v, k)' => SurgeonHolds(v, k)
    BY <1>t, <2>1, <2>2 DEF SurgeonHolds
  <2>4. row[j].sha256 # NoArtifact
    BY <1>t, NoArtifactAssumption DEF Row
  <2>5. SurgeonExclusive'
    BY <2>2, <2>3 DEF Inv, SurgeonExclusive
  <2>6. ArtifactLinked'
    BY <1>t, <2>2 DEF Inv, ArtifactLinked
  <2>7. FinGrounded' /\ CompletedIsSummarized'
    BY <1>t, <1>f, <1>u, <2>2, <2>4 DEF Inv, FinGrounded, CompletedIsSummarized
  <2> QED
    BY <2>2, <2>5, <2>6, <2>7 DEF Inv, FreshBeforeInsert, QueuedWithinBudget
<1>5. CASE SurgeonMarkFailure(w)
  <2>1. PICK j \in Job : j = surgeon[w].job /\ SurgeonHolds(w, j)
    BY <1>t, <1>5 DEF SurgeonMarkFailure, SurgeonIdle, SurgeonHolds
  <2> DEFINE n == retry_count[j] + 1
             s == IF n >= MaxRetries THEN "failed" ELSE "queued"
  <2>2. /\ state' = [state EXCEPT ![j] = s]
        /\ retry_count' = [retry_count EXCEPT ![j] = n]
        /\ surgeon' = [surgeon EXCEPT ![w] = SurgeonIdle]
        /\ UNCHANGED <<artifact_id, row, artifacts, reports>>
    BY <1>5, <2>1 DEF SurgeonMarkFailure, SurgeonStops, UpdateState
  <2>3. \A v \in Surgeons, k \in Job :
           SurgeonHolds(v, k)' <=> v # w /\ SurgeonHolds(v, k)
    BY <1>t, <2>2 DEF SurgeonHolds, SurgeonIdle
  <2>4. \A v \in Surgeons : ~SurgeonHolds(v, j)'
    BY <2>1, <2>3 DEF Inv, SurgeonExclusive
  <2>5. s \notin NoRow /\ s # "completed" /\ (s = "queued" => n < MaxRetries)
    BY <1>t, MaxRetriesAssumption DEF NoRow
  <2> HIDE DEF s
  <2>6. SurgeonExclusive'
    BY <1>t, <2>2, <2>3, <2>4 DEF Inv, SurgeonExclusive
  <2>7. FreshBeforeInsert' /\ QueuedWithinBudget'
    BY <1>t, <2>2, <2>5 DEF Inv, FreshBeforeInsert, QueuedWithinBudget
  <2>8. FinGrounded' /\ CompletedIsSummarized'
    BY <1>t, <1>f, <1>u, <2>2, <2>5 DEF Inv, FinGrounded, CompletedIsSummarized
  <2> QED
    BY <2>2, <2>6, <2>7, <2>8 DEF Inv, ArtifactLinked
<1>6. CASE SurgeonAdmit(w) \/ SurgeonFail(w)
  BY <1>1, <1>6 DEF SurgeonAdmit, SurgeonMoves, SurgeonFail, SurgeonPC
<1>7. CASE SurgeonAbandon(w) \/ SurgeonAnnounce(w) \/ SurgeonCrash(w)
  BY <1>1, <1>7 DEF SurgeonAbandon, SurgeonAnnounce, SurgeonCrash, SurgeonStops
<1>8. CASE SurgeonFetch(w)
  <2>1. SurgeonHolds(w, surgeon[w].job) /\ surgeon[w].job \in Job
    BY <1>t, <1>8 DEF SurgeonFetch, SurgeonMoves, SurgeonHolds, SurgeonIdle
  <2> QED
    BY <1>2, <1>8, <2>1 DEF SurgeonFetch, SurgeonMoves, UpdateState, JobState, SurgeonPC
<1>9. CASE SurgeonScan(w)
  <2>1. SurgeonHolds(w, surgeon[w].job) /\ surgeon[w].job \in Job
    BY <1>t, <1>9 DEF SurgeonScan, SurgeonMoves, SurgeonHolds, SurgeonIdle
  <2> QED
    BY <1>2, <1>9, <2>1 DEF SurgeonScan, SurgeonMoves, UpdateState, JobState, SurgeonPC
<1>10. CASE SurgeonHandOff(w)
  <2>1. SurgeonHolds(w, surgeon[w].job) /\ surgeon[w].job \in Job
    BY <1>t, <1>10 DEF SurgeonHandOff, SurgeonMoves, SurgeonHolds, SurgeonIdle
  <2> QED
    BY <1>2, <1>10, <2>1 DEF SurgeonHandOff, SurgeonMoves, UpdateState, JobState, SurgeonPC
<1> QED
  BY <1>0, <1>3, <1>4, <1>5, <1>6, <1>7, <1>8, <1>9, <1>10 DEF SurgeonNext, SurgeonWorks

\* Inserting a row, and the clock, change neither a held job nor a failed one.
LEMMA TriageKeeps ==
    ASSUME TypeOK, Inv, TriageStep
    PROVE  Inv'
<1>0. PICK j \in Job : TriageQuarantine(j) \/ TriageCreateJob(j) \/ BackoffElapses(j)
  BY DEF TriageStep
<1>t. /\ state \in [Job -> JobState \cup NoRow] /\ retry_count \in [Job -> Nat]
      /\ artifact_id \in [Job -> Digest \cup {NoArtifact}] /\ row \in [Job -> Row]
  BY DEF TypeOK, JobsTypeOK
<1>f. \A v \in Finalizers : fin[v].pc # "idle" => fin[v].job \in Job
  BY DEF TypeOK, FinTypeOK, FinIdle
<1>u. UNCHANGED <<surgeon, fin, summaries>>
  BY DEF TriageStep
<1>1. CASE TriageQuarantine(j)
  <2>1. /\ state[j] \in NoRow /\ state' = [state EXCEPT ![j] = "deciding"]
        /\ UNCHANGED <<retry_count, artifact_id, row, artifacts, reports>>
    BY <1>1 DEF TriageQuarantine, NoRow
  <2>2. FreshBeforeInsert' /\ QueuedWithinBudget'
    BY <1>t, <2>1 DEF Inv, FreshBeforeInsert, QueuedWithinBudget
  <2>3. SurgeonExclusive'
    BY <1>t, <1>u, <2>1 DEF Inv, SurgeonExclusive, SurgeonHolds
  <2>4. FinGrounded' /\ CompletedIsSummarized'
    BY <1>t, <1>f, <1>u, <2>1 DEF Inv, FinGrounded, CompletedIsSummarized
  <2> QED
    BY <2>1, <2>2, <2>3, <2>4 DEF Inv, ArtifactLinked
<1>2. CASE TriageCreateJob(j)
  <2> DEFINE a == IF row[j].sha256 \in artifacts THEN row[j].sha256 ELSE NoArtifact
  <2>1. /\ state[j] \in NoRow /\ state' = [state EXCEPT ![j] = "queued"]
        /\ artifact_id' = [artifact_id EXCEPT ![j] = a]
        /\ UNCHANGED <<retry_count, row, artifacts, reports>>
    BY <1>2 DEF TriageCreateJob, UpdateState, NoRow
  <2>2. FreshBeforeInsert' /\ QueuedWithinBudget'
    BY <1>t, <2>1, MaxRetriesAssumption
    DEF Inv, FreshBeforeInsert, QueuedWithinBudget, NoRow
  <2>3. SurgeonExclusive'
    BY <1>t, <1>u, <2>1 DEF Inv, SurgeonExclusive, SurgeonHolds
  <2>4. ArtifactLinked'
    BY <1>t, <2>1 DEF Inv, ArtifactLinked
  <2>5. FinGrounded' /\ CompletedIsSummarized'
    BY <1>t, <1>f, <1>u, <2>1 DEF Inv, FinGrounded, CompletedIsSummarized, NoRow
  <2> QED
    BY <2>2, <2>3, <2>4, <2>5 DEF Inv
<1>3. CASE BackoffElapses(j)
  BY <1>u, <1>3 DEF BackoffElapses, Inv, FreshBeforeInsert, SurgeonExclusive,
     SurgeonHolds, QueuedWithinBudget, ArtifactLinked, FinGrounded, CompletedIsSummarized
<1> QED
  BY <1>0, <1>1, <1>2, <1>3

\* The empty tables satisfy the inductive invariant.
LEMMA InitInv == Init => Inv
<1> SUFFICES ASSUME Init PROVE Inv
  OBVIOUS
<1>1. FreshBeforeInsert /\ QueuedWithinBudget /\ ArtifactLinked
  BY DEF Init, JobsInit, FreshBeforeInsert, QueuedWithinBudget, ArtifactLinked
<1>2. SurgeonExclusive
  BY DEF Init, SurgeonInit, SurgeonIdle, SurgeonExclusive, SurgeonHolds
<1>3. FinGrounded /\ CompletedIsSummarized
  BY DEF Init, JobsInit, FinInit, FinIdle, FinGrounded, CompletedIsSummarized
<1> QED
  BY <1>1, <1>2, <1>3 DEF Inv

\* Every step of every actor preserves the inductive invariant.
LEMMA NextInv == TypeOK /\ Inv /\ [Next]_vars => Inv'
<1> SUFFICES ASSUME TypeOK, Inv, [Next]_vars PROVE Inv'
  OBVIOUS
<1>f. \A v \in Finalizers : fin[v].pc # "idle" => fin[v].job \in Job
  BY DEF TypeOK, FinTypeOK, FinIdle
\* A step that neither moves a Finalizer nor completes a job.
<1>1. ASSUME LaterUpdate, UNCHANGED <<surgeon, fin, summaries>>,
             \A j \in Job : state'[j] = "completed" => state[j] = "completed"
      PROVE  Inv'
  <2>1. FinGrounded'
    BY <1>f, <1>1 DEF Inv, FinGrounded, LaterUpdate, LaterState, NoRow
  <2>2. CompletedIsSummarized'
    BY <1>1 DEF Inv, CompletedIsSummarized, LaterUpdate
  <2> QED
    BY <1>1, <2>1, <2>2, LaterKeeps DEF Inv
<1>2. CASE ErStep
  BY <1>1, <1>2, ErLater DEF ErStep
<1>3. CASE AiStep
  BY <1>1, <1>3, AiLater DEF AiStep
<1>4. CASE FinStep
  <2>1. LaterUpdate /\ FinGrounded' /\ UNCHANGED surgeon
    BY <1>4, FinLater DEF Inv, FinStep
  <2>2. CompletedIsSummarized'
    BY <1>4, <2>1, FinLater DEF Inv, CompletedIsSummarized, LaterUpdate
  <2> QED
    BY <2>1, <2>2, LaterKeeps DEF Inv
<1>5. CASE UNCHANGED vars
  BY <1>5 DEF vars, jobVars, Inv, FreshBeforeInsert, SurgeonExclusive,
     SurgeonHolds, QueuedWithinBudget, ArtifactLinked, FinGrounded, CompletedIsSummarized
<1> QED
  BY <1>2, <1>3, <1>4, <1>5, SurgeonKeeps, TriageKeeps DEF Next

\* The inductive invariant holds in every reachable state.
THEOREM Invariance == Spec => []Inv
<1>1. Init => Inv
  BY InitInv
<1>2. TypeOK /\ Inv /\ [Next]_vars => Inv'
  BY NextInv
<1> QED
  BY <1>1, <1>2, TypeCorrect, PTL DEF Spec

\* claim_next_job and mark_job_failure make the Surgeon's claim exclusive, for
\* any number of workers of all the stages.
THEOREM SurgeonsExclude == Spec => []SurgeonExclusive
<1>1. Inv => SurgeonExclusive
  BY DEF Inv
<1> QED
  BY <1>1, Invariance, PTL

\* No exhausted job is queued, for any retry budget.
THEOREM QueuedBudget == Spec => []QueuedWithinBudget
<1>1. Inv => QueuedWithinBudget
  BY DEF Inv
<1> QED
  BY <1>1, Invariance, PTL

\* Jobs point to analysed artifacts of their own digest.
THEOREM ArtifactsLinked == Spec => []ArtifactLinked
<1>1. Inv => ArtifactLinked
  BY DEF Inv
<1> QED
  BY <1>1, Invariance, PTL

-----------------------------------------------------------------------------
(***************************************************************************)
(* What the Finalizer's three SELECTs return is still there when the       *)
(* summary is stored: no stage withdraws a report, a completed run or an   *)
(* explanation, so evidence once read stays evidence.                      *)
(***************************************************************************)

\* Every Finalizer at work, and every stored summary, claims stored evidence.
SummariesGrounded ==
    /\ \A w \in Finalizers :
          fin[w].pc # "idle" => EvidenceStored(fin[w].job, fin[w].seen)
    /\ \A j \in Job : \A e \in summaries[j] : EvidenceStored(j, e)

\* No step withdraws evidence of any kind.
EvidenceLasts ==
    /\ reports \subseteq reports'
    /\ explanations \subseteq explanations'
    /\ \A j \in Job : sandbox_runs[j]["completed"] > 0
                      => sandbox_runs'[j]["completed"] > 0

\* Closing a run never lowers the number of completed ones.
LEMMA ClosedRunLasts ==
    ASSUME ErTypeOK, NEW k \in Job, NEW s \in {"completed", "failed"}, CloseRun(k, s)
    PROVE  \A j \in Job : sandbox_runs[j]["completed"] > 0
                         => sandbox_runs'[j]["completed"] > 0
<1> SUFFICES ASSUME NEW j \in Job, sandbox_runs[j]["completed"] > 0
             PROVE  sandbox_runs'[j]["completed"] > 0
  OBVIOUS
<1>1. sandbox_runs[j]["completed"] \in Nat
  BY DEF ErTypeOK, RunState
<1>2. CASE j # k
  BY <1>2 DEF CloseRun, ErTypeOK
<1>3. CASE j = k /\ s = "completed"
  BY <1>1, <1>3 DEF CloseRun, ErTypeOK, RunState
<1>4. CASE j = k /\ s = "failed"
  BY <1>1, <1>4 DEF CloseRun, ErTypeOK, RunState
<1> QED
  BY <1>2, <1>3, <1>4

\* An Emergency Room step withdraws no evidence.
LEMMA ErEvidenceLasts ==
    ASSUME ErTypeOK, NEW w \in Sandboxes, ErNext(w)
    PROVE  /\ reports' = reports
           /\ \A j \in Job : sandbox_runs[j]["completed"] > 0
                            => sandbox_runs'[j]["completed"] > 0
<1>0. er[w] \in {ErIdle} \cup [pc: {"claimed", "running"}, job: Job, retry_count: Nat]
  BY DEF ErTypeOK
<1>1. CASE (\E j \in Job : ErClaim(w, j)) \/ ErAbandon(w) \/ ErCrash(w)
  BY <1>1 DEF ErClaim, ErAbandon, ErCrash, jobVars
<1>2. CASE ErStart(w)
  <2> DEFINE k == er[w].job
  <2>1. k \in Job
    BY <1>0, <1>2 DEF ErStart, ErIdle
  <2>2. sandbox_runs' = [sandbox_runs EXCEPT ![k]["running"] = @ + 1]
    BY <1>2 DEF ErStart
  <2>3. \A j \in Job : sandbox_runs'[j]["completed"] = sandbox_runs[j]["completed"]
    BY <2>1, <2>2 DEF ErTypeOK, RunState
  <2> QED
    BY <1>2, <2>3 DEF ErStart, jobVars
<1>3. CASE ErComplete(w) \/ ErFail(w)
  <2>1. er[w].job \in Job
    BY <1>0, <1>3 DEF ErComplete, ErFail, ErIdle
  <2>2. PICK s \in {"completed", "failed"} : CloseRun(er[w].job, s)
    BY <1>3 DEF ErComplete, ErFail
  <2>3. reports' = reports
    BY <1>3 DEF ErComplete, ErFail
  <2> QED
    BY <2>1, <2>2, <2>3, ClosedRunLasts
<1> QED
  BY <1>1, <1>2, <1>3 DEF ErNext, ErWorks

\* No step of any stage withdraws evidence.
LEMMA NothingWithdrawn == TypeOK /\ [Next]_vars => EvidenceLasts
<1> SUFFICES ASSUME TypeOK, [Next]_vars PROVE EvidenceLasts
  OBVIOUS
<1>1. CASE TriageStep
  BY <1>1 DEF TriageStep, TriageQuarantine, TriageCreateJob, BackoffElapses, EvidenceLasts
<1>2. CASE SurgeonStep
  <2>1. reports \subseteq reports'
    BY <1>2 DEF SurgeonStep, SurgeonNext, SurgeonWorks, SurgeonClaim, SurgeonAdmit,
       SurgeonAbandon, SurgeonFetch, SurgeonScan, SurgeonPersist, SurgeonHandOff,
       SurgeonAnnounce, SurgeonFail, SurgeonMarkFailure, SurgeonCrash, jobVars
  <2> QED
    BY <1>2, <2>1 DEF SurgeonStep, EvidenceLasts
<1>3. CASE ErStep
  BY <1>3, ErEvidenceLasts DEF ErStep, TypeOK, EvidenceLasts
<1>4. CASE AiStep
  BY <1>4 DEF AiStep, AiNext, AiWorks, AiClaim, AiExplain, AiFinalize, AiDegrade,
     AiFail, AiCrash, jobVars, EvidenceLasts
<1>5. CASE FinStep
  BY <1>5 DEF FinStep, FinNext, FinWorks, FinClaim, FinLoadStatic, FinLoadSandbox,
     FinLoadAi, FinPersist, FinComplete, FinFail, FinCrash, jobVars, EvidenceLasts
<1>6. CASE UNCHANGED vars
  BY <1>6 DEF vars, jobVars, EvidenceLasts
<1> QED
  BY <1>1, <1>2, <1>3, <1>4, <1>5, <1>6 DEF Next

\* Stored evidence is still stored after the step.
LEMMA StoredStays ==
    ASSUME EvidenceLasts, NEW j \in Job, NEW e, EvidenceStored(j, e)
    PROVE  EvidenceStored(j, e)'
BY DEF EvidenceLasts, EvidenceStored

\* What a Finalizer has read, and reads no more of, is still there.
LEMMA SeenStays ==
    ASSUME EvidenceLasts, NEW v \in Finalizers, fin[v].job \in Job,
           EvidenceStored(fin[v].job, fin[v].seen),
           fin'[v].job = fin[v].job, fin'[v].seen = fin[v].seen
    PROVE  EvidenceStored(fin[v].job, fin[v].seen)'
BY DEF EvidenceLasts, EvidenceStored

\* Noting one kind of evidence leaves what is known of the others.
LEMMA EvidenceRead ==
    ASSUME NEW e \in Evidence, NEW b \in BOOLEAN
    PROVE  /\ LET f == [e EXCEPT !.static = b]
              IN  (f.static <=> b) /\ (f.sandbox <=> e.sandbox) /\ (f.ai <=> e.ai)
           /\ LET f == [e EXCEPT !.sandbox = b]
              IN  (f.static <=> e.static) /\ (f.sandbox <=> b) /\ (f.ai <=> e.ai)
           /\ LET f == [e EXCEPT !.ai = b]
              IN  (f.static <=> e.static) /\ (f.sandbox <=> e.sandbox) /\ (f.ai <=> b)
BY DEF Evidence

\* A Finalizer reads, and stores, only evidence that is there.
LEMMA FinGroundsSummaries ==
    ASSUME TypeOK, SummariesGrounded, EvidenceLasts, NEW w \in Finalizers, FinNext(w),
           UNCHANGED <<sandbox_runs, explanations>>
    PROVE  SummariesGrounded'
<1>0. fin[w] \in {FinIdle} \cup [pc: FinPC, job: Job, retry_count: Nat, seen: Evidence]
  BY DEF TypeOK, FinTypeOK
<1>a. FinIdle.pc = "idle" /\ "idle" \notin FinPC
  BY DEF FinIdle, FinPC
<1>b. fin[w].pc # "idle" =>
          fin[w].job \in Job /\ fin[w].seen \in Evidence
            /\ EvidenceStored(fin[w].job, fin[w].seen)
  BY <1>0, <1>a DEF SummariesGrounded
\* The other Finalizers, and the summaries stored before.
<1>c. ASSUME NEW v \in Finalizers, fin[v].pc # "idle", fin'[v] = fin[v]
      PROVE  EvidenceStored(fin[v].job, fin[v].seen)'
  <2>1. fin[v].job \in Job
    BY <1>a, <1>c DEF TypeOK, FinTypeOK
  <2> QED
    BY <1>c, <2>1, SeenStays DEF SummariesGrounded
<1>d. ASSUME summaries' = summaries
      PROVE  (\A j \in Job : \A e \in summaries[j] : EvidenceStored(j, e))'
  BY <1>d, StoredStays DEF SummariesGrounded
\* It is enough to look at the Finalizer that took the step.
<1>e. ASSUME summaries' = summaries, \A v \in Finalizers \ {w} : fin'[v] = fin[v],
             fin'[w].pc # "idle" => EvidenceStored(fin[w].job, fin[w].seen)'
      PROVE  SummariesGrounded'
  <2> SUFFICES ASSUME NEW v \in Finalizers, fin'[v].pc # "idle"
               PROVE  EvidenceStored(fin[v].job, fin[v].seen)'
    BY <1>d, <1>e DEF SummariesGrounded
  <2> QED
    BY <1>c, <1>e
<1>1. ASSUME NEW k \in Job, FinClaim(w, k) PROVE SummariesGrounded'
  <2>1. fin'[w].seen = NoEvidence
    BY <1>1 DEF FinClaim, TypeOK, FinTypeOK
  <2>2. EvidenceStored(fin[w].job, fin[w].seen)'
    BY <2>1 DEF EvidenceStored, NoEvidence
  <2> QED
    BY <1>1, <1>e, <2>2 DEF FinClaim, TypeOK, FinTypeOK
<1>2. CASE FinLoadStatic(w)
  <2> DEFINE b == fin[w].job \in reports
             f == [fin[w].seen EXCEPT !.static = b]
  <2>1. fin'[w].job = fin[w].job /\ fin'[w].seen = f
    BY <1>0, <1>2, <1>a DEF FinLoadStatic, TypeOK, FinTypeOK
  <2>2. (f.static <=> b) /\ (f.sandbox <=> fin[w].seen.sandbox)
           /\ (f.ai <=> fin[w].seen.ai)
    <3>1. fin[w].seen \in Evidence
      BY <1>2, <1>b DEF FinLoadStatic
    <3>2. b \in BOOLEAN
      OBVIOUS
    <3> QED
      BY <3>1, <3>2, EvidenceRead
  <2>3. EvidenceStored(fin[w].job, fin[w].seen)'
    <3> HIDE DEF f
    <3> QED
      BY <1>2, <1>b, <2>1, <2>2 DEF FinLoadStatic, EvidenceStored, EvidenceLasts
  <2> QED
    BY <1>2, <1>e, <2>3 DEF FinLoadStatic, TypeOK, FinTypeOK

<1>3. CASE FinLoadSandbox(w)
  <2> DEFINE b == sandbox_runs[fin[w].job]["completed"] > 0
             f == [fin[w].seen EXCEPT !.sandbox = b]
  <2>1. fin'[w].job = fin[w].job /\ fin'[w].seen = f
    BY <1>0, <1>3, <1>a DEF FinLoadSandbox, TypeOK, FinTypeOK
  <2>2. (f.static <=> fin[w].seen.static) /\ (f.sandbox <=> b)
           /\ (f.ai <=> fin[w].seen.ai)
    <3>1. fin[w].seen \in Evidence
      BY <1>3, <1>b DEF FinLoadSandbox
    <3>2. b \in BOOLEAN
      OBVIOUS
    <3> QED
      BY <3>1, <3>2, EvidenceRead
  <2>3. EvidenceStored(fin[w].job, fin[w].seen)'
    <3> HIDE DEF f
    <3> QED
      BY <1>3, <1>b, <2>1, <2>2 DEF FinLoadSandbox, EvidenceStored, EvidenceLasts
  <2> QED
    BY <1>3, <1>e, <2>3 DEF FinLoadSandbox, TypeOK, FinTypeOK
<1>4. CASE FinLoadAi(w)
  <2> DEFINE b == fin[w].job \in explanations
             f == [fin[w].seen EXCEPT !.ai = b]
  <2>1. fin'[w].job = fin[w].job /\ fin'[w].seen = f
    BY <1>0, <1>4, <1>a DEF FinLoadAi, TypeOK, FinTypeOK
  <2>2. (f.static <=> fin[w].seen.static) /\ (f.sandbox <=> fin[w].seen.sandbox)
           /\ (f.ai <=> b)
    <3>1. fin[w].seen \in Evidence
      BY <1>4, <1>b DEF FinLoadAi
    <3>2. b \in BOOLEAN
      OBVIOUS
    <3> QED
      BY <3>1, <3>2, EvidenceRead
  <2>3. EvidenceStored(fin[w].job, fin[w].seen)'
    <3> HIDE DEF f
    <3> QED
      BY <1>4, <1>b, <2>1, <2>2 DEF FinLoadAi, EvidenceStored, EvidenceLasts
  <2> QED
    BY <1>4, <1>e, <2>3 DEF FinLoadAi, TypeOK, FinTypeOK
<1>5. CASE FinPersist(w)
  <2>1. fin'[w].job = fin[w].job /\ fin'[w].seen = fin[w].seen
    BY <1>0, <1>5, <1>a DEF FinPersist, TypeOK, FinTypeOK
  <2>2. fin[w].pc # "idle"
    BY <1>5 DEF FinPersist
  <2>3. \A v \in Finalizers : fin'[v].pc # "idle" =>
            EvidenceStored(fin[v].job, fin[v].seen)'
    <3>1. EvidenceStored(fin[w].job, fin[w].seen)'
      BY <1>b, <2>1, <2>2, SeenStays
    <3> QED
      BY <1>5, <1>c, <3>1 DEF FinPersist, TypeOK, FinTypeOK
  <2>4. (\A j \in Job : \A e \in summaries[j] : EvidenceStored(j, e))'
    <3> SUFFICES ASSUME NEW j \in Job, NEW e \in summaries'[j]
                 PROVE  EvidenceStored(j, e)'
      OBVIOUS
    <3>1. e \in summaries[j] \/ (j = fin[w].job /\ e = fin[w].seen)
      <4>1. summaries' = [summaries EXCEPT ![fin[w].job] = @ \cup {fin[w].seen}]
        BY <1>5 DEF FinPersist
      <4>2. summaries \in [Job -> SUBSET Evidence]
        BY DEF TypeOK, FinTypeOK
      <4> QED
        BY <4>1, <4>2
    <3>2. EvidenceStored(j, e)
      BY <1>b, <2>2, <3>1 DEF SummariesGrounded
    <3> QED
      BY <3>2, StoredStays
  <2> QED
    BY <2>3, <2>4 DEF SummariesGrounded
<1>6. CASE FinComplete(w) \/ FinFail(w) \/ FinCrash(w)
  <2>1. fin' = [fin EXCEPT ![w] = FinIdle] /\ summaries' = summaries
    BY <1>6 DEF FinComplete, FinFail, FinCrash
  <2> QED
    BY <1>a, <1>e, <2>1 DEF TypeOK, FinTypeOK
<1> QED
  BY <1>1, <1>2, <1>3, <1>4, <1>5, <1>6 DEF FinNext, FinWorks

\* No summary ever claims evidence that is not stored.
LEMMA SummariesStayGrounded == Spec => []SummariesGrounded
<1>1. Init => SummariesGrounded
  BY DEF Init, FinInit, FinIdle, SummariesGrounded
<1>2. TypeOK /\ SummariesGrounded /\ [Next]_vars => SummariesGrounded'
  <2> SUFFICES ASSUME TypeOK, SummariesGrounded, [Next]_vars PROVE SummariesGrounded'
    OBVIOUS
  <2>1. EvidenceLasts
    BY NothingWithdrawn
  <2>2. CASE FinStep
    BY <2>1, <2>2, FinGroundsSummaries DEF FinStep
  <2>3. CASE UNCHANGED <<fin, summaries>>
    <3>1. ASSUME NEW v \in Finalizers, fin'[v].pc # "idle"
          PROVE  EvidenceStored(fin[v].job, fin[v].seen)'
      <4>1. fin[v].job \in Job
        BY <2>3, <3>1 DEF TypeOK, FinTypeOK, FinIdle
      <4> QED
        BY <2>1, <2>3, <3>1, <4>1, SeenStays DEF SummariesGrounded
    <3>2. (\A j \in Job : \A e \in summaries[j] : EvidenceStored(j, e))'
      BY <2>1, <2>3, StoredStays DEF SummariesGrounded
    <3> QED
      BY <3>1, <3>2 DEF SummariesGrounded
  <2> QED
    BY <2>2, <2>3 DEF Next, vars, TriageStep, SurgeonStep, ErStep, AiStep
<1> QED
  BY <1>1, <1>2, TypeCorrect, PTL DEF Spec

\* A completed job has a summary and an artifact, and no summary claims a static
\* report, a completed sandbox run or an explanation its job does not have.
THEOREM CompletedSummarized == Spec => []CompletedHasSummary
<1>1. Inv /\ SummariesGrounded => CompletedHasSummary
  BY DEF Inv, CompletedIsSummarized, SummariesGrounded, CompletedHasSummary
<1> QED
  BY <1>1, Invariance, SummariesStayGrounded, PTL

=============================================================================
