------------------------ MODULE AnalysisClaimProofs ------------------------
(***************************************************************************)
(* What the claims on the analysis_jobs table amount to, for any number of *)
(* jobs and workers, any retry budget and any set of faults: the Surgeons' *)
(* claim is an exclusive lease, the Emergency Room's is one up to failed   *)
(* audit events, and a settled job nobody holds stays as it is.            *)
(***************************************************************************)
EXTENDS AnalysisPipelineProofs

(***************************************************************************)
(* The sandbox claim.  A job is on its way to the sandbox while it is      *)
(* queued, held by a Surgeon that has not handed it off, or                *)
(* sandbox-pending.  The invariant says that it is then not executed at    *)
(* its current retry_count already.                                        *)
(***************************************************************************)

\* The Surgeon has the job before its hand-off to the sandbox stage.
BeforeHandOff(w, j) ==
    /\ SurgeonHolds(w, j)
    /\ surgeon[w].pc \in {"claimed", "fetching", "scanning", "persisting", "handing-off"}

\* The state alone lets the job reach the sandbox stage.
Supplied(j) == state[j] \in NoRow \cup {"queued", "sandbox-pending"}

\* One failed audit event and one failed sandbox attempt have been counted.
Twice(j) == "sandbox" \in Faults /\ retry_count[j] >= 2

\* A worker's attempt is not newer than the row.
AttemptBounded ==
    \A w \in Sandboxes : \A j \in Job :
        ErHolds(w, j) => er[w].retry_count <= retry_count[j] /\ state[j] \notin NoRow

\* The current attempt of a job is supplied once ...
CurrentOnce ==
    \A w \in Sandboxes : \A j \in Job :
        ErHolds(w, j) /\ er[w].retry_count = retry_count[j] =>
            \/ ~Supplied(j) /\ \A v \in Surgeons : ~BeforeHandOff(v, j)
            \/ "audit" \in Faults /\ Twice(j)

\* ... also to the stage itself ...
PendingOnce ==
    \A v \in Surgeons : \A j \in Job :
        BeforeHandOff(v, j) /\ state[j] = "sandbox-pending" =>
            "audit" \in Faults /\ Twice(j)

\* ... and it takes a failure to supply it while it is executed.
RequeuedCounted ==
    \A w \in Sandboxes : \A j \in Job :
        /\ ErHolds(w, j) /\ state[j] = "queued" => retry_count[j] >= 1
        /\ \A v \in Surgeons :
              ErHolds(w, j) /\ BeforeHandOff(v, j) => retry_count[j] >= 1

\* Without failed audit events nothing is supplied while it is executed.
ExclusiveWithoutAudit ==
    "audit" \notin Faults =>
        \A j \in Job :
            /\ \A w \in Sandboxes : ErHolds(w, j) =>
                  ~Supplied(j) /\ \A v \in Surgeons :
                      SurgeonHolds(v, j) => surgeon[v].pc = "announcing"
            /\ state[j] = "sandbox-pending" => \A v \in Surgeons :
                  SurgeonHolds(v, j) => surgeon[v].pc = "announcing"

SandboxInv ==
    /\ AttemptBounded
    /\ CurrentOnce
    /\ PendingOnce
    /\ RequeuedCounted
    /\ ExclusiveWithoutAudit
    /\ SandboxExclusive

\* Most steps supply nothing: the job they write leaves the way to the sandbox,
\* nobody starts to hold it, and no failure is forgotten.
SuppliesNothing ==
    /\ \A j \in Job : state'[j] = state[j] \/ ~Supplied(j)'
    /\ \A j \in Job : retry_count'[j] >= retry_count[j]
    /\ \A v \in Surgeons, j \in Job :
          /\ BeforeHandOff(v, j)' => BeforeHandOff(v, j)
          /\ "audit" \notin Faults /\ SurgeonHolds(v, j)' =>
                /\ SurgeonHolds(v, j)
                /\ surgeon[v].pc = "announcing" => surgeon'[v].pc = "announcing"
    /\ \A w \in Sandboxes, j \in Job :
          ErHolds(w, j)' => ErHolds(w, j) /\ er'[w].retry_count = er[w].retry_count

\* What the proofs use of the types.
LEMMA CountsAreNat ==
    ASSUME TypeOK
    PROVE  /\ \A j \in Job : retry_count[j] \in Nat
           /\ \A w \in Sandboxes : er[w].retry_count \in Nat
BY DEF TypeOK, JobsTypeOK, ErTypeOK, ErIdle

\* A step that supplies nothing keeps the invariant.
LEMMA SuppliesNothingKeeps ==
    ASSUME TypeOK, TypeOK', SandboxInv, SuppliesNothing
    PROVE  SandboxInv'
<1>n. /\ \A j \in Job : retry_count[j] \in Nat /\ retry_count'[j] \in Nat
      /\ \A w \in Sandboxes : er[w].retry_count \in Nat
  BY CountsAreNat DEF TypeOK, JobsTypeOK
<1> USE <1>n DEF SandboxInv, SuppliesNothing
<1>1. AttemptBounded'
  BY DEF AttemptBounded, Supplied
<1>2. CurrentOnce'
  BY DEF CurrentOnce, AttemptBounded, Supplied, Twice
<1>3. PendingOnce'
  BY DEF PendingOnce, Supplied, Twice
<1>4. RequeuedCounted'
  BY DEF RequeuedCounted, Supplied
<1>5. ExclusiveWithoutAudit'
  BY DEF ExclusiveWithoutAudit, Supplied
<1>6. SandboxExclusive'
  BY DEF SandboxExclusive
<1> QED
  BY <1>1, <1>2, <1>3, <1>4, <1>5, <1>6

\* The states the AI Analyst and the Finalizer write are past the sandbox.
PastSandbox == {"ai-pending", "finalizing", "completed", "failed"}

\* An update of the row of j that counts at most one more failure.
UpdatesPast(j) ==
    /\ \E s \in PastSandbox : state' = [state EXCEPT ![j] = s] \/ state' = state
    /\ retry_count' = retry_count \/ retry_count' = [retry_count EXCEPT ![j] = @ + 1]

\* Such an update supplies nothing if no Surgeon or sandbox worker moves.
LEMMA UpdatesPastSuppliesNothing ==
    ASSUME TypeOK, NEW j \in Job, UpdatesPast(j), UNCHANGED <<surgeon, er>>
    PROVE  SuppliesNothing
<1>1. /\ state \in [Job -> JobState \cup NoRow] /\ retry_count \in [Job -> Nat]
  BY DEF TypeOK, JobsTypeOK
<1>2. \A k \in Job : state'[k] = state[k] \/ ~Supplied(k)'
  BY <1>1 DEF UpdatesPast, PastSandbox, Supplied, NoRow
<1>3. \A k \in Job : retry_count'[k] >= retry_count[k]
  BY <1>1 DEF UpdatesPast
<1> QED
  BY <1>2, <1>3 DEF SuppliesNothing, BeforeHandOff, SurgeonHolds, ErHolds

\* An AI Analyst's step is one.
LEMMA AiSuppliesNothing ==
    ASSUME TypeOK, AiStep
    PROVE  SuppliesNothing
<1>0. PICK w \in Analysts : AiNext(w)
  BY DEF AiStep
<1>a. ai[w] \in {AiIdle} \cup [pc: {"explaining", "recording"}, job: Job, retry_count: Nat]
  BY DEF TypeOK, AiTypeOK
<1>u. UNCHANGED <<surgeon, er>>
  BY DEF AiStep
<1>1. ASSUME NEW k \in Job, AiClaim(w, k) PROVE UpdatesPast(k)
  BY <1>1 DEF AiClaim, UpdatesPast, PastSandbox
<1>2. CASE AiExplain(w) \/ AiCrash(w)
  <2>1. ai[w].job \in Job
    BY <1>a, <1>2 DEF AiExplain, AiCrash, AiIdle
  <2>2. UpdatesPast(ai[w].job)
    BY <1>2 DEF AiExplain, AiCrash, jobVars, UpdatesPast, PastSandbox
  <2> QED
    BY <1>u, <2>1, <2>2, UpdatesPastSuppliesNothing
<1>3. CASE AiFinalize(w) \/ AiDegrade(w) \/ AiFail(w)
  <2>1. ai[w].job \in Job
    BY <1>a, <1>3 DEF AiFinalize, AiDegrade, AiFail, AiIdle
  <2>2. UpdatesPast(ai[w].job)
    BY <1>3 DEF AiFinalize, AiDegrade, AiFail, RecordFailure, UpdateState, UpdatesPast,
       PastSandbox
  <2> QED
    BY <1>u, <2>1, <2>2, UpdatesPastSuppliesNothing
<1> QED
  BY <1>0, <1>1, <1>2, <1>3, <1>u, UpdatesPastSuppliesNothing DEF AiNext, AiWorks

\* A Finalizer's step is one.
LEMMA FinSuppliesNothing ==
    ASSUME TypeOK, FinStep
    PROVE  SuppliesNothing
<1>0. PICK w \in Finalizers : FinNext(w)
  BY DEF FinStep
<1>a. fin[w].pc # "idle" => fin[w].job \in Job
  BY DEF TypeOK, FinTypeOK, FinIdle
<1>u. UNCHANGED <<surgeon, er>>
  BY DEF FinStep
<1>1. ASSUME NEW k \in Job, FinClaim(w, k) PROVE UpdatesPast(k)
  BY <1>1 DEF FinClaim, UpdatesPast, PastSandbox
<1>2. CASE FinWorks(w) \/ FinCrash(w)
  <2>1. fin[w].pc # "idle"
    BY <1>2 DEF FinWorks, FinLoadStatic, FinLoadSandbox, FinLoadAi, FinPersist,
       FinComplete, FinFail, FinCrash
  <2>2. UpdatesPast(fin[w].job)
    <3>1. CASE UNCHANGED jobVars
      BY <3>1 DEF jobVars, UpdatesPast, PastSandbox
    <3>2. CASE FinComplete(w) \/ FinFail(w)
      BY <3>2 DEF FinComplete, FinFail, RecordFailure, UpdateState, UpdatesPast, PastSandbox
    <3> QED
      BY <1>2, <3>1, <3>2 DEF FinWorks, FinLoadStatic, FinLoadSandbox, FinLoadAi,
         FinPersist, FinCrash
  <2> QED
    BY <1>a, <1>u, <2>1, <2>2, UpdatesPastSuppliesNothing
<1> QED
  BY <1>0, <1>1, <1>2, <1>u, UpdatesPastSuppliesNothing DEF FinNext

\* An Emergency Room step keeps the invariant: the claim takes the supply, and a
\* failed attempt gives it back with the failure counted.
LEMMA ErKeepsSandbox ==
    ASSUME TypeOK, TypeOK', SandboxInv, ErStep
    PROVE  SandboxInv'
<1>0. PICK w \in Sandboxes : ErNext(w)
  BY DEF ErStep
<1>t. /\ state \in [Job -> JobState \cup NoRow] /\ retry_count \in [Job -> Nat]
      /\ er \in [Sandboxes -> {ErIdle} \cup
                    [pc: {"claimed", "running"}, job: Job, retry_count: Nat]]
  BY DEF TypeOK, JobsTypeOK, ErTypeOK
<1>u. UNCHANGED surgeon
  BY DEF ErStep
<1>h. \A v \in Surgeons, k \in Job :
         /\ SurgeonHolds(v, k)' <=> SurgeonHolds(v, k)
         /\ BeforeHandOff(v, k)' <=> BeforeHandOff(v, k)
  BY <1>u DEF SurgeonHolds, BeforeHandOff
\* Steps that write nothing, and the end of a run.
<1>1. ASSUME \A k \in Job : state'[k] = state[k] \/ ~Supplied(k)',
             UNCHANGED retry_count,
             \A v \in Sandboxes, k \in Job :
                ErHolds(v, k)' => ErHolds(v, k) /\ er'[v].retry_count = er[v].retry_count
      PROVE  SandboxInv'
  <2>1. SuppliesNothing
    BY <1>t, <1>u, <1>1, <1>h DEF SuppliesNothing
  <2> QED
    BY <2>1, SuppliesNothingKeeps
<1>2. CASE ErStart(w) \/ ErAbandon(w) \/ ErCrash(w)
  <2>1. UNCHANGED <<state, retry_count>>
    BY <1>2 DEF ErStart, ErAbandon, ErCrash, jobVars
  <2>2. \A v \in Sandboxes, k \in Job :
           ErHolds(v, k)' => ErHolds(v, k) /\ er'[v].retry_count = er[v].retry_count
    BY <1>t, <1>2 DEF ErStart, ErAbandon, ErCrash, ErHolds, ErIdle
  <2> QED
    BY <1>1, <2>1, <2>2
<1>3. CASE ErComplete(w)
  <2>1. \A k \in Job : state'[k] = state[k] \/ ~Supplied(k)'
    BY <1>t, <1>3 DEF ErComplete, UpdateState, Supplied, NoRow
  <2>2. \A v \in Sandboxes, k \in Job :
           ErHolds(v, k)' => ErHolds(v, k) /\ er'[v].retry_count = er[v].retry_count
    BY <1>t, <1>3 DEF ErComplete, ErHolds, ErIdle
  <2> QED
    BY <1>1, <1>3, <2>1, <2>2 DEF ErComplete
<1>4. ASSUME NEW j \in Job, ErClaim(w, j) PROVE SandboxInv'
  <2>1. /\ state[j] = "sandbox-pending" /\ state' = [state EXCEPT ![j] = "sandbox-running"]
        /\ er[w].pc = "idle" /\ UNCHANGED retry_count
        /\ er' = [er EXCEPT ![w] = [pc |-> "claimed", job |-> j,
                                    retry_count |-> retry_count[j]]]
    BY <1>4 DEF ErClaim, UpdateState
  <2>2. \A v \in Sandboxes, k \in Job :
           /\ ErHolds(v, k)' <=> (IF v = w THEN k = j ELSE ErHolds(v, k))
           /\ er'[v].retry_count = IF v = w THEN retry_count[j] ELSE er[v].retry_count
    BY <1>t, <2>1 DEF ErHolds
  <2>3. ~Supplied(j)' /\ \A k \in Job \ {j} : state'[k] = state[k]
    BY <1>t, <2>1 DEF Supplied, NoRow
  <2> USE <1>t, <1>h, <2>1, <2>2, <2>3 DEF SandboxInv
  <2>4. AttemptBounded'
    BY DEF AttemptBounded, NoRow
  <2>5. CurrentOnce'
    BY DEF CurrentOnce, PendingOnce, Supplied, Twice
  <2>6. PendingOnce'
    BY DEF PendingOnce, Twice
  <2>7. RequeuedCounted'
    BY DEF RequeuedCounted, PendingOnce, Twice
  <2>8. ExclusiveWithoutAudit'
    BY <1>u DEF ExclusiveWithoutAudit, Supplied
  <2>9. SandboxExclusive'
    BY DEF SandboxExclusive, CurrentOnce, ExclusiveWithoutAudit, Supplied, Twice
  <2> QED
    BY <2>4, <2>5, <2>6, <2>7, <2>8, <2>9
<1>5. CASE ErFail(w)
  <2>0. PICK j \in Job : j = er[w].job /\ ErHolds(w, j)
    BY <1>t, <1>5 DEF ErFail, ErIdle, ErHolds
  <2>1. /\ retry_count' = [retry_count EXCEPT ![j] = @ + 1]
        /\ state' = [state EXCEPT ![j] = IF er[w].retry_count + 1 >= MaxRetries
                                         THEN "ai-pending" ELSE "sandbox-pending"]
        /\ er' = [er EXCEPT ![w] = ErIdle]
        /\ "sandbox" \in Faults
    BY <1>5, <2>0 DEF ErFail, RecordFailure, UpdateState
  <2>2. \A v \in Sandboxes, k \in Job :
           /\ ErHolds(v, k)' <=> v # w /\ ErHolds(v, k)
           /\ ErHolds(v, k)' => er'[v].retry_count = er[v].retry_count
    BY <1>t, <2>1 DEF ErHolds, ErIdle
  <2>3. /\ state'[j] \in {"ai-pending", "sandbox-pending"}
        /\ retry_count'[j] = retry_count[j] + 1
        /\ \A k \in Job \ {j} : state'[k] = state[k] /\ retry_count'[k] = retry_count[k]
    BY <1>t, <2>1
  <2>4. \A v \in Sandboxes : er[v].retry_count \in Nat
    BY CountsAreNat
  <2> USE <1>t, <1>h, <2>0, <2>2, <2>3, <2>4 DEF SandboxInv
  <2>5. AttemptBounded'
    BY DEF AttemptBounded, NoRow
  <2>6. CurrentOnce'
    BY DEF CurrentOnce, AttemptBounded, Supplied, Twice
  <2>7. PendingOnce'
    <3>1. ASSUME NEW v \in Surgeons, BeforeHandOff(v, j)
          PROVE  "audit" \in Faults /\ retry_count[j] >= 1
      BY <3>1 DEF RequeuedCounted, ExclusiveWithoutAudit, BeforeHandOff
    <3> QED
      BY <2>1, <3>1 DEF PendingOnce, Twice
  <2>8. RequeuedCounted'
    BY DEF RequeuedCounted
  <2>9. ExclusiveWithoutAudit'
    <3>1. ASSUME "audit" \notin Faults
          PROVE  /\ \A v \in Sandboxes : ~ErHolds(v, j)'
                 /\ \A v \in Surgeons : SurgeonHolds(v, j) => surgeon[v].pc = "announcing"
      BY <3>1 DEF ExclusiveWithoutAudit, SandboxExclusive
    <3> QED
      BY <1>u, <3>1 DEF ExclusiveWithoutAudit, Supplied
  <2>10. SandboxExclusive'
    BY DEF SandboxExclusive
  <2> QED
    BY <2>5, <2>6, <2>7, <2>8, <2>9, <2>10
<1> QED
  BY <1>0, <1>2, <1>3, <1>4, <1>5 DEF ErNext, ErWorks

\* A Surgeon's step keeps the invariant: the hand-off turns its hold into a
\* sandbox-pending row, a failure is counted before the job is queued again.
LEMMA SurgeonKeepsSandbox ==
    ASSUME TypeOK, TypeOK', SurgeonExclusive, SandboxInv, SurgeonStep
    PROVE  SandboxInv'
<1>0. PICK w \in Surgeons : SurgeonNext(w)
  BY DEF SurgeonStep
<1>t. /\ state \in [Job -> JobState \cup NoRow] /\ retry_count \in [Job -> Nat]
      /\ surgeon \in [Surgeons -> {SurgeonIdle} \cup
                          [pc: SurgeonPC \ {"idle"}, job: Job]]
  BY DEF TypeOK, JobsTypeOK, SurgeonTypeOK
<1>n. \A v \in Sandboxes : er[v].retry_count \in Nat
  BY CountsAreNat
<1>u. UNCHANGED er
  BY DEF SurgeonStep
<1>h. \A v \in Sandboxes, k \in Job : ErHolds(v, k)' <=> ErHolds(v, k)
  BY <1>u DEF ErHolds
\* Steps that move a Surgeon on, or stop it, before or after the hand-off.
<1>1. ASSUME \A k \in Job : state'[k] = state[k] \/ ~Supplied(k)',
             UNCHANGED retry_count,
             \/ surgeon' = [surgeon EXCEPT ![w] = SurgeonIdle]
             \/ \E pc \in SurgeonPC \ {"idle", "announcing"} :
                   /\ surgeon[w].pc # "idle"
                   /\ surgeon' = [surgeon EXCEPT ![w] = [@ EXCEPT !.pc = pc]]
                   /\ \/ surgeon[w].pc # "announcing" /\ surgeon[w].pc # "failing"
                      \/ "audit" \in Faults /\ pc = "failing"
      PROVE  SandboxInv'
  <2>1. \A v \in Surgeons, k \in Job :
           /\ BeforeHandOff(v, k)' => BeforeHandOff(v, k)
           /\ "audit" \notin Faults /\ SurgeonHolds(v, k)' =>
                 /\ SurgeonHolds(v, k)
                 /\ surgeon[v].pc = "announcing" => surgeon'[v].pc = "announcing"
    <3>1. CASE surgeon' = [surgeon EXCEPT ![w] = SurgeonIdle]
      BY <1>t, <3>1 DEF BeforeHandOff, SurgeonHolds, SurgeonIdle
    <3>2. ASSUME NEW pc \in SurgeonPC \ {"idle", "announcing"}, surgeon[w].pc # "idle",
                 surgeon' = [surgeon EXCEPT ![w] = [@ EXCEPT !.pc = pc]],
                 \/ surgeon[w].pc # "announcing" /\ surgeon[w].pc # "failing"
                 \/ "audit" \in Faults /\ pc = "failing"
          PROVE  \A v \in Surgeons, k \in Job :
                    /\ BeforeHandOff(v, k)' => BeforeHandOff(v, k)
                    /\ "audit" \notin Faults /\ SurgeonHolds(v, k)' =>
                          /\ SurgeonHolds(v, k)
                          /\ surgeon[v].pc = "announcing" => surgeon'[v].pc = "announcing"
      <4>1. surgeon[w] \in [pc: SurgeonPC \ {"idle"}, job: Job]
        BY <1>t, <3>2 DEF SurgeonIdle
      <4>2. \A v \in Surgeons : /\ v # w => surgeon'[v] = surgeon[v]
                                /\ v = w => surgeon'[v].pc = pc /\ surgeon'[v].job = surgeon[v].job
        BY <1>t, <3>2, <4>1
      <4> QED
        BY <3>2, <4>1, <4>2 DEF BeforeHandOff, SurgeonHolds, SurgeonPC
    <3> QED
      BY <1>1, <3>1, <3>2
  <2>2. SuppliesNothing
    BY <1>t, <1>u, <1>1, <1>h, <2>1 DEF SuppliesNothing
  <2> QED
    BY <2>2, SuppliesNothingKeeps
<1>2. CASE SurgeonAbandon(w) \/ SurgeonAnnounce(w) \/ SurgeonCrash(w)
  BY <1>1, <1>2 DEF SurgeonAbandon, SurgeonAnnounce, SurgeonCrash, SurgeonStops, jobVars
<1>3. CASE SurgeonAdmit(w) \/ SurgeonFail(w)
  BY <1>1, <1>3 DEF SurgeonAdmit, SurgeonFail, SurgeonMoves, SurgeonPC, jobVars
<1>4. CASE SurgeonFetch(w) \/ SurgeonScan(w) \/ SurgeonPersist(w)
  <2>1. \A k \in Job : state'[k] = state[k] \/ ~Supplied(k)'
    BY <1>t, <1>4 DEF SurgeonFetch, SurgeonScan, SurgeonPersist, UpdateState, Supplied, NoRow
  <2> QED
    BY <1>1, <1>4, <2>1
    DEF SurgeonFetch, SurgeonScan, SurgeonPersist, SurgeonMoves, SurgeonPC
<1>5. ASSUME NEW j \in Job, SurgeonClaim(w, j) PROVE SandboxInv'
  <2>1. /\ state[j] = "queued" /\ state' = [state EXCEPT ![j] = "fetching"]
        /\ surgeon' = [surgeon EXCEPT ![w] = [pc |-> "claimed", job |-> j]]
        /\ UNCHANGED retry_count
    BY <1>5 DEF SurgeonClaim, UpdateState
  <2>2. \A v \in Surgeons, k \in Job :
           /\ SurgeonHolds(v, k)' <=> (IF v = w THEN k = j ELSE SurgeonHolds(v, k))
           /\ BeforeHandOff(v, k)' <=> (IF v = w THEN k = j ELSE BeforeHandOff(v, k))
           /\ v # w => surgeon'[v] = surgeon[v]
    BY <1>t, <2>1 DEF SurgeonHolds, BeforeHandOff
  <2>3. \A v \in Surgeons : ~SurgeonHolds(v, j) /\ ~BeforeHandOff(v, j)
    BY <2>1 DEF SurgeonExclusive, BeforeHandOff
  <2>4. ~Supplied(j)' /\ Supplied(j) /\ \A k \in Job \ {j} : state'[k] = state[k]
    BY <1>t, <2>1 DEF Supplied, NoRow
  <2> USE <1>t, <1>u, <1>h, <2>1, <2>2, <2>3, <2>4 DEF SandboxInv
  <2>5. AttemptBounded'
    BY DEF AttemptBounded, NoRow
  <2>6. CurrentOnce'
    BY DEF CurrentOnce, Supplied, Twice
  <2>7. PendingOnce'
    BY DEF PendingOnce, Twice
  <2>8. RequeuedCounted'
    BY DEF RequeuedCounted
  <2>9. ExclusiveWithoutAudit'
    BY DEF ExclusiveWithoutAudit, Supplied
  <2>10. SandboxExclusive'
    BY DEF SandboxExclusive
  <2> QED
    BY <2>5, <2>6, <2>7, <2>8, <2>9, <2>10
<1>6. CASE SurgeonHandOff(w)
  <2>0. PICK j \in Job : j = surgeon[w].job /\ BeforeHandOff(w, j) /\ SurgeonHolds(w, j)
    BY <1>t, <1>6 DEF SurgeonHandOff, SurgeonMoves, SurgeonIdle, SurgeonHolds, BeforeHandOff
  <2>1. /\ state' = [state EXCEPT ![j] = "sandbox-pending"] /\ UNCHANGED retry_count
        /\ surgeon' = [surgeon EXCEPT ![w] = [@ EXCEPT !.pc = "announcing"]]
        /\ surgeon[w].pc = "handing-off"
    BY <1>6, <2>0 DEF SurgeonHandOff, SurgeonMoves, UpdateState
  <2>2. /\ surgeon'[w].pc = "announcing" /\ surgeon'[w].job = j
        /\ \A v \in Surgeons \ {w} : surgeon'[v] = surgeon[v]
    <3>1. surgeon[w] \in [pc: SurgeonPC \ {"idle"}, job: Job]
      BY <1>t, <2>1 DEF SurgeonIdle
    <3> QED
      BY <1>t, <2>0, <2>1, <3>1
  <2>3. \A v \in Surgeons, k \in Job :
           /\ SurgeonHolds(v, k)' <=> SurgeonHolds(v, k)
           /\ BeforeHandOff(v, k)' <=> v # w /\ BeforeHandOff(v, k)
    BY <2>0, <2>1, <2>2 DEF SurgeonHolds, BeforeHandOff
  <2>4. \A v \in Surgeons : SurgeonHolds(v, j) => v = w
    BY <2>0 DEF SurgeonExclusive
  <2>5. \A v \in Surgeons : ~BeforeHandOff(v, j)'
    BY <2>3, <2>4 DEF BeforeHandOff
  <2>6. \A v \in Sandboxes : ErHolds(v, j) /\ er[v].retry_count = retry_count[j] =>
           "audit" \in Faults /\ Twice(j)
    BY <2>0 DEF SandboxInv, CurrentOnce
  <2>7. "audit" \notin Faults => \A v \in Sandboxes : ~ErHolds(v, j)
    BY <2>0, <2>1 DEF SandboxInv, ExclusiveWithoutAudit
  <2>8. /\ state'[j] = "sandbox-pending" /\ \A k \in Job \ {j} : state'[k] = state[k]
    BY <1>t, <2>1
  <2> USE <1>t, <1>u, <1>h, <2>2, <2>3, <2>5, <2>6, <2>7, <2>8 DEF SandboxInv
  <2>9. AttemptBounded'
    BY <2>1 DEF AttemptBounded, NoRow
  <2>10. CurrentOnce'
    BY <2>1 DEF CurrentOnce, Supplied, Twice
  <2>11. PendingOnce'
    BY <2>1 DEF PendingOnce, Twice
  <2>12. RequeuedCounted'
    BY <2>1 DEF RequeuedCounted
  <2>13. ExclusiveWithoutAudit'
    BY <2>4 DEF ExclusiveWithoutAudit, Supplied
  <2>14. SandboxExclusive'
    BY <2>1 DEF SandboxExclusive
  <2> QED
    BY <2>9, <2>10, <2>11, <2>12, <2>13, <2>14
<1>7. CASE SurgeonMarkFailure(w)
  <2>0. PICK j \in Job : j = surgeon[w].job /\ SurgeonHolds(w, j)
    BY <1>t, <1>7 DEF SurgeonMarkFailure, SurgeonIdle, SurgeonHolds
  <2>1. /\ surgeon[w].pc = "failing"
        /\ state' = [state EXCEPT ![j] = IF retry_count[j] + 1 >= MaxRetries
                                         THEN "failed" ELSE "queued"]
        /\ retry_count' = [retry_count EXCEPT ![j] = retry_count[j] + 1]
        /\ surgeon' = [surgeon EXCEPT ![w] = SurgeonIdle]
    BY <1>7, <2>0 DEF SurgeonMarkFailure, SurgeonStops, UpdateState
  <2>2. \A v \in Surgeons, k \in Job :
           /\ SurgeonHolds(v, k)' <=> v # w /\ SurgeonHolds(v, k)
           /\ BeforeHandOff(v, k)' <=> v # w /\ BeforeHandOff(v, k)
           /\ v # w => surgeon'[v] = surgeon[v]
    BY <1>t, <2>1 DEF SurgeonHolds, BeforeHandOff, SurgeonIdle
  <2>3. /\ state'[j] \in {"failed", "queued"} /\ retry_count'[j] = retry_count[j] + 1
        /\ \A k \in Job \ {j} : state'[k] = state[k] /\ retry_count'[k] = retry_count[k]
    BY <1>t, <2>1
  <2>4. \A v \in Surgeons : ~BeforeHandOff(v, j)'
    BY <2>0, <2>2 DEF SurgeonExclusive, BeforeHandOff
  <2>5. "audit" \notin Faults => \A v \in Sandboxes : ~ErHolds(v, j)
    BY <2>0, <2>1 DEF SandboxInv, ExclusiveWithoutAudit
  <2> USE <1>t, <1>n, <1>u, <1>h, <2>2, <2>3, <2>4, <2>5 DEF SandboxInv
  <2>6. AttemptBounded'
    BY DEF AttemptBounded, NoRow
  <2>7. CurrentOnce'
    BY DEF CurrentOnce, AttemptBounded, Supplied, Twice
  <2>8. PendingOnce'
    BY DEF PendingOnce, Twice
  <2>9. RequeuedCounted'
    BY DEF RequeuedCounted
  <2>10. ExclusiveWithoutAudit'
    BY DEF ExclusiveWithoutAudit, Supplied
  <2>11. SandboxExclusive'
    BY DEF SandboxExclusive
  <2> QED
    BY <2>6, <2>7, <2>8, <2>9, <2>10, <2>11
<1> QED
  BY <1>0, <1>2, <1>3, <1>4, <1>5, <1>6, <1>7 DEF SurgeonNext, SurgeonWorks

\* An inserted job is executed by nobody.
LEMMA TriageKeepsSandbox ==
    ASSUME TypeOK, TypeOK', SurgeonExclusive, SandboxInv, TriageStep
    PROVE  SandboxInv'
<1>0. PICK j \in Job : TriageQuarantine(j) \/ TriageCreateJob(j) \/ BackoffElapses(j)
  BY DEF TriageStep
<1>t. state \in [Job -> JobState \cup NoRow] /\ retry_count \in [Job -> Nat]
  BY DEF TypeOK, JobsTypeOK
<1>h. /\ \A v \in Sandboxes, k \in Job : ErHolds(v, k)' <=> ErHolds(v, k)
      /\ \A v \in Surgeons, k \in Job :
            /\ SurgeonHolds(v, k)' <=> SurgeonHolds(v, k)
            /\ BeforeHandOff(v, k)' <=> BeforeHandOff(v, k)
      /\ UNCHANGED <<er, surgeon, retry_count>>
  BY <1>0 DEF TriageStep, TriageQuarantine, TriageCreateJob, BackoffElapses, ErHolds,
     SurgeonHolds, BeforeHandOff
<1>1. CASE BackoffElapses(j)
  <2>1. SuppliesNothing
    BY <1>t, <1>h, <1>1 DEF BackoffElapses, SuppliesNothing
  <2> QED
    BY <2>1, SuppliesNothingKeeps
<1>2. CASE TriageQuarantine(j) \/ TriageCreateJob(j)
  <2>1. /\ state[j] \in NoRow /\ state'[j] \in {"deciding", "queued"}
        /\ \A k \in Job \ {j} : state'[k] = state[k]
    BY <1>t, <1>2 DEF TriageQuarantine, TriageCreateJob, UpdateState, NoRow
  <2>2. /\ \A v \in Sandboxes : ~ErHolds(v, j)
        /\ \A v \in Surgeons : ~SurgeonHolds(v, j)
    BY <2>1 DEF SandboxInv, AttemptBounded, SurgeonExclusive
  <2> USE <1>t, <1>h, <2>1, <2>2 DEF SandboxInv
  <2>3. AttemptBounded' /\ RequeuedCounted' /\ SandboxExclusive'
    BY DEF AttemptBounded, RequeuedCounted, SandboxExclusive
  <2>4. CurrentOnce' /\ PendingOnce'
    BY DEF CurrentOnce, PendingOnce, Supplied, Twice
  <2>5. ExclusiveWithoutAudit'
    BY DEF ExclusiveWithoutAudit, Supplied
  <2> QED
    BY <2>3, <2>4, <2>5
<1> QED
  BY <1>0, <1>1, <1>2

\* No job is executed before the first is inserted.
LEMMA InitSandbox == Init => SandboxInv
<1> SUFFICES ASSUME Init PROVE SandboxInv
  OBVIOUS
<1>1. /\ \A w \in Sandboxes, j \in Job : ~ErHolds(w, j)
      /\ \A w \in Surgeons, j \in Job : ~SurgeonHolds(w, j)
  BY DEF Init, ErInit, ErIdle, ErHolds, SurgeonInit, SurgeonIdle, SurgeonHolds
<1> QED
  BY <1>1 DEF SandboxInv, AttemptBounded, CurrentOnce, PendingOnce, RequeuedCounted,
     ExclusiveWithoutAudit, SandboxExclusive, BeforeHandOff

\* No step breaks the invariant.
LEMMA NextSandbox ==
    ASSUME TypeOK, TypeOK', Inv, SandboxInv, [Next]_vars
    PROVE  SandboxInv'
<1>1. CASE AiStep \/ FinStep
  BY <1>1, AiSuppliesNothing, FinSuppliesNothing, SuppliesNothingKeeps
<1>2. CASE UNCHANGED vars
  <2>1. SuppliesNothing
    BY <1>2, CountsAreNat DEF vars, jobVars, SuppliesNothing, BeforeHandOff,
       SurgeonHolds, ErHolds
  <2> QED
    BY <2>1, SuppliesNothingKeeps
<1> QED
  BY <1>1, <1>2, ErKeepsSandbox, SurgeonKeepsSandbox, TriageKeepsSandbox DEF Next, Inv

\* The sandbox claim's inductive invariant holds in every reachable state.
THEOREM SandboxInvariance == Spec => []SandboxInv
<1>1. Init => SandboxInv
  BY InitSandbox
<1>2. TypeOK /\ TypeOK' /\ Inv /\ SandboxInv /\ [Next]_vars => SandboxInv'
  BY NextSandbox
<1> QED
  BY <1>1, <1>2, TypeCorrect, Invariance, PTL DEF Spec

\* A package is executed by one sandbox worker at a time, for any number of
\* workers and any retry budget, unless a Surgeon's last audit event fails.
THEOREM SandboxesExclude == Spec => []SandboxExclusive
<1>1. SandboxInv => SandboxExclusive
  BY DEF SandboxInv
<1> QED
  BY <1>1, SandboxInvariance, PTL

(***************************************************************************)
(* Settled jobs.  Every UPDATE is unconditional, but each is of a job its  *)
(* worker holds, or one the claim's WHERE clause finds unsettled.          *)
(***************************************************************************)

\* The step leaves the row of j as far as the claims look at it.
Leaves(j) == state'[j] = state[j] /\ retry_count'[j] = retry_count[j]

\* A Surgeon claims queued jobs only and writes the job it holds.
LEMMA SurgeonLeavesSettled ==
    ASSUME TypeOK, SurgeonStep, NEW j \in Job, state[j] \in {"completed", "failed"},
           \A w \in Surgeons : ~SurgeonHolds(w, j)
    PROVE  Leaves(j)
<1>0. PICK w \in Surgeons : SurgeonNext(w)
  BY DEF SurgeonStep
<1>t. /\ state \in [Job -> JobState \cup NoRow] /\ retry_count \in [Job -> Nat]
      /\ surgeon[w].pc # "idle" => surgeon[w].job \in Job \ {j}
  BY DEF TypeOK, JobsTypeOK, SurgeonTypeOK, SurgeonIdle, SurgeonHolds
<1>1. ASSUME NEW k \in Job, SurgeonClaim(w, k) PROVE Leaves(j)
  BY <1>t, <1>1 DEF SurgeonClaim, UpdateState, Leaves
<1>2. CASE UNCHANGED <<state, retry_count>>
  BY <1>2 DEF Leaves
<1>3. CASE SurgeonFetch(w) \/ SurgeonScan(w) \/ SurgeonHandOff(w) \/ SurgeonMarkFailure(w)
  BY <1>t, <1>3 DEF SurgeonFetch, SurgeonScan, SurgeonHandOff, SurgeonMarkFailure,
     SurgeonMoves, UpdateState, Leaves
<1> QED
  BY <1>0, <1>1, <1>2, <1>3 DEF SurgeonNext, SurgeonWorks, SurgeonAdmit, SurgeonAbandon,
     SurgeonPersist, SurgeonAnnounce, SurgeonFail, SurgeonCrash, jobVars

\* An Emergency Room worker claims sandbox-pending jobs only.
LEMMA ErLeavesSettled ==
    ASSUME TypeOK, ErStep, NEW j \in Job, state[j] \in {"completed", "failed"},
           \A w \in Sandboxes : ~ErHolds(w, j)
    PROVE  Leaves(j)
<1>0. PICK w \in Sandboxes : ErNext(w)
  BY DEF ErStep
<1>t. /\ state \in [Job -> JobState \cup NoRow] /\ retry_count \in [Job -> Nat]
      /\ er[w].pc # "idle" => er[w].job \in Job \ {j}
  BY DEF TypeOK, JobsTypeOK, ErTypeOK, ErIdle, ErHolds
<1>1. ASSUME NEW k \in Job, ErClaim(w, k) PROVE Leaves(j)
  BY <1>t, <1>1 DEF ErClaim, UpdateState, Leaves
<1>2. CASE ErComplete(w) \/ ErFail(w)
  BY <1>t, <1>2 DEF ErComplete, ErFail, RecordFailure, UpdateState, Leaves
<1> QED
  BY <1>0, <1>1, <1>2 DEF ErNext, ErWorks, ErStart, ErAbandon, ErCrash, jobVars, Leaves

\* An AI Analyst writes the job it holds; its claim changes no column.
LEMMA AiLeavesSettled ==
    ASSUME TypeOK, AiStep, NEW j \in Job, \A w \in Analysts : ~AiHolds(w, j)
    PROVE  Leaves(j)
<1>0. PICK w \in Analysts : AiNext(w)
  BY DEF AiStep
<1>t. /\ state \in [Job -> JobState \cup NoRow] /\ retry_count \in [Job -> Nat]
      /\ ai[w].pc # "idle" => ai[w].job \in Job \ {j}
  BY DEF TypeOK, JobsTypeOK, AiTypeOK, AiIdle, AiHolds
<1>1. CASE AiFinalize(w) \/ AiDegrade(w) \/ AiFail(w)
  BY <1>t, <1>1 DEF AiFinalize, AiDegrade, AiFail, RecordFailure, UpdateState, Leaves
<1> QED
  BY <1>0, <1>1 DEF AiNext, AiWorks, AiClaim, AiExplain, AiCrash, jobVars, Leaves

\* A Finalizer writes the job it holds; its claim changes no column.
LEMMA FinLeavesSettled ==
    ASSUME TypeOK, FinStep, NEW j \in Job, \A w \in Finalizers : ~FinHolds(w, j)
    PROVE  Leaves(j)
<1>0. PICK w \in Finalizers : FinNext(w)
  BY DEF FinStep
<1>t. /\ state \in [Job -> JobState \cup NoRow] /\ retry_count \in [Job -> Nat]
      /\ fin[w].pc # "idle" => fin[w].job \in Job \ {j}
  BY DEF TypeOK, JobsTypeOK, FinTypeOK, FinIdle, FinHolds
<1>1. CASE FinComplete(w) \/ FinFail(w)
  BY <1>t, <1>1 DEF FinComplete, FinFail, RecordFailure, UpdateState, Leaves
<1> QED
  BY <1>0, <1>1 DEF FinNext, FinWorks, FinClaim, FinLoadStatic, FinLoadSandbox,
     FinLoadAi, FinPersist, FinCrash, jobVars, Leaves

\* A completed or failed job that no worker holds keeps its state and its
\* retry_count, although no UPDATE of the code asks for the state it found.
THEOREM SettledStays == Spec => SettledIsFinal
<1>1. ASSUME TypeOK, Next, NEW j \in Job,
             state[j] \in {"completed", "failed"}, ~Held(j)
      PROVE  Leaves(j)
  <2>1. CASE TriageStep
    BY <1>1, <2>1 DEF TriageStep, TriageQuarantine, TriageCreateJob, BackoffElapses,
       UpdateState, Leaves, TypeOK, JobsTypeOK
  <2> QED
    BY <1>1, <2>1, SurgeonLeavesSettled, ErLeavesSettled, AiLeavesSettled,
       FinLeavesSettled DEF Next, Held
<1>2. TypeOK /\ [Next]_vars =>
        [\A j \in Job : state[j] \in {"completed", "failed"} /\ ~Held(j)
            => state'[j] = state[j] /\ retry_count'[j] = retry_count[j]]_vars
  BY <1>1 DEF Leaves
<1> QED
  BY <1>2, TypeCorrect, PTL DEF Spec, SettledIsFinal

(***************************************************************************)
(* The lease.  A job is leased while a Surgeon holds it; SurgeonExclusive  *)
(* makes the owner unique and a held job neither waiting nor absent.       *)
(***************************************************************************)

Leased(j) == \E w \in Surgeons : SurgeonHolds(w, j)

\* What the refinement mapping shows of a job.
LeaseFacts ==
    /\ \A j \in Job : Leased(j) <=> LeasePhase[j] = "leased"
    /\ \A j \in Job : state[j] \in NoRow <=> LeasePhase[j] = "none"
    /\ \A j \in Job : state[j] = "queued" <=> LeasePhase[j] = "waiting"
    /\ \A j \in Job : LeasePhase[j] \in {"none", "waiting", "leased", "gone"}
    /\ \A j \in Job, w \in Surgeons : SurgeonHolds(w, j) <=> LeaseOwner[j] = w
    /\ \A j \in Job : ~Leased(j) => LeaseOwner[j] = NoJob

\* The phase and the owner of a lease are read off the row and its Surgeon.
LEMMA LeaseMapping == TypeOK /\ SurgeonExclusive => LeaseFacts
<1> SUFFICES ASSUME TypeOK, SurgeonExclusive PROVE LeaseFacts
  OBVIOUS
<1>1. ASSUME NEW j \in Job, NEW w \in Surgeons, SurgeonHolds(w, j)
      PROVE  LeaseOwner[j] = w
  <2>1. SurgeonHolds(CHOOSE v \in Surgeons : SurgeonHolds(v, j), j)
    BY <1>1
  <2>2. (CHOOSE v \in Surgeons : SurgeonHolds(v, j)) = w
    BY <1>1, <2>1 DEF SurgeonExclusive
  <2> QED
    BY <1>1, <2>2 DEF LeaseOwner
<1>2. \A j \in Job : ~Leased(j) => LeaseOwner[j] = NoJob
  BY DEF LeaseOwner, Leased
<1>3. \A j \in Job, w \in Surgeons : SurgeonHolds(w, j) <=> LeaseOwner[j] = w
  BY <1>1, <1>2, SurgeonsAssumption DEF Leased
<1>4. \A j \in Job : Leased(j) => state[j] \notin NoRow \cup {"queued"}
  BY DEF SurgeonExclusive, Leased
<1> QED
  BY <1>2, <1>3, <1>4 DEF LeaseFacts, LeasePhase, Leased, NoRow

\* The step changes nothing the lease of job k can see.
SameLease(k) ==
    /\ state'[k] \in NoRow <=> state[k] \in NoRow
    /\ state'[k] = "queued" <=> state[k] = "queued"
    /\ \A w \in Surgeons : SurgeonHolds(w, k)' <=> SurgeonHolds(w, k)

\* A job whose row and Surgeons keep their part in the lease keeps its lease.
LEMMA SameLeaseKeeps ==
    ASSUME LeaseFacts, LeaseFacts', NEW k \in Job, SameLease(k)
    PROVE  LeasePhase'[k] = LeasePhase[k] /\ LeaseOwner'[k] = LeaseOwner[k]
<1>1. Leased(k)' <=> Leased(k)
  BY DEF SameLease, Leased
<1>2. LeasePhase'[k] = LeasePhase[k]
  BY <1>1 DEF LeaseFacts, SameLease
<1>3. CASE ~Leased(k)
  BY <1>1, <1>2, <1>3 DEF LeaseFacts
<1>4. CASE Leased(k)
  <2>1. PICK w \in Surgeons : SurgeonHolds(w, k)
    BY <1>4 DEF Leased
  <2> QED
    BY <1>2, <2>1 DEF LeaseFacts, SameLease
<1> QED
  BY <1>3, <1>4

\* A step that changes the lease of job j only is described by j alone.
LEMMA LeaseOfOne ==
    ASSUME LeaseFacts, LeaseFacts', NEW j \in Job, \A k \in Job \ {j} : SameLease(k)
    PROVE  /\ LeasePhase' = [LeasePhase EXCEPT ![j] = LeasePhase'[j]]
           /\ LeaseOwner' = [LeaseOwner EXCEPT ![j] = LeaseOwner'[j]]
<1>1. \A k \in Job \ {j} : LeasePhase'[k] = LeasePhase[k] /\ LeaseOwner'[k] = LeaseOwner[k]
  BY SameLeaseKeeps
<1>2. /\ LeasePhase = [k \in Job |-> LeasePhase[k]]
      /\ LeasePhase' = [k \in Job |-> LeasePhase'[k]]
  BY DEF LeasePhase
<1>3. /\ LeaseOwner = [k \in Job |-> LeaseOwner[k]]
      /\ LeaseOwner' = [k \in Job |-> LeaseOwner'[k]]
  BY DEF LeaseOwner
<1>4. LeasePhase' = [LeasePhase EXCEPT ![j] = LeasePhase'[j]]
  BY <1>1, <1>2
<1>5. LeaseOwner' = [LeaseOwner EXCEPT ![j] = LeaseOwner'[j]]
  BY <1>1, <1>3
<1> QED
  BY <1>4, <1>5

\* A step that keeps the part of every job in the lease is a stutter of it.
LEMMA LeaseStutters ==
    ASSUME LeaseFacts, LeaseFacts', \A k \in Job : SameLease(k)
    PROVE  UNCHANGED <<LeasePhase, LeaseOwner>>
<1>1. \A k \in Job : LeasePhase'[k] = LeasePhase[k] /\ LeaseOwner'[k] = LeaseOwner[k]
  BY SameLeaseKeeps
<1> QED
  BY <1>1 DEF LeasePhase, LeaseOwner

\* Each later stage writes the state of one job in a step.
OneWritten == \A j, k \in Job : state'[j] # state[j] /\ state'[k] # state[k] => j = k

\* So no step of theirs moves two jobs at once.
LEMMA LaterWritesOne ==
    ASSUME TypeOK, ErStep \/ AiStep \/ FinStep
    PROVE  OneWritten
<1>t. state \in [Job -> JobState \cup NoRow]
  BY DEF TypeOK, JobsTypeOK
<1>1. ASSUME NEW x, NEW s, state' = [state EXCEPT ![x] = s] PROVE OneWritten
  BY <1>t, <1>1 DEF OneWritten
<1>2. ASSUME state' = state PROVE OneWritten
  BY <1>2 DEF OneWritten
<1>3. CASE ErStep
  BY <1>1, <1>2, <1>3 DEF ErStep, ErNext, ErWorks, ErClaim, ErStart, ErAbandon, ErComplete,
     ErFail, ErCrash, RecordFailure, UpdateState, jobVars
<1>4. CASE AiStep
  BY <1>1, <1>2, <1>4 DEF AiStep, AiNext, AiWorks, AiClaim, AiExplain, AiFinalize, AiDegrade,
     AiFail, AiCrash, RecordFailure, UpdateState, jobVars
<1>5. CASE FinStep
  BY <1>1, <1>2, <1>5 DEF FinStep, FinNext, FinWorks, FinClaim, FinLoadStatic, FinLoadSandbox,
     FinLoadAi, FinPersist, FinComplete, FinFail, FinCrash, RecordFailure, UpdateState, jobVars
<1> QED
  BY <1>3, <1>4, <1>5

\* An analyst's job has a row (the other workers' jobs have one by SandboxInv,
\* SurgeonExclusive and FinGrounded) ...
AiGrounded == \A w \in Analysts : \A j \in Job : AiHolds(w, j) => state[j] \notin NoRow

\* ... and rows are never deleted.
RowsStay == \A j \in Job : state[j] \notin NoRow => state'[j] \notin NoRow

\* No step of any actor takes a row away.
LEMMA NextRowsStay ==
    ASSUME TypeOK, Inv, [Next]_vars
    PROVE  RowsStay
<1>t. /\ state \in [Job -> JobState \cup NoRow]
      /\ \A w \in Surgeons : surgeon[w].pc # "idle" => surgeon[w].job \in Job
  BY DEF TypeOK, JobsTypeOK, SurgeonTypeOK, SurgeonIdle
<1>1. CASE ErStep \/ AiStep \/ FinStep
  <2>1. LaterUpdate
    BY <1>1, ErLater, AiLater, FinLater DEF Inv
  <2> QED
    BY <2>1 DEF LaterUpdate, LaterState, RowsStay, NoRow
<1>2. CASE SurgeonStep
  <2>0. PICK w \in Surgeons : SurgeonNext(w)
    BY <1>2 DEF SurgeonStep
  <2>1. ASSUME NEW x, NEW s \in JobState, state' = [state EXCEPT ![x] = s] PROVE RowsStay
    BY <1>t, <2>1 DEF RowsStay, JobState, NoRow
  <2>2. ASSUME state' = state PROVE RowsStay
    BY <2>2 DEF RowsStay
  <2>3. CASE SurgeonMarkFailure(w)
    BY <2>1, <2>3 DEF SurgeonMarkFailure, UpdateState, JobState
  <2> QED
    BY <2>0, <2>1, <2>2, <2>3 DEF SurgeonNext, SurgeonWorks, SurgeonClaim, SurgeonAdmit,
       SurgeonAbandon, SurgeonFetch, SurgeonScan, SurgeonPersist, SurgeonHandOff,
       SurgeonAnnounce, SurgeonFail, SurgeonCrash, UpdateState, jobVars, JobState
<1>3. CASE TriageStep
  BY <1>t, <1>3 DEF TriageStep, TriageQuarantine, TriageCreateJob, BackoffElapses,
     UpdateState, RowsStay, NoRow
<1> QED
  BY <1>1, <1>2, <1>3 DEF Next, vars, jobVars, RowsStay

\* An AI Analyst claims jobs that have a row, and the row stays.
LEMMA NextAiGrounded ==
    ASSUME TypeOK, Inv, AiGrounded, [Next]_vars
    PROVE  AiGrounded'
<1>1. RowsStay
  BY NextRowsStay
<1>2. \A w \in Analysts, j \in Job :
         AiHolds(w, j)' => AiHolds(w, j) \/ state[j] = "ai-pending"
  <2>1. CASE AiStep
    <3>0. PICK v \in Analysts : AiNext(v)
      BY <2>1 DEF AiStep
    <3>t. ai \in [Analysts -> {AiIdle} \cup
                    [pc: {"explaining", "recording"}, job: Job, retry_count: Nat]]
      BY DEF TypeOK, AiTypeOK
    <3>1. ASSUME NEW j \in Job, AiClaim(v, j)
          PROVE  \A w \in Analysts, k \in Job :
                    AiHolds(w, k)' => AiHolds(w, k) \/ state[k] = "ai-pending"
      BY <3>t, <3>1 DEF AiClaim, AiHolds
    <3>2. CASE AiExplain(v)
      BY <3>t, <3>2 DEF AiExplain, AiHolds, AiIdle
    <3>3. CASE ai' = [ai EXCEPT ![v] = AiIdle]
      BY <3>t, <3>3 DEF AiHolds, AiIdle
    <3> QED
      BY <3>0, <3>1, <3>2, <3>3 DEF AiNext, AiWorks, AiFinalize, AiDegrade, AiFail, AiCrash
  <2>2. CASE UNCHANGED ai
    BY <2>2 DEF AiHolds
  <2> QED
    BY <2>1, <2>2 DEF Next, TriageStep, SurgeonStep, ErStep, FinStep, vars
<1> QED
  BY <1>1, <1>2 DEF AiGrounded, RowsStay, NoRow

LeaseNext == Lease!Next \/ UNCHANGED <<LeasePhase, LeaseOwner>>

\* A later stage may take a waiting job away, and does nothing else to a lease.
LEMMA LaterRefines ==
    ASSUME TypeOK, Inv, SandboxInv, AiGrounded, LeaseFacts, LeaseFacts',
           ErStep \/ AiStep \/ FinStep
    PROVE  LeaseNext
<1>1. LaterUpdate /\ UNCHANGED surgeon
  BY ErLater, AiLater, FinLater DEF Inv, ErStep, AiStep, FinStep
<1>2. OneWritten
  BY LaterWritesOne
<1>3. \A k \in Job, w \in Surgeons : SurgeonHolds(w, k)' <=> SurgeonHolds(w, k)
  BY <1>1 DEF SurgeonHolds
<1>4. \A k \in Job : state[k] \in NoRow => state'[k] = state[k]
  <2> SUFFICES ASSUME NEW k \in Job, state[k] \in NoRow PROVE state'[k] = state[k]
    OBVIOUS
  <2>t. state \in [Job -> JobState \cup NoRow]
    BY DEF TypeOK, JobsTypeOK
  <2>1. CASE ErStep
    <3>0. PICK w \in Sandboxes : ErNext(w)
      BY <2>1 DEF ErStep
    <3>1. er[w].pc # "idle" => er[w].job \in Job \ {k}
      BY DEF TypeOK, ErTypeOK, ErIdle, ErHolds, SandboxInv, AttemptBounded
    <3> QED
      BY <2>t, <3>0, <3>1 DEF ErNext, ErWorks, ErClaim, ErStart, ErAbandon, ErComplete,
         ErFail, ErCrash, RecordFailure, UpdateState, jobVars, NoRow
  <2>2. CASE AiStep
    <3>1. \A w \in Analysts : ~AiHolds(w, k)
      BY DEF AiGrounded
    <3> QED
      BY <2>2, <3>1, AiLeavesSettled DEF Leaves
  <2>3. CASE FinStep
    <3>1. \A w \in Finalizers : ~FinHolds(w, k)
      BY DEF Inv, FinGrounded, FinHolds
    <3> QED
      BY <2>3, <3>1, FinLeavesSettled DEF Leaves
  <2> QED
    BY <2>1, <2>2, <2>3
<1>5. \A k \in Job : state[k] # "queued" => SameLease(k)
  BY <1>1, <1>3, <1>4 DEF LaterUpdate, LaterState, SameLease, NoRow
<1>6. CASE \E j \in Job : state[j] = "queued" /\ state'[j] # "queued"
  <2>1. PICK j \in Job : state[j] = "queued" /\ state'[j] # "queued"
    BY <1>6
  <2>2. \A k \in Job \ {j} : SameLease(k)
    BY <1>2, <1>3, <2>1 DEF OneWritten, SameLease
  <2>3. state'[j] \notin NoRow
    BY <1>1, <2>1 DEF LaterUpdate, LaterState, NoRow
  <2>4. ~Leased(j) /\ ~Leased(j)'
    BY <1>3, <2>1 DEF Inv, SurgeonExclusive, Leased
  <2>5. /\ LeasePhase[j] = "waiting" /\ LeasePhase'[j] = "gone"
        /\ LeaseOwner'[j] = LeaseOwner[j]
    BY <2>1, <2>3, <2>4 DEF LeaseFacts
  <2>6. LeasePhase' = [LeasePhase EXCEPT ![j] = "gone"] /\ LeaseOwner' = LeaseOwner
    BY <2>2, <2>5, LeaseOfOne DEF LeaseOwner
  <2> QED
    BY <2>5, <2>6 DEF LeaseNext, Lease!Next, Lease!Withdraw
<1>7. CASE ~\E j \in Job : state[j] = "queued" /\ state'[j] # "queued"
  <2>1. \A k \in Job : SameLease(k)
    BY <1>3, <1>5, <1>7 DEF SameLease, NoRow
  <2> QED
    BY <2>1, LeaseStutters DEF LeaseNext
<1> QED
  BY <1>6, <1>7

\* Inserting a row offers it; nothing else the Triage Counter does shows.
LEMMA TriageRefines ==
    ASSUME TypeOK, Inv, LeaseFacts, LeaseFacts', TriageStep
    PROVE  LeaseNext
<1>0. PICK j \in Job : TriageQuarantine(j) \/ TriageCreateJob(j) \/ BackoffElapses(j)
  BY DEF TriageStep
<1>t. state \in [Job -> JobState \cup NoRow]
  BY DEF TypeOK, JobsTypeOK
<1>h. \A k \in Job, w \in Surgeons : SurgeonHolds(w, k)' <=> SurgeonHolds(w, k)
  BY DEF TriageStep, SurgeonHolds
<1>1. CASE TriageQuarantine(j) \/ BackoffElapses(j)
  <2>1. \A k \in Job : SameLease(k)
    BY <1>t, <1>h, <1>1 DEF TriageQuarantine, BackoffElapses, SameLease, NoRow
  <2> QED
    BY <2>1, LeaseStutters DEF LeaseNext
<1>2. CASE TriageCreateJob(j)
  <2>1. /\ state[j] \in NoRow /\ state'[j] = "queued"
        /\ \A k \in Job \ {j} : SameLease(k)
    BY <1>t, <1>h, <1>2 DEF TriageCreateJob, UpdateState, SameLease, NoRow
  <2>2. ~Leased(j) /\ ~Leased(j)'
    BY <1>h, <2>1 DEF Inv, SurgeonExclusive, Leased
  <2>3. /\ LeasePhase[j] = "none" /\ LeasePhase'[j] = "waiting"
        /\ LeaseOwner'[j] = LeaseOwner[j]
    BY <2>1, <2>2 DEF LeaseFacts
  <2>4. LeasePhase' = [LeasePhase EXCEPT ![j] = "waiting"] /\ LeaseOwner' = LeaseOwner
    BY <2>1, <2>3, LeaseOfOne DEF LeaseOwner
  <2> QED
    BY <2>3, <2>4 DEF LeaseNext, Lease!Next, Lease!Offer
<1> QED
  BY <1>0, <1>1, <1>2

\* A Surgeon's claim acquires, mark_job_failure returns or leaves, every other
\* way to stop leaves, and the rest of its work does not show.
LEMMA SurgeonRefines ==
    ASSUME TypeOK, Inv, LeaseFacts, LeaseFacts', SurgeonStep
    PROVE  LeaseNext
<1>0. PICK w \in Surgeons : SurgeonNext(w)
  BY DEF SurgeonStep
<1>t. /\ state \in [Job -> JobState \cup NoRow]
      /\ surgeon \in [Surgeons -> {SurgeonIdle} \cup
                          [pc: SurgeonPC \ {"idle"}, job: Job]]
  BY DEF TypeOK, JobsTypeOK, SurgeonTypeOK
<1>x. \A v \in Surgeons, k \in Job : SurgeonHolds(v, k) =>
         /\ state[k] \notin NoRow \cup {"queued"}
         /\ \A u \in Surgeons : SurgeonHolds(u, k) => u = v
  BY DEF Inv, SurgeonExclusive
\* Moving on, the state written not being one the lease sees.
<1>1. ASSUME NEW pc \in SurgeonPC \ {"idle"}, surgeon[w].pc # "idle",
             surgeon' = [surgeon EXCEPT ![w] = [@ EXCEPT !.pc = pc]],
             \/ state' = state
             \/ \E s \in JobState \ {"queued"} : state' = [state EXCEPT ![surgeon[w].job] = s]
      PROVE  LeaseNext
  <2>1. surgeon[w] \in [pc: SurgeonPC \ {"idle"}, job: Job]
    BY <1>t, <1>1 DEF SurgeonIdle
  <2>2. \A v \in Surgeons, k \in Job : SurgeonHolds(v, k)' <=> SurgeonHolds(v, k)
    BY <1>t, <1>1, <2>1 DEF SurgeonHolds
  <2>3. SurgeonHolds(w, surgeon[w].job)
    BY <2>1 DEF SurgeonHolds
  <2>4. \A k \in Job : SameLease(k)
    BY <1>t, <1>x, <1>1, <2>1, <2>2, <2>3 DEF SameLease, NoRow, JobState
  <2> QED
    BY <2>4, LeaseStutters DEF LeaseNext
\* Stopping: the job leaves, or waits again if the row has become queued.
<1>2. ASSUME surgeon[w].pc # "idle", surgeon' = [surgeon EXCEPT ![w] = SurgeonIdle],
             \/ state' = state
             \/ \E s \in JobState : state' = [state EXCEPT ![surgeon[w].job] = s]
      PROVE  LeaseNext
  <2>0. PICK j \in Job : j = surgeon[w].job /\ SurgeonHolds(w, j)
    BY <1>t, <1>2 DEF SurgeonIdle, SurgeonHolds
  <2>1. \A v \in Surgeons, k \in Job :
           SurgeonHolds(v, k)' <=> v # w /\ SurgeonHolds(v, k)
    BY <1>t, <1>2 DEF SurgeonHolds, SurgeonIdle
  <2>2. \A k \in Job \ {j} : ~SurgeonHolds(w, k)
    BY <2>0 DEF SurgeonHolds
  <2>3. \A k \in Job \ {j} : SameLease(k)
    BY <1>t, <1>2, <2>0, <2>1, <2>2 DEF SameLease, NoRow
  <2>4. Leased(j) /\ ~Leased(j)'
    BY <1>x, <2>0, <2>1 DEF Leased
  <2>5. state'[j] \notin NoRow
    BY <1>t, <1>x, <1>2, <2>0 DEF NoRow, JobState
  <2>6. /\ LeasePhase[j] = "leased" /\ LeaseOwner[j] = w /\ LeaseOwner'[j] = NoJob
        /\ LeasePhase'[j] \in {"waiting", "gone"}
    BY <2>0, <2>4, <2>5 DEF LeaseFacts
  <2>7. /\ LeasePhase' = [LeasePhase EXCEPT ![j] = LeasePhase'[j]]
        /\ LeaseOwner' = [LeaseOwner EXCEPT ![j] = NoJob]
    BY <2>3, <2>6, LeaseOfOne
  <2>8. Lease!Return(w, j) \/ Lease!Leave(w, j)
    BY <2>6, <2>7 DEF Lease!Return, Lease!Leave
  <2> QED
    BY <2>8 DEF LeaseNext, Lease!Next
<1>3. ASSUME NEW j \in Job, SurgeonClaim(w, j) PROVE LeaseNext
  <2>1. /\ state[j] = "queued" /\ state' = [state EXCEPT ![j] = "fetching"]
        /\ surgeon[w].pc = "idle"
        /\ surgeon' = [surgeon EXCEPT ![w] = [pc |-> "claimed", job |-> j]]
    BY <1>3 DEF SurgeonClaim, UpdateState
  <2>2. \A v \in Surgeons, k \in Job :
           SurgeonHolds(v, k)' <=> (IF v = w THEN k = j ELSE SurgeonHolds(v, k))
    BY <1>t, <2>1 DEF SurgeonHolds
  <2>3. \A k \in Job : ~SurgeonHolds(w, k)
    BY <2>1 DEF SurgeonHolds
  <2>4. \A k \in Job \ {j} : SameLease(k)
    BY <1>t, <2>1, <2>2, <2>3 DEF SameLease
  <2>5. Leased(j)' /\ SurgeonHolds(w, j)'
    BY <2>2 DEF Leased
  <2>6. /\ LeasePhase[j] = "waiting" /\ LeasePhase'[j] = "leased" /\ LeaseOwner'[j] = w
        /\ \A k \in Job : LeaseOwner[k] # w
    BY <2>1, <2>3, <2>5 DEF LeaseFacts
  <2>7. /\ LeasePhase' = [LeasePhase EXCEPT ![j] = "leased"]
        /\ LeaseOwner' = [LeaseOwner EXCEPT ![j] = w]
    BY <2>4, <2>6, LeaseOfOne
  <2> QED
    BY <2>6, <2>7 DEF LeaseNext, Lease!Next, Lease!Acquire
<1>4. CASE SurgeonMarkFailure(w)
  BY <1>2, <1>4 DEF SurgeonMarkFailure, SurgeonStops, UpdateState, JobState
<1>5. CASE SurgeonAbandon(w) \/ SurgeonAnnounce(w) \/ SurgeonCrash(w)
  BY <1>2, <1>5 DEF SurgeonAbandon, SurgeonAnnounce, SurgeonCrash, SurgeonStops, jobVars
<1>6. CASE SurgeonAdmit(w) \/ SurgeonFail(w) \/ SurgeonPersist(w)
  BY <1>1, <1>6 DEF SurgeonAdmit, SurgeonFail, SurgeonPersist, SurgeonMoves, SurgeonPC, jobVars
<1>7. CASE SurgeonFetch(w) \/ SurgeonScan(w) \/ SurgeonHandOff(w)
  BY <1>1, <1>7 DEF SurgeonFetch, SurgeonScan, SurgeonHandOff, SurgeonMoves, SurgeonPC,
     UpdateState, JobState
<1> QED
  BY <1>0, <1>3, <1>4, <1>5, <1>6, <1>7 DEF SurgeonNext, SurgeonWorks

\* The Surgeons' claims implement the exclusive lease, for any number of jobs
\* and of workers of all the stages.
THEOREM LeaseImplemented == Spec => LeaseSpec
<1>1. Init => Lease!Init /\ AiGrounded
  <2> SUFFICES ASSUME Init PROVE Lease!Init /\ AiGrounded
    OBVIOUS
  <2>1. \A j \in Job, w \in Surgeons : ~SurgeonHolds(w, j)
    BY DEF Init, SurgeonInit, SurgeonIdle, SurgeonHolds
  <2>2. \A j \in Job : state[j] \in NoRow
    BY DEF Init, JobsInit, NoRow
  <2>3. AiGrounded
    BY DEF Init, AiInit, AiIdle, AiGrounded, AiHolds
  <2> QED
    BY <2>1, <2>2, <2>3 DEF Lease!Init, LeasePhase, LeaseOwner
<1>2. TypeOK /\ Inv /\ AiGrounded /\ [Next]_vars => AiGrounded'
  BY NextAiGrounded
<1>3. TypeOK /\ Inv => LeaseFacts
  BY LeaseMapping DEF Inv
<1>4. /\ TypeOK /\ Inv /\ SandboxInv /\ AiGrounded /\ LeaseFacts /\ LeaseFacts'
      /\ [Next]_vars
      => [Lease!Next]_(Lease!vars)
  <2> SUFFICES ASSUME TypeOK, Inv, SandboxInv, AiGrounded, LeaseFacts, LeaseFacts',
                      [Next]_vars
               PROVE  LeaseNext
    BY DEF LeaseNext, Lease!vars
  <2>1. CASE UNCHANGED vars
    <3>1. \A k \in Job : SameLease(k)
      BY <2>1 DEF vars, jobVars, SameLease, SurgeonHolds
    <3> QED
      BY <3>1, LeaseStutters DEF LeaseNext
  <2> QED
    BY <2>1, TriageRefines, SurgeonRefines, LaterRefines DEF Next
<1> QED
  BY <1>1, <1>2, <1>3, <1>4, TypeCorrect, Invariance, SandboxInvariance, PTL
  DEF Spec, LeaseSpec, Lease!Spec

=============================================================================
