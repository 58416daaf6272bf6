--------------------------- MODULE TriageCounter ---------------------------
(***************************************************************************)
(* The Triage Counter (services/triage-counter/src): concurrent requests   *)
(* look a decision up in the process-local cache or bind the evidence with *)
(* a series of independent SELECTs, run the engine, record the decision,   *)
(* enqueue an analysis job and fill the cache.  Meanwhile the evidence,    *)
(* the overrides and the registry's policy binding change.                 *)
(*                                                                         *)
(* One tenant, one registry, one package; each version has one artifact,   *)
(* so that a request is told apart only by naming its digest or not.  The  *)
(* bytes of two versions may be the same: they then share a row of the     *)
(* artifacts table, which carries the coordinate it was last analysed for. *)
(***************************************************************************)
EXTENDS Overrides, DecisionEngine

CONSTANTS Handler,     \* concurrent requests
          Profile,     \* policy profiles
          Config,      \* what the latest snapshot of each profile configures
          Digest,      \* contents of artifacts
          DigestOf,    \* what each version consists of
          Observable,  \* signals of package_signal_observations
          Clients      \* who sends requests

AllClients == {"packument", "artifact", "candidate", "scan", "upload",
               "simulation", "enrichment"}

ASSUME ConfigAssumption == Config \in [Profile -> Configuration]
ASSUME DigestOfAssumption == DigestOf \in [Version -> Digest]
ASSUME ObservableAssumption ==
    Observable \subseteq RiskSignal \cup WarningSignal \cup {"known_malicious"}
ASSUME ClientsAssumption == Clients \subseteq AllClients

VARIABLES
    decision_cache,  \* unexpired entries: key |-> response
    handlers,        \* where each request is
    history,         \* requests with a policy_decisions row
    safe,            \* coordinates whose latest row is an ALLOW
    approved,        \* version of the latest ALLOW row that names a version
    jobs,            \* analysis_jobs rows of each version's artifact
    analysis,        \* stored evidence of each artifact
    label,           \* coordinate in the artifacts row of each digest
    nature,          \* what its analysis finds
    observed,        \* package_signal_observations of each coordinate
    advisory,        \* vulnerability_matches of each artifact, OpenVEX statements
    binding          \* registry_configs.policy_profile_id

recordVars == <<history, safe, approved>>
envVars == <<analysis, label, nature, observed, advisory, binding>>
vars == <<decision_cache, handlers, recordVars, jobs, envVars, overrides>>

-----------------------------------------------------------------------------

\* A DecisionRequest, or a DecisionQueryRequest for op = "query".
Request ==
    [op: {"evaluate", "simulate", "query"}, kind: {"metadata", "artifact"},
     version: Coordinate, digest: BOOLEAN, url: BOOLEAN, explicit: BOOLEAN,
     profile: Profile]

Asks(op, kind, version, digest, url, explicit, profile) ==
    [op |-> op, kind |-> kind, version |-> version, digest |-> digest,
     url |-> url, explicit |-> explicit, profile |-> profile]

\* What each client asks for.  The proxy sends packuments without a version
\* and prefetched artifacts with their digest, and filters PyPI metadata by
\* candidates without a digest; submit_cli_scan knows no URL, of a package that
\* was scanned by name ("scan") or by its contents ("upload").
PackumentRequests(p) ==
    {Asks("evaluate", "metadata", NoVersion, FALSE, TRUE, FALSE, p)}

ArtifactRequests(p) ==
    {Asks("evaluate", "artifact", v, TRUE, TRUE, TRUE, p) : v \in Version}

CandidateRequests(p) ==
    {Asks("evaluate", "artifact", v, FALSE, TRUE, TRUE, p) : v \in Version}

ScanRequests(p) ==
    {Asks("evaluate", "metadata", v, FALSE, FALSE, FALSE, p) : v \in Version}

UploadRequests(p) ==
    {Asks("evaluate", "artifact", v, TRUE, FALSE, TRUE, p) : v \in Version}

\* simulate_policy_replay repeats recorded requests under another profile.
SimulationRequests(p) ==
    {Asks("simulate", "metadata", c, FALSE, FALSE, c # NoVersion, p) : c \in Coordinate}
        \cup UNION {{Asks("simulate", "artifact", v, d, FALSE, TRUE, p) : v \in Version} :
                       d \in BOOLEAN}

\* enrich_cli_github_actions.
EnrichmentRequests(p) ==
    {Asks("query", "metadata", v, FALSE, FALSE, TRUE, p) : v \in Version}

Requests ==
    UNION {LET from == [packument |-> PackumentRequests(p),
                        artifact |-> ArtifactRequests(p),
                        candidate |-> CandidateRequests(p),
                        scan |-> ScanRequests(p),
                        upload |-> UploadRequests(p),
                        simulation |-> SimulationRequests(p),
                        enrichment |-> EnrichmentRequests(p)]
           IN UNION {from[c] : c \in Clients} : p \in Profile}

\* What package_requests and policy_decisions keep of a request.
Recorded(r) == <<r.kind, r.version, r.digest>>

\* decision_cache_key names no profile, decision_query_cache_key does.
CacheKey(r) ==
    IF r.op = "query" THEN <<"query", r.profile, r.kind, r.version, r.digest>>
    ELSE <<"decision", r.kind, r.version, r.digest>>

\* A DecisionResponse, with the evidence references kept beside it.
Response ==
    [decision: Decision, rule: Rule, profile: Profile, fallback: Coordinate,
     suppressed: BOOLEAN]

PC == {"looking-up", "binding", "reading-signals", "reading-evidence",
       "deciding", "recording", "recording-hit", "enqueuing", "caching",
       "answered", "failed"}

Idle == [pc |-> "idle"]
NoResponse == [decision |-> "none"]

\* Every variable stays in its type; an idle handler keeps nothing of the
\* request it served last.
TypeOK ==
    /\ handlers \in [Handler -> {Idle} \cup
                        [pc: PC, req: Request, signals: SUBSET Signal,
                         suppressed: BOOLEAN, resp: Response \cup {NoResponse}]]
    /\ \A k \in DOMAIN decision_cache : decision_cache[k] \in Response
    /\ history \subseteq {Recorded(r) : r \in Request}
    /\ safe \in [Coordinate -> SUBSET {"digest", "any"}]
    /\ approved \in Coordinate
    /\ jobs \in [Version -> SUBSET {"fetchable", "unfetchable"}]
    /\ analysis \in [Digest -> {"none", "static", "sandboxed"}]
    /\ label \in [Digest -> Coordinate]
    /\ nature \in [Digest -> {"clean", "static", "sandbox"}]
    /\ observed \in [Coordinate -> SUBSET Observable]
    /\ advisory \in [Digest -> {"none", "above", "suppressed"}]
    /\ binding \in Profile
    /\ overrides \in [Override -> OverrideRow]

Init ==
    /\ decision_cache = << >>
    /\ handlers = [i \in Handler |-> Idle]
    /\ history = {}
    /\ safe = [c \in Coordinate |-> {}]
    /\ approved = NoVersion
    /\ jobs = [v \in Version |-> {}]
    /\ analysis = [d \in Digest |-> "none"]
    /\ label = [d \in Digest |-> NoVersion]
    /\ nature \in [Digest -> {"clean", "static", "sandbox"}]
    /\ observed = [c \in Coordinate |-> {}]
    /\ advisory = [d \in Digest |-> "none"]
    /\ binding \in Profile
    /\ OverridesInit

-----------------------------------------------------------------------------

Moves(i, from, to) ==
    /\ handlers[i].pc = from
    /\ handlers' = [handlers EXCEPT ![i].pc = to]

Fails(i) == handlers' = [handlers EXCEPT ![i].pc = "failed"]

\* A request arrives; a simulation replays a recorded one.
Begin(i, r) ==
    /\ handlers[i] = Idle
    /\ r.op = "simulate" => Recorded(r) \in history
    /\ handlers' = [handlers EXCEPT ![i] =
                       [pc |-> "looking-up", req |-> r, signals |-> {},
                        suppressed |-> FALSE, resp |-> NoResponse]]
    /\ UNCHANGED <<decision_cache, recordVars, jobs, envVars, overrides>>

\* DecisionCache::get.  A hit skips everything but the record of an evaluation.
LookUp(i) ==
    LET h == handlers[i]
        key == CacheKey(h.req)
    IN /\ h.pc = "looking-up"
       /\ handlers' = [handlers EXCEPT ![i] =
             IF key \in DOMAIN decision_cache
             THEN [h EXCEPT !.pc = IF h.req.op = "evaluate" THEN "recording-hit"
                                   ELSE "answered",
                            !.resp = decision_cache[key]]
             ELSE [h EXCEPT !.pc = "binding"]]
       /\ UNCHANGED <<decision_cache, recordVars, jobs, envVars, overrides>>

\* load_artifact_exists: a row of the requested digest, whatever its coordinate.
ArtifactExists(r) == r.version \in Version /\ analysis[DigestOf[r.version]] # "none"

\* The profile the registry is bound to when the request is bound: an
\* evaluation must name it.
RegistryPolicyMatches(r) == r.op = "evaluate" => binding = r.profile

\* bind_request_with_context up to load_artifact_exists.
BindProfile(i) ==
    LET h == handlers[i]
    IN /\ h.pc = "binding"
       /\ IF ~RegistryPolicyMatches(h.req)
          THEN Fails(i)
          ELSE handlers' = [handlers EXCEPT ![i].pc = "reading-signals",
                   ![i].signals = IF h.req.digest /\ ~ArtifactExists(h.req)
                                  THEN {"unknown_artifact"} ELSE {}]
       /\ UNCHANGED <<decision_cache, recordVars, jobs, envVars, overrides>>

\* load_known_safe_verdict: the latest decision for the coordinate, or for the
\* coordinate and the digest when the request names one, is ALLOW.
KnownSafe(r) == (IF r.digest THEN "digest" ELSE "any") \in safe[r.version]

\* load_package_signal_status, load_known_malicious_match, known-safe verdict.
BindSignals(i) ==
    LET r == handlers[i].req
    IN /\ handlers[i].pc = "reading-signals"
       /\ handlers' = [handlers EXCEPT ![i].pc = "reading-evidence",
             ![i].signals = @ \cup observed[r.version]
                 \cup IF KnownSafe(r) THEN {"known_safe_verdict"} ELSE {}]
       /\ UNCHANGED <<decision_cache, recordVars, jobs, envVars, overrides>>

\* load_static_analysis_score_violation, load_dynamic_sandbox_policy_violation:
\* the evidence stored so far.
AnalysisSignals(d) ==
    (IF analysis[d] # "none" /\ nature[d] = "static"
     THEN {"static_analysis_score_violation"} ELSE {})
    \cup
    (IF analysis[d] = "sandboxed" /\ nature[d] = "sandbox"
     THEN {"dynamic_sandbox_policy_violation"} ELSE {})

\* load_vulnerability_signal_status; a query does not look at OpenVEX.
VulnerabilitySignals(r) ==
    IF advisory[DigestOf[r.version]] \in IF r.op = "query" THEN {"above", "suppressed"}
                               ELSE {"above"}
    THEN {"vulnerable_above_threshold"} ELSE {}

\* Mutant: the joins go through sandbox_runs, so that a report counts after the
\* sandbox run only.
JoinsSandboxed(r) ==
    /\ r.version \in Version
    /\ label[DigestOf[r.version]] = r.version
    /\ analysis[DigestOf[r.version]] = "sandboxed"

\* The joins of reports, runs and matches with artifacts ask for the coordinate
\* of the request (and for its digest, if it has one).
Joins(r) == r.version \in Version /\ label[DigestOf[r.version]] = r.version

\* The evidence that is joined through the artifacts row.
BindEvidence(i) ==
    LET r == handlers[i].req
    IN /\ handlers[i].pc = "reading-evidence"
       /\ handlers' = [handlers EXCEPT ![i].pc = "deciding",
             ![i].signals = @ \cup IF Joins(r)
                                   THEN AnalysisSignals(DigestOf[r.version])
                                            \cup VulnerabilitySignals(r)
                                   ELSE {},
             ![i].suppressed = /\ Joins(r)
                               /\ advisory[DigestOf[r.version]] = "suppressed"
                               /\ r.op # "query"]
       /\ UNCHANGED <<decision_cache, recordVars, jobs, envVars, overrides>>

\* load_fallback_candidate: the version of the latest ALLOW, asked for only
\* by npm metadata requests that pin nothing.
FallbackCandidate(r) ==
    IF r.kind = "metadata" /\ ~r.explicit THEN approved ELSE NoVersion

\* load_override_signal_status, load_fallback_candidate, the engine.
Decide(i) ==
    LET h == handlers[i]
        candidate == FallbackCandidate(h.req)
        signals == h.signals \cup OverrideSignals(h.req.version)
            \cup IF candidate # NoVersion THEN {"fallback_candidate"} ELSE {}
        verdict == Evaluate(signals, Config[h.req.profile])
    IN /\ h.pc = "deciding"
       /\ overrides' = Swept
       /\ handlers' = [handlers EXCEPT ![i] =
             [pc |-> IF h.req.op = "evaluate" THEN "recording" ELSE "caching",
              req |-> h.req, signals |-> {}, suppressed |-> FALSE,
              resp |-> [decision |-> verdict.decision, rule |-> verdict.rule,
                        profile |-> h.req.profile,
                        fallback |-> IF verdict.rule = "fallback"
                                     THEN candidate ELSE NoVersion,
                        suppressed |-> h.suppressed]]]
       /\ UNCHANGED <<decision_cache, recordVars, jobs, envVars>>

\* Mutant: the profile of the response is not compared.
RecordableForAnyProfile(h) == ~h.resp.suppressed

\* persisted_decision_record refuses a response made for another profile, and
\* the transaction fails when there are evidence references to audit:
\* audit_events has no column "payload".
Recordable(h) == h.resp.profile = h.req.profile /\ ~h.resp.suppressed

\* Mutant: a hit renews the entry.
AfterRecordRenews(h) == IF h.pc = "recording" THEN "enqueuing" ELSE "caching"

\* Neither a job nor a cache entry is made on a hit.
AfterRecord(h) == IF h.pc = "recording" THEN "enqueuing" ELSE "answered"

\* Which decisions load_known_safe_verdict takes as a safe verdict.
Vouches(d) == d = "ALLOW"

\* The verdicts a record is the latest row of.
Scope(r) == IF r.digest THEN {"digest", "any"} ELSE {"any"}

\* persist_evaluated_decision_record, one transaction.
Record(i) ==
    LET h == handlers[i]
        r == h.req
        d == h.resp.decision
    IN /\ h.pc \in {"recording", "recording-hit"}
       /\ IF Recordable(h)
          THEN /\ handlers' = [handlers EXCEPT ![i].pc = AfterRecord(h)]
               /\ history' = history \cup {Recorded(r)}
               /\ safe' = [safe EXCEPT ![r.version] =
                      IF Vouches(d) THEN @ \cup Scope(r) ELSE @ \ Scope(r)]
               /\ approved' = IF d = "ALLOW" /\ r.version # NoVersion
                              THEN r.version ELSE approved
          ELSE /\ Fails(i)
               /\ UNCHANGED recordVars
       /\ UNCHANGED <<decision_cache, jobs, envVars, overrides>>

\* Mutant: a missing source URL is not an error.
EnqueueIgnoresUrl(i) ==
    LET h == handlers[i]
    IN /\ Moves(i, "enqueuing", "caching")
       /\ jobs' = IF h.resp.decision = "QUARANTINE_PENDING_ANALYSIS"
                  THEN [jobs EXCEPT ![h.req.version] =
                           @ \cup {IF h.req.url THEN "fetchable" ELSE "unfetchable"}]
                  ELSE jobs
       /\ UNCHANGED <<decision_cache, recordVars, envVars, overrides>>

\* create_analysis_job_if_needed.  The row is inserted, then a missing source
\* URL is an error.
Enqueue(i) ==
    LET h == handlers[i]
        needed == h.resp.decision = "QUARANTINE_PENDING_ANALYSIS"
    IN /\ h.pc = "enqueuing"
       /\ jobs' = IF needed
                  THEN [jobs EXCEPT ![h.req.version] =
                           @ \cup {IF h.req.url THEN "fetchable" ELSE "unfetchable"}]
                  ELSE jobs
       /\ handlers' = [handlers EXCEPT ![i].pc =
                          IF needed /\ ~h.req.url THEN "failed" ELSE "caching"]
       /\ UNCHANGED <<decision_cache, recordVars, envVars, overrides>>

\* DecisionCache::put.
Put(i) ==
    LET key == CacheKey(handlers[i].req)
    IN /\ Moves(i, "caching", "answered")
       /\ decision_cache' =
             [k \in DOMAIN decision_cache \cup {key} |->
                 IF k = key THEN handlers[i].resp ELSE decision_cache[k]]
       /\ UNCHANGED <<recordVars, jobs, envVars, overrides>>

\* The answer or the error is sent.
Finish(i) ==
    /\ handlers[i].pc \in {"answered", "failed"}
    /\ handlers' = [handlers EXCEPT ![i] = Idle]
    /\ UNCHANGED <<decision_cache, recordVars, jobs, envVars, overrides>>

HandlerStep(i) ==
    \/ LookUp(i) \/ BindProfile(i) \/ BindSignals(i) \/ BindEvidence(i)
    \/ Decide(i) \/ Record(i) \/ Enqueue(i) \/ Put(i) \/ Finish(i)

\* Thirty seconds after the put.
CacheExpires(k) ==
    /\ k \in DOMAIN decision_cache
    /\ decision_cache' = [x \in DOMAIN decision_cache \ {k} |-> decision_cache[x]]
    /\ UNCHANGED <<handlers, recordVars, jobs, envVars, overrides>>

\* The process dies and comes back with an empty cache.
Restart ==
    /\ "restart" \in Environment
    /\ handlers' = [i \in Handler |-> Idle]
    /\ decision_cache' = << >>
    /\ UNCHANGED <<recordVars, jobs, envVars, overrides>>

-----------------------------------------------------------------------------

\* The analysis plane: the Surgeon commits the artifact row and the static
\* report in one transaction, the Emergency Room completes a run later on.  The
\* upsert writes the coordinate of the job over the one in the row.
StaticReportStored(v) ==
    LET d == DigestOf[v]
    IN /\ "analysis" \in Environment
       /\ "fetchable" \in jobs[v]
       /\ label[d] # v
       /\ analysis' = [analysis EXCEPT ![d] = IF @ = "none" THEN "static" ELSE @]
       /\ label' = [label EXCEPT ![d] = v]
       /\ UNCHANGED <<nature, observed, advisory, binding>>

SandboxRunCompleted(d) ==
    /\ analysis[d] = "static"
    /\ analysis' = [analysis EXCEPT ![d] = "sandboxed"]
    /\ UNCHANGED <<label, nature, observed, advisory, binding>>

\* A signal is observed for a coordinate.
SignalObserved(c, s) ==
    /\ "observe" \in Environment
    /\ s \notin observed[c]
    /\ observed' = [observed EXCEPT ![c] = @ \cup {s}]
    /\ UNCHANGED <<analysis, label, nature, advisory, binding>>

\* A vulnerability of an analysed artifact is matched; an OpenVEX statement
\* 'fixed' or 'not_affected' covers it.
AdvisoryMatched(d) ==
    /\ "advisory" \in Environment
    /\ analysis[d] # "none"
    /\ advisory[d] = "none"
    /\ advisory' = [advisory EXCEPT ![d] = "above"]
    /\ UNCHANGED <<analysis, label, nature, observed, binding>>

OpenVexImported(d) ==
    /\ advisory[d] = "above"
    /\ advisory' = [advisory EXCEPT ![d] = "suppressed"]
    /\ UNCHANGED <<analysis, label, nature, observed, binding>>

\* update_registry_config binds the registry to another profile.
RegistryRebound(p) ==
    /\ "rebind" \in Environment
    /\ binding # p
    /\ binding' = p
    /\ UNCHANGED <<analysis, label, nature, observed, advisory>>

EvidenceChanges ==
    /\ \/ \E v \in Version : StaticReportStored(v)
       \/ \E d \in Digest : \/ SandboxRunCompleted(d)
                            \/ AdvisoryMatched(d) \/ OpenVexImported(d)
       \/ \E c \in Coordinate, s \in Observable : SignalObserved(c, s)
       \/ \E p \in Profile : RegistryRebound(p)
    /\ UNCHANGED <<decision_cache, handlers, recordVars, jobs, overrides>>

OverridesChange ==
    /\ OverridesNext
    /\ UNCHANGED <<decision_cache, handlers, recordVars, jobs, envVars>>

Next ==
    \/ \E i \in Handler : HandlerStep(i) \/ \E r \in Requests : Begin(i, r)
    \/ \E k \in DOMAIN decision_cache : CacheExpires(k)
    \/ Restart
    \/ EvidenceChanges
    \/ OverridesChange

Spec == Init /\ [][Next]_vars

\* Requests are served, and entries expire whether they are hit or not.
Fairness ==
    /\ \A i \in Handler : WF_vars(HandlerStep(i))
    /\ \A k \in {CacheKey(r) : r \in Requests} : WF_vars(CacheExpires(k))

FairSpec == Spec /\ Fairness

-----------------------------------------------------------------------------

Answered(i) == handlers[i].pc = "answered"

\* The bytes of the version have been submitted as another version, too: their
\* artifacts row may carry that coordinate, and then the joins miss the reports.
SubmittedAsOther(v) ==
    \E w \in Version \ {v} : DigestOf[w] = DigestOf[v] /\ "fetchable" \in jobs[w]

\* An artifact asked for by its digest is handed out, unless an override says
\* so, only after a static report of its bytes has been stored -- through cached
\* answers, known-safe verdicts and evidence that arrives between the SELECTs of
\* one evaluation; and the report stays below the policy threshold, except when
\* the same bytes have been submitted under another version as well: the
\* existence check goes by the digest alone, the reports are joined by the
\* coordinate, and bytes over the threshold are handed out as the version
\* the row does not name.
ServedIsAnalysed ==
    \A i \in Handler :
        Answered(i) /\ handlers[i].req.digest
            /\ Serves(handlers[i].resp.decision) /\ handlers[i].resp.rule # "override"
        => LET v == handlers[i].req.version
               d == DigestOf[v]
           IN analysis[d] # "none" /\ (nature[d] # "static" \/ SubmittedAsOther(v))

\* Who is told that an artifact is quarantined pending analysis is told so
\* with a job enqueued that a Surgeon can claim, also when the answer comes
\* from the cache, and when evaluations died or failed before.
QuarantineHasJob ==
    \A i \in Handler :
        Answered(i) /\ handlers[i].req.op = "evaluate"
            /\ handlers[i].resp.decision = "QUARANTINE_PENDING_ANALYSIS"
        => "fetchable" \in jobs[handlers[i].req.version]

\* An evaluation is answered under the profile it asked for, although the
\* registry is bound to another one and back while entries are cached under a
\* key that names no profile.
AnswerOfOwnProfile ==
    \A i \in Handler :
        Answered(i) /\ handlers[i].req.op = "evaluate"
            => handlers[i].resp.profile = handlers[i].req.profile

\* Policy enforcement resumes: when every override has been denied or has
\* expired, a time comes after which no answer rests on one, whatever was
\* cached or recorded under it.
OverrideEnds ==
    OverridesOver ~> [](\A i \in Handler :
                           Answered(i) => handlers[i].resp.rule # "override")

\* A package version that becomes known as malicious is blocked for good,
\* although it has been allowed, recorded as known safe and cached before.
MalwareTakesEffect ==
    \A v \in Version :
        ("known_malicious" \in observed[v] /\ OverridesOver)
            ~> [](\A i \in Handler :
                     Answered(i) /\ handlers[i].req.version = v
                        => handlers[i].resp.decision = "BLOCK_KNOWN_MALICIOUS")

\* What policy-and-decisions.md says of sandbox telemetry: it is merged into
\* the decision flow.  An artifact whose sandbox run exceeds the threshold is
\* eventually not handed out any more.
SandboxResultTakesEffect ==
    \A v \in Version :
        (analysis[DigestOf[v]] = "sandboxed" /\ nature[DigestOf[v]] = "sandbox" /\ OverridesOver)
            ~> [](\A i \in Handler :
                     Answered(i) /\ handlers[i].req.version = v /\ handlers[i].req.digest
                        => ~Serves(handlers[i].resp.decision))

=============================================================================
