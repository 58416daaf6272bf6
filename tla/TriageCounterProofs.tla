------------------------ MODULE TriageCounterProofs ------------------------
(***************************************************************************)
(* What the Triage Counter answers, for any number of concurrent requests, *)
(* versions, profiles and overrides, any configuration of the snapshots    *)
(* and any changes of the evidence.                                        *)
(***************************************************************************)
EXTENDS TriageCounter, TLAPS

\* A handler that serves a request.
Active ==
    [pc: PC, req: Request, signals: SUBSET Signal, suppressed: BOOLEAN,
     resp: Response \cup {NoResponse}]

\* Where a handler has a response.
Responding == {"recording", "recording-hit", "enqueuing", "caching", "answered"}

(***************************************************************************)
(* The requests, the cache keys and the engine.                            *)
(***************************************************************************)

\* What the clients never do: a digest without a version, a query with one.
LEMMA RequestsAreRequests ==
    ASSUME NEW r \in Requests
    PROVE  /\ r \in Request
           /\ r.digest => r.version \in Version
           /\ r.op = "query" => ~r.digest
           /\ r.op = "simulate" => "simulation" \in Clients
<1>1. PICK p \in Profile, c \in Clients :
         r \in [packument |-> PackumentRequests(p),
                artifact |-> ArtifactRequests(p),
                candidate |-> CandidateRequests(p),
                scan |-> ScanRequests(p),
                upload |-> UploadRequests(p),
                simulation |-> SimulationRequests(p),
                enrichment |-> EnrichmentRequests(p)][c]
  BY DEF Requests
<1>2. c \in AllClients
  BY ClientsAssumption
\* Every request is built by Asks.
<1>a. ASSUME NEW op \in {"evaluate", "simulate", "query"},
             NEW kind \in {"metadata", "artifact"}, NEW v \in Coordinate,
             NEW digest \in BOOLEAN, NEW url \in BOOLEAN, NEW explicit \in BOOLEAN,
             r = Asks(op, kind, v, digest, url, explicit, p),
             digest => v \in Version, op = "query" => ~digest,
             op = "simulate" => "simulation" \in Clients
      PROVE  /\ r \in Request
             /\ r.digest => r.version \in Version
             /\ r.op = "query" => ~r.digest
             /\ r.op = "simulate" => "simulation" \in Clients
  BY <1>a DEF Asks, Request
<1>3. CASE c = "packument"
  BY <1>1, <1>3, <1>a DEF PackumentRequests, Coordinate
<1>4. CASE c = "artifact"
  BY <1>1, <1>4, <1>a DEF ArtifactRequests, Coordinate
<1>5. CASE c = "candidate"
  BY <1>1, <1>5, <1>a DEF CandidateRequests, Coordinate
<1>6. CASE c = "scan"
  BY <1>1, <1>6, <1>a DEF ScanRequests, Coordinate
<1>u. CASE c = "upload"
  BY <1>1, <1>u, <1>a DEF UploadRequests, Coordinate
<1>7. CASE c = "simulation"
  <2>1. r \in SimulationRequests(p)
    BY <1>1, <1>7
  <2>2. CASE \E v \in Coordinate :
                r = Asks("simulate", "metadata", v, FALSE, FALSE, v # NoVersion, p)
    <3>1. PICK v \in Coordinate :
             r = Asks("simulate", "metadata", v, FALSE, FALSE, v # NoVersion, p)
      BY <2>2
    <3>2. (v # NoVersion) \in BOOLEAN
      OBVIOUS
    <3> QED
      BY <1>7, <1>a, <3>1, <3>2
  <2>3. CASE \E v \in Version, d \in BOOLEAN :
                r = Asks("simulate", "artifact", v, d, FALSE, TRUE, p)
    BY <1>7, <1>a, <2>3 DEF Coordinate
  <2> QED
    BY <2>1, <2>2, <2>3 DEF SimulationRequests
<1>8. CASE c = "enrichment"
  BY <1>1, <1>8, <1>a DEF EnrichmentRequests, Coordinate
<1> QED
  BY <1>2, <1>3, <1>4, <1>5, <1>6, <1>u, <1>7, <1>8 DEF AllClients

\* Requests that share an entry ask about the same thing.
LEMMA CacheKeyTells ==
    ASSUME NEW q \in Request, NEW r \in Request, CacheKey(q) = CacheKey(r)
    PROVE  /\ q.version = r.version /\ q.digest = r.digest
           /\ q.op = "query" <=> r.op = "query"
BY DEF CacheKey, Request

\* What the engine's rules say of the decisions that matter here.
LEMMA EvaluateTells ==
    ASSUME NEW S, NEW c
    PROVE  /\ Evaluate(S, c).decision \in Decision /\ Evaluate(S, c).rule \in Rule
           /\ Evaluate(S, c).decision = "QUARANTINE_PENDING_ANALYSIS"
                => "unknown_artifact" \in S
           /\ (\/ Evaluate(S, c).decision = "ALLOW"
               \/ Serves(Evaluate(S, c).decision) /\ Evaluate(S, c).rule # "override")
                => \/ "known_safe_verdict" \in S
                   \/ S \cap RiskSignal = {} /\ "unknown_artifact" \notin S
<1>1. VulnerabilityOutcome(c) \in {"BLOCK_POLICY_VIOLATION", "ALLOW_WITH_WARNING"}
  BY DEF VulnerabilityOutcome
<1>2. ScorecardOutcome(ScorecardActions(S, c)) \in
         {"BLOCK_POLICY_VIOLATION", "REQUIRE_HITL_APPROVAL", "ALLOW_WITH_WARNING"}
  BY DEF ScorecardOutcome
<1>3. \A d, r : Verdict(d, r).decision = d /\ Verdict(d, r).rule = r
  BY DEF Verdict
<1> DEFINE e == Evaluate(S, c)
<1>4. \E d \in Decision, r \in Rule :
         /\ e = Verdict(d, r)
         /\ d = "QUARANTINE_PENDING_ANALYSIS" => "unknown_artifact" \in S
         /\ d = "ALLOW" \/ (Serves(d) /\ r # "override") =>
               \/ "known_safe_verdict" \in S
               \/ S \cap RiskSignal = {} /\ "unknown_artifact" \notin S
  BY <1>1, <1>2 DEF Evaluate, Decision, Rule, Serves
<1> QED
  BY <1>3, <1>4

\* The sweep and the calls of the control plane keep the rows' types.
LEMMA OverrideTypes ==
    ASSUME overrides \in [Override -> OverrideRow]
    PROVE  /\ Swept \in [Override -> OverrideRow]
           /\ OverridesNext => overrides' \in [Override -> OverrideRow]
<1>1. Swept \in [Override -> OverrideRow]
  BY DEF Swept, OverrideRow
<1>2. ASSUME NEW o \in Override, NEW scope \in Coordinate, NEW effect \in Effect,
             CreateOverride(o, scope, effect)
      PROVE  overrides' \in [Override -> OverrideRow]
  BY <1>1, <1>2 DEF CreateOverride, OverrideRow
<1>3. ASSUME NEW o \in Override, NEW scope \in Coordinate, CreateEmergencyBypass(o, scope)
      PROVE  overrides' \in [Override -> OverrideRow]
  BY <1>1, <1>3 DEF CreateEmergencyBypass, OverrideRow, Effect
<1>4. ASSUME NEW o \in Override, ApproveOverride(o) \/ DenyOverride(o)
      PROVE  overrides' \in [Override -> OverrideRow]
  <2>1. Swept[o] \in OverrideRow
    BY <1>1
  <2>2. \A s \in {"approved", "denied"} : [Swept[o] EXCEPT !.status = s] \in OverrideRow
    BY <2>1 DEF OverrideRow
  <2> QED
    BY <1>1, <1>4, <2>2 DEF ApproveOverride, DenyOverride
<1>5. ASSUME NEW o \in Override, OverrideFallsDue(o)
      PROVE  overrides' \in [Override -> OverrideRow]
  <2>1. [overrides[o] EXCEPT !.due = TRUE] \in OverrideRow
    BY DEF OverrideRow
  <2> QED
    BY <1>5, <2>1 DEF OverrideFallsDue
<1> QED
  BY <1>1, <1>2, <1>3, <1>4, <1>5 DEF OverridesNext, RefusedOverrideCall

(***************************************************************************)
(* Types.                                                                  *)
(***************************************************************************)

\* The initial state is well typed.
LEMMA InitType == Init => TypeOK
<1> SUFFICES ASSUME Init PROVE TypeOK
  OBVIOUS
<1>1. overrides \in [Override -> OverrideRow]
  BY DEF Init, OverridesInit, NoOverride, OverrideRow, Effect, Coordinate
<1>2. \A k \in DOMAIN decision_cache : decision_cache[k] \in Response
  BY DEF Init
<1> QED
  BY <1>1, <1>2 DEF Init, TypeOK, Coordinate

\* What a handler's step may do to the handlers.
LEMMA HandlerTyped ==
    ASSUME TypeOK, NEW i \in Handler,
           NEW h \in {Idle} \cup Active, handlers' = [handlers EXCEPT ![i] = h]
    PROVE  handlers' \in [Handler -> {Idle} \cup Active]
BY DEF TypeOK, Active

\* Moving on keeps the rest of what a handler has.
LEMMA MovedTyped ==
    ASSUME NEW h \in Active, NEW pc \in PC
    PROVE  [h EXCEPT !.pc = pc] \in Active
BY DEF Active

\* A handler takes a request that a client really sends.
LEMMA BeginType ==
    ASSUME TypeOK, NEW i \in Handler, NEW r \in Requests, Begin(i, r)
    PROVE  TypeOK'
<1>1. r \in Request
  BY RequestsAreRequests
<1> DEFINE h == [pc |-> "looking-up", req |-> r, signals |-> {},
                 suppressed |-> FALSE, resp |-> NoResponse]
<1>2. h \in Active
  BY <1>1 DEF Active, PC
<1>3. handlers' \in [Handler -> {Idle} \cup Active]
  BY <1>2, HandlerTyped DEF Begin
<1> QED
  BY <1>3 DEF Begin, TypeOK, Active, recordVars, envVars

\* The signals bound to a request are signals of the engine.
LEMMA BoundSignals ==
    ASSUME TypeOK, NEW r \in Request
    PROVE  /\ observed[r.version] \subseteq Signal \ {"unknown_artifact", "known_safe_verdict"}
           /\ r.version \in Version =>
                 AnalysisSignals(DigestOf[r.version]) \cup VulnerabilitySignals(r)
                     \subseteq Signal \ {"unknown_artifact", "known_safe_verdict"}
<1>1. r.version \in Coordinate
  BY DEF Request
<1>2. observed[r.version] \subseteq Observable
  BY <1>1 DEF TypeOK
<1>3. Observable \subseteq Signal \ {"unknown_artifact", "known_safe_verdict"}
  BY ObservableAssumption DEF Signal, Adverse, RiskSignal, WarningSignal
<1>4. AnalysisSignals(DigestOf[r.version]) \subseteq {"static_analysis_score_violation",
                                            "dynamic_sandbox_policy_violation"}
  BY DEF AnalysisSignals
<1>5. VulnerabilitySignals(r) \subseteq {"vulnerable_above_threshold"}
  BY DEF VulnerabilitySignals
<1> QED
  BY <1>2, <1>3, <1>4, <1>5 DEF Signal, Adverse, RiskSignal

\* The SELECTs of a binding add signals.
LEMMA BindType ==
    ASSUME TypeOK, NEW i \in Handler, BindProfile(i) \/ BindSignals(i) \/ BindEvidence(i)
    PROVE  TypeOK'
<1> DEFINE h == handlers[i]
<1>0. h \in Active
  BY DEF TypeOK, Active, BindProfile, BindSignals, BindEvidence, Idle
<1>1. /\ h.req \in Request /\ h.signals \in SUBSET Signal
  BY <1>0 DEF Active
<1>u. /\ {"unknown_artifact", "known_safe_verdict"} \subseteq Signal
  BY DEF Signal, Adverse, Releasing
<1>2. \A pc \in PC, s \in SUBSET Signal, b \in BOOLEAN :
         /\ [h EXCEPT !.pc = pc] \in Active
         /\ [h EXCEPT !.pc = pc, !.signals = s] \in Active
         /\ [h EXCEPT !.pc = pc, !.signals = s, !.suppressed = b] \in Active
  BY <1>0 DEF Active
<1>3. CASE BindProfile(i)
  <2> DEFINE s == IF h.req.digest /\ ~ArtifactExists(h.req) THEN {"unknown_artifact"} ELSE {}
  <2>0. s \in SUBSET Signal
    BY <1>u
  <2>1. \E x \in Active : handlers' = [handlers EXCEPT ![i] = x]
    <3>1. CASE ~RegistryPolicyMatches(h.req)
      BY <1>2, <1>3, <3>1 DEF BindProfile, Fails, PC
    <3>2. CASE RegistryPolicyMatches(h.req)
      <4>1. handlers' = [handlers EXCEPT ![i].pc = "reading-signals", ![i].signals = s]
        BY <1>3, <3>2 DEF BindProfile
      <4> HIDE DEF s
      <4> QED
        BY <1>2, <2>0, <4>1 DEF PC
    <3> QED
      BY <3>1, <3>2
  <2> QED
    BY <1>3, <2>1, HandlerTyped DEF BindProfile, TypeOK, Active, recordVars, envVars
<1>4. CASE BindSignals(i)
  <2> DEFINE s == h.signals \cup observed[h.req.version]
                     \cup (IF KnownSafe(h.req) THEN {"known_safe_verdict"} ELSE {})
  <2>0. s \in SUBSET Signal
    BY <1>1, <1>u, BoundSignals
  <2>1. handlers' = [handlers EXCEPT ![i].pc = "reading-evidence", ![i].signals = s]
    BY <1>4 DEF BindSignals
  <2> HIDE DEF s
  <2>2. \E x \in Active : handlers' = [handlers EXCEPT ![i] = x]
    BY <1>2, <2>0, <2>1 DEF PC
  <2> QED
    BY <1>4, <2>2, HandlerTyped DEF BindSignals, TypeOK, Active, recordVars, envVars
<1>5. CASE BindEvidence(i)
  <2> DEFINE s == h.signals \cup (IF Joins(h.req)
                                  THEN AnalysisSignals(DigestOf[h.req.version])
                                           \cup VulnerabilitySignals(h.req)
                                  ELSE {})
             b == /\ Joins(h.req)
                  /\ advisory[DigestOf[h.req.version]] = "suppressed"
                  /\ h.req.op # "query"
  <2>1. s \in SUBSET Signal /\ b \in BOOLEAN
    BY <1>1, BoundSignals DEF Joins
  <2>2. handlers' = [handlers EXCEPT ![i].pc = "deciding", ![i].signals = s,
                                     ![i].suppressed = b]
    BY <1>5 DEF BindEvidence
  <2> HIDE DEF s, b
  <2>3. \E x \in Active : handlers' = [handlers EXCEPT ![i] = x]
    BY <1>2, <2>1, <2>2 DEF PC
  <2> QED
    BY <1>5, <2>3, HandlerTyped DEF BindEvidence, TypeOK, Active, recordVars, envVars
<1> QED
  BY <1>3, <1>4, <1>5

\* A hit answers with a cached response, a miss goes on to the binding.
LEMMA LookUpType ==
    ASSUME TypeOK, NEW i \in Handler, LookUp(i)
    PROVE  TypeOK'
<1> DEFINE h == handlers[i]
           key == CacheKey(h.req)
<1>0. h \in Active
  BY DEF TypeOK, Active, LookUp, Idle
<1>1. \A pc \in PC : [h EXCEPT !.pc = pc] \in Active
  BY <1>0, MovedTyped
<1>2. \A pc \in PC, a \in Response : [h EXCEPT !.pc = pc, !.resp = a] \in Active
  BY <1>0 DEF Active
<1>3. \E x \in Active : handlers' = [handlers EXCEPT ![i] = x]
  <2>1. CASE key \in DOMAIN decision_cache
    <3>1. decision_cache[key] \in Response
      BY <2>1 DEF TypeOK
    <3> QED
      BY <1>2, <2>1, <3>1 DEF LookUp, PC
  <2>2. CASE key \notin DOMAIN decision_cache
    BY <1>1, <2>2 DEF LookUp, PC
  <2> QED
    BY <2>1, <2>2
<1> QED
  BY <1>3, HandlerTyped DEF LookUp, TypeOK, Active, recordVars, envVars

\* The engine's answer, as Decide puts it together.
LEMMA DecideResponds ==
    ASSUME TypeOK, NEW i \in Handler, Decide(i)
    PROVE  /\ handlers[i] \in Active /\ handlers[i].pc = "deciding"
           /\ \E a \in Response, S \in SUBSET Signal :
                 /\ handlers' = [handlers EXCEPT ![i] =
                       [pc |-> IF handlers[i].req.op = "evaluate" THEN "recording"
                               ELSE "caching",
                        req |-> handlers[i].req, signals |-> {}, suppressed |-> FALSE,
                        resp |-> a]]
                 /\ a.profile = handlers[i].req.profile
                 /\ handlers[i].signals \subseteq S
                 /\ {"unknown_artifact", "known_safe_verdict"} \cap S
                       \subseteq handlers[i].signals
                 /\ a.decision = Evaluate(S, Config[handlers[i].req.profile]).decision
                 /\ a.rule = Evaluate(S, Config[handlers[i].req.profile]).rule
<1> DEFINE h == handlers[i]
           cand == FallbackCandidate(h.req)
           S == h.signals \cup OverrideSignals(h.req.version)
                   \cup IF cand # NoVersion THEN {"fallback_candidate"} ELSE {}
           e == Evaluate(S, Config[h.req.profile])
           a == [decision |-> e.decision, rule |-> e.rule, profile |-> h.req.profile,
                 fallback |-> IF e.rule = "fallback" THEN cand ELSE NoVersion,
                 suppressed |-> h.suppressed]
<1>0. h \in Active /\ h.pc = "deciding"
  BY DEF TypeOK, Active, Decide, Idle
<1>1. h.req.profile \in Profile /\ h.suppressed \in BOOLEAN
  BY <1>0 DEF Active, Request
<1>2. cand \in Coordinate
  BY DEF FallbackCandidate, TypeOK, Coordinate
<1>3. e.decision \in Decision /\ e.rule \in Rule
  BY EvaluateTells
<1>4. OverrideSignals(h.req.version) \subseteq
         {"hitl_required", "emergency_bypass", "active_override"}
  BY DEF OverrideSignals
<1>5. h.signals \subseteq S /\ {"unknown_artifact", "known_safe_verdict"} \cap S \subseteq h.signals
  BY <1>4
<1>s. S \in SUBSET Signal
  BY <1>0, <1>4 DEF Active, Signal, Adverse, Releasing
<1>6. handlers' = [handlers EXCEPT ![i] =
         [pc |-> IF h.req.op = "evaluate" THEN "recording" ELSE "caching",
          req |-> h.req, signals |-> {}, suppressed |-> FALSE, resp |-> a]]
  BY DEF Decide
<1> HIDE DEF S, e
<1>7. a \in Response
  BY <1>1, <1>2, <1>3 DEF Response, Coordinate
<1>8. a.profile = h.req.profile /\ a.decision = e.decision /\ a.rule = e.rule
  OBVIOUS
<1> QED
  BY <1>0, <1>5, <1>s, <1>6, <1>7, <1>8 DEF e

\* The engine answers with a response, whatever it was bound to.
LEMMA DecideType ==
    ASSUME TypeOK, NEW i \in Handler, Decide(i)
    PROVE  TypeOK'
<1> DEFINE h == handlers[i]
<1>0. h \in Active
  BY DecideResponds
<1>1. PICK a \in Response :
         handlers' = [handlers EXCEPT ![i] =
            [pc |-> IF h.req.op = "evaluate" THEN "recording" ELSE "caching",
             req |-> h.req, signals |-> {}, suppressed |-> FALSE, resp |-> a]]
  BY DecideResponds
<1>2. [pc |-> IF h.req.op = "evaluate" THEN "recording" ELSE "caching",
       req |-> h.req, signals |-> {}, suppressed |-> FALSE, resp |-> a] \in Active
  BY <1>0 DEF Active, PC
<1>3. handlers' \in [Handler -> {Idle} \cup Active]
  BY <1>1, <1>2, HandlerTyped
<1>4. overrides' \in [Override -> OverrideRow]
  BY OverrideTypes DEF Decide, TypeOK
<1> QED
  BY <1>3, <1>4 DEF Decide, TypeOK, Active, recordVars, envVars

\* A handler that has decided has a response.
Responded ==
    \A i \in Handler : handlers[i].pc \in Responding => handlers[i].resp \in Response

\* The record of an evaluation is well typed.
LEMMA RecordType ==
    ASSUME TypeOK, NEW i \in Handler, Record(i)
    PROVE  TypeOK'
<1> DEFINE h == handlers[i]
<1>0. h \in Active
  BY DEF TypeOK, Active, Record, Idle
<1>1. h.req \in Request /\ h.req.version \in Coordinate
  BY <1>0 DEF Active, Request
<1>2. \E pc \in PC : handlers' = [handlers EXCEPT ![i] = [h EXCEPT !.pc = pc]]
  BY DEF Record, Fails, AfterRecord, PC
<1>3. handlers' \in [Handler -> {Idle} \cup Active]
  BY <1>0, <1>2, MovedTyped, HandlerTyped
<1>4. CASE Recordable(h)
  <2>1. history' \subseteq {Recorded(r) : r \in Request}
    BY <1>1, <1>4 DEF Record, TypeOK
  <2>2. safe' \in [Coordinate -> SUBSET {"digest", "any"}]
    <3>1. Scope(h.req) \subseteq {"digest", "any"}
      BY DEF Scope
    <3> QED
      BY <1>1, <1>4, <3>1 DEF Record, TypeOK
  <2>3. approved' \in Coordinate
    BY <1>1, <1>4 DEF Record, TypeOK
  <2> QED
    BY <1>3, <2>1, <2>2, <2>3 DEF Record, TypeOK, Active, envVars
<1>5. CASE ~Recordable(h)
  BY <1>3, <1>5 DEF Record, TypeOK, Active, envVars, recordVars
<1> QED
  BY <1>4, <1>5

\* The INSERT of a job is well typed, with a source URL or without.
LEMMA EnqueueType ==
    ASSUME TypeOK, NEW i \in Handler, Enqueue(i)
    PROVE  TypeOK'
<1> DEFINE h == handlers[i]
<1>0. h \in Active
  BY DEF TypeOK, Active, Enqueue, Idle
<1>1. \E pc \in PC : handlers' = [handlers EXCEPT ![i] = [h EXCEPT !.pc = pc]]
  BY DEF Enqueue, PC
<1>2. handlers' \in [Handler -> {Idle} \cup Active]
  BY <1>0, <1>1, MovedTyped, HandlerTyped
<1>3. jobs' \in [Version -> SUBSET {"fetchable", "unfetchable"}]
  BY DEF Enqueue, TypeOK
<1> QED
  BY <1>2, <1>3 DEF Enqueue, TypeOK, Active, envVars, recordVars

\* What is put into the cache is the response of the handler.
LEMMA PutType ==
    ASSUME TypeOK, Responded, NEW i \in Handler, Put(i)
    PROVE  TypeOK'
<1>0. handlers[i] \in Active /\ handlers[i].pc = "caching"
  BY DEF TypeOK, Active, Put, Moves, Idle
<1>1. handlers[i].resp \in Response
  BY <1>0 DEF Responded, Responding
<1>2. handlers' = [handlers EXCEPT ![i] = [handlers[i] EXCEPT !.pc = "answered"]]
  BY DEF Put, Moves
<1>3. handlers' \in [Handler -> {Idle} \cup Active]
  BY <1>0, <1>2, MovedTyped, HandlerTyped DEF PC
<1>4. \A k \in DOMAIN decision_cache' : decision_cache'[k] \in Response
  BY <1>1 DEF Put, TypeOK
<1> QED
  BY <1>3, <1>4 DEF Put, TypeOK, Active, envVars, recordVars

\* The process around the handlers and the rest of the system.
LEMMA OtherType ==
    ASSUME TypeOK,
           \/ \E i \in Handler : Finish(i)
           \/ \E k \in DOMAIN decision_cache : CacheExpires(k)
           \/ Restart \/ EvidenceChanges \/ OverridesChange
    PROVE  TypeOK'
<1>1. ASSUME NEW i \in Handler, Finish(i) PROVE TypeOK'
  BY <1>1 DEF Finish, TypeOK, envVars, recordVars
<1>2. ASSUME NEW k \in DOMAIN decision_cache, CacheExpires(k) PROVE TypeOK'
  <2>1. \A x \in DOMAIN decision_cache' : decision_cache'[x] \in Response
    BY <1>2 DEF CacheExpires, TypeOK
  <2> QED
    BY <1>2, <2>1 DEF CacheExpires, TypeOK, envVars, recordVars
<1>3. CASE Restart
  BY <1>3 DEF Restart, TypeOK, envVars, recordVars
<1>4. CASE EvidenceChanges
  <2> USE DEF TypeOK, EvidenceChanges, recordVars
  <2>1. ASSUME NEW v \in Version, StaticReportStored(v) PROVE TypeOK'
    BY <1>4, <2>1, DigestOfAssumption DEF StaticReportStored, Coordinate
  <2>2. ASSUME NEW d \in Digest,
               SandboxRunCompleted(d) \/ AdvisoryMatched(d) \/ OpenVexImported(d)
        PROVE  TypeOK'
    BY <1>4, <2>2 DEF SandboxRunCompleted, AdvisoryMatched, OpenVexImported
  <2>3. ASSUME NEW c \in Coordinate, NEW s \in Observable, SignalObserved(c, s) PROVE TypeOK'
    BY <1>4, <2>3 DEF SignalObserved
  <2>4. ASSUME NEW p \in Profile, RegistryRebound(p) PROVE TypeOK'
    BY <1>4, <2>4 DEF RegistryRebound
  <2> QED
    BY <1>4, <2>1, <2>2, <2>3, <2>4
<1>5. CASE OverridesChange
  BY <1>5, OverrideTypes DEF OverridesChange, TypeOK, envVars, recordVars
<1> QED
  BY <1>1, <1>2, <1>3, <1>4, <1>5

\* Every response comes from the cache or from Decide.
LEMMA NextResponded ==
    ASSUME TypeOK, Responded, [Next]_vars
    PROVE  Responded'
<1> USE DEF Responded, Responding
<1>h. handlers \in [Handler -> {Idle} \cup Active]
  BY DEF TypeOK, Active
\* A step of one handler that keeps its response and does not start responding.
<1>1. ASSUME NEW i \in Handler, NEW x, handlers' = [handlers EXCEPT ![i] = x],
             x.pc \in Responding => x.resp \in Response
      PROVE  Responded'
  BY <1>h, <1>1
<1>2. ASSUME NEW i \in Handler, HandlerStep(i) PROVE Responded'
  <2> DEFINE h == handlers[i]
  <2>1. CASE LookUp(i)
    <3>0. h \in Active
      BY <1>h, <2>1 DEF LookUp, Idle
    <3>1. CASE CacheKey(h.req) \in DOMAIN decision_cache
      <4>1. decision_cache[CacheKey(h.req)] \in Response
        BY <3>1 DEF TypeOK
      <4> QED
        BY <1>1, <2>1, <3>0, <3>1, <4>1 DEF LookUp, Active
    <3>2. CASE CacheKey(h.req) \notin DOMAIN decision_cache
      BY <1>1, <2>1, <3>0, <3>2 DEF LookUp, Active
    <3> QED
      BY <3>1, <3>2
  <2>2. CASE BindProfile(i) \/ BindSignals(i) \/ BindEvidence(i)
    <3>0. h \in Active
      BY <1>h, <2>2 DEF BindProfile, BindSignals, BindEvidence, Idle
    <3>1. handlers'[i].pc \notin Responding /\ \A j \in Handler \ {i} : handlers'[j] = handlers[j]
      BY <1>h, <2>2, <3>0 DEF BindProfile, BindSignals, BindEvidence, Fails, Active
    <3> QED
      BY <3>1
  <2>3. CASE Decide(i)
    BY <1>1, <2>3, DecideResponds
  <2>4. CASE Record(i) \/ Enqueue(i) \/ Put(i)
    <3>0. h \in Active /\ h.pc \in Responding
      BY <1>h, <2>4 DEF Record, Enqueue, Put, Moves, Idle
    <3>1. \E pc \in PC : handlers' = [handlers EXCEPT ![i] = [h EXCEPT !.pc = pc]]
      BY <2>4 DEF Record, Enqueue, Put, Moves, Fails, AfterRecord, PC
    <3> QED
      BY <1>1, <3>0, <3>1 DEF Active
  <2>5. CASE Finish(i)
    BY <1>1, <2>5 DEF Finish, Idle
  <2> QED
    BY <1>2, <2>1, <2>2, <2>3, <2>4, <2>5 DEF HandlerStep
<1>3. ASSUME NEW i \in Handler, NEW r \in Requests, Begin(i, r) PROVE Responded'
  BY <1>1, <1>3 DEF Begin
<1>4. CASE Restart
  BY <1>4 DEF Restart, Idle
<1>5. CASE UNCHANGED handlers
  BY <1>5
<1> QED
  BY <1>2, <1>3, <1>4, <1>5 DEF Next, CacheExpires, EvidenceChanges, OverridesChange, vars

\* Type correctness, for all values of the constants: also the series of SELECTs
\* of a binding and the answers taken from the cache.
THEOREM TypeCorrect == Spec => [](TypeOK /\ Responded)
<1>1. Init => TypeOK /\ Responded
  BY InitType DEF Init, Responded, Responding, Idle
<1>2. TypeOK /\ Responded /\ [Next]_vars => TypeOK' /\ Responded'
  <2> SUFFICES ASSUME TypeOK, Responded, [Next]_vars PROVE TypeOK' /\ Responded'
    OBVIOUS
  <2>1. CASE UNCHANGED vars
    BY <2>1, NextResponded DEF vars, recordVars, envVars, TypeOK
  <2> QED
    BY <2>1, BeginType, LookUpType, BindType, DecideType, RecordType, EnqueueType, PutType,
       OtherType, NextResponded DEF Next, HandlerStep
<1> QED
  BY <1>1, <1>2, PTL DEF Spec

(***************************************************************************)
(* Answers.  A decision rests on what the SELECTs of its binding saw, in   *)
(* the order they were made, and lives on in the cache and in the verdicts *)
(* on record; the evidence moves on in the meantime.                       *)
(***************************************************************************)

\* The static report is stored and stays below the threshold, if the artifacts
\* row can only be the row of this version.
Analysed(v) ==
    /\ analysis[DigestOf[v]] # "none"
    /\ nature[DigestOf[v]] # "static" \/ SubmittedAsOther(v)

\* The answer lets the artifact pass for a reason other than an override, which
\* always warns.
Passes(a) == a.decision = "ALLOW" \/ (Serves(a.decision) /\ a.rule # "override")

\* What a handler has seen of the evidence still holds, and what it is about to
\* answer is justified.  The request is one of the clients'.
Grounded(h) ==
    /\ h.pc # "idle" => h.req \in Requests
    /\ h.pc \in {"reading-signals", "reading-evidence", "deciding"} =>
          /\ "unknown_artifact" \in h.signals => h.req.digest
          /\ h.req.digest /\ "unknown_artifact" \notin h.signals
                => analysis[DigestOf[h.req.version]] # "none"
          /\ h.req.digest /\ "known_safe_verdict" \in h.signals
                => Analysed(h.req.version)
    /\ h.pc = "deciding" /\ h.req.digest /\ "unknown_artifact" \notin h.signals
          /\ nature[DigestOf[h.req.version]] = "static"
          => "static_analysis_score_violation" \in h.signals \/ SubmittedAsOther(h.req.version)
    /\ h.pc \in Responding /\ h.req.digest /\ Passes(h.resp) => Analysed(h.req.version)

\* An artifact that is vouched for by its digest is analysed ...
SafeAnalysed ==
    \A v \in Coordinate : "digest" \in safe[v] => v \in Version /\ Analysed(v)

\* ... and so is one the cache lets pass.
CacheAnalysed ==
    \A r \in Requests :
        r.digest /\ CacheKey(r) \in DOMAIN decision_cache /\ Passes(decision_cache[CacheKey(r)])
            => Analysed(r.version)

\* A stored report has a row with the coordinate of a job that could be claimed.
RowsLabelled ==
    \A d \in Digest : analysis[d] # "none" =>
        \E v \in Version : label[d] = v /\ DigestOf[v] = d /\ "fetchable" \in jobs[v]

AnsweredInv ==
    /\ RowsLabelled
    /\ \A i \in Handler : Grounded(handlers[i])
    /\ SafeAnalysed
    /\ CacheAnalysed

\* Reports and jobs are stored and never taken back.
EvidenceGrows ==
    /\ UNCHANGED nature
    /\ \A d \in Digest : analysis[d] # "none" => analysis'[d] # "none"
    /\ \A v \in Version : jobs[v] \subseteq jobs'[v]

\* Evidence that grows keeps what is analysed analysed.
LEMMA AnalysedStays ==
    ASSUME EvidenceGrows, NEW v \in Version
    PROVE  /\ SubmittedAsOther(v) => SubmittedAsOther(v)'
           /\ Analysed(v) => Analysed(v)'
           /\ nature'[DigestOf[v]] = nature[DigestOf[v]]
           /\ analysis[DigestOf[v]] # "none" => analysis'[DigestOf[v]] # "none"
BY DigestOfAssumption DEF EvidenceGrows, Analysed, SubmittedAsOther

\* Evidence that only grows leaves a handler as well grounded as it was.
LEMMA GroundedStays ==
    ASSUME EvidenceGrows, NEW h, Grounded(h)
    PROVE  /\ h.pc # "idle" => h.req \in Requests
           /\ h.pc \in {"reading-signals", "reading-evidence", "deciding"} =>
                 /\ "unknown_artifact" \in h.signals => h.req.digest
                 /\ h.req.digest /\ "unknown_artifact" \notin h.signals
                       => analysis'[DigestOf[h.req.version]] # "none"
                 /\ h.req.digest /\ "known_safe_verdict" \in h.signals
                       => Analysed(h.req.version)'
           /\ h.pc = "deciding" /\ h.req.digest /\ "unknown_artifact" \notin h.signals
                 /\ nature'[DigestOf[h.req.version]] = "static"
                 => \/ "static_analysis_score_violation" \in h.signals
                    \/ SubmittedAsOther(h.req.version)'
           /\ h.pc \in Responding /\ h.req.digest /\ Passes(h.resp)
                 => Analysed(h.req.version)'
BY AnalysedStays, RequestsAreRequests DEF Grounded, Responding

\* So it leaves the answers of the cache and the verdicts on record.
LEMMA EvidenceGrowsKeeps ==
    ASSUME TypeOK, AnsweredInv, EvidenceGrows, RowsLabelled',
           UNCHANGED <<handlers, safe, decision_cache>>
    PROVE  AnsweredInv'
<1>1. \A v \in Version : Analysed(v) => Analysed(v)'
  BY AnalysedStays
<1>2. SafeAnalysed'
  BY <1>1 DEF AnsweredInv, SafeAnalysed
<1>3. CacheAnalysed'
  BY <1>1, RequestsAreRequests DEF AnsweredInv, CacheAnalysed
<1>4. ASSUME NEW i \in Handler PROVE Grounded(handlers[i])'
  <2>1. Grounded(handlers[i])
    BY DEF AnsweredInv
  <2> QED
    BY <2>1, GroundedStays DEF Grounded
<1> QED
  BY <1>2, <1>3, <1>4 DEF AnsweredInv

\* A handler's step leaves the evidence and the other handlers alone.
LEMMA HandlerKeeps ==
    ASSUME TypeOK, AnsweredInv, UNCHANGED <<analysis, label, nature, jobs>>, NEW i \in Handler,
           NEW x, handlers' = [handlers EXCEPT ![i] = x], Grounded(x),
           SafeAnalysed', CacheAnalysed'
    PROVE  AnsweredInv'
<1>1. \A j \in Handler : handlers'[j] = IF j = i THEN x ELSE handlers[j]
  BY DEF TypeOK
<1>2. RowsLabelled'
  BY DEF AnsweredInv, RowsLabelled
<1> QED
  BY <1>1, <1>2 DEF AnsweredInv, Grounded, Analysed, SubmittedAsOther

\* So does one that changes neither the verdicts on record nor the cache.
LEMMA HandlerMoves ==
    ASSUME TypeOK, AnsweredInv, NEW i \in Handler, NEW x,
           handlers' = [handlers EXCEPT ![i] = x], Grounded(x),
           UNCHANGED <<analysis, label, nature, jobs, safe, decision_cache>>
    PROVE  AnsweredInv'
<1>1. SafeAnalysed' /\ CacheAnalysed'
  BY DEF AnsweredInv, SafeAnalysed, CacheAnalysed, Analysed, SubmittedAsOther
<1> QED
  BY <1>1, HandlerKeeps

\* And so does the INSERT of a job.
LEMMA HandlerGrows ==
    ASSUME TypeOK, AnsweredInv, EvidenceGrows, RowsLabelled', NEW i \in Handler, NEW x,
           handlers' = [handlers EXCEPT ![i] = x], Grounded(x),
           UNCHANGED <<safe, decision_cache>>
    PROVE  AnsweredInv'
<1>1. \A v \in Version : Analysed(v) => Analysed(v)'
  BY AnalysedStays
<1>2. SafeAnalysed'
  BY <1>1 DEF AnsweredInv, SafeAnalysed
<1>3. CacheAnalysed'
  BY <1>1, RequestsAreRequests DEF AnsweredInv, CacheAnalysed
<1>4. \A j \in Handler : handlers'[j] = IF j = i THEN x ELSE handlers[j]
  BY DEF TypeOK
<1>5. ASSUME NEW j \in Handler PROVE Grounded(handlers[j])'
  <2>1. Grounded(handlers[j])
    BY DEF AnsweredInv
  <2>2. CASE j = i
    BY <1>4, <2>2, GroundedStays DEF Grounded
  <2>3. CASE j # i
    BY <1>4, <2>1, <2>3, GroundedStays DEF Grounded
  <2> QED
    BY <2>2, <2>3
<1> QED
  BY <1>2, <1>3, <1>5 DEF AnsweredInv

\* What a step of a handler that serves a request starts from.
LEMMA ServingFacts ==
    ASSUME TypeOK, AnsweredInv, NEW i \in Handler, handlers[i].pc # "idle"
    PROVE  /\ handlers[i] \in Active /\ Grounded(handlers[i])
           /\ handlers[i].req \in Requests /\ handlers[i].req \in Request
           /\ handlers[i].req.digest => handlers[i].req.version \in Version
<1>1. handlers[i] \in Active /\ Grounded(handlers[i])
  BY DEF TypeOK, AnsweredInv, Active, Idle
<1> QED
  BY <1>1, RequestsAreRequests DEF Grounded

\* A hit answers what the cache is justified to answer.
LEMMA LookUpKeeps ==
    ASSUME TypeOK, AnsweredInv, NEW i \in Handler, LookUp(i)
    PROVE  AnsweredInv'
<1> DEFINE h == handlers[i]
           key == CacheKey(h.req)
<1>0. h \in Active /\ Grounded(h) /\ h.req \in Requests /\ h.pc = "looking-up"
  BY ServingFacts DEF LookUp
<1>1. CASE key \in DOMAIN decision_cache
  <2> DEFINE x == [h EXCEPT !.pc = IF h.req.op = "evaluate" THEN "recording-hit" ELSE "answered",
                            !.resp = decision_cache[key]]
  <2>1. /\ handlers' = [handlers EXCEPT ![i] = x]
        /\ UNCHANGED <<analysis, label, nature, jobs, safe, decision_cache>>
    BY <1>1 DEF LookUp, recordVars, envVars
  <2>2. x.req = h.req /\ x.resp = decision_cache[key] /\ x.pc \in {"recording-hit", "answered"}
    BY <1>0 DEF Active
  <2>3. h.req.digest /\ Passes(decision_cache[key]) => Analysed(h.req.version)
    BY <1>0, <1>1 DEF AnsweredInv, CacheAnalysed
  <2> HIDE DEF x
  <2>4. Grounded(x)
    BY <1>0, <2>2, <2>3 DEF Grounded
  <2> QED
    BY <2>1, <2>4, HandlerMoves
<1>2. CASE key \notin DOMAIN decision_cache
  <2> DEFINE x == [h EXCEPT !.pc = "binding"]
  <2>1. /\ handlers' = [handlers EXCEPT ![i] = x]
        /\ UNCHANGED <<analysis, label, nature, jobs, safe, decision_cache>>
    BY <1>2 DEF LookUp, recordVars, envVars
  <2>2. Grounded(x)
    BY <1>0 DEF Grounded, Active, Responding
  <2> QED
    BY <2>1, <2>2, HandlerMoves
<1> QED
  BY <1>1, <1>2

\* The SELECTs of a binding.
LEMMA BindKeeps ==
    ASSUME TypeOK, AnsweredInv, NEW i \in Handler,
           BindProfile(i) \/ BindSignals(i) \/ BindEvidence(i)
    PROVE  AnsweredInv'
<1> DEFINE h == handlers[i]
           r == h.req
<1>0. /\ h \in Active /\ Grounded(h) /\ r \in Requests /\ r \in Request
      /\ r.digest => r.version \in Version
  BY ServingFacts DEF BindProfile, BindSignals, BindEvidence
<1>u. UNCHANGED <<analysis, label, nature, jobs, safe, decision_cache>>
  BY DEF BindProfile, BindSignals, BindEvidence, recordVars, envVars
<1>1. CASE BindProfile(i)
  <2> DEFINE s == IF r.digest /\ ~ArtifactExists(r) THEN {"unknown_artifact"} ELSE {}
  <2>1. CASE ~RegistryPolicyMatches(r)
    <3>1. handlers' = [handlers EXCEPT ![i] = [h EXCEPT !.pc = "failed"]]
      BY <1>1, <2>1 DEF BindProfile, Fails
    <3>2. Grounded([h EXCEPT !.pc = "failed"])
      BY <1>0 DEF Grounded, Active, Responding
    <3> QED
      BY <1>u, <3>1, <3>2, HandlerMoves
  <2>2. CASE RegistryPolicyMatches(r)
    <3> DEFINE x == [h EXCEPT !.pc = "reading-signals", !.signals = s]
    <3>1. handlers' = [handlers EXCEPT ![i] = x]
      BY <1>1, <2>2 DEF BindProfile
    <3>2. x.pc = "reading-signals" /\ x.req = r /\ x.signals = s
      BY <1>0 DEF Active
    <3>3. /\ "unknown_artifact" \in s => r.digest
          /\ r.digest /\ "unknown_artifact" \notin s => analysis[DigestOf[r.version]] # "none"
          /\ "known_safe_verdict" \notin s
      BY <1>0 DEF ArtifactExists
    <3> HIDE DEF x, s
    <3>4. Grounded(x)
      BY <1>0, <3>2, <3>3 DEF Grounded, Responding
    <3> QED
      BY <1>u, <3>1, <3>4, HandlerMoves
  <2> QED
    BY <2>1, <2>2
<1>2. CASE BindSignals(i)
  <2> DEFINE t == observed[r.version]
                     \cup IF KnownSafe(r) THEN {"known_safe_verdict"} ELSE {}
             x == [h EXCEPT !.pc = "reading-evidence", !.signals = @ \cup t]
  <2>1. handlers' = [handlers EXCEPT ![i] = x] /\ h.pc = "reading-signals"
    BY <1>2 DEF BindSignals
  <2>2. x.pc = "reading-evidence" /\ x.req = r /\ x.signals = h.signals \cup t
    BY <1>0 DEF Active
  <2>3. "unknown_artifact" \notin t
    BY <1>0, BoundSignals
  <2>4. "known_safe_verdict" \in t /\ r.digest => Analysed(r.version)
    <3>1. "known_safe_verdict" \in t => KnownSafe(r)
      BY <1>0, BoundSignals
    <3>2. r.version \in Coordinate
      BY <1>0 DEF Request
    <3> QED
      BY <3>1, <3>2 DEF KnownSafe, AnsweredInv, SafeAnalysed
  <2> HIDE DEF x, t
  <2>5. Grounded(x)
    BY <1>0, <2>1, <2>2, <2>3, <2>4 DEF Grounded, Responding
  <2> QED
    BY <1>u, <2>1, <2>5, HandlerMoves
<1>3. CASE BindEvidence(i)
  <2> DEFINE t == IF Joins(r)
                  THEN AnalysisSignals(DigestOf[r.version]) \cup VulnerabilitySignals(r) ELSE {}
             b == /\ Joins(r)
                  /\ advisory[DigestOf[r.version]] = "suppressed"
                  /\ r.op # "query"
             x == [h EXCEPT !.pc = "deciding", !.signals = @ \cup t, !.suppressed = b]
  <2>1. handlers' = [handlers EXCEPT ![i] = x] /\ h.pc = "reading-evidence"
    BY <1>3 DEF BindEvidence
  <2>2. x.pc = "deciding" /\ x.req = r /\ x.signals = h.signals \cup t
    BY <1>0 DEF Active
  <2>3. "unknown_artifact" \notin t /\ "known_safe_verdict" \notin t
    BY <1>0, BoundSignals DEF Joins
  \* The row that makes the artifact known is of this version, or of another one
  \* that was submitted.
  <2>4. r.digest /\ analysis[DigestOf[r.version]] # "none"
           /\ nature[DigestOf[r.version]] = "static"
           => "static_analysis_score_violation" \in t \/ SubmittedAsOther(r.version)
    <3> SUFFICES ASSUME r.digest, analysis[DigestOf[r.version]] # "none",
                        nature[DigestOf[r.version]] = "static", ~SubmittedAsOther(r.version)
                 PROVE  "static_analysis_score_violation" \in t
      OBVIOUS
    <3>1. PICK w \in Version : /\ label[DigestOf[r.version]] = w
                               /\ DigestOf[w] = DigestOf[r.version]
                               /\ "fetchable" \in jobs[w]
      BY <1>0, DigestOfAssumption DEF AnsweredInv, RowsLabelled
    <3>2. w = r.version
      BY <3>1 DEF SubmittedAsOther
    <3> QED
      BY <1>0, <3>1, <3>2 DEF AnalysisSignals, Joins
  <2> HIDE DEF x, t
  <2>5. Grounded(x)
    BY <1>0, <2>1, <2>2, <2>3, <2>4 DEF Grounded, Responding
  <2> QED
    BY <1>u, <2>1, <2>5, HandlerMoves
<1> QED
  BY <1>1, <1>2, <1>3

\* The engine lets an artifact pass only on the evidence.
LEMMA DecideKeeps ==
    ASSUME TypeOK, AnsweredInv, NEW i \in Handler, Decide(i)
    PROVE  AnsweredInv'
<1> DEFINE h == handlers[i]
           r == h.req
<1>0. h \in Active /\ Grounded(h) /\ r \in Requests /\ h.pc = "deciding"
  BY ServingFacts DEF Decide
<1>1. PICK a \in Response, S \in SUBSET Signal :
         /\ handlers' = [handlers EXCEPT ![i] =
               [pc |-> IF r.op = "evaluate" THEN "recording" ELSE "caching",
                req |-> r, signals |-> {}, suppressed |-> FALSE, resp |-> a]]
         /\ h.signals \subseteq S
         /\ {"unknown_artifact", "known_safe_verdict"} \cap S \subseteq h.signals
         /\ a.decision = Evaluate(S, Config[r.profile]).decision
         /\ a.rule = Evaluate(S, Config[r.profile]).rule
  BY DecideResponds
<1>2. r.digest /\ Passes(a) => Analysed(r.version)
  <2> SUFFICES ASSUME r.digest, Passes(a) PROVE Analysed(r.version)
    OBVIOUS
  <2>1. \/ "known_safe_verdict" \in S
        \/ S \cap RiskSignal = {} /\ "unknown_artifact" \notin S
    BY <1>1, EvaluateTells DEF Passes
  <2>2. "static_analysis_score_violation" \in RiskSignal
    BY DEF RiskSignal
  <2> QED
    BY <1>0, <1>1, <2>1, <2>2 DEF Grounded, Analysed
<1> DEFINE x == [pc |-> IF r.op = "evaluate" THEN "recording" ELSE "caching",
                 req |-> r, signals |-> {}, suppressed |-> FALSE, resp |-> a]
<1>3. x.req = r /\ x.resp = a /\ x.pc \in {"recording", "caching"}
  OBVIOUS
<1>4. handlers' = [handlers EXCEPT ![i] = x]
  BY <1>1
<1> HIDE DEF x
<1>5. Grounded(x)
  BY <1>0, <1>2, <1>3 DEF Grounded
<1> QED
  BY <1>4, <1>5, HandlerMoves DEF Decide, recordVars, envVars

\* The verdict on record: an ALLOW vouches for what was asked about only.
LEMMA RecordKeeps ==
    ASSUME TypeOK, AnsweredInv, NEW i \in Handler, Record(i)
    PROVE  AnsweredInv'
<1> DEFINE h == handlers[i]
           r == h.req
<1>0. /\ h \in Active /\ Grounded(h) /\ r \in Requests /\ r \in Request
      /\ r.digest => r.version \in Version
      /\ h.pc \in {"recording", "recording-hit"}
  BY ServingFacts DEF Record
<1>1. PICK pc \in {"enqueuing", "answered", "failed"} :
         handlers' = [handlers EXCEPT ![i] = [h EXCEPT !.pc = pc]]
  BY DEF Record, Fails, AfterRecord
<1> DEFINE x == [h EXCEPT !.pc = pc]
<1>2. x.pc = pc /\ x.req = r /\ x.resp = h.resp
  BY <1>0 DEF Active
<1> HIDE DEF x
<1>3. Grounded(x)
  BY <1>0, <1>2 DEF Grounded, Responding
<1>4. SafeAnalysed'
  <2>1. CASE ~Recordable(h)
    BY <2>1 DEF Record, recordVars, envVars, AnsweredInv, SafeAnalysed, Analysed, SubmittedAsOther
  <2>2. CASE Recordable(h)
    <3>1. /\ safe' = [safe EXCEPT ![r.version] =
                         IF Vouches(h.resp.decision) THEN @ \cup Scope(r) ELSE @ \ Scope(r)]
          /\ UNCHANGED <<analysis, label, nature, jobs>>
      BY <2>2 DEF Record, envVars
    <3>2. ASSUME NEW v \in Coordinate, "digest" \in safe'[v], "digest" \notin safe[v]
          PROVE  v = r.version /\ r.digest /\ h.resp.decision = "ALLOW"
      BY <1>0, <3>1, <3>2 DEF TypeOK, Scope, Vouches
    <3>3. r.digest /\ h.resp.decision = "ALLOW" => Analysed(r.version)
      BY <1>0 DEF Grounded, Passes, Responding
    <3> QED
      BY <1>0, <3>1, <3>2, <3>3 DEF AnsweredInv, SafeAnalysed, Analysed, SubmittedAsOther
  <2> QED
    BY <2>1, <2>2
<1>5. CacheAnalysed' /\ UNCHANGED <<analysis, label, nature, jobs>>
  BY DEF Record, envVars, AnsweredInv, CacheAnalysed, Analysed, SubmittedAsOther
<1> QED
  BY <1>1, <1>3, <1>4, <1>5, HandlerKeeps DEF x

\* The entry of a request answers the requests that share its key.
LEMMA PutKeeps ==
    ASSUME TypeOK, AnsweredInv, NEW i \in Handler, Put(i)
    PROVE  AnsweredInv'
<1> DEFINE h == handlers[i]
           q == h.req
           x == [h EXCEPT !.pc = "answered"]
<1>0. h \in Active /\ Grounded(h) /\ q \in Requests /\ q \in Request /\ h.pc = "caching"
  BY ServingFacts DEF Put, Moves
<1>1. /\ handlers' = [handlers EXCEPT ![i] = x]
      /\ UNCHANGED <<analysis, label, nature, jobs, safe>>
  BY DEF Put, Moves, recordVars, envVars
<1>2. x.pc = "answered" /\ x.req = q /\ x.resp = h.resp
  BY <1>0 DEF Active
<1> HIDE DEF x
<1>3. Grounded(x)
  BY <1>0, <1>2 DEF Grounded, Responding
<1>4. SafeAnalysed'
  BY <1>1 DEF AnsweredInv, SafeAnalysed, Analysed, SubmittedAsOther
<1>5. CacheAnalysed'
  <2> SUFFICES ASSUME NEW r \in Requests, r.digest, CacheKey(r) \in DOMAIN decision_cache',
                      Passes(decision_cache'[CacheKey(r)])
               PROVE  Analysed(r.version)
    BY <1>1 DEF CacheAnalysed, Analysed, SubmittedAsOther, Passes
  <2>1. CASE CacheKey(r) = CacheKey(q)
    <3>1. r.version = q.version /\ r.digest = q.digest
      BY <1>0, <2>1, RequestsAreRequests, CacheKeyTells
    <3>2. Passes(h.resp)
      BY <2>1 DEF Put
    <3> QED
      BY <1>0, <3>1, <3>2 DEF Grounded, Responding
  <2>2. CASE CacheKey(r) # CacheKey(q)
    BY <2>2 DEF Put, AnsweredInv, CacheAnalysed
  <2> QED
    BY <2>1, <2>2
<1> QED
  BY <1>1, <1>3, <1>4, <1>5, HandlerKeeps

\* No step breaks the invariant.
LEMMA NextAnswered ==
    ASSUME TypeOK, AnsweredInv, [Next]_vars
    PROVE  AnsweredInv'
<1>1. ASSUME NEW i \in Handler, NEW r \in Requests, Begin(i, r) PROVE AnsweredInv'
  <2> DEFINE x == [pc |-> "looking-up", req |-> r, signals |-> {},
                   suppressed |-> FALSE, resp |-> NoResponse]
  <2>1. Grounded(x)
    BY DEF Grounded, Responding
  <2> QED
    BY <1>1, <2>1, HandlerMoves DEF Begin, recordVars, envVars
<1>2. ASSUME NEW i \in Handler, Enqueue(i) PROVE AnsweredInv'
  <2>0. handlers[i] \in Active /\ Grounded(handlers[i]) /\ handlers[i].pc = "enqueuing"
    BY <1>2, ServingFacts DEF Enqueue
  <2>1. PICK pc \in {"failed", "caching"} :
           handlers' = [handlers EXCEPT ![i] = [handlers[i] EXCEPT !.pc = pc]]
    BY <1>2 DEF Enqueue
  <2>2. Grounded([handlers[i] EXCEPT !.pc = pc])
    BY <2>0 DEF Grounded, Responding, Active
  <2>3. \A v \in Version : jobs[v] \subseteq jobs'[v]
    BY <1>2 DEF Enqueue, TypeOK
  <2>4. UNCHANGED <<analysis, label, nature, safe, decision_cache>>
    BY <1>2 DEF Enqueue, recordVars, envVars
  <2>5. EvidenceGrows
    BY <2>3, <2>4 DEF EvidenceGrows
  <2>6. RowsLabelled'
    BY <2>3, <2>4 DEF AnsweredInv, RowsLabelled
  <2> QED
    BY <2>1, <2>2, <2>4, <2>5, <2>6, HandlerGrows
<1>3. ASSUME NEW i \in Handler, Finish(i) PROVE AnsweredInv'
  <2>1. Grounded(Idle)
    BY DEF Grounded, Idle, Responding
  <2> QED
    BY <1>3, <2>1, HandlerMoves DEF Finish, recordVars, envVars
<1>4. ASSUME NEW k \in DOMAIN decision_cache, CacheExpires(k) PROVE AnsweredInv'
  BY <1>4 DEF CacheExpires, recordVars, envVars, AnsweredInv, Grounded, SafeAnalysed,
     CacheAnalysed, Analysed, SubmittedAsOther, RowsLabelled
<1>5. CASE Restart
  <2>1. DOMAIN decision_cache' = {}
    BY <1>5 DEF Restart
  <2>2. CacheAnalysed'
    BY <2>1 DEF CacheAnalysed
  <2>3. \A i \in Handler : Grounded(handlers[i])'
    BY <1>5 DEF Restart, Grounded, Idle, Responding
  <2> QED
    BY <1>5, <2>2, <2>3 DEF Restart, recordVars, envVars, AnsweredInv, SafeAnalysed, Analysed,
       SubmittedAsOther, RowsLabelled
<1>6. CASE EvidenceChanges
  <2>0. UNCHANGED <<handlers, safe, decision_cache, jobs>>
    BY <1>6 DEF EvidenceChanges, recordVars
  <2>1. ASSUME NEW v \in Version, StaticReportStored(v)
        PROVE  EvidenceGrows /\ RowsLabelled'
    <3>1. DigestOf[v] \in Digest
      BY DigestOfAssumption
    <3>2. \A d \in Digest : /\ d = DigestOf[v] => analysis'[d] # "none" /\ label'[d] = v
                            /\ d # DigestOf[v] => analysis'[d] = analysis[d] /\ label'[d] = label[d]
      BY <2>1, <3>1 DEF StaticReportStored, TypeOK
    <3>3. RowsLabelled'
      BY <2>0, <2>1, <3>2 DEF AnsweredInv, RowsLabelled, StaticReportStored
    <3> QED
      BY <2>0, <2>1, <3>2, <3>3 DEF EvidenceGrows, StaticReportStored
  <2>2. ASSUME NEW d \in Digest,
               SandboxRunCompleted(d) \/ AdvisoryMatched(d) \/ OpenVexImported(d)
        PROVE  EvidenceGrows /\ RowsLabelled'
    <3>1. /\ UNCHANGED <<nature, label>>
          /\ \A e \in Digest : analysis'[e] # "none" <=> analysis[e] # "none"
      BY <2>2 DEF SandboxRunCompleted, AdvisoryMatched, OpenVexImported, TypeOK
    <3> QED
      BY <2>0, <3>1 DEF AnsweredInv, RowsLabelled, EvidenceGrows
  <2>3. ASSUME UNCHANGED <<analysis, label, nature>> PROVE EvidenceGrows /\ RowsLabelled'
    BY <2>0, <2>3 DEF AnsweredInv, RowsLabelled, EvidenceGrows
  <2>4. EvidenceGrows /\ RowsLabelled'
    BY <1>6, <2>1, <2>2, <2>3 DEF EvidenceChanges, SignalObserved, RegistryRebound
  <2> QED
    BY <2>0, <2>4, EvidenceGrowsKeeps
<1>7. CASE OverridesChange \/ UNCHANGED vars
  BY <1>7, EvidenceGrowsKeeps DEF OverridesChange, vars, recordVars, envVars, EvidenceGrows,
     AnsweredInv, RowsLabelled
<1> QED
  BY <1>1, <1>2, <1>3, <1>4, <1>5, <1>6, <1>7, LookUpKeeps, BindKeeps, DecideKeeps,
     RecordKeeps, PutKeeps DEF Next, HandlerStep

\* The inductive invariant of ServedIsAnalysed, in every reachable state.
THEOREM AnsweredInvariance == Spec => []AnsweredInv
<1>1. Init => AnsweredInv
  <2> SUFFICES ASSUME Init PROVE AnsweredInv
    OBVIOUS
  <2>1. \A i \in Handler : Grounded(handlers[i])
    BY DEF Init, Idle, Grounded, Responding
  <2>2. DOMAIN decision_cache = {}
    BY DEF Init
  <2> QED
    BY <2>1, <2>2 DEF Init, AnsweredInv, SafeAnalysed, CacheAnalysed, RowsLabelled
<1>2. TypeOK /\ AnsweredInv /\ [Next]_vars => AnsweredInv'
  BY NextAnswered
<1> QED
  BY <1>1, <1>2, TypeCorrect, PTL DEF Spec

\* No artifact is handed out by its digest unless its bytes have been analysed or
\* an override says so, and none whose report is over the threshold unless the
\* same bytes have been submitted under another version: for any number of
\* requests, versions, profiles and contents, all clients, and whatever happens
\* between the SELECTs of an evaluation.
THEOREM ServedOnlyAnalysed == Spec => []ServedIsAnalysed
<1>1. AnsweredInv => ServedIsAnalysed
  BY DEF AnsweredInv, Grounded, ServedIsAnalysed, Answered, Passes, Analysed, Responding
<1> QED
  BY <1>1, AnsweredInvariance, PTL

(***************************************************************************)
(* Profiles.  The key of an evaluation names no profile; the check of      *)
(* persisted_decision_record stands between the cache and the answer.      *)
(***************************************************************************)

\* A response that is past Record, or was never cached, is of the own profile.
OwnProfile(h) ==
    h.pc \in {"recording", "enqueuing", "caching", "answered"} /\ h.req.op = "evaluate"
        => h.resp.profile = h.req.profile

ProfileKept == \A i \in Handler : OwnProfile(handlers[i])

\* Every step leaves an evaluation's answer under the profile it asked for.
LEMMA NextProfile ==
    ASSUME TypeOK, Responded, ProfileKept, [Next]_vars
    PROVE  ProfileKept'
<1>h. handlers \in [Handler -> {Idle} \cup Active]
  BY DEF TypeOK, Active
<1>1. ASSUME NEW i \in Handler, NEW x, handlers' = [handlers EXCEPT ![i] = x], OwnProfile(x)
      PROVE  ProfileKept'
  BY <1>h, <1>1 DEF ProfileKept, OwnProfile
<1>2. ASSUME NEW i \in Handler, HandlerStep(i) PROVE ProfileKept'
  <2> DEFINE h == handlers[i]
  <2>0. OwnProfile(h)
    BY DEF ProfileKept
  <2>1. CASE LookUp(i)
    <3>0. h \in Active
      BY <1>h, <2>1 DEF LookUp, Idle
    <3>1. CASE CacheKey(h.req) \in DOMAIN decision_cache
      BY <1>1, <2>1, <3>0, <3>1 DEF LookUp, Active, OwnProfile
    <3>2. CASE CacheKey(h.req) \notin DOMAIN decision_cache
      BY <1>1, <2>1, <3>0, <3>2 DEF LookUp, Active, OwnProfile
    <3> QED
      BY <3>1, <3>2
  <2>2. CASE BindProfile(i) \/ BindSignals(i) \/ BindEvidence(i)
    <3>0. h \in Active
      BY <1>h, <2>2 DEF BindProfile, BindSignals, BindEvidence, Idle
    <3>1. /\ handlers'[i].pc \in {"failed", "reading-signals", "reading-evidence", "deciding"}
          /\ \A j \in Handler \ {i} : handlers'[j] = handlers[j]
      BY <1>h, <2>2, <3>0 DEF BindProfile, BindSignals, BindEvidence, Fails, Active
    <3> QED
      BY <3>1 DEF ProfileKept, OwnProfile
  <2>3. CASE Decide(i)
    <3>1. PICK a \in Response :
             /\ handlers' = [handlers EXCEPT ![i] =
                   [pc |-> IF h.req.op = "evaluate" THEN "recording" ELSE "caching",
                    req |-> h.req, signals |-> {}, suppressed |-> FALSE, resp |-> a]]
             /\ a.profile = h.req.profile
      BY <2>3, DecideResponds
    <3> DEFINE x == [pc |-> IF h.req.op = "evaluate" THEN "recording" ELSE "caching",
                     req |-> h.req, signals |-> {}, suppressed |-> FALSE, resp |-> a]
    <3>2. x.resp = a /\ x.req = h.req
      OBVIOUS
    <3>3. OwnProfile(x)
      BY <3>1, <3>2 DEF OwnProfile
    <3> QED
      BY <1>1, <3>1, <3>3
  <2>4. CASE Record(i)
    <3>0. h \in Active
      BY <1>h, <2>4 DEF Record, Idle
    <3>1. CASE Recordable(h)
      BY <1>1, <2>4, <3>0, <3>1 DEF Record, Recordable, AfterRecord, Active, OwnProfile
    <3>2. CASE ~Recordable(h)
      BY <1>1, <2>4, <3>0, <3>2 DEF Record, Fails, Active, OwnProfile
    <3> QED
      BY <3>1, <3>2
  <2>5. CASE Enqueue(i) \/ Put(i)
    <3>0. h \in Active /\ h.pc \in {"enqueuing", "caching"}
      BY <1>h, <2>5 DEF Enqueue, Put, Moves, Idle
    <3>1. \E pc \in PC : handlers' = [handlers EXCEPT ![i] = [h EXCEPT !.pc = pc]]
      BY <2>5 DEF Enqueue, Put, Moves, PC
    <3> QED
      BY <1>1, <2>0, <3>0, <3>1 DEF Active, OwnProfile
  <2>6. CASE Finish(i)
    BY <1>1, <2>6 DEF Finish, Idle, OwnProfile
  <2> QED
    BY <1>2, <2>1, <2>2, <2>3, <2>4, <2>5, <2>6 DEF HandlerStep
<1>3. ASSUME NEW i \in Handler, NEW r \in Requests, Begin(i, r) PROVE ProfileKept'
  BY <1>1, <1>3 DEF Begin, OwnProfile
<1>4. CASE Restart
  BY <1>4 DEF Restart, Idle, ProfileKept, OwnProfile
<1>5. CASE UNCHANGED handlers
  BY <1>5 DEF ProfileKept, OwnProfile
<1> QED
  BY <1>2, <1>3, <1>4, <1>5 DEF Next, CacheExpires, EvidenceChanges, OverridesChange, vars

\* Every evaluation is answered under the profile it asked for, for any number of
\* requests and profiles and however the registry is rebound.
THEOREM AnsweredForOwnProfile == Spec => []AnswerOfOwnProfile
<1>1. Init => ProfileKept
  BY DEF Init, Idle, ProfileKept, OwnProfile
<1>2. TypeOK /\ Responded /\ ProfileKept /\ [Next]_vars => ProfileKept'
  BY NextProfile
<1>3. ProfileKept => AnswerOfOwnProfile
  BY DEF ProfileKept, OwnProfile, AnswerOfOwnProfile, Answered
<1> QED
  BY <1>1, <1>2, <1>3, TypeCorrect, PTL DEF Spec

(***************************************************************************)
(* Quarantine.  A job is enqueued before the answer is cached, and is      *)
(* never taken back.  Simulations share the evaluations' cache keys and    *)
(* enqueue nothing, so they are left out.                                  *)
(***************************************************************************)

Quarantines(a) == a.decision = "QUARANTINE_PENDING_ANALYSIS"

\* The artifact has a job that a Surgeon can claim.
Enqueued(v) == v \in Version /\ "fetchable" \in jobs[v]

\* A quarantine is about an artifact, and past Enqueue the job is there.
JobFollows(h) ==
    h.pc \in Responding /\ h.req.op = "evaluate" /\ Quarantines(h.resp) =>
        /\ h.req.version \in Version
        /\ h.pc \notin {"recording", "enqueuing"} => Enqueued(h.req.version)

JobsInv ==
    /\ \A i \in Handler : JobFollows(handlers[i])
    /\ \A r \in Requests :
          r.op = "evaluate" /\ CacheKey(r) \in DOMAIN decision_cache
             /\ Quarantines(decision_cache[CacheKey(r)])
             => Enqueued(r.version)

\* A step that takes no job away, and adds nothing to the cache.
LEMMA JobsKept ==
    ASSUME TypeOK, JobsInv, NEW i \in Handler, NEW x,
           handlers' = [handlers EXCEPT ![i] = x], JobFollows(x),
           UNCHANGED <<jobs, decision_cache>>
    PROVE  JobsInv'
<1>1. \A j \in Handler : handlers'[j] = IF j = i THEN x ELSE handlers[j]
  BY DEF TypeOK
<1> QED
  BY <1>1 DEF JobsInv, JobFollows, Enqueued

\* Every step keeps a claimable job behind each quarantine answer.
LEMMA NextJobs ==
    ASSUME TypeOK, AnsweredInv, JobsInv, "simulation" \notin Clients, [Next]_vars
    PROVE  JobsInv'
<1>h. handlers \in [Handler -> {Idle} \cup Active]
  BY DEF TypeOK, Active
<1>1. ASSUME NEW i \in Handler, LookUp(i) PROVE JobsInv'
  <2> DEFINE h == handlers[i]
             key == CacheKey(h.req)
  <2>0. h \in Active /\ h.req \in Requests
    BY <1>1, ServingFacts DEF LookUp
  <2>1. CASE key \in DOMAIN decision_cache
    <3> DEFINE x == [h EXCEPT !.pc = IF h.req.op = "evaluate" THEN "recording-hit" ELSE "answered",
                              !.resp = decision_cache[key]]
    <3>1. x.req = h.req /\ x.resp = decision_cache[key]
      BY <2>0 DEF Active
    <3>2. handlers' = [handlers EXCEPT ![i] = x] /\ UNCHANGED <<jobs, decision_cache>>
      BY <1>1, <2>1 DEF LookUp
    <3> HIDE DEF x
    <3>3. JobFollows(x)
      BY <2>0, <2>1, <3>1 DEF JobsInv, JobFollows, Enqueued
    <3> QED
      BY <3>2, <3>3, JobsKept
  <2>2. CASE key \notin DOMAIN decision_cache
    <3>1. JobFollows([h EXCEPT !.pc = "binding"])
      BY <2>0 DEF JobFollows, Responding, Active
    <3> QED
      BY <1>1, <2>2, <3>1, JobsKept DEF LookUp
  <2> QED
    BY <2>1, <2>2
<1>2. ASSUME NEW i \in Handler, BindProfile(i) \/ BindSignals(i) \/ BindEvidence(i)
      PROVE  JobsInv'
  <2>0. handlers[i] \in Active
    BY <1>2, ServingFacts DEF BindProfile, BindSignals, BindEvidence
  <2>1. /\ handlers'[i].pc \notin Responding
        /\ \A j \in Handler \ {i} : handlers'[j] = handlers[j]
    BY <1>h, <1>2, <2>0 DEF BindProfile, BindSignals, BindEvidence, Fails, Active, Responding
  <2> QED
    BY <1>2, <2>1 DEF BindProfile, BindSignals, BindEvidence, JobsInv, JobFollows, Enqueued
<1>3. ASSUME NEW i \in Handler, Decide(i) PROVE JobsInv'
  <2> DEFINE h == handlers[i]
  <2>0. h \in Active /\ Grounded(h) /\ h.pc = "deciding"
        /\ (h.req.digest => h.req.version \in Version)
    BY <1>3, ServingFacts DEF Decide
  <2>1. PICK a \in Response, S \in SUBSET Signal :
           /\ handlers' = [handlers EXCEPT ![i] =
                 [pc |-> IF h.req.op = "evaluate" THEN "recording" ELSE "caching",
                  req |-> h.req, signals |-> {}, suppressed |-> FALSE, resp |-> a]]
           /\ {"unknown_artifact", "known_safe_verdict"} \cap S \subseteq h.signals
           /\ a.decision = Evaluate(S, Config[h.req.profile]).decision
    BY <1>3, DecideResponds
  <2>2. Quarantines(a) => h.req.version \in Version
    BY <2>0, <2>1, EvaluateTells DEF Quarantines, Grounded
  <2> DEFINE x == [pc |-> IF h.req.op = "evaluate" THEN "recording" ELSE "caching",
                   req |-> h.req, signals |-> {}, suppressed |-> FALSE, resp |-> a]
  <2>3. x.req = h.req /\ x.resp = a /\ (h.req.op = "evaluate" => x.pc = "recording")
    OBVIOUS
  <2>4. JobFollows(x)
    BY <2>2, <2>3 DEF JobFollows
  <2> QED
    BY <1>3, <2>1, <2>4, JobsKept DEF Decide
<1>4. ASSUME NEW i \in Handler, Record(i) PROVE JobsInv'
  <2> DEFINE h == handlers[i]
  <2>0. h \in Active /\ h.pc \in {"recording", "recording-hit"} /\ JobFollows(h)
    BY <1>4, ServingFacts DEF Record, JobsInv
  <2>1. PICK pc \in {"enqueuing", "answered", "failed"} :
           /\ handlers' = [handlers EXCEPT ![i] = [h EXCEPT !.pc = pc]]
           /\ pc = "answered" => h.pc = "recording-hit"
    BY <1>4 DEF Record, Fails, AfterRecord
  <2>2. JobFollows([h EXCEPT !.pc = pc])
    BY <2>0, <2>1 DEF JobFollows, Responding, Active
  <2> QED
    BY <1>4, <2>1, <2>2, JobsKept DEF Record
<1>5. ASSUME NEW i \in Handler, Enqueue(i) PROVE JobsInv'
  <2> DEFINE h == handlers[i]
             needed == Quarantines(h.resp)
  <2>0. h \in Active /\ h.pc = "enqueuing" /\ JobFollows(h)
    BY <1>5, ServingFacts DEF Enqueue, JobsInv
  <2>1. \A v : Enqueued(v) => Enqueued(v)'
    BY <1>5 DEF Enqueue, Enqueued, TypeOK
  <2>2. PICK pc \in {"failed", "caching"} :
           /\ handlers' = [handlers EXCEPT ![i] = [h EXCEPT !.pc = pc]]
           /\ pc = "caching" /\ needed => h.req.url
    BY <1>5 DEF Enqueue, Quarantines
  <2>3. PICK x \in Active : /\ x = [h EXCEPT !.pc = pc]
                            /\ x.req = h.req /\ x.resp = h.resp /\ x.pc = pc
    <3>1. [h EXCEPT !.pc = pc] \in Active
      BY <2>0, MovedTyped DEF PC
    <3> QED
      BY <2>0, <3>1 DEF Active
  <2>4. JobFollows(x)'
    <3> SUFFICES ASSUME pc = "caching", h.req.op = "evaluate", needed
                 PROVE  Enqueued(x.req.version)'
      BY <2>0, <2>3 DEF JobFollows, Enqueued, Responding, Quarantines
    <3>1. x.req.version \in Version
      BY <2>0, <2>3 DEF JobFollows, Responding
    <3>2. jobs' = [jobs EXCEPT ![x.req.version] = @ \cup {"fetchable"}]
      BY <1>5, <2>2, <2>3 DEF Enqueue, Quarantines
    <3> QED
      BY <3>1, <3>2 DEF Enqueued, TypeOK
  <2>5. \A j \in Handler : handlers'[j] = IF j = i THEN x ELSE handlers[j]
    BY <1>h, <2>2, <2>3
  <2>6. \A j \in Handler : JobFollows(handlers[j])'
    BY <2>1, <2>4, <2>5 DEF JobsInv, JobFollows
  <2> QED
    BY <1>5, <2>1, <2>6 DEF Enqueue, JobsInv
<1>6. ASSUME NEW i \in Handler, Put(i) PROVE JobsInv'
  <2> DEFINE h == handlers[i]
             q == h.req
             x == [h EXCEPT !.pc = "answered"]
  <2>0. /\ h \in Active /\ h.pc = "caching" /\ JobFollows(h)
        /\ q \in Requests /\ q \in Request /\ q.op # "simulate"
    BY <1>6, ServingFacts, RequestsAreRequests DEF Put, Moves, JobsInv
  <2>1. handlers' = [handlers EXCEPT ![i] = x] /\ UNCHANGED jobs
    BY <1>6 DEF Put, Moves
  <2>2. x.req = q /\ x.resp = h.resp /\ x.pc = "answered"
    BY <2>0 DEF Active
  <2> HIDE DEF x
  <2>3. JobFollows(x)
    BY <2>0, <2>2 DEF JobFollows, Responding
  <2>4. \A j \in Handler : handlers'[j] = IF j = i THEN x ELSE handlers[j]
    BY <1>h, <2>1
  <2>5. \A j \in Handler : JobFollows(handlers[j])'
    BY <2>1, <2>3, <2>4 DEF JobsInv, JobFollows, Enqueued
  <2>6. ASSUME NEW r \in Requests, r.op = "evaluate", CacheKey(r) \in DOMAIN decision_cache',
               Quarantines(decision_cache'[CacheKey(r)])
        PROVE  Enqueued(r.version)
    <3>1. CASE CacheKey(r) = CacheKey(q)
      <4>1. r.version = q.version /\ q.op = "evaluate"
        BY <2>0, <2>6, <3>1, RequestsAreRequests, CacheKeyTells DEF Request
      <4>2. Quarantines(h.resp)
        BY <1>6, <2>6, <3>1 DEF Put
      <4> QED
        BY <2>0, <4>1, <4>2 DEF JobFollows, Responding
    <3>2. CASE CacheKey(r) # CacheKey(q)
      BY <1>6, <2>6, <3>2 DEF Put, JobsInv
    <3> QED
      BY <3>1, <3>2
  <2> QED
    BY <2>1, <2>5, <2>6 DEF JobsInv, Enqueued, Quarantines
<1>7. ASSUME NEW i \in Handler, Finish(i) PROVE JobsInv'
  <2>1. JobFollows(Idle)
    BY DEF JobFollows, Idle, Responding
  <2> QED
    BY <1>7, <2>1, JobsKept DEF Finish
<1>8. ASSUME NEW i \in Handler, NEW r \in Requests, Begin(i, r) PROVE JobsInv'
  <2> DEFINE x == [pc |-> "looking-up", req |-> r, signals |-> {},
                   suppressed |-> FALSE, resp |-> NoResponse]
  <2>1. JobFollows(x)
    BY DEF JobFollows, Responding
  <2> QED
    BY <1>8, <2>1, JobsKept DEF Begin
<1>9. ASSUME NEW k \in DOMAIN decision_cache, CacheExpires(k) PROVE JobsInv'
  BY <1>9 DEF CacheExpires, JobsInv, JobFollows, Enqueued
<1>10. CASE Restart
  <2>1. DOMAIN decision_cache' = {}
    BY <1>10 DEF Restart
  <2>2. \A i \in Handler : JobFollows(handlers[i])'
    BY <1>10 DEF Restart, JobFollows, Idle, Responding
  <2> QED
    BY <2>1, <2>2 DEF JobsInv
<1>11. CASE UNCHANGED <<handlers, decision_cache, jobs>>
  BY <1>11 DEF JobsInv, JobFollows, Enqueued
<1> QED
  BY <1>1, <1>2, <1>3, <1>4, <1>5, <1>6, <1>7, <1>8, <1>9, <1>10, <1>11
  DEF Next, HandlerStep, EvidenceChanges, OverridesChange, vars

\* Who is told that an artifact is quarantined is told so with a job enqueued
\* that a Surgeon can claim, for any number of requests, versions and profiles
\* and any crashes, as long as no simulation shares the cache.
THEOREM QuarantinedHasJob ==
    ASSUME "simulation" \notin Clients
    PROVE  Spec => []QuarantineHasJob
<1>1. Init => JobsInv
  <2> SUFFICES ASSUME Init PROVE JobsInv
    OBVIOUS
  <2>1. DOMAIN decision_cache = {}
    BY DEF Init
  <2> QED
    BY <2>1 DEF Init, Idle, JobsInv, JobFollows, Responding
<1>2. TypeOK /\ AnsweredInv /\ JobsInv /\ [Next]_vars => JobsInv'
  BY NextJobs
<1>3. JobsInv => QuarantineHasJob
  BY DEF JobsInv, JobFollows, QuarantineHasJob, Answered, Responding, Enqueued, Quarantines
<1> QED
  BY <1>1, <1>2, <1>3, TypeCorrect, AnsweredInvariance, PTL DEF Spec

(***************************************************************************)
(* What holds for good.  TLC shows that enforcement resumes eventually     *)
(* (OverrideEnds, MalwareTakesEffect); here it is proved what happens then: *)
(* the states in which nothing that was decided before is left, neither in *)
(* a handler nor in the cache, are never left again.                       *)
(***************************************************************************)

\* The life of an overrides row: it is inserted once, decided at most once, and
\* a denied or an expired one stays as it is.
RowFollows(r, s) ==
    \/ s = r
    \/ r.status = "none" /\ s.status \in {"pending", "approved"} /\ ~s.due
    \/ /\ Live(r) /\ s.scope = r.scope /\ s.effect = r.effect
       /\ \/ s.status = r.status /\ s.due
          \/ s.status = "expired" /\ s.due
          \/ r.status = "pending" /\ ~r.due /\ s.status = "approved" /\ ~s.due
          \/ r.status = "pending" /\ s.status = "denied" /\ ~s.due

OverridesFollow == \A o \in Override : RowFollows(overrides[o], overrides'[o])

\* The sweep expires what is due and touches nothing else.
LEMMA SweptFollows ==
    ASSUME overrides \in [Override -> OverrideRow], NEW o \in Override
    PROVE  /\ Swept[o] \in OverrideRow
           /\ RowFollows(overrides[o], Swept[o])
           /\ ~overrides[o].due \/ ~Live(overrides[o]) => Swept[o] = overrides[o]
           /\ Swept[o].status = "pending" => ~overrides[o].due /\ Swept[o] = overrides[o]
           /\ Live(overrides[o]) /\ overrides[o].due => Swept[o].status = "expired"
<1>1. overrides[o] \in OverrideRow
  OBVIOUS
<1>2. CASE Live(overrides[o]) /\ overrides[o].due
  <2>1. Swept[o] = [overrides[o] EXCEPT !.status = "expired"]
    BY <1>2 DEF Swept
  <2> QED
    BY <1>1, <1>2, <2>1 DEF OverrideRow, RowFollows
<1>3. CASE ~(Live(overrides[o]) /\ overrides[o].due)
  <2>1. Swept[o] = overrides[o]
    BY <1>3 DEF Swept
  <2> QED
    BY <1>1, <1>3, <2>1 DEF RowFollows, Live
<1> QED
  BY <1>2, <1>3

\* Every call of the control plane, the clock and the sweep keep to it.
LEMMA OverridesNextFollows ==
    ASSUME overrides \in [Override -> OverrideRow], OverridesNext
    PROVE  OverridesFollow
<1> SUFFICES ASSUME NEW x \in Override PROVE RowFollows(overrides[x], overrides'[x])
  BY DEF OverridesFollow
<1>0. overrides[x] \in OverrideRow /\ Swept \in [Override -> OverrideRow]
  BY OverrideTypes
<1>s. overrides'[x] = Swept[x] => RowFollows(overrides[x], overrides'[x])
  BY SweptFollows
<1>1. ASSUME NEW o \in Override, NEW scope \in Coordinate, NEW effect \in Effect,
             CreateOverride(o, scope, effect) \/ CreateEmergencyBypass(o, scope)
      PROVE  RowFollows(overrides[x], overrides'[x])
  <2>1. CASE x = o
    <3>1. overrides[x].status = "none" /\ ~overrides'[x].due
          /\ overrides'[x].status \in {"pending", "approved"}
      BY <1>0, <1>1, <2>1 DEF CreateOverride, CreateEmergencyBypass
    <3> QED
      BY <3>1 DEF RowFollows
  <2>2. CASE x # o
    BY <1>0, <1>1, <1>s, <2>2 DEF CreateOverride, CreateEmergencyBypass
  <2> QED
    BY <2>1, <2>2
<1>2. ASSUME NEW o \in Override, ApproveOverride(o) PROVE RowFollows(overrides[x], overrides'[x])
  <2>1. CASE x = o
    <3>1. Swept[x] = overrides[x] /\ overrides[x].status = "pending" /\ ~overrides[x].due
      BY <1>2, <2>1, SweptFollows DEF ApproveOverride
    <3>2. overrides'[x] = [overrides[x] EXCEPT !.status = "approved"]
      BY <1>0, <1>2, <2>1, <3>1 DEF ApproveOverride
    <3> QED
      BY <1>0, <3>1, <3>2 DEF RowFollows, OverrideRow, Live
  <2>2. CASE x # o
    BY <1>0, <1>2, <1>s, <2>2 DEF ApproveOverride
  <2> QED
    BY <2>1, <2>2
<1>3. ASSUME NEW o \in Override, DenyOverride(o) PROVE RowFollows(overrides[x], overrides'[x])
  <2>1. CASE x = o
    <3>1. Swept[x] = overrides[x] /\ overrides[x].status = "pending" /\ ~overrides[x].due
      BY <1>3, <2>1, SweptFollows DEF DenyOverride
    <3>2. overrides'[x] = [overrides[x] EXCEPT !.status = "denied"]
      BY <1>0, <1>3, <2>1, <3>1 DEF DenyOverride
    <3> QED
      BY <1>0, <3>1, <3>2 DEF RowFollows, OverrideRow, Live
  <2>2. CASE x # o
    BY <1>0, <1>3, <1>s, <2>2 DEF DenyOverride
  <2> QED
    BY <2>1, <2>2
<1>4. ASSUME NEW o \in Override, OverrideFallsDue(o) PROVE RowFollows(overrides[x], overrides'[x])
  <2>1. CASE x = o
    <3>1. overrides'[x] = [overrides[x] EXCEPT !.due = TRUE]
      BY <1>4, <2>1 DEF OverrideFallsDue
    <3> QED
      BY <1>0, <1>4, <2>1, <3>1 DEF OverrideFallsDue, RowFollows, OverrideRow
  <2>2. CASE x # o
    BY <1>4, <2>2 DEF OverrideFallsDue, RowFollows
  <2> QED
    BY <2>1, <2>2
<1>5. CASE RefusedOverrideCall
  BY <1>5, <1>s DEF RefusedOverrideCall
<1> QED
  BY <1>1, <1>2, <1>3, <1>4, <1>5 DEF OverridesNext, Effect

\* No step of the system breaks the life of a row: evaluations sweep the table
\* while managers decide about the rows.
LEMMA NextOverridesFollow ==
    ASSUME TypeOK, [Next]_vars
    PROVE  OverridesFollow
<1>0. overrides \in [Override -> OverrideRow]
  BY DEF TypeOK
<1>1. CASE UNCHANGED overrides
  BY <1>1 DEF OverridesFollow, RowFollows
<1>2. CASE overrides' = Swept
  BY <1>0, <1>2, SweptFollows DEF OverridesFollow
<1>3. CASE OverridesNext
  BY <1>0, <1>3, OverridesNextFollows
<1>4. UNCHANGED overrides \/ overrides' = Swept \/ OverridesNext
  BY DEF Next, HandlerStep, Begin, LookUp, BindProfile, BindSignals, BindEvidence, Decide,
     Record, Enqueue, Put, Finish, CacheExpires, Restart, EvidenceChanges, OverridesChange,
     vars
<1> QED
  BY <1>1, <1>2, <1>3, <1>4

\* Rows are decided at most once and expire for good, whatever managers, the
\* clock and the sweeps of concurrent evaluations do.
THEOREM OverrideLife == Spec => [][OverridesFollow]_overrides
<1>1. TypeOK /\ [Next]_vars => [OverridesFollow]_overrides
  BY NextOverridesFollow
<1> QED
  BY <1>1, TypeCorrect, PTL DEF Spec

\* When no override is in force and none may come, none ever is.
LEMMA OverridesStayOver ==
    ASSUME TypeOK, OverridesOver, [Next]_vars
    PROVE  OverridesOver'
<1> SUFFICES ASSUME NEW o \in Override
             PROVE  \/ overrides'[o].status \in {"denied", "expired"}
                    \/ Live(overrides'[o]) /\ overrides'[o].due
  BY DEF OverridesOver, Live
<1>1. RowFollows(overrides[o], overrides'[o])
  BY NextOverridesFollow DEF OverridesFollow
<1>2. \/ overrides[o].status \in {"denied", "expired"}
      \/ Live(overrides[o]) /\ overrides[o].due
  BY DEF OverridesOver
<1> QED
  BY <1>1, <1>2 DEF RowFollows, Live

\* Then the engine hears of none.
LEMMA OverridesSilent ==
    ASSUME OverridesOver, NEW v
    PROVE  OverrideSignals(v) = {}
BY DEF OverridesOver, OverrideSignals, Live

\* Whatever is about to be answered about the coordinates V, and whatever the
\* cache would answer about them, is one of the responses G.
Sealed(V, G) ==
    /\ \A i \in Handler :
          handlers[i].pc \in Responding /\ handlers[i].req.version \in V
              => handlers[i].resp \in G
    /\ \A r \in Requests :
          r.version \in V /\ CacheKey(r) \in DOMAIN decision_cache
              => decision_cache[CacheKey(r)] \in G

\* A handler's step that leaves the cache alone.
LEMMA SealedMove ==
    ASSUME TypeOK, NEW V, NEW G, Sealed(V, G), NEW i \in Handler, NEW x,
           handlers' = [handlers EXCEPT ![i] = x], UNCHANGED decision_cache,
           x.pc \in Responding /\ x.req.version \in V => x.resp \in G
    PROVE  Sealed(V, G)'
<1>1. \A j \in Handler : handlers'[j] = IF j = i THEN x ELSE handlers[j]
  BY DEF TypeOK
<1> QED
  BY <1>1 DEF Sealed

\* Only the engine's new answers can break the seal: hits repeat what is sealed,
\* the entry of a request answers only for its own coordinate, entries expire.
LEMMA NextSealed ==
    ASSUME TypeOK, AnsweredInv, [Next]_vars, NEW V, NEW G, Sealed(V, G),
           \A i \in Handler : Decide(i) /\ handlers[i].req.version \in V
                                  => handlers'[i].resp \in G
    PROVE  Sealed(V, G)'
<1>h. handlers \in [Handler -> {Idle} \cup Active]
  BY DEF TypeOK, Active
<1>1. ASSUME NEW i \in Handler, LookUp(i) PROVE Sealed(V, G)'
  <2> DEFINE h == handlers[i]
             key == CacheKey(h.req)
  <2>0. h \in Active /\ h.req \in Requests
    BY <1>1, ServingFacts DEF LookUp
  <2>1. CASE key \in DOMAIN decision_cache
    <3> DEFINE x == [h EXCEPT !.pc = IF h.req.op = "evaluate" THEN "recording-hit" ELSE "answered",
                              !.resp = decision_cache[key]]
    <3>1. handlers' = [handlers EXCEPT ![i] = x] /\ UNCHANGED decision_cache
      BY <1>1, <2>1 DEF LookUp
    <3>2. x.req = h.req /\ x.resp = decision_cache[key]
      BY <2>0 DEF Active
    <3> HIDE DEF x
    <3>3. x.req.version \in V => x.resp \in G
      BY <2>0, <2>1, <3>2 DEF Sealed
    <3> QED
      BY <3>1, <3>3, SealedMove
  <2>2. CASE key \notin DOMAIN decision_cache
    <3>1. /\ handlers' = [handlers EXCEPT ![i] = [h EXCEPT !.pc = "binding"]]
          /\ UNCHANGED decision_cache
      BY <1>1, <2>2 DEF LookUp
    <3>2. [h EXCEPT !.pc = "binding"].pc \notin Responding
      BY <2>0 DEF Active, Responding
    <3> QED
      BY <3>1, <3>2, SealedMove
  <2> QED
    BY <2>1, <2>2
<1>2. ASSUME NEW i \in Handler, BindProfile(i) \/ BindSignals(i) \/ BindEvidence(i)
      PROVE  Sealed(V, G)'
  <2>0. handlers[i] \in Active
    BY <1>2, ServingFacts DEF BindProfile, BindSignals, BindEvidence
  <2>1. /\ handlers'[i].pc \notin Responding
        /\ \A j \in Handler \ {i} : handlers'[j] = handlers[j]
        /\ UNCHANGED decision_cache
    BY <1>h, <1>2, <2>0
    DEF BindProfile, BindSignals, BindEvidence, Fails, Active, Responding
  <2> QED
    BY <2>1 DEF Sealed
<1>3. ASSUME NEW i \in Handler, Decide(i) PROVE Sealed(V, G)'
  <2>1. PICK a : handlers' = [handlers EXCEPT ![i] =
                    [pc |-> IF handlers[i].req.op = "evaluate" THEN "recording" ELSE "caching",
                     req |-> handlers[i].req, signals |-> {}, suppressed |-> FALSE,
                     resp |-> a]]
    BY <1>3, DecideResponds
  <2>2. handlers'[i].req = handlers[i].req /\ handlers'[i].resp = a
    BY <1>h, <2>1
  <2>3. handlers[i].req.version \in V => a \in G
    BY <1>3, <2>2
  <2>4. UNCHANGED decision_cache
    BY <1>3 DEF Decide
  <2> DEFINE x == [pc |-> IF handlers[i].req.op = "evaluate" THEN "recording" ELSE "caching",
                   req |-> handlers[i].req, signals |-> {}, suppressed |-> FALSE, resp |-> a]
  <2>5. handlers' = [handlers EXCEPT ![i] = x] /\ x.req = handlers[i].req /\ x.resp = a
    BY <2>1
  <2> HIDE DEF x
  <2> QED
    BY <2>3, <2>4, <2>5, SealedMove
<1>4. ASSUME NEW i \in Handler, Record(i) \/ Enqueue(i) PROVE Sealed(V, G)'
  <2> DEFINE h == handlers[i]
  <2>0. h \in Active /\ h.pc \in Responding
    BY <1>4, ServingFacts DEF Record, Enqueue, Responding
  <2>1. PICK pc \in PC : /\ handlers' = [handlers EXCEPT ![i] = [h EXCEPT !.pc = pc]]
                         /\ UNCHANGED decision_cache
    BY <1>4 DEF Record, Enqueue, Fails, AfterRecord, PC
  <2>2. [h EXCEPT !.pc = pc].req = h.req /\ [h EXCEPT !.pc = pc].resp = h.resp
    BY <2>0 DEF Active
  <2>3. h.req.version \in V => h.resp \in G
    BY <2>0 DEF Sealed
  <2> QED
    BY <2>1, <2>2, <2>3, SealedMove
<1>5. ASSUME NEW i \in Handler, Put(i) PROVE Sealed(V, G)'
  <2> DEFINE h == handlers[i]
             q == h.req
             x == [h EXCEPT !.pc = "answered"]
  <2>0. h \in Active /\ q \in Requests /\ q \in Request /\ h.pc = "caching"
    BY <1>5, ServingFacts DEF Put, Moves
  <2>1. handlers' = [handlers EXCEPT ![i] = x]
    BY <1>5 DEF Put, Moves
  <2>2. x.req = q /\ x.resp = h.resp
    BY <2>0 DEF Active
  <2> HIDE DEF x
  <2>3. q.version \in V => h.resp \in G
    BY <2>0 DEF Sealed, Responding
  <2>4. \A j \in Handler : handlers'[j] = IF j = i THEN x ELSE handlers[j]
    BY <1>h, <2>1
  <2>5. ASSUME NEW j \in Handler, handlers'[j].pc \in Responding, handlers'[j].req.version \in V
        PROVE  handlers'[j].resp \in G
    BY <2>2, <2>3, <2>4, <2>5 DEF Sealed
  <2>6. ASSUME NEW r \in Requests, r.version \in V, CacheKey(r) \in DOMAIN decision_cache'
        PROVE  decision_cache'[CacheKey(r)] \in G
    <3>1. CASE CacheKey(r) = CacheKey(q)
      <4>1. r.version = q.version
        BY <2>0, <3>1, RequestsAreRequests, CacheKeyTells
      <4>2. decision_cache'[CacheKey(r)] = h.resp
        BY <1>5, <3>1 DEF Put
      <4> QED
        BY <2>3, <2>6, <4>1, <4>2
    <3>2. CASE CacheKey(r) # CacheKey(q)
      BY <1>5, <2>6, <3>2 DEF Put, Sealed
    <3> QED
      BY <3>1, <3>2
  <2> QED
    BY <2>5, <2>6 DEF Sealed
<1>6. ASSUME NEW i \in Handler, Finish(i) PROVE Sealed(V, G)'
  BY <1>6, SealedMove DEF Finish, Idle, Responding
<1>7. ASSUME NEW i \in Handler, NEW r \in Requests, Begin(i, r) PROVE Sealed(V, G)'
  BY <1>7, SealedMove DEF Begin, Responding
<1>8. ASSUME NEW k \in DOMAIN decision_cache, CacheExpires(k) PROVE Sealed(V, G)'
  BY <1>8 DEF CacheExpires, Sealed
<1>9. CASE Restart
  <2>1. DOMAIN decision_cache' = {}
    BY <1>9 DEF Restart
  <2>2. \A i \in Handler : handlers'[i].pc \notin Responding
    BY <1>9 DEF Restart, Idle, Responding
  <2> QED
    BY <2>1, <2>2 DEF Sealed
<1>10. CASE UNCHANGED <<handlers, decision_cache>>
  BY <1>10 DEF Sealed
<1> QED
  BY <1>1, <1>2, <1>3, <1>4, <1>5, <1>6, <1>7, <1>8, <1>9, <1>10
  DEF Next, HandlerStep, EvidenceChanges, OverridesChange, vars

\* No override is in force, and nothing is left that was decided under one.
OverridesForgotten ==
    /\ OverridesOver
    /\ Sealed(Coordinate, {a \in Response : a.rule # "override"})

\* The engine answers with the rule "override" only when it is told of one.
LEMMA OverrideRule ==
    ASSUME NEW S, NEW c, "active_override" \notin S, "emergency_bypass" \notin S
    PROVE  /\ Evaluate(S, c).rule # "override"
           /\ "known_malicious" \in S => Evaluate(S, c).decision = "BLOCK_KNOWN_MALICIOUS"
<1>1. \A d, r : Verdict(d, r).decision = d /\ Verdict(d, r).rule = r
  BY DEF Verdict
<1>2. \E d, r : /\ Evaluate(S, c) = Verdict(d, r)
                /\ r # "override"
                /\ "known_malicious" \in S => d = "BLOCK_KNOWN_MALICIOUS"
  BY DEF Evaluate
<1> QED
  BY <1>1, <1>2

\* What the engine is told, as Decide puts it together when no override is left.
LEMMA DecideWithoutOverrides ==
    ASSUME TypeOK, AnsweredInv, NEW i \in Handler, Decide(i), OverridesOver,
           {"active_override", "emergency_bypass"} \cap handlers[i].signals = {}
    PROVE  /\ handlers'[i].resp \in Response
           /\ handlers'[i].resp.rule # "override"
           /\ "known_malicious" \in handlers[i].signals
                 => handlers'[i].resp.decision = "BLOCK_KNOWN_MALICIOUS"
<1> DEFINE h == handlers[i]
           cand == FallbackCandidate(h.req)
           S == h.signals \cup OverrideSignals(h.req.version)
                   \cup IF cand # NoVersion THEN {"fallback_candidate"} ELSE {}
           e == Evaluate(S, Config[h.req.profile])
<1>h. handlers \in [Handler -> {Idle} \cup Active]
  BY DEF TypeOK, Active
<1>1. OverrideSignals(h.req.version) = {}
  BY OverridesSilent
<1>2. "active_override" \notin S /\ "emergency_bypass" \notin S
  BY <1>1
<1>3. "known_malicious" \in h.signals => "known_malicious" \in S
  OBVIOUS
<1>4. handlers'[i].resp.rule = e.rule /\ handlers'[i].resp.decision = e.decision
  BY <1>h DEF Decide
<1>5. handlers'[i].resp \in Response
  BY <1>h, DecideResponds
<1> HIDE DEF S
<1> QED
  BY <1>2, <1>3, <1>4, <1>5, OverrideRule

\* A binding never reports an override: only load_override_signal_status does.
SignalsBound ==
    \A i \in Handler :
        handlers[i].pc \in {"reading-signals", "reading-evidence", "deciding"} =>
            {"active_override", "emergency_bypass"} \cap handlers[i].signals = {}

\* What the SELECTs of a binding leave behind.
LEMMA BindResult ==
    ASSUME TypeOK, AnsweredInv, NEW i \in Handler
    PROVE  /\ BindProfile(i) =>
                 /\ handlers'[i].pc = "failed" \/ handlers'[i].signals \subseteq {"unknown_artifact"}
                 /\ handlers'[i].pc \in {"failed", "reading-signals"}
                 /\ handlers'[i].req = handlers[i].req
           /\ BindSignals(i) =>
                 /\ handlers'[i].pc = "reading-evidence" /\ handlers'[i].req = handlers[i].req
                 /\ observed[handlers[i].req.version] \subseteq handlers'[i].signals
                 /\ handlers'[i].signals \subseteq
                       handlers[i].signals \cup Observable \cup {"known_safe_verdict"}
           /\ BindEvidence(i) =>
                 /\ handlers'[i].pc = "deciding" /\ handlers'[i].req = handlers[i].req
                 /\ handlers[i].signals \subseteq handlers'[i].signals
                 /\ handlers'[i].signals \subseteq handlers[i].signals \cup Adverse
           /\ BindProfile(i) \/ BindSignals(i) \/ BindEvidence(i) =>
                 \A j \in Handler \ {i} : handlers'[j] = handlers[j]
<1> DEFINE h == handlers[i]
           r == h.req
<1>h. handlers \in [Handler -> {Idle} \cup Active]
  BY DEF TypeOK, Active
<1>1. BindProfile(i) \/ BindSignals(i) \/ BindEvidence(i) => h \in Active /\ r \in Request
  BY ServingFacts DEF BindProfile, BindSignals, BindEvidence
<1>2. ASSUME BindProfile(i)
      PROVE  /\ handlers'[i].pc = "failed" \/ handlers'[i].signals \subseteq {"unknown_artifact"}
             /\ handlers'[i].pc \in {"failed", "reading-signals"}
             /\ handlers'[i].req = r
             /\ \A j \in Handler \ {i} : handlers'[j] = handlers[j]
  <2>1. CASE ~RegistryPolicyMatches(r)
    BY <1>1, <1>2, <1>h, <2>1 DEF BindProfile, Fails, Active
  <2>2. CASE RegistryPolicyMatches(r)
    <3> DEFINE s == IF r.digest /\ ~ArtifactExists(r) THEN {"unknown_artifact"} ELSE {}
    <3>1. handlers' = [handlers EXCEPT ![i].pc = "reading-signals", ![i].signals = s]
      BY <1>2, <2>2 DEF BindProfile
    <3>2. s \subseteq {"unknown_artifact"}
      OBVIOUS
    <3> HIDE DEF s
    <3> QED
      BY <1>1, <1>2, <1>h, <3>1, <3>2 DEF Active
  <2> QED
    BY <2>1, <2>2
<1>3. ASSUME BindSignals(i)
      PROVE  /\ handlers'[i].pc = "reading-evidence" /\ handlers'[i].req = r
             /\ observed[r.version] \subseteq handlers'[i].signals
             /\ handlers'[i].signals \subseteq h.signals \cup Observable \cup {"known_safe_verdict"}
             /\ \A j \in Handler \ {i} : handlers'[j] = handlers[j]
  <2> DEFINE s == h.signals \cup observed[r.version]
                     \cup (IF KnownSafe(r) THEN {"known_safe_verdict"} ELSE {})
  <2>1. handlers' = [handlers EXCEPT ![i].pc = "reading-evidence", ![i].signals = s]
    BY <1>3 DEF BindSignals
  <2>2. observed[r.version] \subseteq Observable
    BY <1>1, <1>3 DEF TypeOK, Request
  <2>3. /\ observed[r.version] \subseteq s
        /\ s \subseteq h.signals \cup Observable \cup {"known_safe_verdict"}
    BY <2>2
  <2> HIDE DEF s
  <2> QED
    BY <1>1, <1>3, <1>h, <2>1, <2>3 DEF Active
<1>4. ASSUME BindEvidence(i)
      PROVE  /\ handlers'[i].pc = "deciding" /\ handlers'[i].req = r
             /\ h.signals \subseteq handlers'[i].signals
             /\ handlers'[i].signals \subseteq h.signals \cup Adverse
             /\ \A j \in Handler \ {i} : handlers'[j] = handlers[j]
  <2> DEFINE s == h.signals \cup (IF Joins(r)
                                  THEN AnalysisSignals(DigestOf[r.version]) \cup VulnerabilitySignals(r)
                                  ELSE {})
             b == /\ Joins(r)
                  /\ advisory[DigestOf[r.version]] = "suppressed"
                  /\ r.op # "query"
  <2>1. handlers' = [handlers EXCEPT ![i].pc = "deciding", ![i].signals = s,
                                     ![i].suppressed = b]
    BY <1>4 DEF BindEvidence
  <2>2. AnalysisSignals(DigestOf[r.version]) \cup VulnerabilitySignals(r) \subseteq Adverse
    BY DEF AnalysisSignals, VulnerabilitySignals, Adverse, RiskSignal
  <2>3. h.signals \subseteq s /\ s \subseteq h.signals \cup Adverse
    BY <2>2
  <2> HIDE DEF s, b
  <2> QED
    BY <1>1, <1>4, <1>h, <2>1, <2>3 DEF Active
<1> QED
  BY <1>2, <1>3, <1>4

\* A step that is not one of a binding leaves no binding under way but those
\* that were.
LEMMA BindingsOnly ==
    ASSUME TypeOK, AnsweredInv, [Next]_vars, NEW i \in Handler,
           handlers'[i].pc \in {"reading-signals", "reading-evidence", "deciding"}
    PROVE  handlers'[i] = handlers[i] \/ BindProfile(i) \/ BindSignals(i) \/ BindEvidence(i)
<1>h. handlers \in [Handler -> {Idle} \cup Active]
  BY DEF TypeOK, Active
<1>1. ASSUME NEW j \in Handler, NEW x, handlers' = [handlers EXCEPT ![j] = x],
             x.pc \notin {"reading-signals", "reading-evidence", "deciding"}
      PROVE  handlers'[i] = handlers[i]
  BY <1>h, <1>1
<1>2. ASSUME NEW j \in Handler, HandlerStep(j)
      PROVE  handlers'[i] = handlers[i] \/ BindProfile(i) \/ BindSignals(i) \/ BindEvidence(i)
  <2>1. CASE LookUp(j)
    <3>0. handlers[j] \in Active
      BY <2>1, ServingFacts DEF LookUp
    <3> DEFINE h == handlers[j]
               x == IF CacheKey(h.req) \in DOMAIN decision_cache
                    THEN [h EXCEPT !.pc = IF h.req.op = "evaluate" THEN "recording-hit"
                                          ELSE "answered",
                                   !.resp = decision_cache[CacheKey(h.req)]]
                    ELSE [h EXCEPT !.pc = "binding"]
    <3>1. handlers' = [handlers EXCEPT ![j] = x]
      BY <2>1 DEF LookUp
    <3>2. x.pc \in {"recording-hit", "answered", "binding"}
      BY <3>0 DEF Active
    <3> HIDE DEF x
    <3> QED
      BY <1>1, <3>1, <3>2
  <2>2. CASE BindProfile(j) \/ BindSignals(j) \/ BindEvidence(j)
    <3>1. CASE j = i
      BY <2>2, <3>1
    <3>2. CASE j # i
      BY <2>2, <3>2, BindResult
    <3> QED
      BY <3>1, <3>2
  <2>3. CASE Decide(j)
    <3>1. PICK a : handlers' = [handlers EXCEPT ![j] =
                      [pc |-> IF handlers[j].req.op = "evaluate" THEN "recording" ELSE "caching",
                       req |-> handlers[j].req, signals |-> {}, suppressed |-> FALSE,
                       resp |-> a]]
      BY <2>3, DecideResponds
    <3>2. handlers'[j].pc \in {"recording", "caching"}
      BY <1>h, <3>1
    <3> QED
      BY <1>h, <3>1, <3>2
  <2>4. CASE Record(j) \/ Enqueue(j) \/ Put(j)
    <3>0. handlers[j] \in Active
      BY <2>4, ServingFacts DEF Record, Enqueue, Put, Moves
    <3>1. PICK pc \in {"enqueuing", "answered", "failed", "caching"} :
             handlers' = [handlers EXCEPT ![j] = [handlers[j] EXCEPT !.pc = pc]]
      BY <2>4 DEF Record, Enqueue, Put, Moves, Fails, AfterRecord
    <3>2. [handlers[j] EXCEPT !.pc = pc].pc = pc
      BY <3>0 DEF Active
    <3> QED
      BY <1>1, <3>1, <3>2
  <2>5. CASE Finish(j)
    BY <1>1, <2>5 DEF Finish, Idle
  <2> QED
    BY <1>2, <2>1, <2>2, <2>3, <2>4, <2>5 DEF HandlerStep
<1>3. ASSUME NEW j \in Handler, NEW r \in Requests, Begin(j, r) PROVE handlers'[i] = handlers[i]
  BY <1>1, <1>3 DEF Begin
<1>4. CASE Restart
  BY <1>4 DEF Restart, Idle
<1>5. CASE UNCHANGED handlers
  BY <1>5
<1> QED
  BY <1>2, <1>3, <1>4, <1>5 DEF Next, CacheExpires, EvidenceChanges, OverridesChange, vars

\* No SELECT of a binding reports an override.
LEMMA NextSignals ==
    ASSUME TypeOK, AnsweredInv, SignalsBound, [Next]_vars
    PROVE  SignalsBound'
<1> DEFINE O == {"active_override", "emergency_bypass"}
<1> SUFFICES ASSUME NEW i \in Handler,
                    handlers'[i].pc \in {"reading-signals", "reading-evidence", "deciding"}
             PROVE  O \cap handlers'[i].signals = {}
  BY DEF SignalsBound
<1>1. O \cap Adverse = {} /\ O \cap Observable = {}
  BY ObservableAssumption DEF Adverse, RiskSignal, WarningSignal, ScorecardCheck
<1>2. CASE handlers'[i] = handlers[i]
  BY <1>2 DEF SignalsBound
<1>3. CASE BindProfile(i)
  BY <1>3, BindResult
<1>4. CASE BindSignals(i)
  <2>1. O \cap handlers[i].signals = {}
    BY <1>4 DEF BindSignals, SignalsBound
  <2>2. handlers'[i].signals \subseteq
           handlers[i].signals \cup Observable \cup {"known_safe_verdict"}
    BY <1>4, BindResult
  <2> QED
    BY <1>1, <2>1, <2>2
<1>5. CASE BindEvidence(i)
  <2>1. O \cap handlers[i].signals = {}
    BY <1>5 DEF BindEvidence, SignalsBound
  <2>2. handlers'[i].signals \subseteq handlers[i].signals \cup Adverse
    BY <1>5, BindResult
  <2> QED
    BY <1>1, <2>1, <2>2
<1> QED
  BY <1>2, <1>3, <1>4, <1>5, BindingsOnly

\* The invariants that hold in every reachable state.
LEMMA Reachable == Spec => [](TypeOK /\ AnsweredInv /\ SignalsBound)
<1>1. Init => SignalsBound
  BY DEF Init, SignalsBound, Idle
<1>2. TypeOK /\ AnsweredInv /\ SignalsBound /\ [Next]_vars => SignalsBound'
  BY NextSignals
<1> QED
  BY <1>1, <1>2, TypeCorrect, AnsweredInvariance, PTL DEF Spec

\* Nothing brings a forgotten override back.
LEMMA NextForgotten ==
    ASSUME TypeOK, AnsweredInv, SignalsBound, OverridesForgotten, [Next]_vars
    PROVE  OverridesForgotten'
<1> DEFINE G == {a \in Response : a.rule # "override"}
<1>1. \A i \in Handler : Decide(i) => handlers'[i].resp \in G
  BY DecideWithoutOverrides DEF OverridesForgotten, SignalsBound, Decide
<1>2. Sealed(Coordinate, G)
  BY DEF OverridesForgotten
<1> HIDE DEF G
<1>3. Sealed(Coordinate, G)'
  BY <1>1, <1>2, NextSealed
<1> QED
  BY <1>3, OverridesStayOver DEF OverridesForgotten, G

\* Policy enforcement that has resumed stays resumed: once no override is in
\* force and neither a handler nor the cache holds an answer made under one, no
\* answer ever rests on one again, although verdicts were recorded under it.
THEOREM OverridesStayForgotten ==
    Spec => [](OverridesForgotten =>
                  [](\A i \in Handler : Answered(i) => handlers[i].resp.rule # "override"))
<1> DEFINE Inv == TypeOK /\ AnsweredInv /\ SignalsBound
           Enforced == \A i \in Handler : Answered(i) => handlers[i].resp.rule # "override"
<1>1. Inv /\ OverridesForgotten /\ [Next]_vars => OverridesForgotten'
  BY NextForgotten
<1>2. Inv /\ OverridesForgotten => Enforced
  <2> SUFFICES ASSUME Inv, OverridesForgotten, NEW i \in Handler, Answered(i)
               PROVE  handlers[i].resp.rule # "override"
    OBVIOUS
  <2>1. handlers[i].pc \in Responding /\ handlers[i].req.version \in Coordinate
    BY ServingFacts DEF Answered, Responding, Request
  <2> QED
    BY <2>1 DEF OverridesForgotten, Sealed
<1>3. Spec => []Inv
  BY Reachable
<1> HIDE DEF Inv, Enforced
<1>4. Spec => [](OverridesForgotten => []Enforced)
  BY <1>1, <1>2, <1>3, PTL DEF Spec
<1> QED
  BY <1>4 DEF Enforced

\* A version is known as malicious, no override is in force, and everything that
\* is decided, bound or cached about it has heard of that.
Convicted(v) ==
    /\ "known_malicious" \in observed[v]
    /\ OverridesOver
    /\ Sealed({v}, {a \in Response : a.decision = "BLOCK_KNOWN_MALICIOUS"})
    /\ \A i \in Handler :
          handlers[i].pc \in {"reading-evidence", "deciding"} /\ handlers[i].req.version = v
              => "known_malicious" \in handlers[i].signals

\* Nothing acquits a convicted version.
LEMMA NextConvicted ==
    ASSUME TypeOK, AnsweredInv, SignalsBound, [Next]_vars,
           NEW v \in Version, Convicted(v)
    PROVE  Convicted(v)'
<1> DEFINE G == {a \in Response : a.decision = "BLOCK_KNOWN_MALICIOUS"}
<1>1. \A i \in Handler : Decide(i) /\ handlers[i].req.version \in {v} => handlers'[i].resp \in G
  BY DecideWithoutOverrides DEF Convicted, SignalsBound, Decide
<1>2. Sealed({v}, G)
  BY DEF Convicted
<1>3. Sealed({v}, G)'
  <2> HIDE DEF G
  <2> QED
    BY <1>1, <1>2, NextSealed
<1>4. "known_malicious" \in observed'[v]
  <2>1. CASE UNCHANGED observed
    BY <2>1 DEF Convicted
  <2>2. CASE \E c \in Coordinate, s \in Observable : SignalObserved(c, s)
    BY <2>2 DEF SignalObserved, Convicted, TypeOK, Coordinate
  <2>3. UNCHANGED observed \/ \E c \in Coordinate, s \in Observable : SignalObserved(c, s)
    BY DEF Next, HandlerStep, Begin, LookUp, BindProfile, BindSignals, BindEvidence, Decide,
       Record, Enqueue, Put, Finish, CacheExpires, Restart, EvidenceChanges, OverridesChange,
       StaticReportStored, SandboxRunCompleted, AdvisoryMatched, OpenVexImported,
       RegistryRebound, vars, envVars
  <2> QED
    BY <2>1, <2>2, <2>3
<1>5. ASSUME NEW i \in Handler, handlers'[i].pc \in {"reading-evidence", "deciding"},
             handlers'[i].req.version = v
      PROVE  "known_malicious" \in handlers'[i].signals
  <2>1. CASE handlers'[i] = handlers[i]
    BY <1>5, <2>1 DEF Convicted
  <2>2. CASE BindProfile(i)
    BY <1>5, <2>2, BindResult
  <2>3. CASE BindSignals(i)
    BY <1>5, <2>3, BindResult DEF Convicted
  <2>4. CASE BindEvidence(i)
    BY <1>5, <2>4, BindResult DEF Convicted, BindEvidence
  <2> QED
    BY <1>5, <2>1, <2>2, <2>3, <2>4, BindingsOnly
<1> QED
  BY <1>3, <1>4, <1>5, OverridesStayOver DEF Convicted

\* A version known as malicious whose conviction every handler and the cache
\* have heard of is blocked for good: neither a verdict on record, nor evidence
\* that arrives later, nor another profile or client makes it available again.
THEOREM ConvictedStaysBlocked ==
    ASSUME NEW v \in Version
    PROVE  Spec => [](Convicted(v) =>
                        [](\A i \in Handler :
                              Answered(i) /\ handlers[i].req.version = v
                                  => handlers[i].resp.decision = "BLOCK_KNOWN_MALICIOUS"))
<1> DEFINE Inv == TypeOK /\ AnsweredInv /\ SignalsBound
           Guilty == Convicted(v)
           Blocked == \A i \in Handler :
                         Answered(i) /\ handlers[i].req.version = v
                             => handlers[i].resp.decision = "BLOCK_KNOWN_MALICIOUS"
<1>1. Inv /\ Guilty /\ [Next]_vars => Guilty'
  BY NextConvicted
<1>2. Inv /\ Guilty => Blocked
  BY DEF Convicted, Sealed, Answered, Responding
<1>3. Spec => []Inv
  BY Reachable
<1> HIDE DEF Inv, Guilty, Blocked
<1>4. Spec => [](Guilty => []Blocked)
  BY <1>1, <1>2, <1>3, PTL DEF Spec
<1> QED
  BY <1>4 DEF Guilty, Blocked

\* A restart convicts and forgets at once: it drops the cache and every request
\* under way.
THEOREM RestartForgets ==
    ASSUME TypeOK, OverridesOver, Restart
    PROVE  /\ OverridesForgotten'
           /\ \A v \in Version : "known_malicious" \in observed[v] => Convicted(v)'
<1>1. DOMAIN decision_cache' = {} /\ UNCHANGED <<observed, overrides>>
  BY DEF Restart, envVars
<1>2. \A i \in Handler : handlers'[i].pc = "idle"
  BY DEF Restart, Idle
<1>3. OverridesOver'
  BY <1>1 DEF OverridesOver, Live
<1>4. OverridesForgotten'
  BY <1>1, <1>2, <1>3 DEF OverridesForgotten, Sealed, Responding
<1> QED
  BY <1>1, <1>2, <1>3, <1>4 DEF Convicted, Sealed, Responding

=============================================================================
