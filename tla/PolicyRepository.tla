-------------------------- MODULE PolicyRepository --------------------------
(***************************************************************************)
(* The two implementations of the repository from which the Triage Counter *)
(* binds the signals of a request: the PostgreSQL one, which production    *)
(* uses, and the in-memory one, against which the service is tested.       *)
(*                                                                         *)
(* Analysis evidence has a tenant, a digest and a coordinate.  In memory   *)
(* each record carries its own; in PostgreSQL it belongs to a row of       *)
(* artifacts, unique for tenant and digest, whose coordinate each analysis *)
(* writes anew.  Sequences are in the order of insertion, an Option is the *)
(* set of its values.                                                      *)
(***************************************************************************)
EXTENDS OpenVex, FeedRecords, TLC

-----------------------------------------------------------------------------
(* What the rows mean, for both.                                           *)

Refuted == {"fail", "missing", "unverifiable"}

(* A result that cannot be parsed is no result.                            *)
AttestationSignals(records) ==
    (IF \E r \in records : r.result \in Refuted THEN {"missing_or_failed_attestation"} ELSE {})
    \cup (IF \E r \in records : /\ r.result \in Refuted
                                /\ r.type \in {"signature", "provenance"} \/ r.predicate = "provenance"
          THEN {"provenance_or_signature_verification_failed"} ELSE {})

StaticReportHasAiAgentInjection(report) == \E i \in report : i.type = "ai-agent-injection"

StaticReportExceedsPolicyThreshold(report) == \E i \in report : i.severity \in {"high", "critical"}

SandboxEventExceedsPolicyThreshold(event) ==
    \/ event.type \in {"canary-secret-access", "ai-canary-file-modified"} /\ event.severity = "critical"
    \/ event.type = "outbound-network-attempt" /\ event.severity \in {"high", "critical"}

(* Only the phases in which the package itself runs count.                 *)
SandboxRunExceedsPolicyThreshold(telemetry) ==
    \E phase \in telemetry : /\ phase.name \in {"D", "E", "G"}
                             /\ \E event \in phase.events : SandboxEventExceedsPolicyThreshold(event)

PackageSignals == {"known-malicious", "typosquat-risk"}

PackageSignalStatus(observed) == observed \cap PackageSignals

(* A key that is absent, or blank, restricts nothing.                      *)
ScopeMatches(scope, key, actual) ==
    key \in DOMAIN scope /\ scope[key] # "" => actual = {scope[key]}

OverrideScopeMatches(scope, q) ==
    /\ ScopeMatches(scope, "name", {q.coordinate.name})
    /\ ScopeMatches(scope, "version", {q.coordinate.version} \ {NoVersion})
    /\ ScopeMatches(scope, "digest", q.digest)
    /\ ScopeMatches(scope, "kind", {q.kind})

OverrideSignalStatus(records, q) ==
    {IF o.status = "pending" THEN "hitl_required"
     ELSE IF "effect" \in DOMAIN o.scope /\ o.scope.effect = "emergency-bypass" THEN "emergency_bypass"
     ELSE "active_override" : o \in {r \in records : OverrideScopeMatches(r.scope, q)}}

(* How the answers are put together; a query has no use for the rest of    *)
(* what is known of the vulnerabilities.                                   *)
BindRequestForProfile(q, found) ==
    LET If(condition, signal) == IF condition THEN {signal} ELSE {}
    IN  [signals |->
            PackageSignalStatus(found.observed)
            \cup If(found.malware, "known-malicious")
            \cup If(q.digest # {} /\ ~found.exists, "unknown_artifact")
            \cup If(found.safe, "known_safe_verdict")
            \cup If(found.vulnerabilities.vulnerable_above_threshold, "vulnerable_above_threshold")
            \cup If(q.op # "query" /\ found.vulnerabilities.under_investigation, "under_investigation")
            \cup AttestationSignals(found.attestations)
            \cup If(\E r \in found.reports : StaticReportExceedsPolicyThreshold(r), "static_analysis_score_violation")
            \cup If(\E r \in found.reports : StaticReportHasAiAgentInjection(r), "ai_agent_injection_indicator")
            \cup If(\E t \in found.runs : SandboxRunExceedsPolicyThreshold(t), "dynamic_sandbox_policy_violation")
            \cup OverrideSignalStatus(found.overrides, q),
         fallback |-> IF q.kind = "metadata" /\ ~q.explicit /\ q.coordinate.ecosystem = "npm"
                      THEN found.fallback ELSE {}]

Threshold == [kev_override |-> TRUE, epss_floor |-> {2}, severity_floor |-> "high"]

LatestOf(seq) == IF seq = <<>> THEN {} ELSE {Last(seq)}

-----------------------------------------------------------------------------
(* PostgreSQL.                                                             *)

(* A plausible slip: the digest alone finds the evidence.                  *)
JoinedByDigest(db, q, rows) ==
    {e \in Range(rows) : e.tenant = q.tenant /\ e.digest \in q.digest}

(* The join through artifacts: the coordinate is that of the last analysis *)
(* of the digest, the digest counts only when the request names one.       *)
JoinedThroughArtifact(db, q, rows) ==
    LET Coordinates(e) == SelectSeq(db.artifacts, LAMBDA a : a.tenant = e.tenant /\ a.digest = e.digest)
    IN  {e \in Range(rows) : /\ e.tenant = q.tenant
                             /\ \E a \in LatestOf(Coordinates(e)) : a.coordinate = q.coordinate
                             /\ q.digest \subseteq {e.digest}}

PgObservations(db, q) ==
    {o.signal : o \in {r \in db.observations :
        /\ r.tenant = q.tenant /\ r.coordinate = q.coordinate
        /\ r.digest = {} \/ (q.digest # {} /\ r.digest = q.digest)
        /\ ~r.expired}}

(* The observations of what the last snapshot that knows the package       *)
(* reaches from it, whatever they say of a particular digest.              *)
PgTransitive(db, q) ==
    LET purl == Purl(q.coordinate)
        known == SelectSeq(db.graphs, LAMBDA g : purl \in g.packages \/ \E e \in g.edges : e.from = purl)
        current == {o \in db.observations : o.tenant = q.tenant /\ o.digest = {} /\ ~o.expired}
    IN  UNION {TransitiveDependencySignals(g.edges, q.coordinate, current) : g \in LatestOf(known)}

(* expires_at has passed: the row becomes 'expired' before it is read.     *)
PgOverrides(db, q) ==
    LET Allows(scope, key, actual) == key \in DOMAIN scope => actual = {scope[key]}
    IN  {o \in Range(db.overrides) :
            /\ o.tenant = q.tenant /\ o.status \in {"pending", "approved"} /\ ~o.expired
            /\ Allows(o.scope, "name", {q.coordinate.name})
            /\ Allows(o.scope, "version", {q.coordinate.version} \ {NoVersion})
            /\ Allows(o.scope, "digest", q.digest)
            /\ Allows(o.scope, "kind", {q.kind})}

PgKnownSafeVerdict(db, q) ==
    LET about == SelectSeq(db.decisions, LAMBDA d :
                     /\ d.tenant = q.tenant /\ d.coordinate = q.coordinate
                     /\ q.digest = {} \/ d.digest = q.digest)
    IN  \E d \in LatestOf(about) : d.decision = "ALLOW"

PgFallbackCandidate(db, q) ==
    LET allowed == SelectSeq(db.decisions, LAMBDA d :
                       /\ d.tenant = q.tenant /\ d.coordinate.name = q.coordinate.name
                       /\ d.coordinate.version # NoVersion /\ d.decision = "ALLOW")
    IN  {d.coordinate : d \in LatestOf(allowed)}

(* The malware matches of the digest itself.                               *)
PgKnownMaliciousMatch(db, q) == q.digest # {} /\ JoinedThroughArtifact(db, q, db.malware) # {}

(* A query counts every match, whatever OpenVEX says of it.                *)
PgVulnerabilities(db, q) ==
    VulnerabilitySignalStatus(
        {e.match : e \in JoinedThroughArtifact(db, q, db.matches)},
        IF q.op = "query" THEN {} ELSE ActiveOpenVex(db.openvex, q.tenant, Purl(q.coordinate), 0), Threshold)

PostgresSignals(db, q) ==
    BindRequestForProfile(q,
        [observed |-> PgObservations(db, q) \cup PgTransitive(db, q),
         malware |-> PgKnownMaliciousMatch(db, q),
         exists |-> \E a \in Range(db.artifacts) : a.tenant = q.tenant /\ {a.digest} = q.digest,
         safe |-> PgKnownSafeVerdict(db, q),
         vulnerabilities |-> PgVulnerabilities(db, q),
         attestations |-> {e.record : e \in JoinedThroughArtifact(db, q, db.attestations)},
         reports |-> {e.report : e \in JoinedThroughArtifact(db, q, db.reports)},
         runs |-> {e.telemetry : e \in {r \in JoinedThroughArtifact(db, q, db.runs) : r.state = "completed"}},
         overrides |-> PgOverrides(db, q),
         fallback |-> PgFallbackCandidate(db, q)])

-----------------------------------------------------------------------------
(* In memory.                                                              *)

HeldWithCoordinate(q, rows) ==
    {e \in Range(rows) : /\ e.tenant = q.tenant /\ e.coordinate = q.coordinate
                         /\ q.digest # {} => {e.digest} = q.digest}

MemObservations(db, q) ==
    {o.signal : o \in {r \in db.observations : /\ r.tenant = q.tenant /\ r.coordinate = q.coordinate
                                               /\ r.digest # {} => q.digest = r.digest
                                               /\ ~r.expired}}

(* The worklist: the last package pending is taken off, and its children   *)
(* are put on unless it has been seen.                                     *)
MemReachable(edges, purl) ==
    LET Children(p) == SetToSeq({e.to : e \in {d \in edges : d.from = p}})
        Pop(w) == IF w.pending = <<>> THEN w
                  ELSE IF Last(w.pending) \in w.found THEN [w EXCEPT !.pending = Front(@)]
                  ELSE [found |-> w.found \cup {Last(w.pending)},
                        pending |-> Front(w.pending) \o Children(Last(w.pending))]
        MaxPops == 2 * Cardinality(edges)
        work[n \in 0 .. MaxPops] == IF n = 0 THEN [found |-> {}, pending |-> Children(purl)] ELSE Pop(work[n - 1])
    IN  work[MaxPops].found

MemTransitive(db, q) ==
    LET purl == Purl(q.coordinate)
        known == SelectSeq(db.graphs, LAMBDA g : purl \in g.packages \/ purl \in {e.from : e \in g.edges})
    IN  IF q.coordinate.version = NoVersion \/ known = <<>> THEN {}
        ELSE {o.signal : o \in {r \in db.observations :
                /\ r.tenant = q.tenant /\ r.digest = {} /\ ~r.expired
                /\ Purl(r.coordinate) \in MemReachable(Last(known).edges, purl)}}

MemKnownMaliciousMatch(db, q) == "known-malicious" \in MemObservations(db, q)

MemKnownSafeVerdict(db, q) ==
    LET of == {i \in DOMAIN db.decisions : /\ db.decisions[i].tenant = q.tenant
                                           /\ db.decisions[i].coordinate = q.coordinate
                                           /\ q.digest # {} => db.decisions[i].digest = q.digest}
    IN  \E i \in of : (\A j \in of : j <= i) /\ db.decisions[i].decision = "ALLOW"

MemFallbackCandidate(db, q) ==
    LET of == {i \in DOMAIN db.decisions : /\ db.decisions[i].tenant = q.tenant
                                           /\ db.decisions[i].decision = "ALLOW"
                                           /\ db.decisions[i].coordinate.name = q.coordinate.name
                                           /\ db.decisions[i].coordinate.version # NoVersion}
    IN  {db.decisions[i].coordinate : i \in {i \in of : \A j \in of : j <= i}}

(* A match at a time, with its own active statements.                      *)
MemVulnerabilityStatus(db, q) ==
    LET About(m) == {s \in db.openvex : /\ s.tenant = q.tenant /\ s.vulnerability = m.advisory
                                        /\ s.product = Purl(q.coordinate)
                                        /\ \A t \in s.expires_at : t > 0}
        held == {e.match : e \in HeldWithCoordinate(q, db.matches)}
        open == {m \in held : ~\E s \in About(m) : Lifts(s.status)}
    IN  [vulnerable_above_threshold |-> \E m \in open : VulnerabilityMatchExceedsThreshold(m, Threshold),
         under_investigation |-> \E m \in open : \E s \in About(m) : s.status = "under_investigation",
         evidence_references |-> {s.document : s \in {s \in UNION {About(m) : m \in held} : Lifts(s.status)}}]

InMemorySignals(db, q) ==
    BindRequestForProfile(q,
        [observed |-> MemObservations(db, q) \cup MemTransitive(db, q),
         malware |-> MemKnownMaliciousMatch(db, q),
         exists |-> \E a \in Range(db.artifacts) : <<a.tenant, {a.digest}>> = <<q.tenant, q.digest>>,
         safe |-> MemKnownSafeVerdict(db, q),
         vulnerabilities |-> MemVulnerabilityStatus(db, q),
         attestations |-> {e.record : e \in HeldWithCoordinate(q, db.attestations)},
         reports |-> {e.report : e \in HeldWithCoordinate(q, db.reports)},
         runs |-> {e.telemetry : e \in HeldWithCoordinate(q, db.runs)},
         overrides |-> {o \in Range(db.overrides) : /\ o.tenant = q.tenant /\ ~o.expired
                                                    /\ o.status \in {"pending", "approved"}
                                                    /\ OverrideScopeMatches(o.scope, q)},
         fallback |-> MemFallbackCandidate(db, q)])

-----------------------------------------------------------------------------
(* Bounded inputs: records of one kind at a time, two at most, of two      *)
(* tenants, and a request.                                                 *)

NpmAt(name, version) == [ecosystem |-> "npm", namespace |-> <<>>, name |-> name, version |-> version]

Asked ==
    [op : {"evaluate", "query"}, tenant : {"t1"}, coordinate : {NpmAt("a", "1"), NpmAt("b", "1"), NpmAt("a", NoVersion)},
     digest : {{}, {"x"}, {"y"}}, kind : {"metadata", "artifact"}, explicit : {FALSE}]

Empty ==
    [artifacts |-> <<>>, matches |-> <<>>, attestations |-> <<>>, reports |-> <<>>, runs |-> <<>>, malware |-> <<>>,
     openvex |-> {}, decisions |-> <<>>, observations |-> {}, graphs |-> <<>>, overrides |-> <<>>]

(* Every analysis writes the row of its artifact.                          *)
Analysed(table, rows) ==
    [Empty EXCEPT ![table] = rows,
                  !.artifacts = [i \in DOMAIN rows |-> [tenant |-> rows[i].tenant, digest |-> rows[i].digest,
                                                        coordinate |-> rows[i].coordinate]]]

Of(tenants, field, values) ==
    {[tenant |-> t, coordinate |-> c, digest |-> d] @@ (field :> v) :
        t \in tenants, c \in {NpmAt("a", "1"), NpmAt("b", "1")}, d \in {"x", "y"}, v \in values}

Pairs(field, values) ==
    {<<e>> : e \in Of({"t1"}, field, values)} \cup (Of({"t1"}, field, values) \X Of({"t1", "t2"}, field, values))

MatchSamples == {Match("cve-1", {"high"}, FALSE), Match("cve-1", {}, TRUE), Match("cve-2", {"medium"}, FALSE),
                 [Match("cve-2", {"low"}, FALSE) EXCEPT !.epss = {2}]}

AttestationSamples == [type : {"signature", "sbom"}, predicate : {"provenance", "spdx"}, result : {"pass", "fail", "garbled"}]

ReportSamples == SUBSET {[type |-> "ai-agent-injection", severity |-> "low"], [type |-> "eval", severity |-> "high"]}

Telemetry == {{}} \cup {{[name |-> n, events |-> {[type |-> t, severity |-> "critical"]}]} :
                            n \in {"A", "D"}, t \in {"canary-secret-access", "file-read"}}

Runs == {[state |-> "completed"] @@ r : r \in Of({"t1", "t2"}, "telemetry", Telemetry)}
        \cup {[state |-> "running"] @@ r : r \in Of({"t1"}, "telemetry", {{}})}

Statuses(tenants) ==
    [tenant : tenants, document : {"doc"}, mode : {"never"}, expires_at : {{}}, vulnerability : {"cve-1"},
     status : OpenVexStatuses, product : {Purl(NpmAt("a", "1")), Purl(NpmAt("b", "1"))}]
    \cup [tenant : tenants, document : {"doc"}, mode : {"expires_at"}, expires_at : {{0}, {1}},
          vulnerability : {"cve-1"}, status : {"fixed"}, product : {Purl(NpmAt("a", "1"))}]

EvidenceTwins ==
    [db : {Analysed("matches", r) : r \in Pairs("match", MatchSamples)}
          \cup {Analysed("attestations", <<e>>) : e \in Of({"t1", "t2"}, "record", AttestationSamples)}
          \cup {Analysed("reports", r) : r \in Pairs("report", ReportSamples)}
          \cup {Analysed("runs", <<r>>) : r \in Runs}
          \cup {[Analysed("matches", <<e>>) EXCEPT !.openvex = {s}] :
                    e \in Of({"t1"}, "match", MatchSamples), s \in Statuses({"t1", "t2"})},
     q : {q \in Asked : q.kind = "artifact"}]

PastDecisions == [tenant : {"t1", "t2"}, coordinate : {NpmAt("a", "1"), NpmAt("a", "2"), NpmAt("a", NoVersion)},
              digest : {{}, {"x"}}, decision : {"ALLOW", "BLOCK"}]

DecisionTwins ==
    [db : {[Empty EXCEPT !.decisions = s] : s \in {<<d>> : d \in PastDecisions} \cup (PastDecisions \X PastDecisions)},
     q : {q \in Asked : q.op = "evaluate" /\ q.digest # {"y"}}]

Scopes == {<<>>} \cup {(k :> v) : k \in {"name"}, v \in {"a", "b"}} \cup {(k :> "1") : k \in {"version", "digest"}}
          \cup {[digest |-> "x", name |-> "a"], [kind |-> "metadata"], [effect |-> "emergency-bypass", version |-> "1"]}

OverrideTwins ==
    [db : {[Empty EXCEPT !.overrides = <<o>>] :
              o \in [tenant : {"t1", "t2"}, status : {"pending", "approved", "denied"}, expired : BOOLEAN, scope : Scopes]},
     q : {q \in Asked : q.op = "evaluate"}]

Observations == [tenant : {"t1", "t2"}, coordinate : {NpmAt("a", "1"), NpmAt("b", "1")}, digest : {{}, {"x"}},
                 signal : PackageSignals \cup {"other"}, expired : BOOLEAN]

(* Any graph between three packages, and an older snapshot that knows all. *)
Edges == [from : {Purl(NpmAt("a", "1")), Purl(NpmAt("b", "1")), Purl(NpmAt("a", "2"))},
          to : {Purl(NpmAt("a", "1")), Purl(NpmAt("b", "1")), Purl(NpmAt("a", "2"))}]

SignalTwins ==
    [db : {[Empty EXCEPT !.observations = {o}] : o \in Observations}
          \cup {[Empty EXCEPT !.observations = {o},
                              !.graphs = <<[packages |-> {}, edges |-> Edges], [packages |-> ps, edges |-> es]>>] :
                    o \in {o \in Observations : o.signal = "typosquat-risk" /\ o.tenant = "t1" /\ ~o.expired},
                    ps \in {{}, {Purl(NpmAt("a", "1"))}}, es \in SUBSET {e \in Edges : e.from # e.to}},
     q : {q \in Asked : q.op = "evaluate" /\ q.kind = "artifact"}]

(* Whatever is recorded, a decision of production rests on the signals the *)
(* tests of the service see: for the same records both repositories bind   *)
(* the same signals to a request.  The records are those on which the two  *)
(* were meant to agree: a digest that was analysed under one coordinate    *)
(* only, scopes without blank values, and a query about a package of which *)
(* OpenVEX says nothing.                                                   *)
TwinsAgree ==
    Drawn("twins") =>
        LET db == sample.in.db
            q == sample.in.q
            oneCoordinate == \A a, b \in Range(db.artifacts) :
                                a.tenant = b.tenant /\ a.digest = b.digest => a.coordinate = b.coordinate
        IN  oneCoordinate /\ (q.op = "query" => db.openvex = {})
                => PostgresSignals(db, q) = InMemorySignals(db, q)
=============================================================================
