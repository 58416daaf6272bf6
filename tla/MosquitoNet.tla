---------------------------- MODULE MosquitoNet ----------------------------
(***************************************************************************)
(* The proxy (services/mosquito-net/src/lib.rs): concurrent requests for   *)
(* one registry mount are resolved, artifacts are fetched and hashed, the  *)
(* Triage Counter is asked or its cached answer used, and the package or a *)
(* filtered listing is handed out.  Meanwhile upstream republishes, the    *)
(* Triage Counter changes its mind or cannot be reached, and the registry  *)
(* configuration is edited and reloaded.                                   *)
(*                                                                         *)
(* One package; bytes are told apart by their digest only.  Instants are   *)
(* kept relative to the present: a cache entry has its remaining lifetime, *)
(* a change its age, cut off at Horizon.  Headers, audit events and        *)
(* metrics are left out, names and paths are in RegistryPaths.             *)
(***************************************************************************)
EXTENDS Naturals, FiniteSets

CONSTANTS
    Request,     \* connections; each sends one request after the other
    Digest,      \* digests of package bytes
    ErrorPage,   \* digest of an upstream error body
    NoDigest,    \* absent digest
    Setting,     \* what is deployed, requested, edited and broken together
    Ttl,         \* values of cache_ttl_seconds
    TriageAge,   \* age of a verdict when the Triage Counter's answer arrives
    MaxEdits     \* bound of the changes around the proxy

\* Cargo's "config" is config.json and its "api" the web API, as far as the
\* proxy knows the call, else "unknown-api"; "manifest" is npm's metadata of
\* one version.
Class == {"artifact", "index", "manifest", "config", "api", "unknown-api", "malformed"}

AllModes == {"enforce", "warn", "shadow"}

\* A setting: the registry's adapter, the versions of the package, the paths
\* clients ask for, the modes and profiles the registry may be given, what may
\* change and what may fail.
IsSetting(s) ==
    /\ s.adapter \in {"npm", "pypi", "cargo", "maven", "generic-http", "docker-oci"}
    /\ s.classes \subseteq Class
    /\ s.modes \subseteq AllModes
    /\ s.edits \subseteq {"verdict", "publish", "configure"}
    /\ s.faults \subseteq {"triage-outage", "triage-error", "upstream", "limit"}

ASSUME SettingAssumption == \A s \in Setting : IsSetting(s)
ASSUME TimeAssumption ==
    /\ TriageAge \in Nat /\ MaxEdits \in Nat /\ Ttl \subseteq Nat
    /\ \E t \in Ttl : \A u \in Ttl : u <= t    \* cache_ttl_seconds has a greatest value
ASSUME DigestAssumption == ErrorPage \notin Digest /\ NoDigest \notin Digest
                               /\ ErrorPage # NoDigest

VARIABLES
    edits,      \* changes so far
    registry,   \* row of registry_configs, and the age of its last change
    store,      \* RegistryConfigStore: the configuration loaded last
    setting,    \* fixed
    upstream,   \* bytes and published checksum of each version
    verdict,    \* what the Triage Counter thinks of each digest, and for how long
    decisions,  \* ProxyCaches.decisions
    metadata,   \* ProxyCaches.metadata: the package's index
    byPath,     \* ProxyCaches.artifact_digest_by_path
    byDigest,   \* ProxyCaches.artifact_by_digest: how long the body is kept
    requests    \* where each request is

cacheVars == <<decisions, metadata, byPath, byDigest>>
worldVars == <<edits, registry, store, setting, upstream, verdict>>
vars == <<worldVars, cacheVars, requests>>

-----------------------------------------------------------------------------

Body == Digest \cup {ErrorPage}

adapter == setting.adapter
Version == setting.versions

\* What the properties depend on of a RegistryConfig.
Config == [mode: setting.modes, profile: setting.profiles, ttl: Ttl]
NotMounted == [mode |-> "none"]

NoVersion == "none"
Target == [class: Class, version: Version \cup {NoVersion}]

\* decision_request_for_adapter: which paths an adapter has.  Everything of a
\* generic registry is an artifact.
Targets ==
    LET classes == CASE adapter = "npm" -> {"index", "manifest", "malformed"}
                     [] adapter = "cargo" -> {"index", "config", "api", "unknown-api", "malformed"}
                     [] adapter = "generic-http" -> {"malformed"}
                     [] OTHER -> {"index", "malformed"}
    IN [class: {"artifact"} \cap setting.classes, version: Version]
           \cup [class: classes \cap setting.classes, version: {NoVersion}]

\* A DecisionResponse, with the digest it was asked about.
Answer == [blocking: BOOLEAN, fallback: Version \cup {NoVersion}, mode: setting.modes,
           profile: setting.profiles, digest: Body \cup {NoDigest}]
NoAnswer == [blocking |-> TRUE, fallback |-> NoVersion]

\* Mutant: the artifact's digest is not part of the key.
DecisionKeyByCoordinate(kind, version, digest, explicit) ==
    <<kind, version, NoDigest, explicit>>

\* cache_key_for_decision; tenant and registry are fixed.
DecisionKey(kind, version, digest, explicit) == <<kind, version, digest, explicit>>

\* cache_deadline; a ttl of zero stores nothing.
Storable(config) == config.ttl > 0

MaxTtl == CHOOSE t \in Ttl : \A u \in Ttl : u <= t

\* How long a decision may go on acting after it has been revised.
Horizon == TriageAge + MaxTtl

\* Mutant: entries are never dropped.
LaterForever(remaining) == remaining

\* The filter of the three caches' lookups: what a moment leaves of a lifetime.
Later(remaining) == IF remaining = 0 THEN 0 ELSE remaining - 1

Older(age) == IF age < Horizon THEN age + 1 ELSE Horizon

\* cached_decision.
Cached(key) == {decisions[k].answer : k \in {key} \cap DOMAIN decisions}

\* cache_decision.
CacheDecision(config, key, answer) ==
    decisions' =
        IF ~Storable(config) THEN decisions
        ELSE [k \in DOMAIN decisions \cup {key} |->
                 IF k = key THEN [answer |-> answer, remaining |-> config.ttl]
                 ELSE decisions[k]]

Pc == {"new", "expecting", "fetching", "storing", "stored", "deciding",
       "listing", "filtering", "done"}

Status == {"none", "ok", "stub", "forbidden", "not-found", "bad-request",
           "method-not-allowed", "too-many-requests", "not-implemented",
           "bad-gateway", "unavailable"}

New == [pc |-> "new", config |-> NotMounted,
        target |-> [class |-> "malformed", version |-> NoVersion],
        expected |-> NoDigest, body |-> NoDigest, answer |-> NoAnswer,
        index |-> << >>, fetched |-> FALSE, kept |-> {}, hidden |-> {},
        status |-> "none"]

\* Every variable stays in its type; no error page gets into the artifact cache.
TypeOK ==
    /\ edits \in 0..MaxEdits
    /\ registry \in [config: Config, enabled: BOOLEAN, age: 0..Horizon]
    /\ store \in Config \cup {NotMounted}
    /\ setting \in Setting
    /\ upstream \in [Version -> [bytes: Digest, listed: Digest \cup {NoDigest}]]
    /\ verdict \in [Digest -> [blocked: BOOLEAN, age: 0..Horizon]]
    /\ \A k \in DOMAIN decisions :
          decisions[k].answer \in Answer /\ decisions[k].remaining \in 1..MaxTtl
    /\ byPath \in [Version -> Digest \cup {NoDigest}]
    /\ byDigest \in [Digest -> 0..MaxTtl]
    /\ \A r \in Request :
          /\ requests[r].pc \in Pc /\ requests[r].status \in Status
          /\ requests[r].config \in Config \cup {NotMounted}
          /\ requests[r].target \in Target
          /\ requests[r].answer \in Answer \cup {NoAnswer}
          /\ requests[r].body \in Body \cup {NoDigest}
          /\ requests[r].kept \cup requests[r].hidden \subseteq Version

\* A registry is mounted, nothing is cached, nothing has been asked.
Init ==
    /\ edits = 0 /\ setting \in Setting
    /\ registry \in [config: Config, enabled: {TRUE}, age: {Horizon}]
    /\ store = registry.config
    /\ upstream \in [Version -> {[bytes |-> d, listed |-> d] : d \in Digest}]
    /\ verdict \in [Digest -> [blocked: BOOLEAN, age: {Horizon}]]
    /\ decisions = << >>
    /\ metadata = [c \in {"index", "manifest"} |-> [remaining |-> 0, index |-> << >>]]
    /\ byPath = [v \in Version |-> NoDigest]
    /\ byDigest = [d \in Digest |-> 0]
    /\ requests = [r \in Request |-> New]

-----------------------------------------------------------------------------

\* The Triage Counter, as its clients see it: a verdict that was in force at
\* most TriageAge ago, under a mode that was, for the bound profile only.
Opinions(digest) ==
    IF digest \in Digest /\ verdict[digest].age >= TriageAge
    THEN {verdict[digest].blocked} ELSE BOOLEAN

Recent == registry.age < TriageAge

Modes == IF Recent THEN setting.modes ELSE {registry.config.mode}

Bound(profile) == Recent \/ (registry.enabled /\ registry.config.profile = profile)

\* TriageClient::evaluate: an answer for the context of the request ...
TriageAnswers(profile, digest, fallbacks) ==
    IF Bound(profile)
    THEN [blocking: Opinions(digest), fallback: {NoVersion}, mode: Modes,
          profile: {profile}, digest: {digest}]
         \cup [blocking: {FALSE}, fallback: fallbacks, mode: Modes,
               profile: {profile}, digest: {digest}]
    ELSE {}

\* ... an outage, when no attempt reaches a healthy server ...
TriageOutage == "triage-outage" \in setting.faults

\* ... or a hard error: a refusal, or an answer for another context.
TriageRefuses(profile) ==
    "triage-error" \in setting.faults \/ Recent \/ ~Bound(profile)

-----------------------------------------------------------------------------

UpstreamFails == "upstream" \in setting.faults

\* A response; what is handed out is kept, the rest of the request is not.
Respond(r, config, status) ==
    requests' = [requests EXCEPT ![r] =
        [New EXCEPT !.pc = "done", !.config = config, !.status = status]]

Fail(r, status) == Respond(r, requests[r].config, status)

\* The requested path, under the configuration loaded now; it is used to the
\* end of the request.
Resolve(r, target, pc) ==
    requests' = [requests EXCEPT ![r].pc = pc, ![r].config = store,
                                 ![r].target = target]

\* resolve and the limiters, in front of every proxied method.
Turned(r) ==
    \/ store = NotMounted /\ Respond(r, store, "not-found")
    \/ store # NotMounted /\ "limit" \in setting.faults /\ Respond(r, store, "too-many-requests")

\* is_proxy_supported.
Supported == adapter # "docker-oci"

\* Where proxy_get goes with each class of path.
NextStep(class) ==
    CASE class = "artifact" -> IF adapter = "cargo" THEN "expecting" ELSE "fetching"
      [] class \in {"config", "api"} -> "listing"
      [] OTHER -> "deciding"

\* unsupported_cargo_api_response, before anything is sent upstream.
UnsupportedCargoApiResponse(r) == Respond(r, store, "not-found")

\* proxy_get up to the prefetch.
ProxyGet(r, target) ==
    /\ requests[r] = New
    /\ \/ Turned(r)
       \/ store # NotMounted /\ ~Supported /\ Respond(r, store, "not-implemented")
       \/ /\ store # NotMounted /\ Supported
          /\ CASE target.class = "malformed" -> Respond(r, store, "bad-request")
               [] target.class = "unknown-api" -> UnsupportedCargoApiResponse(r)
               [] OTHER -> Resolve(r, target, NextStep(target.class))
    /\ UNCHANGED <<worldVars, cacheVars>>

\* proxy_write: only calls of the Cargo web API are passed on.
ProxyWrite(r, target) ==
    /\ requests[r] = New
    /\ \/ Turned(r)
       \/ store # NotMounted /\ ~Supported /\ Respond(r, store, "not-implemented")
       \/ /\ store # NotMounted /\ Supported
          /\ CASE target.class = "api" -> Resolve(r, target, "listing")
               [] target.class = "unknown-api" -> UnsupportedCargoApiResponse(r)
               [] OTHER -> Respond(r, store, "method-not-allowed")
    /\ UNCHANGED <<worldVars, cacheVars>>

\* proxy_head from the upstream URL on: no decision is asked for and no body
\* returned; without the credential upstream is not asked.
HeadUpstream(r) ==
    \/ Respond(r, store, "stub")
    \/ UpstreamFails /\ \E s \in {"bad-gateway", "unavailable"} : Respond(r, store, s)

ProxyHead(r) ==
    /\ requests[r] = New
    /\ \/ Turned(r)
       \/ store # NotMounted /\ adapter # "generic-http" /\ Respond(r, store, "not-implemented")
       \/ store # NotMounted /\ adapter = "generic-http" /\ HeadUpstream(r)
    /\ UNCHANGED <<worldVars, cacheVars>>

\* The registry's config.json, rewritten, and the calls of its web API pass
\* without a decision and without being cached.
ProxyCargoRegistryConfig(r) ==
    /\ requests[r].target.class = "config"
    /\ Fail(r, "stub") \/ (UpstreamFails /\ Fail(r, "bad-gateway"))

ProxyCargoRegistryApi(r) ==
    /\ requests[r].target.class = "api"
    /\ Fail(r, "stub") \/ (UpstreamFails /\ Fail(r, "bad-gateway"))

PassThrough(r) ==
    /\ requests[r].pc = "listing"
    /\ ProxyCargoRegistryConfig(r) \/ ProxyCargoRegistryApi(r)
    /\ UNCHANGED <<worldVars, cacheVars>>

-----------------------------------------------------------------------------

\* The index upstream serves now.
Index == [v \in Version |-> upstream[v].listed]

\* Mutant: what is left after filtering is cached.
MetadataStoredFiltered(r, class, index) ==
    metadata' = [metadata EXCEPT ![class] =
        IF Storable(requests[r].config)
        THEN [remaining |-> requests[r].config.ttl,
              index |-> [v \in DOMAIN index \ requests[r].hidden |-> index[v]]]
        ELSE @]

\* cache_metadata_response: the body as upstream sent it.
MetadataStored(r, class, index) ==
    metadata' = [metadata EXCEPT ![class] =
        IF Storable(requests[r].config)
        THEN [remaining |-> requests[r].config.ttl, index |-> index] ELSE @]

\* fetch_cargo_expected_digest: the checksum of the version in the cached or
\* the current index, which is then cached.
Expect(r) ==
    LET expected(index) == IF requests[r].target.version \in DOMAIN index
                           THEN index[requests[r].target.version] ELSE NoDigest
        proceed(index) ==
            IF expected(index) = NoDigest THEN Fail(r, "bad-gateway")
            ELSE requests' = [requests EXCEPT ![r].pc = "fetching",
                                              ![r].expected = expected(index)]
        live == metadata["index"].remaining > 0
    IN /\ requests[r].pc = "expecting"
       /\ \/ live /\ proceed(metadata["index"].index) /\ UNCHANGED metadata
          \/ ~live /\ proceed(Index) /\ MetadataStored(r, "index", Index)
          \/ ~live /\ UpstreamFails /\ Fail(r, "bad-gateway") /\ UNCHANGED metadata
       /\ UNCHANGED <<worldVars, decisions, byPath, byDigest>>

\* The cached body of the path, if it is still live and, for Cargo, what the
\* index promises.
CachedBody(r) ==
    LET d == byPath[requests[r].target.version]
    IN IF /\ d # NoDigest /\ byDigest[d] > 0
          /\ adapter = "cargo" => d = requests[r].expected
       THEN {d} ELSE {}

\* fetch_upstream_artifact, answered from the cache.
FetchCached(r) ==
    /\ requests[r].pc = "fetching"
    /\ \E d \in CachedBody(r) :
          requests' = [requests EXCEPT ![r].pc = "deciding", ![r].body = d]
    /\ UNCHANGED <<worldVars, cacheVars>>

\* verify_maven_checksum: a sidecar that cannot be had is passed over.
MavenAccepts(version, d) ==
    {ok \in BOOLEAN : \/ ok = (upstream[version].listed = d)
                      \/ ok /\ (upstream[version].listed = NoDigest \/ UpstreamFails)}

\* The early returns of cache_artifact_response.
Cacheable(config, d) == d # ErrorPage /\ Storable(config)

\* fetch_upstream_artifact, answered by upstream: the body is checked against
\* the index (Cargo) or the sidecar (Maven).  An error page of another
\* registry is handled like a package, but not cached.
FetchUpstream(r) ==
    LET v == requests[r].target.version
        bodies == {upstream[v].bytes} \cup IF UpstreamFails THEN {ErrorPage} ELSE {}
        next(d) == IF Cacheable(requests[r].config, d) THEN "storing" ELSE "deciding"
        take(d) == requests' = [requests EXCEPT ![r].pc = next(d), ![r].body = d]
    IN /\ requests[r].pc = "fetching" /\ CachedBody(r) = {}
       /\ \/ UpstreamFails /\ Fail(r, "bad-gateway")
          \/ \E d \in bodies :
                CASE adapter = "cargo" /\ d = ErrorPage -> Fail(r, "not-found")
                  [] adapter = "cargo" /\ d # ErrorPage ->
                        IF d = requests[r].expected THEN take(d) ELSE Fail(r, "bad-gateway")
                  [] adapter = "maven" ->
                        \E ok \in MavenAccepts(v, d) :
                            IF ok THEN take(d) ELSE Fail(r, "bad-gateway")
                  [] OTHER -> take(d)
       /\ UNCHANGED <<worldVars, cacheVars>>

\* cache_artifact_response, first lock: artifact_digest_by_path ...
StorePath(r) ==
    /\ requests[r].pc = "storing"
    /\ byPath' = [byPath EXCEPT ![requests[r].target.version] = requests[r].body]
    /\ requests' = [requests EXCEPT ![r].pc = "stored"]
    /\ UNCHANGED <<worldVars, decisions, metadata, byDigest>>

\* ... second lock: artifact_by_digest.
StoreBody(r) ==
    /\ requests[r].pc = "stored"
    /\ byDigest' = [byDigest EXCEPT ![requests[r].body] = requests[r].config.ttl]
    /\ requests' = [requests EXCEPT ![r].pc = "deciding"]
    /\ UNCHANGED <<worldVars, decisions, metadata, byPath>>

-----------------------------------------------------------------------------

IsArtifact(r) == requests[r].target.class = "artifact"

\* Metadata paths of the package as a whole leave the choice of a version open.
Fallbacks(r) == IF requests[r].target.class = "index" THEN Version ELSE {}

RequestKey(r) ==
    IF IsArtifact(r)
    THEN DecisionKey("artifact", requests[r].target.version, requests[r].body, TRUE)
    ELSE DecisionKey("metadata", NoVersion, NoDigest, requests[r].target.class # "index")

\* decision_response: an answer under another mode is refused, and in enforce
\* mode a blocking one is obeyed.
Apply(r, answer) ==
    LET config == requests[r].config
    IN CASE answer.mode # config.mode -> Fail(r, "bad-gateway")
         [] answer.mode = config.mode /\ config.mode = "enforce" /\ answer.blocking ->
               Fail(r, "forbidden")
         [] OTHER ->
               requests' = [requests EXCEPT
                   ![r].answer = answer,
                   ![r].pc = IF IsArtifact(r) THEN "done" ELSE "listing",
                   ![r].status = IF IsArtifact(r) THEN "ok" ELSE "none"]

\* triage_outage_response: enforce refuses, the other modes answer with a
\* placeholder that carries no package.
TriageOutageResponse(r) ==
    Fail(r, IF requests[r].config.mode = "enforce" THEN "unavailable" ELSE "stub")

\* triage_hard_error_response: an answer that is no answer closes every mode.
TriageHardErrorResponse(r) == Fail(r, "bad-gateway")

\* proxy_get from the decision on.
Decide(r) ==
    LET key == RequestKey(r)
        config == requests[r].config
    IN /\ requests[r].pc = "deciding"
       /\ \/ \E a \in Cached(key) : Apply(r, a) /\ UNCHANGED decisions
          \/ /\ Cached(key) = {}
             /\ \E a \in TriageAnswers(config.profile, requests[r].body, Fallbacks(r)) :
                   CacheDecision(config, key, a) /\ Apply(r, a)
          \/ /\ Cached(key) = {} /\ TriageOutage
             /\ TriageOutageResponse(r) /\ UNCHANGED decisions
          \/ /\ Cached(key) = {} /\ TriageRefuses(config.profile)
             /\ TriageHardErrorResponse(r) /\ UNCHANGED decisions
       /\ UNCHANGED <<worldVars, metadata, byPath, byDigest>>

\* proxy_upstream_get for metadata: the index, from the cache or upstream.
Listing(r) ==
    LET class == requests[r].target.class
        live == metadata[class].remaining > 0
        take(index, fetched) ==
            requests' = [requests EXCEPT ![r].pc = "filtering", ![r].index = index,
                                         ![r].fetched = fetched]
    IN /\ requests[r].pc = "listing" /\ class \in {"index", "manifest"}
       /\ \/ live /\ take(metadata[class].index, FALSE)
          \/ ~live /\ take(Index, TRUE)
          \/ /\ ~live /\ UpstreamFails
             /\ (Fail(r, "not-found") \/ Fail(r, "bad-gateway"))
       /\ UNCHANGED <<worldVars, cacheVars>>

\* maybe_filter_metadata_body: the adapters whose listings are filtered, and
\* the candidates of the listing not yet looked at.
Filters == adapter \in {"cargo", "pypi"}
Pending(r) ==
    IF Filters
    THEN DOMAIN requests[r].index \ (requests[r].kept \cup requests[r].hidden) ELSE {}

Judge(r, v, keep) ==
    requests' = [requests EXCEPT ![r].kept = IF keep THEN @ \cup {v} ELSE @,
                                 ![r].hidden = IF keep THEN @ ELSE @ \cup {v}]

\* Mutant: a candidate the Triage Counter cannot be asked about stays listed.
KeptInOutageAlways(config) == config.mode \in AllModes

\* candidate_allowed_for_coordinate in an outage.
KeptInOutage(config) == config.mode # "enforce"

\* candidate_allowed_for_coordinate; the profile is the one of the decision
\* about the listing.
Candidate(r, v) ==
    LET digest == requests[r].index[v]
        config == requests[r].config
        profile == requests[r].answer.profile
        key == DecisionKey("artifact", v, digest, TRUE)
        judged(a) == IF a.mode # config.mode THEN Fail(r, "bad-gateway")
                     ELSE Judge(r, v, ~(config.mode = "enforce" /\ a.blocking))
    IN /\ requests[r].pc = "filtering" /\ v \in Pending(r)
       /\ IF adapter = "cargo" /\ digest = NoDigest
          THEN Fail(r, "bad-gateway") /\ UNCHANGED decisions
          ELSE \/ \E a \in Cached(key) : judged(a) /\ UNCHANGED decisions
               \/ /\ Cached(key) = {}
                  /\ \E a \in TriageAnswers(profile, digest, {}) :
                        CacheDecision(config, key, a) /\ judged(a)
               \/ /\ Cached(key) = {} /\ TriageOutage
                  /\ Judge(r, v, KeptInOutage(config)) /\ UNCHANGED decisions
               \/ /\ Cached(key) = {} /\ TriageRefuses(profile)
                  /\ Fail(r, "bad-gateway") /\ UNCHANGED decisions
       /\ UNCHANGED <<worldVars, metadata, byPath, byDigest>>

\* filter_npm_packument_to_version: a packument without the version is left alone.
FilterNpmPackument(versions, f) == IF f \in versions THEN {f} ELSE versions

\* maybe_apply_npm_fallback_metadata.
Pruned(r) ==
    LET versions == DOMAIN requests[r].index
    IN IF adapter = "npm" /\ requests[r].target.class = "index"
       THEN FilterNpmPackument(versions, requests[r].answer.fallback) ELSE versions

\* The prepared listing is handed out, and what upstream sent is cached.
Deliver(r) ==
    /\ requests[r].pc = "filtering" /\ Pending(r) = {}
    /\ requests' = [requests EXCEPT ![r].pc = "done", ![r].status = "ok",
                                    ![r].kept = IF Filters THEN @ ELSE Pruned(r)]
    /\ IF requests[r].fetched
       THEN MetadataStored(r, requests[r].target.class, requests[r].index)
       ELSE UNCHANGED metadata
    /\ UNCHANGED <<worldVars, decisions, byPath, byDigest>>

-----------------------------------------------------------------------------

\* Time passes; entries that have expired are out of every lookup's reach.
Tick ==
    /\ registry' = [registry EXCEPT !.age = Older(@)]
    /\ verdict' = [d \in Digest |-> [verdict[d] EXCEPT !.age = Older(@)]]
    /\ decisions' = [k \in {k \in DOMAIN decisions : Later(decisions[k].remaining) > 0} |->
                        [decisions[k] EXCEPT !.remaining = Later(@)]]
    /\ metadata' = [c \in DOMAIN metadata |->
                       IF Later(metadata[c].remaining) = 0 THEN [remaining |-> 0, index |-> << >>]
                       ELSE [metadata[c] EXCEPT !.remaining = Later(@)]]
    /\ byDigest' = [d \in Digest |-> Later(byDigest[d])]
    /\ UNCHANGED <<edits, store, setting, upstream, byPath, requests>>

May(edit) == edit \in setting.edits /\ edits < MaxEdits /\ edits' = edits + 1

\* An analysis, a feed or an administrator changes what is thought of a package.
VerdictChanges(d) ==
    /\ May("verdict")
    /\ verdict' = [verdict EXCEPT ![d] = [blocked |-> ~@.blocked, age |-> 0]]
    /\ UNCHANGED <<registry, store, setting, upstream, cacheVars, requests>>

\* Upstream replaces a version; its published checksum may lag or be missing.
Republish(v, d, listed) ==
    /\ May("publish")
    /\ upstream' = [upstream EXCEPT ![v] = [bytes |-> d, listed |-> listed]]
    /\ UNCHANGED <<registry, store, setting, verdict, cacheVars, requests>>

\* The control plane edits, disables or enables the registry.
Configure(config, enabled) ==
    /\ May("configure")
    /\ registry' = [config |-> config, enabled |-> enabled, age |-> 0]
    /\ UNCHANGED <<store, setting, upstream, verdict, cacheVars, requests>>

\* reload_registry_configs; the caches are not touched.
Reload ==
    /\ store' = IF registry.enabled THEN registry.config ELSE NotMounted
    /\ UNCHANGED <<edits, registry, setting, upstream, verdict, cacheVars, requests>>

\* The client has its response.
Close(r) ==
    /\ requests[r].pc = "done"
    /\ requests' = [requests EXCEPT ![r] = New]
    /\ UNCHANGED <<worldVars, cacheVars>>

Serve(r) ==
    \/ \E t \in Targets : ProxyGet(r, t) \/ ProxyWrite(r, t)
    \/ ProxyHead(r) \/ PassThrough(r) \/ Expect(r) \/ FetchCached(r)
    \/ FetchUpstream(r) \/ StorePath(r) \/ StoreBody(r) \/ Decide(r)
    \/ Listing(r) \/ (\E v \in Version : Candidate(r, v)) \/ Deliver(r)
    \/ Close(r)

Next ==
    \/ \E r \in Request : Serve(r)
    \/ Tick
    \/ \E d \in Digest : VerdictChanges(d)
    \/ \E v \in Version, d \in Digest, l \in Digest \cup {NoDigest} : Republish(v, d, l)
    \/ \E config \in Config, enabled \in BOOLEAN : Configure(config, enabled)
    \/ Reload

Spec == Init /\ [][Next]_vars

-----------------------------------------------------------------------------

\* Bytes handed out are the bytes the decision is about, whatever upstream
\* and the caches did between the fetch and the decision (proxy_get).
ServedAsJudged ==
    \A r \in Request :
        IsArtifact(r) /\ requests[r].status = "ok" =>
            requests[r].answer.digest = requests[r].body

\* What a step of r lets through in enforce mode: a body, or a candidate.
Released(r) ==
    (IF requests[r].pc = "deciding" /\ requests'[r].status = "ok" THEN {requests[r].body} ELSE {})
    \cup {requests[r].index[v] : v \in IF requests[r].pc = "filtering" /\ Filters
                                       THEN requests'[r].kept \ requests[r].kept ELSE {}}

\* In enforce mode neither an artifact nor a candidate of a listing gets
\* through once its digest has been blocked for the length of the decision
\* cache, even if the Triage Counter cannot be reached meanwhile.
BlockTakesEffect ==
    [][\A r \in Request : \A d \in Released(r) \cap Digest :
          requests[r].config.mode = "enforce" /\ verdict[d].blocked =>
              verdict[d].age < Horizon]_vars

\* A version missing from a listing was refused to this very request, or gave
\* way to the fallback the decision names: what one request filters out is not
\* lost to the next through the metadata cache (prepare_metadata_body).
HiddenForCause ==
    \A r \in Request :
        requests[r].status = "ok" /\ ~IsArtifact(r) =>
            \/ requests[r].kept \cup requests[r].hidden = Version
            \/ requests[r].answer.fallback \in requests[r].kept

\* The decision cache is not keyed by the policy profile and survives a
\* reload; still no request under the new binding is answered under an old
\* profile once the cache's lifetime has passed since the switch.
ProfileSwitchTakesEffect ==
    [][\A r \in Request :
          /\ requests[r].pc = "deciding" /\ requests'[r].answer # NoAnswer
          /\ requests[r].config.profile = registry.config.profile
          /\ requests'[r].answer.profile # registry.config.profile
          => registry.age < Horizon]_vars

=============================================================================
