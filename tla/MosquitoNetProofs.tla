------------------------- MODULE MosquitoNetProofs -------------------------
(***************************************************************************)
(* What the proxy hands out, for any number of concurrent requests,        *)
(* versions, digests and lifetimes: bytes the decision is about, listings  *)
(* from which nothing is lost without a cause, and no decision that goes   *)
(* on acting longer than the caches may keep it.                           *)
(***************************************************************************)
EXTENDS MosquitoNet, TLAPS

Listed == Digest \cup {NoDigest}

\* A listing as upstream sends it, or none.
Indexes == [Version -> Listed] \cup {<< >>}

RequestState ==
    [pc: Pc, config: Config \cup {NotMounted}, target: Target, expected: Listed,
     body: Body \cup {NoDigest}, answer: Answer \cup {NoAnswer}, index: Indexes,
     fetched: BOOLEAN, kept: SUBSET Version, hidden: SUBSET Version, status: Status]

BeforeDecision == {"new", "expecting", "fetching", "storing", "stored", "deciding"}

\* Where a request can be with what it holds.
Placed(q) ==
    /\ q.pc \notin {"new", "done"} => q.config \in Config
    /\ q.pc \in {"expecting", "fetching", "storing", "stored"} => q.target.class = "artifact"
    /\ q.pc \in {"listing", "filtering"} => q.target.class # "artifact"
    /\ q.pc = "filtering" => q.target.class \in {"index", "manifest"}
    /\ q.target.class = "artifact" => q.target.version \in Version
    /\ q.pc \in {"storing", "stored"} => q.body \in Digest
    /\ q.pc # "done" => q.status = "none"

\* What a request has been told, and what it is told about.
Informed(q) ==
    /\ q.pc \in BeforeDecision => q.answer = NoAnswer
    /\ q.pc \in {"listing", "filtering"} /\ q.target.class \in {"index", "manifest"} =>
          q.answer \in Answer
    /\ q.target.class # "artifact" => q.body = NoDigest
    /\ q.target.class = "artifact" /\ q.status = "ok" => q.answer.digest = q.body

\* What a listing still holds.
Complete(q) ==
    /\ q.pc = "filtering" => q.index \in [Version -> Listed]
    /\ q.target.class # "artifact" /\ q.status = "ok" =>
          q.kept \cup q.hidden = Version \/ q.answer.fallback \in q.kept

RequestOK(q) == q \in RequestState /\ Placed(q) /\ Informed(q) /\ Complete(q)

RequestsInv ==
    /\ requests \in [Request -> RequestState]
    /\ \A r \in Request : RequestOK(requests[r])

\* A cached decision is about the digest of its key.  If it has been revised
\* since, or was made under another profile, then the longer ago that was, the
\* less is left of its lifetime.
EntryOK(k, e) ==
    /\ e \in [answer: Answer, remaining: 1..MaxTtl]
    /\ e.answer.digest = k[3]
    /\ e.answer.digest \in Digest /\ ~e.answer.blocking /\ verdict[e.answer.digest].blocked =>
          verdict[e.answer.digest].age + e.remaining <= Horizon
    /\ e.answer.profile # registry.config.profile => registry.age + e.remaining <= Horizon

DecisionsInv == \A k \in DOMAIN decisions : EntryOK(k, decisions[k])

CachedIndex == [remaining: 0..MaxTtl, index: Indexes]

MetadataInv ==
    /\ metadata \in [{"index", "manifest"} -> CachedIndex]
    /\ \A c \in {"index", "manifest"} :
          metadata[c].remaining > 0 => metadata[c].index \in [Version -> Listed]

WorldInv ==
    /\ edits \in 0..MaxEdits
    /\ registry \in [config: Config, enabled: BOOLEAN, age: 0..Horizon]
    /\ store \in Config \cup {NotMounted}
    /\ setting \in Setting
    /\ upstream \in [Version -> [bytes: Digest, listed: Listed]]
    /\ verdict \in [Digest -> [blocked: BOOLEAN, age: 0..Horizon]]

BodiesInv ==
    /\ byPath \in [Version -> Listed]
    /\ byDigest \in [Digest -> 0..MaxTtl]

Inv == WorldInv /\ BodiesInv /\ MetadataInv /\ DecisionsInv /\ RequestsInv

-----------------------------------------------------------------------------

\* The horizon is the age of a Triage Counter's answer and the longest lifetime.
LEMMA Lifetimes ==
    /\ MaxTtl \in Ttl /\ MaxTtl \in Nat /\ \A u \in Ttl : u \in Nat /\ u <= MaxTtl
    /\ Horizon \in Nat /\ Horizon = TriageAge + MaxTtl /\ TriageAge \in Nat
<1>1. \E t \in Ttl : \A u \in Ttl : u <= t
    BY TimeAssumption
<1>2. MaxTtl \in Ttl /\ \A u \in Ttl : u <= MaxTtl
    BY <1>1 DEF MaxTtl
<1> QED
    BY <1>2, TimeAssumption DEF Horizon

\* No configuration keeps an entry longer than the longest lifetime.
LEMMA TtlBounded ==
    ASSUME NEW config \in Config
    PROVE  config.ttl \in 0..MaxTtl
<1>1. PICK t \in Ttl : config.ttl = t
    BY DEF Config
<1>2. t \in Nat /\ t <= MaxTtl /\ MaxTtl \in Nat
    BY Lifetimes
<1>3. t \in 0..MaxTtl
    BY <1>2
<1> QED
    BY <1>1, <1>3

\* What is deployed does not change, and neither do the sets that depend on it.
LEMMA Deployed ==
    ASSUME UNCHANGED setting
    PROVE  /\ Version' = Version /\ Config' = Config /\ Target' = Target /\ Answer' = Answer
           /\ Indexes' = Indexes /\ RequestState' = RequestState /\ CachedIndex' = CachedIndex
           /\ adapter' = adapter
BY DEF Version, Config, Target, Answer, Indexes, RequestState, CachedIndex, adapter

\* One request moves to a place where it may be.
LEMMA RequestMoved ==
    ASSUME RequestsInv, UNCHANGED setting, NEW r \in Request, NEW next, RequestOK(next),
           requests' = [requests EXCEPT ![r] = next]
    PROVE  RequestsInv'
<1>1. next \in RequestState
    BY DEF RequestOK
<1>2. requests' \in [Request -> RequestState]
    BY <1>1 DEF RequestsInv
<1>3. ASSUME NEW q \in Request PROVE RequestOK(requests'[q])
    <2>1. CASE q = r
        BY <2>1 DEF RequestsInv
    <2>2. CASE q # r
        BY <2>2 DEF RequestsInv
    <2> QED
        BY <2>1, <2>2
<1>4. \A q \in Request : RequestOK(requests[q])'
    BY <1>3, Deployed DEF RequestOK, Placed, Informed, Complete
<1> QED
    BY <1>2, <1>4, Deployed DEF RequestsInv

\* A step that changes no request keeps what is known of all of them.
LEMMA RequestsKept ==
    ASSUME RequestsInv, UNCHANGED setting, UNCHANGED requests
    PROVE  RequestsInv'
BY Deployed DEF RequestsInv, RequestOK, Placed, Informed, Complete

\* A new request knows nothing.
LEMMA NewOK == RequestOK(New)
<1>1. New \in RequestState
    BY DEF New, RequestState, Pc, NotMounted, Target, Class, Listed, Body, Indexes, Status
<1>2. Placed(New)
    BY DEF New, Placed
<1>3. Informed(New)
    BY DEF New, Informed
<1>4. Complete(New)
    BY DEF New, Complete
<1> QED
    BY <1>1, <1>2, <1>3, <1>4 DEF RequestOK

\* A response that carries no package.
LEMMA Responded ==
    ASSUME RequestsInv, UNCHANGED setting, NEW r \in Request,
           NEW config \in Config \cup {NotMounted}, NEW status \in Status \ {"ok"},
           Respond(r, config, status)
    PROVE  RequestsInv'
<1> DEFINE next == [New EXCEPT !.pc = "done", !.config = config, !.status = status]
<1>1. New \in RequestState
    BY NewOK DEF RequestOK
<1>2. next \in RequestState
    BY <1>1 DEF RequestState, Pc
<1>3. /\ next.pc = "done" /\ next.status # "ok" /\ next.target.class = "malformed"
      /\ next.body = NoDigest
    BY DEF New
<1>4. Placed(next) /\ Informed(next) /\ Complete(next)
    BY <1>3 DEF Placed, Informed, Complete, BeforeDecision
<1>5. requests' = [requests EXCEPT ![r] = next]
    BY DEF Respond
<1> HIDE DEF next
<1> QED
    BY <1>2, <1>4, <1>5, RequestMoved DEF RequestOK

\* A request that ends with an error keeps the invariant.
LEMMA Failed ==
    ASSUME RequestsInv, UNCHANGED setting, NEW r \in Request,
           NEW status \in Status \ {"ok"}, Fail(r, status)
    PROVE  RequestsInv'
<1>1. requests[r].config \in Config \cup {NotMounted}
    BY DEF RequestsInv, RequestState
<1> QED
    BY <1>1, Responded DEF Fail

-----------------------------------------------------------------------------
\* Where the steps of a request take it.

\* A request that is let in goes to a step that fits its path.
LEMMA Resolved ==
    ASSUME WorldInv, RequestsInv, UNCHANGED setting, NEW r \in Request, requests[r] = New,
           NEW t \in Targets, store # NotMounted,
           NEW step \in {"expecting", "fetching", "deciding", "listing"},
           step \in {"expecting", "fetching"} => t.class = "artifact",
           step = "listing" => t.class \in {"config", "api"},
           Resolve(r, t, step)
    PROVE  RequestsInv'
<1> DEFINE next == [New EXCEPT !.pc = step, !.config = store, !.target = t]
<1>1. /\ t \in Target /\ (t.class = "artifact" => t.version \in Version)
    BY DEF Targets, Target, Class
<1>2. store \in Config
    BY DEF WorldInv
<1>3. New \in RequestState
    BY NewOK DEF RequestOK
<1>4. next \in RequestState
    BY <1>1, <1>2, <1>3 DEF RequestState, Pc
<1>5. /\ next.pc = step /\ next.config = store /\ next.target = t /\ next.status = "none"
      /\ next.answer = NoAnswer /\ next.body = NoDigest
    BY DEF New
<1>6. requests' = [requests EXCEPT ![r] = next]
    BY DEF Resolve
<1> HIDE DEF next
<1>7. Placed(next) /\ Informed(next) /\ Complete(next)
    BY <1>1, <1>2, <1>5 DEF Placed, Informed, Complete
<1> QED
    BY <1>4, <1>6, <1>7, RequestMoved DEF RequestOK

\* The first step of a request, whatever path and method it has.
LEMMA Entered ==
    ASSUME WorldInv, RequestsInv, UNCHANGED setting, NEW r \in Request,
           \/ \E t \in Targets : ProxyGet(r, t) \/ ProxyWrite(r, t)
           \/ ProxyHead(r) \/ PassThrough(r)
    PROVE  RequestsInv'
<1>1. store \in Config \cup {NotMounted}
    BY DEF WorldInv
<1>2. ASSUME NEW status \in Status \ {"ok"}, Respond(r, store, status) PROVE RequestsInv'
    BY <1>1, <1>2, Responded
<1>3. ASSUME Turned(r) PROVE RequestsInv'
    BY <1>2, <1>3 DEF Turned, Status
<1>4. ASSUME NEW t \in Targets, ProxyGet(r, t) PROVE RequestsInv'
    <2>1. CASE Turned(r)
        BY <1>3, <2>1
    <2>2. CASE Respond(r, store, "not-implemented")
        BY <1>2, <2>2 DEF Status
    <2>3. CASE /\ store # NotMounted
               /\ CASE t.class = "malformed" -> Respond(r, store, "bad-request")
                    [] t.class = "unknown-api" -> UnsupportedCargoApiResponse(r)
                    [] OTHER -> Resolve(r, t, NextStep(t.class))
        <3>1. CASE t.class = "malformed"
            BY <1>2, <2>3, <3>1 DEF Status
        <3>2. CASE t.class = "unknown-api"
            BY <1>2, <2>3, <3>2 DEF Status, UnsupportedCargoApiResponse
        <3>3. CASE t.class \notin {"malformed", "unknown-api"}
            <4>1. Resolve(r, t, NextStep(t.class))
                BY <2>3, <3>3
            <4>2. /\ NextStep(t.class) \in {"expecting", "fetching", "deciding", "listing"}
                  /\ NextStep(t.class) \in {"expecting", "fetching"} => t.class = "artifact"
                  /\ NextStep(t.class) = "listing" => t.class \in {"config", "api"}
                BY DEF NextStep
            <4> QED
                BY <1>4, <2>3, <4>1, <4>2, Resolved DEF ProxyGet
        <3> QED
            BY <3>1, <3>2, <3>3
    <2> QED
        BY <1>4, <2>1, <2>2, <2>3 DEF ProxyGet
<1>5. ASSUME NEW t \in Targets, ProxyWrite(r, t) PROVE RequestsInv'
    <2>1. CASE Turned(r)
        BY <1>3, <2>1
    <2>2. CASE Respond(r, store, "not-implemented")
        BY <1>2, <2>2 DEF Status
    <2>3. CASE /\ store # NotMounted
               /\ CASE t.class = "api" -> Resolve(r, t, "listing")
                    [] t.class = "unknown-api" -> UnsupportedCargoApiResponse(r)
                    [] OTHER -> Respond(r, store, "method-not-allowed")
        <3>1. CASE t.class = "api"
            <4>1. Resolve(r, t, "listing")
                BY <2>3, <3>1
            <4> QED
                BY <1>5, <2>3, <3>1, <4>1, Resolved DEF ProxyWrite
        <3>2. CASE t.class = "unknown-api"
            BY <1>2, <2>3, <3>2 DEF Status, UnsupportedCargoApiResponse
        <3>3. CASE t.class \notin {"api", "unknown-api"}
            BY <1>2, <2>3, <3>3 DEF Status
        <3> QED
            BY <3>1, <3>2, <3>3
    <2> QED
        BY <1>5, <2>1, <2>2, <2>3 DEF ProxyWrite
<1>6. ASSUME ProxyHead(r) PROVE RequestsInv'
    BY <1>2, <1>3, <1>6 DEF ProxyHead, HeadUpstream, Status
<1>7. ASSUME PassThrough(r) PROVE RequestsInv'
    BY <1>7, Failed DEF PassThrough, ProxyCargoRegistryConfig, ProxyCargoRegistryApi, Status
<1> QED
    BY <1>4, <1>5, <1>6, <1>7

\* The index upstream serves names every version.
LEMMA IndexWhole ==
    ASSUME WorldInv
    PROVE  Index \in [Version -> Listed]
BY DEF WorldInv, Index

\* A body of an artifact is obtained, and its digest stored or judged next.
LEMMA BodyTaken ==
    ASSUME RequestsInv, UNCHANGED setting, NEW r \in Request, requests[r].pc = "fetching",
           NEW d \in Body, NEW step \in {"storing", "deciding"}, step = "storing" => d \in Digest,
           requests' = [requests EXCEPT ![r].pc = step, ![r].body = d]
    PROVE  RequestsInv'
<1> DEFINE next == [requests[r] EXCEPT !.pc = step, !.body = d]
<1>1. requests[r] \in RequestState /\ Placed(requests[r]) /\ Informed(requests[r])
    BY DEF RequestsInv, RequestOK
<1>2. /\ next \in RequestState
      /\ next.pc = step /\ next.body = d /\ next.config = requests[r].config
      /\ next.target = requests[r].target /\ next.answer = requests[r].answer
      /\ next.status = requests[r].status
    BY <1>1 DEF RequestState, Pc
<1>3. requests' = [requests EXCEPT ![r] = next]
    BY DEF RequestsInv
<1> HIDE DEF next
<1>4. Placed(next)
    BY <1>1, <1>2 DEF Placed
<1>5. Informed(next)
    BY <1>1, <1>2 DEF Placed, Informed, BeforeDecision
<1>6. Complete(next)
    BY <1>1, <1>2 DEF Placed, Complete
<1> QED
    BY <1>2, <1>3, <1>4, <1>5, <1>6, RequestMoved DEF RequestOK

\* The steps from the expected checksum to the stored body.
LEMMA Fetched ==
    ASSUME WorldInv, BodiesInv, MetadataInv, RequestsInv, UNCHANGED setting, NEW r \in Request,
           Expect(r) \/ FetchCached(r) \/ FetchUpstream(r) \/ StorePath(r) \/ StoreBody(r)
    PROVE  RequestsInv'
<1>1. requests[r] \in RequestState /\ Placed(requests[r]) /\ Informed(requests[r])
    BY DEF RequestsInv, RequestOK
<1>2. CASE Expect(r)
    <2>1. requests[r].pc = "expecting"
        BY <1>2 DEF Expect
    <2>2. CASE \E status \in {"bad-gateway"} : Fail(r, status)
        BY <2>2, Failed DEF Status
    <2>3. CASE ~\E status \in {"bad-gateway"} : Fail(r, status)
        <3>1. PICK d \in Listed : requests' = [requests EXCEPT ![r].pc = "fetching",
                                                               ![r].expected = d]
            <4>1. metadata["index"].index \in Indexes /\ Index \in Indexes
                BY IndexWhole DEF MetadataInv, CachedIndex, Indexes
            <4>2. \E index \in Indexes :
                    LET e == IF requests[r].target.version \in DOMAIN index
                             THEN index[requests[r].target.version] ELSE NoDigest
                    IN requests' = [requests EXCEPT ![r].pc = "fetching", ![r].expected = e]
                BY <1>2, <2>3, <4>1 DEF Expect
            <4>3. \A index \in Indexes :
                    (IF requests[r].target.version \in DOMAIN index
                     THEN index[requests[r].target.version] ELSE NoDigest) \in Listed
                BY DEF Indexes, Listed
            <4> QED
                BY <4>2, <4>3
        <3> DEFINE next == [requests[r] EXCEPT !.pc = "fetching", !.expected = d]
        <3>2. /\ next \in RequestState
              /\ next.pc = "fetching" /\ next.body = requests[r].body
              /\ next.config = requests[r].config
              /\ next.target = requests[r].target /\ next.answer = requests[r].answer
              /\ next.status = requests[r].status
            BY <1>1 DEF RequestState, Pc
        <3>3. requests' = [requests EXCEPT ![r] = next]
            BY <3>1 DEF RequestsInv
        <3> HIDE DEF next
        <3>4. Placed(next) /\ Informed(next) /\ Complete(next)
            BY <1>1, <2>1, <3>2 DEF Placed, Informed, Complete, BeforeDecision
        <3> QED
            BY <3>2, <3>3, <3>4, RequestMoved DEF RequestOK
    <2> QED
        BY <2>2, <2>3
<1>3. CASE FetchCached(r)
    <2>1. requests[r].pc = "fetching" /\ requests[r].target.version \in Version
        BY <1>1, <1>3 DEF FetchCached, Placed
    <2>2. PICK d \in CachedBody(r) :
            requests' = [requests EXCEPT ![r].pc = "deciding", ![r].body = d]
        BY <1>3 DEF FetchCached
    <2>3. d \in Body
        BY <2>1, <2>2 DEF CachedBody, BodiesInv, Listed, Body
    <2> QED
        BY <2>1, <2>2, <2>3, BodyTaken
<1>4. CASE FetchUpstream(r)
    <2>1. requests[r].pc = "fetching" /\ requests[r].target.version \in Version
        BY <1>1, <1>4 DEF FetchUpstream, Placed
    <2>2. upstream[requests[r].target.version].bytes \in Digest
        BY <2>1 DEF WorldInv
    <2>3. \/ \E status \in {"bad-gateway", "not-found"} : Fail(r, status)
          \/ \E d \in Body : requests' = [requests EXCEPT
                ![r].pc = IF Cacheable(requests[r].config, d) THEN "storing" ELSE "deciding",
                ![r].body = d]
        <3> DEFINE v == requests[r].target.version
                   bodies == {upstream[v].bytes} \cup IF UpstreamFails THEN {ErrorPage} ELSE {}
                   next(d) == IF Cacheable(requests[r].config, d) THEN "storing" ELSE "deciding"
                   take(d) == requests' = [requests EXCEPT ![r].pc = next(d), ![r].body = d]
        <3>1. bodies \subseteq Body
            BY <2>2 DEF Body
        <3>2. \/ Fail(r, "bad-gateway")
              \/ \E d \in bodies : Fail(r, "not-found") \/ take(d) \/ Fail(r, "bad-gateway")
            <4>1. CASE adapter = "cargo"
                BY <1>4, <4>1 DEF FetchUpstream
            <4>2. CASE adapter = "maven"
                BY <1>4, <4>2 DEF FetchUpstream
            <4>3. CASE adapter \notin {"cargo", "maven"}
                BY <1>4, <4>3 DEF FetchUpstream
            <4> QED
                BY <4>1, <4>2, <4>3
        <3> QED
            BY <3>1, <3>2
    <2>4. ASSUME NEW status \in {"bad-gateway", "not-found"}, Fail(r, status) PROVE RequestsInv'
        BY <2>4, Failed DEF Status
    <2>5. ASSUME NEW d \in Body, NEW step \in {"storing", "deciding"},
                 step = IF Cacheable(requests[r].config, d) THEN "storing" ELSE "deciding",
                 requests' = [requests EXCEPT ![r].pc = step, ![r].body = d]
          PROVE  RequestsInv'
        <3>1. step = "storing" => d \in Digest
            BY <2>5 DEF Cacheable, Body
        <3> QED
            BY <2>1, <2>5, <3>1, BodyTaken
    <2> QED
        BY <2>3, <2>4, <2>5
<1>5. ASSUME NEW step \in {"stored", "deciding"}, requests[r].pc \in {"storing", "stored"},
             requests' = [requests EXCEPT ![r].pc = step]
      PROVE  RequestsInv'
    <2> DEFINE next == [requests[r] EXCEPT !.pc = step]
    <2>1. /\ next \in RequestState
          /\ next.pc = step /\ next.body = requests[r].body /\ next.config = requests[r].config
          /\ next.target = requests[r].target /\ next.answer = requests[r].answer
          /\ next.status = requests[r].status
        BY <1>1 DEF RequestState, Pc
    <2>2. requests' = [requests EXCEPT ![r] = next]
        BY <1>5 DEF RequestsInv
    <2> HIDE DEF next
    <2>3. Placed(next) /\ Informed(next) /\ Complete(next)
        BY <1>1, <1>5, <2>1 DEF Placed, Informed, Complete, BeforeDecision
    <2> QED
        BY <2>1, <2>2, <2>3, RequestMoved DEF RequestOK
<1>6. CASE StorePath(r) \/ StoreBody(r)
    BY <1>5, <1>6 DEF StorePath, StoreBody
<1> QED
    BY <1>2, <1>3, <1>4, <1>6

-----------------------------------------------------------------------------
\* What decisions say, cached ones and new ones.

\* An answer may still be acted on: if the verdict of its digest is blocked by
\* now, or another profile bound, that is less than the given time ago.
AgreesFor(a, time) ==
    /\ a.digest \in Digest /\ ~a.blocking /\ verdict[a.digest].blocked =>
          verdict[a.digest].age < time
    /\ a.profile # registry.config.profile => registry.age < time

\* A new answer is about the digest asked about, and agrees with the Triage
\* Counter's opinion of TriageAge ago.
LEMMA Told ==
    ASSUME WorldInv, NEW profile \in setting.profiles, NEW digest \in Body \cup {NoDigest},
           NEW fallbacks \in SUBSET Version, digest \in Digest => fallbacks = {},
           NEW a \in TriageAnswers(profile, digest, fallbacks)
    PROVE  a \in Answer /\ a.digest = digest /\ AgreesFor(a, TriageAge)
<1>1. /\ Bound(profile)
      /\ \/ a \in [blocking: Opinions(digest), fallback: {NoVersion}, mode: Modes,
                   profile: {profile}, digest: {digest}]
         \/ a \in [blocking: {FALSE}, fallback: fallbacks, mode: Modes,
                   profile: {profile}, digest: {digest}]
    BY DEF TriageAnswers
<1>2. Modes \subseteq setting.modes
    BY DEF WorldInv, Modes, Config
<1>3. Opinions(digest) \subseteq BOOLEAN
    BY DEF WorldInv, Opinions
<1>4. a \in Answer /\ a.digest = digest /\ a.profile = profile
    BY <1>1, <1>2, <1>3 DEF Answer
<1>5. a.profile # registry.config.profile => registry.age < TriageAge
    BY <1>1, <1>4 DEF Bound, Recent
<1>6. ASSUME digest \in Digest, ~a.blocking, verdict[digest].blocked
      PROVE  verdict[digest].age < TriageAge
    <2>1. a.blocking \in Opinions(digest)
        BY <1>1, <1>6
    <2>2. verdict[digest].age \in Nat /\ TriageAge \in Nat
        BY <1>6, Lifetimes DEF WorldInv
    <2>3. CASE verdict[digest].age >= TriageAge
        BY <1>6, <2>1, <2>3 DEF Opinions
    <2> QED
        BY <2>2, <2>3
<1> QED
    BY <1>4, <1>5, <1>6 DEF AgreesFor

\* A cached answer is about the digest of the key, and no older than its lifetime.
LEMMA Known ==
    ASSUME WorldInv, DecisionsInv, NEW key, NEW a \in Cached(key)
    PROVE  a \in Answer /\ a.digest = key[3] /\ AgreesFor(a, Horizon)
<1>1. key \in DOMAIN decisions /\ a = decisions[key].answer
    BY DEF Cached
<1>2. EntryOK(key, decisions[key])
    BY <1>1 DEF DecisionsInv
<1>3. a \in Answer /\ decisions[key].remaining \in 1..MaxTtl /\ a.digest = key[3]
    BY <1>1, <1>2 DEF EntryOK
<1>4. a.digest \in Digest => verdict[a.digest].age \in Nat
    BY Lifetimes DEF WorldInv
<1>5. registry.age \in Nat
    BY Lifetimes DEF WorldInv
<1> QED
    BY <1>1, <1>2, <1>3, <1>4, <1>5, Lifetimes DEF EntryOK, AgreesFor

\* What the Triage Counter answers now is within the horizon of the caches.
LEMMA AgreesLonger ==
    ASSUME WorldInv, NEW a, AgreesFor(a, TriageAge)
    PROVE  AgreesFor(a, Horizon)
<1>1. a.digest \in Digest => verdict[a.digest].age \in Nat
    BY Lifetimes DEF WorldInv
<1>2. registry.age \in Nat
    BY Lifetimes DEF WorldInv
<1> QED
    BY <1>1, <1>2, Lifetimes DEF AgreesFor

\* cache_decision keeps the cache in order.
LEMMA EntryStored ==
    ASSUME WorldInv, DecisionsInv, UNCHANGED <<setting, verdict, registry>>,
           NEW config \in Config, NEW key, NEW a \in Answer, a.digest = key[3],
           AgreesFor(a, TriageAge), CacheDecision(config, key, a)
    PROVE  DecisionsInv'
<1> DEFINE entry == [answer |-> a, remaining |-> config.ttl]
<1>1. config.ttl \in Ttl /\ config.ttl \in Nat /\ config.ttl <= MaxTtl
    BY Lifetimes DEF Config
<1>2. a.digest \in Digest => verdict[a.digest].age \in Nat
    BY Lifetimes DEF WorldInv
<1>3. registry.age \in Nat
    BY Lifetimes DEF WorldInv
<1>4. CASE Storable(config)
    <2>1. EntryOK(key, entry)
        <3>1. entry \in [answer: Answer, remaining: 1..MaxTtl]
            BY <1>1, <1>4, Lifetimes DEF Storable
        <3>2. entry.answer = a /\ entry.remaining = config.ttl
            OBVIOUS
        <3> HIDE DEF entry
        <3> QED
            BY <1>1, <1>2, <1>3, <3>1, <3>2, Lifetimes DEF EntryOK, AgreesFor
    <2>2. decisions' = [k \in DOMAIN decisions \cup {key} |->
                            IF k = key THEN entry ELSE decisions[k]]
        BY <1>4 DEF CacheDecision
    <2> HIDE DEF entry
    <2>3. ASSUME NEW k \in DOMAIN decisions' PROVE EntryOK(k, decisions'[k])
        BY <2>1, <2>2 DEF DecisionsInv
    <2> QED
        BY <2>3, Deployed DEF DecisionsInv, EntryOK
<1>5. CASE ~Storable(config)
    <2>1. UNCHANGED decisions
        BY <1>5 DEF CacheDecision
    <2> QED
        BY <2>1, Deployed DEF DecisionsInv, EntryOK
<1> QED
    BY <1>4, <1>5

\* A step that changes neither cache nor verdicts keeps the entries valid.
LEMMA DecisionsKept ==
    ASSUME DecisionsInv, UNCHANGED <<setting, verdict, registry, decisions>>
    PROVE  DecisionsInv'
BY Deployed DEF DecisionsInv, EntryOK

\* A decision about a request is about its body.
LEMMA Decided ==
    ASSUME WorldInv, DecisionsInv, RequestsInv, NEW r \in Request, Decide(r)
    PROVE  /\ DecisionsInv'
           /\ \/ \E status \in Status \ {"ok"} : Fail(r, status)
              \/ \E a \in Answer : /\ a.digest = requests[r].body
                                   /\ AgreesFor(a, Horizon)
                                   /\ Apply(r, a)
<1>1. /\ requests[r] \in RequestState /\ Placed(requests[r]) /\ Informed(requests[r])
      /\ requests[r].pc = "deciding"
    BY DEF RequestsInv, RequestOK, Decide
<1>2. RequestKey(r)[3] = requests[r].body
    BY <1>1 DEF RequestKey, IsArtifact, DecisionKey, Informed
<1>3. requests[r].config \in Config /\ requests[r].config.profile \in setting.profiles
    BY <1>1 DEF Placed, Config
<1>4. requests[r].body \in Body \cup {NoDigest}
    BY <1>1 DEF RequestState
<1>5. Fallbacks(r) \in SUBSET Version /\ (requests[r].body \in Digest => Fallbacks(r) = {})
    BY <1>1, DigestAssumption DEF Fallbacks, Informed
<1>6. UNCHANGED <<setting, verdict, registry>>
    BY DEF Decide, worldVars
<1>7. CASE \E a \in Cached(RequestKey(r)) : Apply(r, a) /\ UNCHANGED decisions
    BY <1>2, <1>6, <1>7, Known, DecisionsKept
<1>8. CASE \E a \in TriageAnswers(requests[r].config.profile, requests[r].body, Fallbacks(r)) :
              CacheDecision(requests[r].config, RequestKey(r), a) /\ Apply(r, a)
    <2>1. PICK a \in TriageAnswers(requests[r].config.profile, requests[r].body, Fallbacks(r)) :
              CacheDecision(requests[r].config, RequestKey(r), a) /\ Apply(r, a)
        BY <1>8
    <2>2. a \in Answer /\ a.digest = requests[r].body /\ AgreesFor(a, TriageAge)
        BY <1>3, <1>4, <1>5, Told
    <2>3. DecisionsInv'
        BY <1>2, <1>3, <1>6, <2>1, <2>2, EntryStored
    <2>4. AgreesFor(a, Horizon)
        BY <2>2, AgreesLonger
    <2> QED
        BY <2>1, <2>2, <2>3, <2>4
<1>9. CASE (TriageOutageResponse(r) \/ TriageHardErrorResponse(r)) /\ UNCHANGED decisions
    <2>1. \E status \in Status \ {"ok"} : Fail(r, status)
        BY <1>9 DEF TriageOutageResponse, TriageHardErrorResponse, Status
    <2> QED
        BY <1>6, <1>9, <2>1, DecisionsKept
<1> QED
    BY <1>7, <1>8, <1>9 DEF Decide

\* A candidate that stays in a listing under enforcement was allowed.
LEMMA CandidateJudged ==
    ASSUME WorldInv, DecisionsInv, RequestsInv, NEW r \in Request, NEW v \in Version,
           Candidate(r, v)
    PROVE  /\ DecisionsInv'
           /\ \/ Fail(r, "bad-gateway")
              \/ \E keep \in BOOLEAN :
                    /\ Judge(r, v, keep)
                    /\ keep /\ requests[r].config.mode = "enforce" =>
                          \E a \in Answer : /\ a.digest = requests[r].index[v]
                                            /\ ~a.blocking
                                            /\ AgreesFor(a, Horizon)
<1> DEFINE digest == requests[r].index[v]
           config == requests[r].config
           profile == requests[r].answer.profile
           key == DecisionKey("artifact", v, digest, TRUE)
           judged(a) == IF a.mode # config.mode THEN Fail(r, "bad-gateway")
                        ELSE Judge(r, v, ~(config.mode = "enforce" /\ a.blocking))
<1>1. /\ requests[r] \in RequestState /\ Placed(requests[r]) /\ Informed(requests[r])
      /\ Complete(requests[r]) /\ requests[r].pc = "filtering"
    BY DEF RequestsInv, RequestOK, Candidate
<1>2. config \in Config
    BY <1>1 DEF Placed
<1>3. profile \in setting.profiles
    BY <1>1 DEF Placed, Informed, Answer
<1>4. digest \in Body \cup {NoDigest}
    <2>1. requests[r].index \in [Version -> Listed]
        BY <1>1 DEF Complete
    <2> QED
        BY <2>1 DEF Listed, Body
<1>5. key[3] = digest
    BY DEF DecisionKey
<1>6. UNCHANGED <<setting, verdict, registry>>
    BY DEF Candidate, worldVars
<1>7. ASSUME NEW a \in Answer, a.digest = digest, AgreesFor(a, Horizon), judged(a)
      PROVE  \/ Fail(r, "bad-gateway")
             \/ \E keep \in BOOLEAN :
                    /\ Judge(r, v, keep)
                    /\ keep /\ config.mode = "enforce" =>
                          \E b \in Answer : b.digest = digest /\ ~b.blocking /\ AgreesFor(b, Horizon)
    <2>1. CASE a.mode # config.mode
        BY <1>7, <2>1
    <2>2. CASE a.mode = config.mode
        <3> DEFINE keep == ~(config.mode = "enforce" /\ a.blocking)
        <3>1. Judge(r, v, keep) /\ keep \in BOOLEAN
            BY <1>7, <2>2
        <3>2. keep /\ config.mode = "enforce" => ~a.blocking
            OBVIOUS
        <3> HIDE DEF keep
        <3> QED
            BY <1>7, <3>1, <3>2
    <2> QED
        BY <2>1, <2>2
<1>8. \/ Fail(r, "bad-gateway") /\ UNCHANGED decisions
      \/ \E a \in Cached(key) : judged(a) /\ UNCHANGED decisions
      \/ \E a \in TriageAnswers(profile, digest, {}) : CacheDecision(config, key, a) /\ judged(a)
      \/ Judge(r, v, KeptInOutage(config)) /\ UNCHANGED decisions
    BY DEF Candidate
<1> HIDE DEF digest, config, profile, key, judged
<1>9. CASE Fail(r, "bad-gateway") /\ UNCHANGED decisions
    BY <1>6, <1>9, DecisionsKept
<1>10. CASE \E a \in Cached(key) : judged(a) /\ UNCHANGED decisions
    <2>1. PICK a \in Cached(key) : judged(a) /\ UNCHANGED decisions
        BY <1>10
    <2>2. a \in Answer /\ a.digest = digest /\ AgreesFor(a, Horizon)
        BY <1>5, Known
    <2>3. DecisionsInv'
        BY <1>6, <2>1, DecisionsKept
    <2> QED
        BY <1>7, <2>1, <2>2, <2>3 DEF digest, config
<1>11. CASE \E a \in TriageAnswers(profile, digest, {}) :
                CacheDecision(config, key, a) /\ judged(a)
    <2>1. PICK a \in TriageAnswers(profile, digest, {}) : CacheDecision(config, key, a) /\ judged(a)
        BY <1>11
    <2>2. a \in Answer /\ a.digest = digest /\ AgreesFor(a, TriageAge)
        BY <1>3, <1>4, Told
    <2>3. DecisionsInv'
        BY <1>2, <1>5, <1>6, <2>1, <2>2, EntryStored
    <2>4. AgreesFor(a, Horizon)
        BY <2>2, AgreesLonger
    <2> QED
        BY <1>7, <2>1, <2>2, <2>3, <2>4 DEF digest, config
<1>12. CASE Judge(r, v, KeptInOutage(config)) /\ UNCHANGED decisions
    <2>1. DecisionsInv'
        BY <1>6, <1>12, DecisionsKept
    <2>2. KeptInOutage(config) \in BOOLEAN /\ ~(KeptInOutage(config) /\ config.mode = "enforce")
        BY DEF KeptInOutage
    <2> QED
        BY <1>12, <2>1, <2>2 DEF config
<1> QED
    BY <1>8, <1>9, <1>10, <1>11, <1>12

\* decision_response: refused, or on the way with the answer.
LEMMA Applied ==
    ASSUME RequestsInv, UNCHANGED setting, NEW r \in Request, requests[r].pc = "deciding",
           NEW a \in Answer, a.digest = requests[r].body, Apply(r, a)
    PROVE  RequestsInv'
<1>1. requests[r] \in RequestState /\ Placed(requests[r]) /\ Informed(requests[r])
    BY DEF RequestsInv, RequestOK
<1>2. \/ \E status \in {"bad-gateway", "forbidden"} : Fail(r, status)
      \/ requests' = [requests EXCEPT
                   ![r].answer = a,
                   ![r].pc = IF IsArtifact(r) THEN "done" ELSE "listing",
                   ![r].status = IF IsArtifact(r) THEN "ok" ELSE "none"]
    BY DEF Apply
<1>3. CASE \E status \in {"bad-gateway", "forbidden"} : Fail(r, status)
    BY <1>3, Failed DEF Status
<1>4. ASSUME NEW step \in {"done", "listing"}, NEW status \in {"ok", "none"},
             \/ IsArtifact(r) /\ step = "done" /\ status = "ok"
             \/ ~IsArtifact(r) /\ step = "listing" /\ status = "none",
             requests' = [requests EXCEPT ![r].answer = a, ![r].pc = step, ![r].status = status]
      PROVE  RequestsInv'
    <2> DEFINE next == [requests[r] EXCEPT !.answer = a, !.pc = step, !.status = status]
    <2>1. /\ next \in RequestState
          /\ next.pc = step /\ next.status = status /\ next.answer = a
          /\ next.body = requests[r].body /\ next.config = requests[r].config
          /\ next.target = requests[r].target
        BY <1>1 DEF RequestState, Pc, Status
    <2>2. requests' = [requests EXCEPT ![r] = next]
        BY <1>4 DEF RequestsInv
    <2> HIDE DEF next
    <2>3. Placed(next)
        BY <1>1, <1>4, <2>1 DEF Placed, IsArtifact
    <2>4. Informed(next)
        BY <1>1, <1>4, <2>1 DEF Informed, IsArtifact, BeforeDecision
    <2>5. Complete(next)
        BY <1>1, <1>4, <2>1 DEF Complete, IsArtifact
    <2> QED
        BY <2>1, <2>2, <2>3, <2>4, <2>5, RequestMoved DEF RequestOK
<1>5. CASE requests' = [requests EXCEPT
                   ![r].answer = a,
                   ![r].pc = IF IsArtifact(r) THEN "done" ELSE "listing",
                   ![r].status = IF IsArtifact(r) THEN "ok" ELSE "none"]
    <2>1. CASE IsArtifact(r)
        BY <1>4, <1>5, <2>1
    <2>2. CASE ~IsArtifact(r)
        BY <1>4, <1>5, <2>2
    <2> QED
        BY <2>1, <2>2
<1> QED
    BY <1>2, <1>3, <1>5

\* A listing: fetched whole, each candidate kept or hidden, handed out.
LEMMA ListingTaken ==
    ASSUME WorldInv, MetadataInv, RequestsInv, NEW r \in Request, Listing(r)
    PROVE  RequestsInv'
<1>1. /\ requests[r] \in RequestState /\ Placed(requests[r]) /\ Informed(requests[r])
      /\ requests[r].pc = "listing" /\ requests[r].target.class \in {"index", "manifest"}
      /\ UNCHANGED setting
    BY DEF RequestsInv, RequestOK, Listing, worldVars
<1>2. \/ \E status \in {"bad-gateway", "not-found"} : Fail(r, status)
      \/ \E index \in [Version -> Listed], fetched \in BOOLEAN :
            requests' = [requests EXCEPT ![r].pc = "filtering", ![r].index = index,
                                         ![r].fetched = fetched]
    <2>1. metadata[requests[r].target.class].remaining > 0 =>
            metadata[requests[r].target.class].index \in [Version -> Listed]
        BY <1>1 DEF MetadataInv
    <2> QED
        BY <2>1, IndexWhole DEF Listing
<1>3. CASE \E status \in {"bad-gateway", "not-found"} : Fail(r, status)
    BY <1>1, <1>3, Failed DEF Status
<1>4. ASSUME NEW index \in [Version -> Listed], NEW fetched \in BOOLEAN,
             requests' = [requests EXCEPT ![r].pc = "filtering", ![r].index = index,
                                          ![r].fetched = fetched]
      PROVE  RequestsInv'
    <2> DEFINE next == [requests[r] EXCEPT !.pc = "filtering", !.index = index,
                                           !.fetched = fetched]
    <2>1. index \in Indexes
        BY DEF Indexes
    <2>2. /\ next \in RequestState
          /\ next.pc = "filtering" /\ next.index = index
          /\ next.status = requests[r].status /\ next.answer = requests[r].answer
          /\ next.body = requests[r].body /\ next.config = requests[r].config
          /\ next.target = requests[r].target
        BY <1>1, <2>1 DEF RequestState, Pc
    <2>3. requests' = [requests EXCEPT ![r] = next]
        BY <1>4 DEF RequestsInv
    <2> HIDE DEF next
    <2>4. Placed(next) /\ Informed(next)
        BY <1>1, <2>2 DEF Placed, Informed, BeforeDecision
    <2>5. Complete(next)
        BY <1>1, <2>1, <2>2 DEF Placed, Complete
    <2> QED
        BY <1>1, <2>2, <2>3, <2>4, <2>5, RequestMoved DEF RequestOK
<1> QED
    BY <1>2, <1>3, <1>4

\* A judged version of a listing is either kept or hidden, not lost.
LEMMA CandidatePlaced ==
    ASSUME RequestsInv, UNCHANGED setting, NEW r \in Request, NEW v \in Version,
           NEW keep \in BOOLEAN, requests[r].pc = "filtering", Judge(r, v, keep)
    PROVE  RequestsInv'
<1>1. /\ requests[r] \in RequestState /\ Placed(requests[r]) /\ Informed(requests[r])
      /\ Complete(requests[r])
    BY DEF RequestsInv, RequestOK
<1> DEFINE kept == IF keep THEN requests[r].kept \cup {v} ELSE requests[r].kept
           hidden == IF keep THEN requests[r].hidden ELSE requests[r].hidden \cup {v}
           next == [requests[r] EXCEPT !.kept = kept, !.hidden = hidden]
<1>2. kept \in SUBSET Version /\ hidden \in SUBSET Version
    BY <1>1 DEF RequestState
<1>3. requests' = [requests EXCEPT ![r] = next]
    BY DEF Judge, RequestsInv
<1> HIDE DEF kept, hidden
<1>4. /\ next \in RequestState
      /\ next.pc = requests[r].pc /\ next.index = requests[r].index
      /\ next.status = requests[r].status /\ next.answer = requests[r].answer
      /\ next.body = requests[r].body /\ next.config = requests[r].config
      /\ next.target = requests[r].target
    BY <1>1, <1>2 DEF RequestState
<1> HIDE DEF next
<1>5. Placed(next) /\ Informed(next) /\ Complete(next)
    BY <1>1, <1>4 DEF Placed, Informed, Complete
<1> QED
    BY <1>3, <1>4, <1>5, RequestMoved DEF RequestOK

\* The delivery of a listing hands out what was kept, with a fallback only that.
LEMMA Delivered ==
    ASSUME RequestsInv, NEW r \in Request, Deliver(r)
    PROVE  RequestsInv'
<1>1. /\ requests[r] \in RequestState /\ Placed(requests[r]) /\ Informed(requests[r])
      /\ Complete(requests[r]) /\ requests[r].pc = "filtering" /\ Pending(r) = {}
      /\ UNCHANGED setting
    BY DEF RequestsInv, RequestOK, Deliver, worldVars
<1> DEFINE kept == IF Filters THEN requests[r].kept ELSE Pruned(r)
           next == [requests[r] EXCEPT !.pc = "done", !.status = "ok", !.kept = kept]
<1>2. DOMAIN requests[r].index = Version
    BY <1>1 DEF Complete
<1>3. requests[r].kept \subseteq Version /\ requests[r].hidden \subseteq Version
    BY <1>1 DEF RequestState
<1>4. /\ kept \in SUBSET Version
      /\ kept \cup requests[r].hidden = Version \/ requests[r].answer.fallback \in kept
    <2>1. CASE Filters
        BY <1>1, <1>2, <1>3, <2>1 DEF Pending
    <2>2. CASE ~Filters
        <3>1. kept = Pruned(r)
            BY <2>2
        <3>2. \/ Pruned(r) = Version
              \/ Pruned(r) = {requests[r].answer.fallback} /\ requests[r].answer.fallback \in Version
            BY <1>2 DEF Pruned, FilterNpmPackument
        <3> QED
            BY <1>3, <3>1, <3>2
    <2> QED
        BY <2>1, <2>2
<1>5. requests' = [requests EXCEPT ![r] = next]
    BY DEF Deliver, RequestsInv
<1> HIDE DEF kept
<1>6. /\ next \in RequestState
      /\ next.pc = "done" /\ next.status = "ok" /\ next.kept = kept
      /\ next.hidden = requests[r].hidden /\ next.answer = requests[r].answer
      /\ next.body = requests[r].body /\ next.config = requests[r].config
      /\ next.target = requests[r].target
    BY <1>1, <1>4 DEF RequestState, Pc, Status
<1> HIDE DEF next
<1>7. Placed(next) /\ Informed(next) /\ Complete(next)
    BY <1>1, <1>4, <1>6 DEF Placed, Informed, Complete, BeforeDecision
<1> QED
    BY <1>1, <1>5, <1>6, <1>7, RequestMoved DEF RequestOK

-----------------------------------------------------------------------------
\* The invariant is kept.

\* A step of a request does not touch the world around the proxy.
LEMMA WorldKept ==
    ASSUME WorldInv, UNCHANGED worldVars
    PROVE  WorldInv'
BY Deployed DEF WorldInv, worldVars

\* A listing is stored as upstream sent it, under the configuration's lifetime.
LEMMA IndexStored ==
    ASSUME MetadataInv, UNCHANGED setting, NEW r \in Request, requests[r].config \in Config,
           NEW class \in {"index", "manifest"}, NEW index \in [Version -> Listed],
           MetadataStored(r, class, index)
    PROVE  MetadataInv'
<1> DEFINE stored == [remaining |-> requests[r].config.ttl, index |-> index]
<1>1. requests[r].config.ttl \in 0..MaxTtl
    BY TtlBounded
<1>2. stored \in CachedIndex /\ stored.index = index
    BY <1>1 DEF CachedIndex, Indexes
<1>3. metadata' = [metadata EXCEPT ![class] = stored] \/ metadata' = metadata
    BY DEF MetadataStored, MetadataInv
<1> HIDE DEF stored
<1>4. metadata' \in [{"index", "manifest"} -> CachedIndex]
    BY <1>2, <1>3 DEF MetadataInv
<1>5. ASSUME NEW c \in {"index", "manifest"}, metadata'[c].remaining > 0
      PROVE  metadata'[c].index \in [Version -> Listed]
    BY <1>2, <1>3, <1>5 DEF MetadataInv
<1> QED
    BY <1>4, <1>5, Deployed DEF MetadataInv

\* Every step of a request preserves the inductive invariant.
LEMMA ServeStep ==
    ASSUME Inv, NEW r \in Request, Serve(r)
    PROVE  Inv'
<1> USE DEF Inv
<1>1. UNCHANGED worldVars
    BY DEF Serve, ProxyGet, ProxyWrite, ProxyHead, PassThrough, Expect, FetchCached,
           FetchUpstream, StorePath, StoreBody, Decide, Listing, Candidate, Deliver, Close
<1>2. WorldInv' /\ UNCHANGED setting /\ UNCHANGED <<setting, verdict, registry>>
    BY <1>1, WorldKept DEF worldVars
<1>3. requests[r] \in RequestState /\ Placed(requests[r]) /\ Complete(requests[r])
    BY DEF RequestsInv, RequestOK
<1>4. ASSUME UNCHANGED decisions PROVE DecisionsInv'
    BY <1>2, <1>4, DecisionsKept
<1>5. ASSUME UNCHANGED metadata PROVE MetadataInv'
    BY <1>2, <1>5, Deployed DEF MetadataInv
<1>6. ASSUME UNCHANGED <<byPath, byDigest>> PROVE BodiesInv'
    BY <1>2, <1>6, Deployed DEF BodiesInv
<1>7. CASE \/ \E t \in Targets : ProxyGet(r, t) \/ ProxyWrite(r, t)
           \/ ProxyHead(r) \/ PassThrough(r)
    <2>1. UNCHANGED cacheVars
        BY <1>7 DEF ProxyGet, ProxyWrite, ProxyHead, PassThrough
    <2> QED
        BY <1>2, <1>4, <1>5, <1>6, <1>7, <2>1, Entered DEF cacheVars
<1>8. CASE Expect(r)
    <2>1. UNCHANGED <<decisions, byPath, byDigest>>
        BY <1>8 DEF Expect
    <2>2. requests[r].config \in Config
        BY <1>3, <1>8 DEF Expect, Placed
    <2>3. UNCHANGED metadata \/ MetadataStored(r, "index", Index)
        BY <1>8 DEF Expect
    <2>4. MetadataInv'
        BY <1>2, <1>5, <2>2, <2>3, IndexWhole, IndexStored
    <2> QED
        BY <1>2, <1>4, <1>6, <1>8, <2>1, <2>4, Fetched
<1>9. CASE FetchCached(r) \/ FetchUpstream(r)
    <2>1. UNCHANGED cacheVars
        BY <1>9 DEF FetchCached, FetchUpstream
    <2> QED
        BY <1>2, <1>4, <1>5, <1>6, <1>9, <2>1, Fetched DEF cacheVars
<1>10. CASE StorePath(r)
    <2>1. requests[r].body \in Digest
        BY <1>3, <1>10 DEF StorePath, Placed
    <2>2. byPath' \in [Version -> Listed] /\ UNCHANGED <<decisions, metadata, byDigest>>
        BY <1>10, <2>1 DEF StorePath, BodiesInv, Listed
    <2>3. BodiesInv'
        BY <1>2, <2>2, Deployed DEF BodiesInv
    <2> QED
        BY <1>2, <1>4, <1>5, <1>10, <2>2, <2>3, Fetched
<1>11. CASE StoreBody(r)
    <2>1. requests[r].body \in Digest /\ requests[r].config \in Config
        BY <1>3, <1>11 DEF StoreBody, Placed
    <2>2. requests[r].config.ttl \in 0..MaxTtl
        BY <2>1, TtlBounded
    <2>3. byDigest' \in [Digest -> 0..MaxTtl] /\ UNCHANGED <<decisions, metadata, byPath>>
        BY <1>11, <2>2 DEF StoreBody, BodiesInv
    <2>4. BodiesInv'
        BY <1>2, <2>3, Deployed DEF BodiesInv
    <2> QED
        BY <1>2, <1>4, <1>5, <1>11, <2>3, <2>4, Fetched
<1>12. CASE Decide(r)
    <2>1. UNCHANGED <<metadata, byPath, byDigest>> /\ requests[r].pc = "deciding"
        BY <1>12 DEF Decide
    <2>2. RequestsInv'
        BY <1>2, <1>12, <2>1, Decided, Applied, Failed
    <2> QED
        BY <1>2, <1>5, <1>6, <1>12, <2>1, <2>2, Decided
<1>13. CASE Listing(r)
    <2>1. UNCHANGED cacheVars
        BY <1>13 DEF Listing
    <2> QED
        BY <1>2, <1>4, <1>5, <1>6, <1>13, <2>1, ListingTaken DEF cacheVars
<1>14. ASSUME NEW v \in Version, Candidate(r, v) PROVE Inv'
    <2>1. UNCHANGED <<metadata, byPath, byDigest>> /\ requests[r].pc = "filtering"
        BY <1>14 DEF Candidate
    <2>2. "bad-gateway" \in Status \ {"ok"}
        BY DEF Status
    <2>3. RequestsInv'
        BY <1>2, <1>14, <2>1, <2>2, CandidateJudged, CandidatePlaced, Failed
    <2> QED
        BY <1>2, <1>5, <1>6, <1>14, <2>1, <2>3, CandidateJudged
<1>15. CASE Deliver(r)
    <2>1. /\ requests[r].config \in Config /\ requests[r].index \in [Version -> Listed]
          /\ requests[r].target.class \in {"index", "manifest"}
        BY <1>3, <1>15 DEF Deliver, Placed, Complete
    <2>2. UNCHANGED metadata \/ MetadataStored(r, requests[r].target.class, requests[r].index)
        BY <1>15 DEF Deliver
    <2>3. MetadataInv'
        BY <1>2, <1>5, <2>1, <2>2, IndexStored
    <2>4. UNCHANGED <<decisions, byPath, byDigest>>
        BY <1>15 DEF Deliver
    <2> QED
        BY <1>2, <1>4, <1>6, <1>15, <2>3, <2>4, Delivered
<1>16. CASE Close(r)
    <2>1. UNCHANGED cacheVars /\ requests' = [requests EXCEPT ![r] = New]
        BY <1>16 DEF Close
    <2>2. RequestsInv'
        BY <1>2, <2>1, NewOK, RequestMoved
    <2> QED
        BY <1>2, <1>4, <1>5, <1>6, <2>1, <2>2 DEF cacheVars
<1> QED
    BY <1>7, <1>8, <1>9, <1>10, <1>11, <1>12, <1>13, <1>14, <1>15, <1>16 DEF Serve

\* An age grows with time, up to the horizon.
LEMMA Aged ==
    ASSUME NEW age \in 0..Horizon
    PROVE  Older(age) \in 0..Horizon /\ Older(age) <= age + 1
BY Lifetimes DEF Older

\* Time passes: what a revised decision has lost of its lifetime, the revision
\* has gained in age.
LEMMA TickStep ==
    ASSUME Inv, Tick
    PROVE  Inv'
<1> USE DEF Inv
<1>1. UNCHANGED <<edits, store, setting, upstream, byPath, requests>>
    BY DEF Tick
<1>2. /\ registry' \in [config: Config, enabled: BOOLEAN, age: 0..Horizon]
      /\ registry'.config = registry.config /\ registry'.age \in 0..Horizon
      /\ registry'.age <= registry.age + 1
    <2>1. registry \in [config: Config, enabled: BOOLEAN, age: 0..Horizon]
        BY DEF WorldInv
    <2>2. registry' = [registry EXCEPT !.age = Older(registry.age)]
        BY DEF Tick
    <2>3. Older(registry.age) \in 0..Horizon /\ Older(registry.age) <= registry.age + 1
        BY <2>1, Aged
    <2> QED
        BY <2>1, <2>2, <2>3
<1>3. /\ verdict' \in [Digest -> [blocked: BOOLEAN, age: 0..Horizon]]
      /\ \A d \in Digest : /\ verdict'[d].blocked = verdict[d].blocked
                           /\ verdict'[d].age \in 0..Horizon
                           /\ verdict'[d].age <= verdict[d].age + 1
    <2>1. verdict' = [d \in Digest |-> [verdict[d] EXCEPT !.age = Older(verdict[d].age)]]
        BY DEF Tick
    <2>2. ASSUME NEW d \in Digest
          PROVE  /\ verdict'[d] \in [blocked: BOOLEAN, age: 0..Horizon]
                 /\ verdict'[d].blocked = verdict[d].blocked
                 /\ verdict'[d].age \in 0..Horizon
                 /\ verdict'[d].age <= verdict[d].age + 1
        <3>1. verdict[d] \in [blocked: BOOLEAN, age: 0..Horizon]
            BY DEF WorldInv
        <3>2. Older(verdict[d].age) \in 0..Horizon /\ Older(verdict[d].age) <= verdict[d].age + 1
            BY <3>1, Aged
        <3>3. verdict'[d] = [verdict[d] EXCEPT !.age = Older(verdict[d].age)]
            BY <2>1
        <3> QED
            BY <3>1, <3>2, <3>3
    <2> QED
        BY <2>1, <2>2
<1>4. WorldInv'
    BY <1>1, <1>2, <1>3, Deployed DEF WorldInv
<1>5. DecisionsInv'
    <2>1. ASSUME NEW k \in DOMAIN decisions', NEW e, e = decisions'[k]
          PROVE  /\ e \in [answer: Answer, remaining: 1..MaxTtl]
                 /\ e.answer.digest = k[3]
                 /\ e.answer.digest \in Digest /\ ~e.answer.blocking
                    /\ verdict'[e.answer.digest].blocked =>
                          verdict'[e.answer.digest].age + e.remaining <= Horizon
                 /\ e.answer.profile # registry'.config.profile =>
                          registry'.age + e.remaining <= Horizon
        <3>1. k \in DOMAIN decisions /\ Later(decisions[k].remaining) > 0
            BY <2>1 DEF Tick
        <3>2. e = [decisions[k] EXCEPT !.remaining = Later(decisions[k].remaining)]
            BY <2>1 DEF Tick
        <3>3. EntryOK(k, decisions[k])
            BY <3>1 DEF DecisionsInv
        <3>4. decisions[k] \in [answer: Answer, remaining: 1..MaxTtl]
            BY <3>3 DEF EntryOK
        <3>5. /\ Later(decisions[k].remaining) \in 1..MaxTtl
              /\ Later(decisions[k].remaining) = decisions[k].remaining - 1
            BY <3>1, <3>4, Lifetimes DEF Later
        <3>6. /\ e \in [answer: Answer, remaining: 1..MaxTtl]
              /\ e.answer = decisions[k].answer /\ e.remaining = decisions[k].remaining - 1
              /\ decisions[k].remaining \in Nat
            BY <3>2, <3>4, <3>5, Lifetimes
        <3>7. registry.age \in Nat /\ registry'.age \in Nat
            BY <1>2, Lifetimes DEF WorldInv
        <3>8. \A d \in Digest : verdict[d].age \in Nat /\ verdict'[d].age \in Nat
            BY <1>3, Lifetimes DEF WorldInv
        <3>9. e.answer.profile # registry'.config.profile =>
                    registry'.age + e.remaining <= Horizon
            BY <1>2, <3>3, <3>6, <3>7, Lifetimes DEF EntryOK
        <3>10. e.answer.digest \in Digest /\ ~e.answer.blocking
                /\ verdict'[e.answer.digest].blocked =>
                      verdict'[e.answer.digest].age + e.remaining <= Horizon
            BY <1>3, <3>3, <3>6, <3>8, Lifetimes DEF EntryOK
        <3> QED
            BY <3>3, <3>6, <3>9, <3>10 DEF EntryOK
    <2> QED
        BY <1>1, <2>1, Deployed DEF DecisionsInv, EntryOK
<1>6. MetadataInv'
    <2>1. ASSUME NEW c \in {"index", "manifest"}
          PROVE  /\ metadata'[c] \in CachedIndex
                 /\ metadata'[c].remaining > 0 => metadata'[c].index \in [Version -> Listed]
        <3>1. metadata[c] \in CachedIndex
            BY DEF MetadataInv
        <3>2. metadata[c].remaining \in 0..MaxTtl
            BY <3>1 DEF CachedIndex
        <3>3. CASE Later(metadata[c].remaining) = 0
            <4>1. metadata'[c] = [remaining |-> 0, index |-> << >>]
                BY <3>3 DEF Tick, MetadataInv
            <4> QED
                BY <4>1, Lifetimes DEF CachedIndex, Indexes
        <3>4. CASE Later(metadata[c].remaining) # 0
            <4>1. metadata'[c] = [metadata[c] EXCEPT !.remaining = Later(metadata[c].remaining)]
                BY <3>4 DEF Tick, MetadataInv
            <4>2. Later(metadata[c].remaining) \in 0..MaxTtl /\ metadata[c].remaining > 0
                BY <3>2, <3>4, Lifetimes DEF Later
            <4> QED
                BY <3>1, <4>1, <4>2 DEF CachedIndex, MetadataInv
        <3> QED
            BY <3>3, <3>4
    <2>2. metadata' \in [{"index", "manifest"} -> CachedIndex]
        <3>1. DOMAIN metadata' = {"index", "manifest"}
              /\ metadata' = [c \in {"index", "manifest"} |-> metadata'[c]]
            BY DEF Tick, MetadataInv
        <3> QED
            BY <2>1, <3>1
    <2> QED
        BY <1>1, <2>1, <2>2, Deployed DEF MetadataInv
<1>7. BodiesInv'
    <2>1. \A n \in 0..MaxTtl : Later(n) \in 0..MaxTtl
        BY Lifetimes DEF Later
    <2>2. byDigest' \in [Digest -> 0..MaxTtl]
        BY <2>1 DEF Tick, BodiesInv
    <2> QED
        BY <1>1, <2>2, Deployed DEF BodiesInv
<1>8. RequestsInv'
    BY <1>1, RequestsKept
<1> QED
    BY <1>4, <1>5, <1>6, <1>7, <1>8

\* A revision of a verdict or of the configuration is young: whatever is left
\* of a cached decision, it ends before the horizon.
LEMMA EditStep ==
    ASSUME Inv,
           \/ \E d \in Digest : VerdictChanges(d)
           \/ \E v \in Version, d \in Digest, l \in Digest \cup {NoDigest} : Republish(v, d, l)
           \/ \E config \in Config, enabled \in BOOLEAN : Configure(config, enabled)
           \/ Reload
    PROVE  Inv'
<1> USE DEF Inv
<1>1. UNCHANGED setting /\ UNCHANGED cacheVars /\ UNCHANGED requests
    BY DEF VerdictChanges, Republish, Configure, Reload
<1>2. RequestsInv' /\ MetadataInv' /\ BodiesInv'
    BY <1>1, RequestsKept, Deployed DEF MetadataInv, BodiesInv, cacheVars
<1>3. 0 \in 0..Horizon
    BY Lifetimes
<1>4. edits' \in 0..MaxEdits
    BY TimeAssumption DEF VerdictChanges, Republish, Configure, Reload, May, WorldInv
<1>5. ASSUME NEW d \in Digest, VerdictChanges(d) PROVE WorldInv' /\ DecisionsInv'
    <2>1. UNCHANGED <<registry, store, setting, upstream>>
        BY <1>5 DEF VerdictChanges
    <2>2. verdict' = [verdict EXCEPT ![d] = [blocked |-> ~verdict[d].blocked, age |-> 0]]
        BY <1>5 DEF VerdictChanges
    <2>3. verdict' \in [Digest -> [blocked: BOOLEAN, age: 0..Horizon]]
        BY <1>3, <2>2 DEF WorldInv
    <2>4. WorldInv'
        BY <1>4, <2>1, <2>3, Deployed DEF WorldInv
    <2>5. verdict'[d].age = 0 /\ \A f \in Digest : f # d => verdict'[f] = verdict[f]
        BY <2>2 DEF WorldInv
    <2>6. ASSUME NEW k \in DOMAIN decisions, NEW e, e = decisions[k], e.answer.digest \in Digest,
                 ~e.answer.blocking, verdict'[e.answer.digest].blocked
          PROVE  verdict'[e.answer.digest].age + e.remaining <= Horizon
        <3>1. EntryOK(k, e)
            BY <2>6 DEF DecisionsInv
        <3>2. e.remaining \in 1..MaxTtl
            BY <3>1 DEF EntryOK
        <3>3. CASE e.answer.digest = d
            BY <2>5, <3>2, <3>3, Lifetimes
        <3>4. CASE e.answer.digest # d
            BY <2>5, <2>6, <3>1, <3>4 DEF EntryOK
        <3> QED
            BY <3>3, <3>4
    <2>7. DecisionsInv'
        BY <1>1, <2>1, <2>6, Deployed DEF DecisionsInv, EntryOK, cacheVars
    <2> QED
        BY <2>4, <2>7
<1>6. ASSUME NEW v \in Version, NEW d \in Digest, NEW l \in Digest \cup {NoDigest},
             Republish(v, d, l)
      PROVE  WorldInv' /\ DecisionsInv'
    <2>1. UNCHANGED <<registry, store, setting, verdict>>
        BY <1>6 DEF Republish
    <2>2. upstream' \in [Version -> [bytes: Digest, listed: Listed]]
        BY <1>6 DEF Republish, WorldInv, Listed
    <2>3. WorldInv'
        BY <1>4, <2>1, <2>2, Deployed DEF WorldInv
    <2> QED
        BY <1>1, <2>1, <2>3, DecisionsKept DEF cacheVars
<1>7. ASSUME NEW config \in Config, NEW enabled \in BOOLEAN, Configure(config, enabled)
      PROVE  WorldInv' /\ DecisionsInv'
    <2>1. UNCHANGED <<store, setting, upstream, verdict>>
        BY <1>7 DEF Configure
    <2>2. registry' = [config |-> config, enabled |-> enabled, age |-> 0]
        BY <1>7 DEF Configure
    <2>3. registry' \in [config: Config, enabled: BOOLEAN, age: 0..Horizon] /\ registry'.age = 0
        BY <1>3, <2>2
    <2>4. WorldInv'
        BY <1>4, <2>1, <2>3, Deployed DEF WorldInv
    <2>5. ASSUME NEW k \in DOMAIN decisions
          PROVE  registry'.age + decisions[k].remaining <= Horizon
        <3>1. decisions[k].remaining \in 1..MaxTtl
            BY DEF DecisionsInv, EntryOK
        <3> QED
            BY <2>3, <3>1, Lifetimes
    <2>6. DecisionsInv'
        BY <1>1, <2>1, <2>5, Deployed DEF DecisionsInv, EntryOK, cacheVars
    <2> QED
        BY <2>4, <2>6
<1>8. ASSUME Reload PROVE WorldInv' /\ DecisionsInv'
    <2>1. UNCHANGED <<edits, registry, setting, upstream, verdict>>
        BY <1>8 DEF Reload
    <2>2. store' \in Config \cup {NotMounted}
        BY <1>8 DEF Reload, WorldInv
    <2>3. WorldInv'
        BY <2>1, <2>2, Deployed DEF WorldInv
    <2> QED
        BY <1>1, <2>1, <2>3, DecisionsKept DEF cacheVars
<1> QED
    BY <1>2, <1>5, <1>6, <1>7, <1>8

\* Empty caches and no requests satisfy the inductive invariant.
LEMMA InvInit == Init => Inv
<1> SUFFICES ASSUME Init PROVE Inv
    OBVIOUS
<1>1. WorldInv
    <2>1. 0 \in 0..MaxEdits /\ Horizon \in 0..Horizon
        BY TimeAssumption, Lifetimes
    <2>2. upstream \in [Version -> [bytes: Digest, listed: Listed]]
        BY DEF Init, Listed
    <2> QED
        BY <2>1, <2>2 DEF Init, WorldInv
<1>2. BodiesInv
    BY Lifetimes DEF Init, BodiesInv, Listed
<1>3. MetadataInv
    BY Lifetimes DEF Init, MetadataInv, CachedIndex, Indexes
<1>4. DecisionsInv
    BY DEF Init, DecisionsInv
<1>5. RequestsInv
    BY NewOK DEF Init, RequestsInv, RequestOK
<1> QED
    BY <1>1, <1>2, <1>3, <1>4, <1>5 DEF Inv

\* Every step of requests, reload, world and time preserves the invariant.
LEMMA InvStep == Inv /\ [Next]_vars => Inv'
<1> SUFFICES ASSUME Inv, [Next]_vars PROVE Inv'
    OBVIOUS
<1>1. CASE UNCHANGED vars
    <2>1. UNCHANGED worldVars /\ UNCHANGED cacheVars /\ UNCHANGED requests
          /\ UNCHANGED setting /\ UNCHANGED <<setting, verdict, registry, decisions>>
        BY <1>1 DEF vars, worldVars, cacheVars
    <2>2. MetadataInv' /\ BodiesInv'
        BY <2>1, Deployed DEF Inv, MetadataInv, BodiesInv, cacheVars
    <2> QED
        BY <2>1, <2>2, WorldKept, DecisionsKept, RequestsKept DEF Inv
<1> QED
    BY <1>1, ServeStep, TickStep, EditStep DEF Next

-----------------------------------------------------------------------------
\* Which step moves a request.

\* A request is moved by its own steps only.
LEMMA OthersStay ==
    ASSUME NEW q \in Request, NEW r \in Request, q # r, Inv, Serve(q)
    PROVE  requests'[r] = requests[r]
<1>1. ASSUME NEW config, NEW status, Respond(q, config, status) PROVE requests'[r] = requests[r]
    BY <1>1 DEF Respond, Inv, RequestsInv
<1>2. ASSUME NEW status, Fail(q, status) PROVE requests'[r] = requests[r]
    BY <1>1, <1>2 DEF Fail
<1>3. ASSUME NEW t, NEW step, Resolve(q, t, step) PROVE requests'[r] = requests[r]
    BY <1>3 DEF Resolve, Inv, RequestsInv
<1>4. ASSUME Turned(q) PROVE requests'[r] = requests[r]
    BY <1>1, <1>4 DEF Turned
<1>5. ASSUME NEW t \in Targets, ProxyGet(q, t) PROVE requests'[r] = requests[r]
    BY <1>1, <1>3, <1>4, <1>5 DEF ProxyGet, UnsupportedCargoApiResponse
<1>6. ASSUME NEW t \in Targets, ProxyWrite(q, t) PROVE requests'[r] = requests[r]
    BY <1>1, <1>3, <1>4, <1>6 DEF ProxyWrite, UnsupportedCargoApiResponse
<1>7. CASE ProxyHead(q) \/ PassThrough(q)
    BY <1>1, <1>2, <1>4, <1>7
       DEF ProxyHead, HeadUpstream, PassThrough, ProxyCargoRegistryConfig, ProxyCargoRegistryApi
<1>8. CASE Expect(q)
    BY <1>2, <1>8 DEF Expect, Inv, RequestsInv
<1>9. CASE FetchCached(q) \/ StorePath(q) \/ StoreBody(q) \/ Deliver(q) \/ Close(q)
    BY <1>9 DEF FetchCached, StorePath, StoreBody, Deliver, Close, Inv, RequestsInv
<1>10. CASE FetchUpstream(q)
    <2>1. CASE adapter = "cargo"
        BY <1>2, <1>10, <2>1 DEF FetchUpstream, Inv, RequestsInv
    <2>2. CASE adapter = "maven"
        BY <1>2, <1>10, <2>2 DEF FetchUpstream, Inv, RequestsInv
    <2>3. CASE adapter \notin {"cargo", "maven"}
        BY <1>2, <1>10, <2>3 DEF FetchUpstream, Inv, RequestsInv
    <2> QED
        BY <2>1, <2>2, <2>3
<1>11. CASE Decide(q)
    <2>1. ASSUME NEW a, Apply(q, a) PROVE requests'[r] = requests[r]
        BY <1>2, <2>1 DEF Apply, Inv, RequestsInv
    <2> QED
        BY <1>2, <1>11, <2>1 DEF Decide, TriageOutageResponse, TriageHardErrorResponse
<1>12. CASE Listing(q)
    BY <1>2, <1>12 DEF Listing, Inv, RequestsInv
<1>13. ASSUME NEW v \in Version, Candidate(q, v) PROVE requests'[r] = requests[r]
    <2>1. ASSUME NEW keep, Judge(q, v, keep) PROVE requests'[r] = requests[r]
        BY <2>1 DEF Judge, Inv, RequestsInv
    <2> QED
        BY <1>2, <1>13, <2>1 DEF Candidate
<1> QED
    BY <1>5, <1>6, <1>7, <1>8, <1>9, <1>10, <1>11, <1>12, <1>13 DEF Serve

\* A request that leaves a decision or a listing does so by deciding or judging.
LEMMA Mover ==
    ASSUME Inv, [Next]_vars, NEW r \in Request, requests'[r] # requests[r]
    PROVE  /\ requests[r].pc = "deciding" => Decide(r)
           /\ requests[r].pc = "filtering" => Deliver(r) \/ \E v \in Version : Candidate(r, v)
<1>1. UNCHANGED requests \/ \E q \in Request : Serve(q)
    BY DEF Next, vars, Tick, VerdictChanges, Republish, Configure, Reload
<1>2. Serve(r)
    BY <1>1, OthersStay
<1>3. New.pc = "new"
    BY DEF New
<1> QED
    BY <1>2, <1>3 DEF Serve, ProxyGet, ProxyWrite, ProxyHead, PassThrough, Expect, FetchCached,
           FetchUpstream, StorePath, StoreBody, Decide, Listing, Candidate, Deliver, Close

-----------------------------------------------------------------------------
\* Theorems.

\* The caches, the requests and the world around the proxy are as Inv says,
\* whatever requests, edits and moments interleave.
THEOREM Invariance == Spec => []Inv
BY InvInit, InvStep, PTL DEF Spec

\* Every variable stays in its type; no error page gets into the artifact cache.
THEOREM TypeCorrect == Spec => []TypeOK
<1>1. Inv => TypeOK
    <2> SUFFICES ASSUME Inv PROVE TypeOK
        OBVIOUS
    <2>1. \A k \in DOMAIN decisions :
            decisions[k].answer \in Answer /\ decisions[k].remaining \in 1..MaxTtl
        BY DEF Inv, DecisionsInv, EntryOK
    <2>2. ASSUME NEW r \in Request
          PROVE  /\ requests[r].pc \in Pc /\ requests[r].status \in Status
                 /\ requests[r].config \in Config \cup {NotMounted}
                 /\ requests[r].target \in Target
                 /\ requests[r].answer \in Answer \cup {NoAnswer}
                 /\ requests[r].body \in Body \cup {NoDigest}
                 /\ requests[r].kept \cup requests[r].hidden \subseteq Version
        <3>1. requests[r] \in RequestState
            BY DEF Inv, RequestsInv
        <3> QED
            BY <3>1 DEF RequestState
    <2> QED
        BY <2>1, <2>2 DEF Inv, WorldInv, BodiesInv, TypeOK, Listed
<1> QED
    BY <1>1, Invariance, PTL

\* proxy_get hands out the very bytes its decision is about, whatever upstream
\* replaced and other requests stored between the fetch and the decision.
THEOREM JudgedBytesServed == Spec => []ServedAsJudged
<1>1. Inv => ServedAsJudged
    BY DEF Inv, RequestsInv, RequestOK, Informed, ServedAsJudged, IsArtifact
<1> QED
    BY <1>1, Invariance, PTL

\* prepare_metadata_body loses no version of a listing: each one was refused
\* to this request, or the listing was reduced to the fallback it was given.
THEOREM NothingHiddenWithoutCause == Spec => []HiddenForCause
<1>1. Inv => HiddenForCause
    BY DEF Inv, RequestsInv, RequestOK, Complete, HiddenForCause, IsArtifact
<1> QED
    BY <1>1, Invariance, PTL

\* A response without a package holds nothing of the request.
LEMMA FailHoldsNothing ==
    ASSUME Inv, NEW r \in Request, NEW status, Fail(r, status)
    PROVE  /\ requests'[r].status = status /\ requests'[r].answer = NoAnswer
           /\ requests'[r].kept = {}
BY DEF Fail, Respond, New, Inv, RequestsInv

\* What an obeyed answer leaves in the request.
LEMMA AppliedLeaves ==
    ASSUME Inv, NEW r \in Request, NEW a, Apply(r, a)
    PROVE  \/ \E status \in Status \ {"ok"} : Fail(r, status)
           \/ /\ requests'[r].answer = a
              /\ ~(requests[r].config.mode = "enforce" /\ a.blocking)
<1>1. CASE a.mode # requests[r].config.mode
    BY <1>1 DEF Apply, Status
<1>2. CASE a.mode = requests[r].config.mode /\ requests[r].config.mode = "enforce" /\ a.blocking
    BY <1>2 DEF Apply, Status
<1>3. CASE /\ a.mode = requests[r].config.mode
           /\ ~(requests[r].config.mode = "enforce" /\ a.blocking)
    <2>1. requests' = [requests EXCEPT
                   ![r].answer = a,
                   ![r].pc = IF IsArtifact(r) THEN "done" ELSE "listing",
                   ![r].status = IF IsArtifact(r) THEN "ok" ELSE "none"]
        BY <1>3 DEF Apply
    <2>2. requests[r] \in RequestState
        BY DEF Inv, RequestsInv
    <2>3. requests'[r].answer = a
        BY <2>1, <2>2 DEF Inv, RequestsInv, RequestState
    <2> QED
        BY <1>3, <2>3
<1> QED
    BY <1>1, <1>2, <1>3

BlockedInTime ==
    \A r \in Request : \A d \in Released(r) \cap Digest :
        requests[r].config.mode = "enforce" /\ verdict[d].blocked => verdict[d].age < Horizon

\* No step lets a digest through that has been blocked for the horizon.
LEMMA BlockStep == Inv /\ [Next]_vars => BlockedInTime
<1> SUFFICES ASSUME Inv, [Next]_vars, NEW r \in Request, NEW d \in Released(r), d \in Digest,
                    requests[r].config.mode = "enforce", verdict[d].blocked
             PROVE  verdict[d].age < Horizon
    BY DEF BlockedInTime
<1>1. requests[r] \in RequestState /\ Placed(requests[r])
    BY DEF Inv, RequestsInv, RequestOK
<1>2. ASSUME NEW a, a.digest = d, ~a.blocking, AgreesFor(a, Horizon)
      PROVE  verdict[d].age < Horizon
    BY <1>2 DEF AgreesFor
<1>3. CASE requests[r].pc = "deciding" /\ requests'[r].status = "ok" /\ d = requests[r].body
    <2>1. requests[r].status = "none"
        BY <1>1, <1>3 DEF Placed
    <2>2. Decide(r)
        BY <1>3, <2>1, Mover
    <2>3. ~\E status \in Status \ {"ok"} : Fail(r, status)
        BY <1>3, FailHoldsNothing
    <2>4. PICK a \in Answer : a.digest = requests[r].body /\ AgreesFor(a, Horizon) /\ Apply(r, a)
        BY <2>2, <2>3, Decided DEF Inv
    <2>5. ~a.blocking
        BY <2>3, <2>4, AppliedLeaves
    <2> QED
        BY <1>2, <1>3, <2>4, <2>5
<1>4. ASSUME NEW v, requests[r].pc = "filtering", Filters,
             v \in requests'[r].kept, v \notin requests[r].kept, d = requests[r].index[v]
      PROVE  verdict[d].age < Horizon
    <2>1. ~Deliver(r)
        <3>1. ASSUME Deliver(r) PROVE FALSE
            <4>1. requests'[r].kept = requests[r].kept
                BY <1>1, <1>4, <3>1 DEF Deliver, Inv, RequestsInv, RequestState
            <4> QED
                BY <1>4, <4>1
        <3> QED
            BY <3>1
    <2>2. PICK u \in Version : Candidate(r, u)
        BY <1>4, <2>1, Mover
    <2>3. ~Fail(r, "bad-gateway")
        BY <1>4, FailHoldsNothing
    <2>4. PICK keep \in BOOLEAN :
            /\ Judge(r, u, keep)
            /\ keep /\ requests[r].config.mode = "enforce" =>
                  \E a \in Answer : /\ a.digest = requests[r].index[u]
                                    /\ ~a.blocking
                                    /\ AgreesFor(a, Horizon)
        BY <2>2, <2>3, CandidateJudged DEF Inv
    <2>5. requests'[r].kept = IF keep THEN requests[r].kept \cup {u} ELSE requests[r].kept
        <3> DEFINE kept == IF keep THEN requests[r].kept \cup {u} ELSE requests[r].kept
                   hidden == IF keep THEN requests[r].hidden ELSE requests[r].hidden \cup {u}
        <3>1. requests' = [requests EXCEPT ![r] =
                            [requests[r] EXCEPT !.kept = kept, !.hidden = hidden]]
            BY <2>4 DEF Judge, Inv, RequestsInv
        <3> HIDE DEF kept, hidden
        <3>2. requests'[r].kept = kept
            BY <1>1, <3>1 DEF Inv, RequestsInv, RequestState
        <3> QED
            BY <3>2 DEF kept
    <2>6. v = u /\ keep
        BY <1>4, <2>5
    <2> QED
        BY <1>2, <1>4, <2>4, <2>6
<1> QED
    BY <1>3, <1>4 DEF Released

\* In enforce mode a digest that has been blocked for TriageAge and the longest
\* cache lifetime gets through neither as an artifact nor in a listing.
THEOREM BlocksTakeEffect == Spec => BlockTakesEffect
<1>1. Inv /\ [Next]_vars => [BlockedInTime]_vars
    BY BlockStep
<1>2. Spec => [][BlockedInTime]_vars
    BY <1>1, Invariance, PTL DEF Spec
<1> QED
    BY <1>2 DEF BlockTakesEffect, BlockedInTime

ProfileInTime ==
    \A r \in Request :
        /\ requests[r].pc = "deciding" /\ requests'[r].answer # NoAnswer
        /\ requests[r].config.profile = registry.config.profile
        /\ requests'[r].answer.profile # registry.config.profile
        => registry.age < Horizon

\* No step answers under a profile that was replaced a horizon ago.
LEMMA ProfileStep == Inv /\ [Next]_vars => ProfileInTime
<1> SUFFICES ASSUME Inv, [Next]_vars, NEW r \in Request, requests[r].pc = "deciding",
                    requests'[r].answer # NoAnswer,
                    requests'[r].answer.profile # registry.config.profile
             PROVE  registry.age < Horizon
    BY DEF ProfileInTime
<1>1. requests[r].answer = NoAnswer
    BY DEF Inv, RequestsInv, RequestOK, Informed, BeforeDecision
<1>2. Decide(r)
    BY <1>1, Mover
<1>3. ~\E status \in Status \ {"ok"} : Fail(r, status)
    BY FailHoldsNothing
<1>4. PICK a \in Answer : AgreesFor(a, Horizon) /\ Apply(r, a)
    BY <1>2, <1>3, Decided DEF Inv
<1>5. requests'[r].answer = a
    BY <1>3, <1>4, AppliedLeaves
<1> QED
    BY <1>4, <1>5 DEF AgreesFor

\* Although the key of the decision cache has no profile, a profile that was
\* replaced for TriageAge and the longest lifetime answers no request.
THEOREM ProfileSwitchesTakeEffect == Spec => ProfileSwitchTakesEffect
<1>1. Inv /\ [Next]_vars => [ProfileInTime]_vars
    BY ProfileStep
<1>2. Spec => [][ProfileInTime]_vars
    BY <1>1, Invariance, PTL DEF Spec
<1> QED
    BY <1>2 DEF ProfileSwitchTakesEffect, ProfileInTime

=============================================================================
