-------------------------- MODULE AlgorithmProofs ---------------------------
(***************************************************************************)
(* The sequential algorithms that decide what a package may do, for every  *)
(* input: the policy engine, the OpenVEX statements that lift a            *)
(* vulnerability, the addresses a Cargo download may reach, the documents  *)
(* of the SBOM service, the dependency graph, the indicators of compromise *)
(* and the Cargo manifests.                                                *)
(***************************************************************************)
EXTENDS PolicyEvidence, OpenVex, RegistryPaths, SbomService, FeedRecords, Manifests,
        FiniteSetTheorems, SequenceTheorems, WellFoundedInduction, TLAPS

(***************************************************************************)
(* The policy engine.                                                      *)
(***************************************************************************)

\* The snapshot's configuration is one the policy document can express.
Configured == config \in Configuration

\* The actions of the failed checks grow with the evidence.
LEMMA ActionsGrow ==
    ASSUME NEW S, NEW T, S \subseteq T, NEW c
    PROVE  ScorecardActions(S, c) \subseteq ScorecardActions(T, c)
BY DEF ScorecardActions

\* The most severe action decides: more failed checks never turn a blocking
\* outcome into a warning.
LEMMA OutcomeMonotone ==
    ASSUME NEW A, NEW B, A \subseteq B, ~Serves(ScorecardOutcome(A))
    PROVE  ~Serves(ScorecardOutcome(B))
BY DEF Serves, ScorecardOutcome

\* Which rules serve the package.
LEMMA ServedBy ==
    ASSUME NEW S, NEW c
    PROVE  Serves(Evaluate(S, c).decision) <=>
             \/ "active_override" \in S \/ "emergency_bypass" \in S
             \/ /\ "known_malicious" \notin S
                /\ \/ "known_safe_verdict" \in S
                   \/ /\ S \cap RiskSignal = {}
                      /\ "hitl_required" \notin S
                      /\ "fallback_candidate" \notin S
                      /\ "unknown_artifact" \notin S
                      /\ \/ /\ "vulnerable_above_threshold" \in S
                            /\ c.vulnerability # "block"
                         \/ /\ "vulnerable_above_threshold" \notin S
                            /\ \/ ScorecardActions(S, c) = {}
                               \/ Serves(ScorecardOutcome(ScorecardActions(S, c)))
<1>1. /\ Serves("ALLOW") /\ Serves("ALLOW_WITH_WARNING")
      /\ ~Serves("QUARANTINE_PENDING_ANALYSIS")
      /\ ~Serves("BLOCK_KNOWN_MALICIOUS") /\ ~Serves("BLOCK_POLICY_VIOLATION")
      /\ ~Serves("REQUIRE_HITL_APPROVAL")
      /\ ~Serves("FALLBACK_TO_APPROVED_CANDIDATE")
  BY DEF Serves
<1>2. \A d, r : Verdict(d, r).decision = d
  BY DEF Verdict
<1>3. Serves(VulnerabilityOutcome(c)) <=> c.vulnerability # "block"
  BY <1>1 DEF VulnerabilityOutcome
<1> HIDE DEF Serves, Verdict, VulnerabilityOutcome
<1> QED
  BY <1>1, <1>2, <1>3 DEF Evaluate

\* No adverse signal is one of those that release a package.
LEMMA AdverseNotReleasing == Adverse \cap Releasing = {}
BY DEF Adverse, Releasing, RiskSignal, WarningSignal, ScorecardCheck

\* The engine refuses at least as much when it knows more against a package.
LEMMA RefusalMonotone ==
    ASSUME NEW S, NEW T, NEW c, S \subseteq T, T \ S \subseteq Adverse,
           ~("vulnerable_above_threshold" \in T /\ c.vulnerability = "warn"),
           c.vulnerability \in VulnerabilityPolicyAction,
           ~Serves(Evaluate(S, c).decision)
    PROVE  ~Serves(Evaluate(T, c).decision)
<1>1. \A s \in Releasing : s \in T => s \in S
  BY AdverseNotReleasing
<1>2. /\ "active_override" \in T => "active_override" \in S
      /\ "emergency_bypass" \in T => "emergency_bypass" \in S
      /\ "known_safe_verdict" \in T => "known_safe_verdict" \in S
  BY <1>1 DEF Releasing
<1>3. "vulnerable_above_threshold" \in T => c.vulnerability = "block"
  BY DEF VulnerabilityPolicyAction
<1>4. ScorecardActions(S, c) \subseteq ScorecardActions(T, c)
  BY ActionsGrow
<1>5. ~Serves(ScorecardOutcome(ScorecardActions(S, c)))
        => ~Serves(ScorecardOutcome(ScorecardActions(T, c)))
  BY <1>4, OutcomeMonotone
<1> QED
  BY ServedBy, <1>2, <1>3, <1>4, <1>5

\* Evidence against a package never makes it available: DecisionEngine::evaluate
\* keeps refusing a package as adverse signals are observed, for all signals
\* and all configurations of a snapshot.
THEOREM AdverseRefused == Spec => AdverseNeverReleases
<1>1. Init => Configured
  BY DEF Init, Configured
<1>2. Configured /\ [Next]_vars => Configured'
  BY DEF Configured, Next, vars, Observe
<1>3. Configured /\ [Next]_vars => [KeepsRefusing]_vars
  <2>1. SUFFICES ASSUME Configured, Next,
                        signals' \ signals \subseteq Adverse,
                        ~WarnsOfVulnerability', ~Serves(Answer.decision)
                 PROVE  ~Serves(Answer'.decision)
    BY DEF KeepsRefusing
  <2>2. config' = config /\ signals \subseteq signals'
    BY <2>1 DEF Next, Observe
  <2>3. config.vulnerability \in VulnerabilityPolicyAction
    BY <2>1 DEF Configured, Configuration
  <2>4. ~("vulnerable_above_threshold" \in signals' /\ config.vulnerability = "warn")
    BY <2>1, <2>2 DEF WarnsOfVulnerability
  <2>5. ~Serves(Evaluate(signals, config).decision)
    BY <2>1 DEF Answer
  <2>6. ~Serves(Evaluate(signals', config).decision)
    BY <2>1, <2>2, <2>3, <2>4, <2>5, RefusalMonotone
  <2> QED
    BY <2>2, <2>6 DEF Answer
<1> QED
  BY <1>1, <1>2, <1>3, PTL DEF Spec, AdverseNeverReleases

(***************************************************************************)
(* Cargo downloads.  The hops of a download are any sequence of origins,   *)
(* and an origin is any string.                                            *)
(***************************************************************************)

\* A nonempty set of numbers has a least one.
LEMMA LeastNumber ==
    ASSUME NEW T, T \subseteq Nat, T # {}
    PROVE  \E n \in T : \A m \in T : n <= m
<1> DEFINE R == OpToRel(<, Nat)
<1>1. IsWellFoundedOn(R, Nat)
  BY NatLessThanWellFounded
<1>2. \A m, n \in Nat : m < n => <<m, n>> \in R
  BY DEF OpToRel
<1> HIDE DEF R
<1>3. PICK n \in T : \A m \in T : ~(<<m, n>> \in R)
  BY <1>1, WFMin
<1>4. \A m \in T : ~(m < n)
  BY <1>2, <1>3, Zenon
<1>5. \A m \in T : n <= m
  BY <1>4
<1> QED
  BY <1>5

\* A nonempty set of numbers up to a bound has a greatest one.
LEMMA GreatestNumber ==
    ASSUME NEW b \in Nat, NEW T, T \subseteq 0 .. b, T # {}
    PROVE  \E n \in T : \A m \in T : m <= n
<1> DEFINE U == {b - n : n \in T}
<1>1. U \subseteq Nat
  <2>1. \A n \in T : n \in 0 .. b
    OBVIOUS
  <2>2. \A n \in T : b - n \in Nat
    BY <2>1
  <2> QED
    BY <2>2
<1>6. U # {}
  OBVIOUS
<1>2. PICK u \in U : \A v \in U : u <= v
  BY <1>1, <1>6, LeastNumber
<1>3. PICK n \in T : u = b - n
  OBVIOUS
<1>4. \A m \in T : b - n <= b - m
  BY <1>2, <1>3
<1> QED
  BY <1>4

\* fetch_cargo_download_response contacts its hops in their order, from the
\* first one on and at most MAX_CARGO_DOWNLOAD_REDIRECTS + 1 of them, and all
\* of them when it answers.
THEOREM RedirectsBounded ==
    ASSUME NEW allowed, NEW S, NEW hops \in Seq(S)
    PROVE  \E n \in 0 .. Len(hops) :
             /\ DOMAIN FetchCargoDownload(allowed, hops).contacts = 1 .. n
             /\ n <= MaxCargoDownloadRedirects + 1
             /\ FetchCargoDownload(allowed, hops).state = "answered" <=> n = Len(hops)
<1> DEFINE refused == RefusedHops(allowed, hops)
           contacted == {i \in DOMAIN hops : \A j \in refused : i < j}
<1>1. /\ DOMAIN FetchCargoDownload(allowed, hops).contacts = contacted
      /\ FetchCargoDownload(allowed, hops).state = "answered" <=> refused = {}
  BY DEF FetchCargoDownload
<1>2. DOMAIN hops = 1 .. Len(hops) /\ Len(hops) \in Nat
  OBVIOUS
<1>3. refused \subseteq 1 .. Len(hops)
  BY <1>2 DEF RefusedHops
<1>4. CASE refused = {}
  <2>1. contacted = 1 .. Len(hops)
    BY <1>2, <1>4
  <2>2. Len(hops) <= MaxCargoDownloadRedirects + 1
    BY <1>2, <1>4 DEF RefusedHops, MaxCargoDownloadRedirects
  <2> QED
    BY <1>1, <1>2, <1>4, <2>1, <2>2
<1>5. CASE refused # {}
  <2>1. PICK f \in refused : \A j \in refused : f <= j
    BY <1>3, <1>5, LeastNumber
  <2>2. f \in 1 .. Len(hops)
    BY <1>3, <2>1
  <2>3. contacted = 1 .. (f - 1)
    <3>1. \A i \in contacted : i \in 1 .. (f - 1)
      BY <1>2, <2>1, <2>2
    <3>2. \A i \in 1 .. (f - 1) : i \in contacted
      BY <1>2, <1>3, <2>1, <2>2
    <3> QED
      BY <3>1, <3>2
  <2>4. f - 1 <= MaxCargoDownloadRedirects + 1
    <3>1. CASE Len(hops) <= MaxCargoDownloadRedirects + 1
      BY <3>1, <1>2, <2>2 DEF MaxCargoDownloadRedirects
    <3>2. CASE ~(Len(hops) <= MaxCargoDownloadRedirects + 1)
      <4>1. MaxCargoDownloadRedirects + 2 \in refused
        BY <3>2, <1>2 DEF RefusedHops, MaxCargoDownloadRedirects
      <4> QED
        BY <4>1, <2>1, <2>2 DEF MaxCargoDownloadRedirects
    <3> QED
      BY <3>1, <3>2
  <2>5. f - 1 \in 0 .. Len(hops) /\ f - 1 # Len(hops)
    BY <1>2, <2>2
  <2> QED
    BY <1>1, <1>5, <2>3, <2>4, <2>5
<1> QED
  BY <1>4, <1>5

\* What is noted of a contact: its origin, and whether the credentials went to
\* it, which they do just if it is the registry's own origin.
LEMMA FetchContact ==
    ASSUME NEW allowed, NEW S, NEW hops \in Seq(S), NEW i \in DOMAIN FetchCargoDownload(allowed, hops).contacts
    PROVE  /\ i \in DOMAIN hops /\ i \notin RefusedHops(allowed, hops)
           /\ FetchCargoDownload(allowed, hops).contacts[i].origin = hops[i]
           /\ FetchCargoDownload(allowed, hops).contacts[i].credentials
                <=> FetchCargoDownload(allowed, hops).contacts[i].origin = "primary"
<1> DEFINE refused == RefusedHops(allowed, hops)
           contacted == {k \in DOMAIN hops : \A j \in refused : k < j}
<1>1. FetchCargoDownload(allowed, hops).contacts =
        [k \in contacted |-> [origin |-> hops[k], credentials |-> InjectedCredentials(hops[k])]]
  BY DEF FetchCargoDownload
<1>2. i \in contacted
  BY <1>1
<1>3. FetchCargoDownload(allowed, hops).contacts[i]
        = [origin |-> hops[i], credentials |-> InjectedCredentials(hops[i])]
  BY <1>1, <1>2
<1>4. /\ FetchCargoDownload(allowed, hops).contacts[i].origin = hops[i]
      /\ FetchCargoDownload(allowed, hops).contacts[i].credentials = InjectedCredentials(hops[i])
  <2>1. \A r, a, b : r = [origin |-> a, credentials |-> b] => r.origin = a /\ r.credentials = b
    OBVIOUS
  <2> QED
    BY <1>3, <2>1, Zenon
<1>5. i \notin refused
  <2>1. i \in Nat
    BY <1>2
  <2> QED
    BY <1>2, <2>1
<1> QED
  BY <1>2, <1>4, <1>5, Zenon DEF InjectedCredentials

\* Whoever is contacted is the registry's own origin or an allowed one, if the
\* first hop is.
LEMMA FetchStaysAllowed ==
    ASSUME NEW allowed, NEW S, NEW hops \in Seq(S),
           CargoOriginAllowed(allowed, hops[1]),
           NEW i \in DOMAIN FetchCargoDownload(allowed, hops).contacts
    PROVE  CargoOriginAllowed(allowed, FetchCargoDownload(allowed, hops).contacts[i].origin)
<1>1. /\ i \in DOMAIN hops /\ i \notin RefusedHops(allowed, hops)
      /\ FetchCargoDownload(allowed, hops).contacts[i].origin = hops[i]
  BY FetchContact, Zenon
<1>2. i \in 1 .. Len(hops) /\ Len(hops) \in Nat
  BY <1>1
<1>3. i > 1 => CargoOriginAllowed(allowed, hops[i])
  BY <1>1 DEF RefusedHops
<1>4. i = 1 \/ i > 1
  BY <1>2
<1> QED
  BY <1>1, <1>3, <1>4

\* A download all of whose redirects are allowed is answered, unless there is
\* one too many of them.
LEMMA FetchAnswers ==
    ASSUME NEW allowed, NEW S, NEW hops \in Seq(S),
           \A i \in DOMAIN hops : CargoOriginAllowed(allowed, hops[i])
    PROVE  FetchCargoDownload(allowed, hops).state =
             IF Len(hops) <= MaxCargoDownloadRedirects + 1 THEN "answered" ELSE "refused"
<1>1. DOMAIN hops = 1 .. Len(hops) /\ Len(hops) \in Nat
  OBVIOUS
<1>2. RefusedHops(allowed, hops) = {i \in 1 .. Len(hops) : i > MaxCargoDownloadRedirects + 1}
  BY <1>1 DEF RefusedHops
<1>3. RefusedHops(allowed, hops) = {} <=> Len(hops) <= MaxCargoDownloadRedirects + 1
  <2>1. CASE Len(hops) <= MaxCargoDownloadRedirects + 1
    BY <2>1, <1>1, <1>2 DEF MaxCargoDownloadRedirects
  <2>2. CASE ~(Len(hops) <= MaxCargoDownloadRedirects + 1)
    <3>1. Len(hops) \in RefusedHops(allowed, hops)
      BY <2>2, <1>1, <1>2 DEF MaxCargoDownloadRedirects
    <3> QED
      BY <3>1, <2>2
  <2> QED
    BY <2>1, <2>2
<1> QED
  BY <1>3 DEF FetchCargoDownload

\* A route is read back as it was written: its base, its signature and what is
\* asked below it.
LEMMA RouteReadBack ==
    ASSUME NEW prefix, NEW b, NEW c, NEW S, NEW suffix \in Seq(S), suffix # <<>>
    PROVE  CargoProxyRoute(prefix, <<Seg(prefix), b, c>> \o suffix)
             = {[base |-> b, signature |-> c, suffix |-> suffix]}
<1> DEFINE a == Seg(prefix)
           T == S \cup {a, b, c}
           front == <<a, b, c>>
           path == front \o suffix
<1> HIDE DEF a
<1>1. front \in Seq(T) /\ Len(front) = 3 /\ front[1] = a /\ front[2] = b /\ front[3] = c
  OBVIOUS
<1>2. suffix \in Seq(T) /\ Len(suffix) \in Nat \ {0}
  BY SeqMonotonic, EmptySeq
<1> HIDE DEF front, T
<1>3. /\ path \in Seq(T) /\ Len(path) = 3 + Len(suffix)
      /\ \A i \in 1 .. 3 + Len(suffix) : path[i] = IF i <= 3 THEN front[i] ELSE suffix[i - 3]
  <2>1. /\ path \in Seq(T) /\ Len(path) = Len(front) + Len(suffix)
        /\ \A i \in 1 .. Len(front) + Len(suffix) :
             path[i] = IF i <= Len(front) THEN front[i] ELSE suffix[i - Len(front)]
    BY <1>1, <1>2, ConcatProperties, Zenon
  <2> QED
    BY <1>1, <2>1
<1> HIDE DEF path
<1>4. Len(path) >= 4 /\ path[1] = a /\ path[2] = b /\ path[3] = c
  BY <1>1, <1>2, <1>3
<1>5. SubSeq(path, 4, Len(path)) = suffix
  <2>1. /\ SubSeq(path, 4, Len(path)) \in Seq(T)
        /\ Len(SubSeq(path, 4, Len(path))) = Len(suffix)
        /\ \A i \in 1 .. Len(suffix) : SubSeq(path, 4, Len(path))[i] = path[4 + i - 1]
    BY <1>2, <1>3, SubSeqProperties
  <2>2. \A i \in 1 .. Len(suffix) : path[4 + i - 1] = suffix[i]
    BY <1>2, <1>3
  <2> QED
    BY <1>2, <2>1, <2>2, SeqEqual
<1>6. CargoProxyRoute(prefix, path) = {[base |-> b, signature |-> c, suffix |-> suffix]}
  BY <1>4, <1>5 DEF CargoProxyRoute, a
<1> QED
  BY <1>6 DEF path, front, a

\* Two signatures agree only for the same key, use, registry and base.
LEMMA SignatureBinds ==
    ASSUME NEW k1, NEW d1, NEW c1, NEW b1, NEW k2, NEW d2, NEW c2, NEW b2
    PROVE  CargoProxyBaseSignature(k1, d1, c1, b1) = CargoProxyBaseSignature(k2, d2, c2, b2)
             <=> k1 = k2 /\ d1 = d2 /\ c1 = c2 /\ b1 = b2
<1>1. \A s, t, e : File(s, e) = File(t, e) => s = t
  BY DEF File
<1>2. <<k1, d1, c1, b1>> = <<k2, d2, c2, b2>> <=> k1 = k2 /\ d1 = d2 /\ c1 = c2 /\ b1 = b2
  OBVIOUS
<1> QED
  BY <1>1, <1>2, Zenon DEF CargoProxyBaseSignature

(***************************************************************************)
(* Cargo API calls.  The path of a call is joined to the base that the     *)
(* registry named, without what both have in common.                       *)
(***************************************************************************)

\* The prefixes of a sequence, by their elements.
LEMMA PrefixElements ==
    ASSUME NEW S, NEW s \in Seq(S), NEW t \in Seq(S)
    PROVE  IsPrefix(s, t) <=> /\ Len(s) <= Len(t)
                              /\ \A i \in 1 .. Len(s) : s[i] = t[i]
<1>1. Len(s) \in Nat /\ Len(t) \in Nat
  OBVIOUS
<1>2. ASSUME Len(s) <= Len(t)
      PROVE  SubSeq(s, 1, Len(s)) = SubSeq(t, 1, Len(s)) <=> \A i \in 1 .. Len(s) : s[i] = t[i]
  <2>1. /\ SubSeq(t, 1, Len(s)) \in Seq(S) /\ Len(SubSeq(t, 1, Len(s))) = Len(s)
        /\ \A i \in 1 .. Len(s) : SubSeq(t, 1, Len(s))[i] = t[i]
    BY <1>1, <1>2
  <2>2. /\ SubSeq(s, 1, Len(s)) \in Seq(S) /\ Len(SubSeq(s, 1, Len(s))) = Len(s)
        /\ \A i \in 1 .. Len(s) : SubSeq(s, 1, Len(s))[i] = s[i]
    BY <1>1
  <2> QED
    BY <2>1, <2>2, SeqEqual
<1> QED
  BY <1>1, <1>2 DEF IsPrefix

\* The suffixes of a sequence, by their elements.
LEMMA SuffixElements ==
    ASSUME NEW S, NEW s \in Seq(S), NEW t \in Seq(S)
    PROVE  IsSuffix(s, t) <=> /\ Len(s) <= Len(t)
                              /\ \A i \in 1 .. Len(s) : s[i] = t[Len(t) - Len(s) + i]
<1>1. Len(s) \in Nat /\ Len(t) \in Nat
  OBVIOUS
<1>2. \A u \in Seq(S) : /\ Reverse(u) \in Seq(S) /\ Len(Reverse(u)) = Len(u)
                        /\ \A i \in 1 .. Len(u) : Reverse(u)[i] = u[Len(u) - i + 1]
  BY DEF Reverse
<1>3. IsSuffix(s, t) <=> /\ Len(s) <= Len(t)
                         /\ \A i \in 1 .. Len(s) : Reverse(s)[i] = Reverse(t)[i]
  BY <1>2, PrefixElements DEF IsSuffix
<1>4. ASSUME Len(s) <= Len(t)
      PROVE  (\A i \in 1 .. Len(s) : Reverse(s)[i] = Reverse(t)[i])
               <=> \A i \in 1 .. Len(s) : s[i] = t[Len(t) - Len(s) + i]
  <2>1. \A i \in 1 .. Len(s) : /\ Reverse(s)[i] = s[Len(s) - i + 1]
                               /\ Reverse(t)[i] = t[Len(t) - i + 1]
    <3>1. \A i \in 1 .. Len(s) : i \in 1 .. Len(t)
      BY <1>1, <1>4
    <3>2. \A i \in 1 .. Len(s) : Reverse(s)[i] = s[Len(s) - i + 1]
      BY <1>2
    <3>3. \A i \in 1 .. Len(t) : Reverse(t)[i] = t[Len(t) - i + 1]
      BY <1>2
    <3> QED
      BY <3>1, <3>2, <3>3, Zenon
  <2>2. ASSUME \A i \in 1 .. Len(s) : s[Len(s) - i + 1] = t[Len(t) - i + 1], NEW i \in 1 .. Len(s)
        PROVE  s[i] = t[Len(t) - Len(s) + i]
    <3>1. Len(s) - i + 1 \in 1 .. Len(s)
      BY <1>1
    <3>2. s[Len(s) - (Len(s) - i + 1) + 1] = t[Len(t) - (Len(s) - i + 1) + 1]
      BY <2>2, <3>1
    <3>3. Len(s) - (Len(s) - i + 1) + 1 = i /\ Len(t) - (Len(s) - i + 1) + 1 = Len(t) - Len(s) + i
      BY <1>1
    <3> QED
      BY <3>2, <3>3
  <2>3. ASSUME \A i \in 1 .. Len(s) : s[i] = t[Len(t) - Len(s) + i], NEW i \in 1 .. Len(s)
        PROVE  s[Len(s) - i + 1] = t[Len(t) - i + 1]
    <3>1. Len(s) - i + 1 \in 1 .. Len(s)
      BY <1>1
    <3>2. s[Len(s) - i + 1] = t[Len(t) - Len(s) + (Len(s) - i + 1)]
      BY <2>3, <3>1
    <3>3. Len(t) - Len(s) + (Len(s) - i + 1) = Len(t) - i + 1
      BY <1>1
    <3> QED
      BY <3>2, <3>3
  <2> QED
    BY <2>1, <2>2, <2>3
<1> QED
  BY <1>3, <1>4

\* The base, followed by what is left of the suffix after its first k segments.
Skipping(base, suffix, k) == base \o SubSeq(suffix, k + 1, Len(suffix))

\* The segments of the joined path.
LEMMA SkippingElements ==
    ASSUME NEW S, NEW base \in Seq(S), NEW suffix \in Seq(S), NEW k \in 0 .. Len(suffix)
    PROVE  /\ Skipping(base, suffix, k) \in Seq(S)
           /\ Len(Skipping(base, suffix, k)) = Len(base) + Len(suffix) - k
           /\ \A i \in 1 .. Len(base) + Len(suffix) - k :
                Skipping(base, suffix, k)[i] = IF i <= Len(base) THEN base[i] ELSE suffix[i - Len(base) + k]
<1> DEFINE rest == SubSeq(suffix, k + 1, Len(suffix))
<1>1. Len(base) \in Nat /\ Len(suffix) \in Nat
  OBVIOUS
<1>2. /\ rest \in Seq(S) /\ Len(rest) = Len(suffix) - k
      /\ \A i \in 1 .. Len(suffix) - k : rest[i] = suffix[i + k]
  BY <1>1
<1>3. /\ Skipping(base, suffix, k) \in Seq(S)
      /\ Len(Skipping(base, suffix, k)) = Len(base) + Len(rest)
      /\ \A i \in 1 .. Len(base) + Len(rest) :
           Skipping(base, suffix, k)[i] = IF i <= Len(base) THEN base[i] ELSE rest[i - Len(base)]
  BY <1>2, ConcatProperties, Zenon DEF Skipping
<1> HIDE DEF rest
<1>4. Len(base) + Len(rest) = Len(base) + Len(suffix) - k
  BY <1>1, <1>2
<1>5. ASSUME NEW i \in 1 .. Len(base) + Len(suffix) - k, ~(i <= Len(base))
      PROVE  rest[i - Len(base)] = suffix[i - Len(base) + k]
  <2>1. i - Len(base) \in 1 .. Len(suffix) - k
    BY <1>1, <1>5
  <2> QED
    BY <1>2, <2>1
<1>6. \A i \in 1 .. Len(base) + Len(suffix) - k :
        Skipping(base, suffix, k)[i] = IF i <= Len(base) THEN base[i] ELSE suffix[i - Len(base) + k]
  <2> TAKE i \in 1 .. Len(base) + Len(suffix) - k
  <2>1. Skipping(base, suffix, k)[i] = IF i <= Len(base) THEN base[i] ELSE rest[i - Len(base)]
    BY <1>3, <1>4
  <2> QED
    BY <1>5, <2>1
<1> QED
  BY <1>3, <1>4, <1>6

\* The last k segments of the base are the first k of the suffix.
Overlaps(base, suffix, k) ==
    /\ k <= Len(base)
    /\ \A i \in 1 .. k : base[Len(base) - k + i] = suffix[i]

\* The joined path ends with the whole suffix just if what was left out of the
\* suffix is in the base already.
LEMMA SkippingOverlap ==
    ASSUME NEW S, NEW base \in Seq(S), NEW suffix \in Seq(S), NEW k \in 0 .. Len(suffix)
    PROVE  IsSuffix(suffix, Skipping(base, suffix, k)) <=> Overlaps(base, suffix, k)
<1> DEFINE path == Skipping(base, suffix, k)
<1>1. Len(base) \in Nat /\ Len(suffix) \in Nat /\ k \in Nat /\ k <= Len(suffix)
  OBVIOUS
<1>2. /\ path \in Seq(S) /\ Len(path) = Len(base) + Len(suffix) - k
      /\ \A i \in 1 .. Len(base) + Len(suffix) - k :
           path[i] = IF i <= Len(base) THEN base[i] ELSE suffix[i - Len(base) + k]
  BY SkippingElements
<1> HIDE DEF path
<1>3. IsSuffix(suffix, path) <=> /\ Len(suffix) <= Len(path)
                                 /\ \A i \in 1 .. Len(suffix) : suffix[i] = path[Len(path) - Len(suffix) + i]
  BY <1>2, SuffixElements
<1>4. Len(suffix) <= Len(path) <=> k <= Len(base)
  BY <1>1, <1>2
<1>5. ASSUME k <= Len(base)
      PROVE  (\A i \in 1 .. Len(suffix) : suffix[i] = path[Len(path) - Len(suffix) + i])
               <=> \A i \in 1 .. k : base[Len(base) - k + i] = suffix[i]
  <2>1. \A i \in 1 .. Len(suffix) : Len(path) - Len(suffix) + i = Len(base) - k + i
    BY <1>1, <1>2
  <2>2. \A i \in 1 .. Len(suffix) : Len(base) - k + i \in 1 .. Len(base) + Len(suffix) - k
    BY <1>1, <1>5
  <2>3. \A i \in 1 .. Len(suffix) : (Len(base) - k + i <= Len(base)) <=> i <= k
    BY <1>1
  <2>4. \A i \in 1 .. Len(suffix) : (Len(base) - k + i) - Len(base) + k = i
    BY <1>1
  <2>5. \A i \in 1 .. Len(suffix) :
          path[Len(base) - k + i] = IF i <= k THEN base[Len(base) - k + i] ELSE suffix[i]
    BY <1>2, <2>2, <2>3, <2>4
  <2>6. \A i \in 1 .. k : i \in 1 .. Len(suffix) /\ i <= k
    BY <1>1
  <2>7. \A i \in 1 .. Len(suffix) :
          suffix[i] = path[Len(path) - Len(suffix) + i]
            <=> (i <= k => base[Len(base) - k + i] = suffix[i])
    <3> TAKE i \in 1 .. Len(suffix)
    <3>1. path[Len(path) - Len(suffix) + i] = path[Len(base) - k + i]
      BY <2>1
    <3>2. path[Len(base) - k + i] = IF i <= k THEN base[Len(base) - k + i] ELSE suffix[i]
      BY <2>5
    <3>3. CASE i <= k
      BY <3>1, <3>2, <3>3, Zenon
    <3>4. CASE ~(i <= k)
      BY <3>1, <3>2, <3>4, Zenon
    <3> QED
      BY <3>3, <3>4
  <2>8. \A i \in 1 .. Len(suffix) : i <= k => i \in 1 .. k
    BY <1>1
  <2> QED
    BY <2>6, <2>7, <2>8
<1> QED
  BY <1>3, <1>4, <1>5 DEF path, Overlaps

\* join_registry_path finds the shortest path that begins with the base and
\* ends with what is asked for, for all bases and suffixes.
THEOREM JoinIsShortest ==
    ASSUME NEW S, NEW base \in Seq(S), NEW suffix \in Seq(S)
    PROVE  ShortestJoin(JoinRegistryPath(base, suffix), base, suffix)
<1> DEFINE bound == IF Len(base) < Len(suffix) THEN Len(base) ELSE Len(suffix)
           overlaps == {k \in 0 .. bound :
                          SubSeq(base, Len(base) - k + 1, Len(base)) = SubSeq(suffix, 1, k)}
           most == CHOOSE k \in overlaps : \A j \in overlaps : j <= k
<1>1. Len(base) \in Nat /\ Len(suffix) \in Nat
  OBVIOUS
<1>2. bound \in Nat /\ bound <= Len(base) /\ bound <= Len(suffix)
  BY <1>1
<1>3. \A k \in 0 .. bound : k \in overlaps <=> Overlaps(base, suffix, k)
  <2> TAKE k \in 0 .. bound
  <2> DEFINE end == SubSeq(base, Len(base) - k + 1, Len(base))
             start == SubSeq(suffix, 1, k)
  <2>1. /\ end \in Seq(S) /\ Len(end) = k
        /\ \A i \in 1 .. k : end[i] = base[Len(base) - k + i]
    BY <1>1, <1>2
  <2>2. /\ start \in Seq(S) /\ Len(start) = k
        /\ \A i \in 1 .. k : start[i] = suffix[i]
    BY <1>1, <1>2
  <2>3. k \in overlaps <=> end = start
    OBVIOUS
  <2> HIDE DEF end, start, overlaps
  <2>4. end = start <=> \A i \in 1 .. k : end[i] = start[i]
    BY <2>1, <2>2, SeqEqual
  <2>5. k <= Len(base)
    BY <1>2
  <2> QED
    BY <2>1, <2>2, <2>3, <2>4, <2>5 DEF Overlaps
<1>4. 0 \in overlaps
  BY <1>2, <1>3, <1>1 DEF Overlaps
<1>5. overlaps \subseteq 0 .. bound
  OBVIOUS
<1>6. most \in overlaps /\ \A j \in overlaps : j <= most
  <2>1. \E k \in overlaps : \A j \in overlaps : j <= k
    BY <1>2, <1>4, <1>5, GreatestNumber
  <2> HIDE DEF overlaps
  <2> QED
    BY <2>1
<1>7. JoinRegistryPath(base, suffix) = Skipping(base, suffix, most)
  BY DEF JoinRegistryPath, Skipping
<1> HIDE DEF most, overlaps
<1>8. most \in 0 .. bound /\ most \in 0 .. Len(suffix) /\ Overlaps(base, suffix, most)
  BY <1>1, <1>2, <1>3, <1>5, <1>6
<1> HIDE DEF bound
<1>9. /\ Skipping(base, suffix, most) \in Seq(S)
      /\ Len(Skipping(base, suffix, most)) = Len(base) + Len(suffix) - most
      /\ \A i \in 1 .. Len(base) + Len(suffix) - most :
           Skipping(base, suffix, most)[i] = IF i <= Len(base) THEN base[i] ELSE suffix[i - Len(base) + most]
  BY <1>8, SkippingElements
<1>10. IsPrefix(base, Skipping(base, suffix, most))
  <2>1. Len(base) <= Len(base) + Len(suffix) - most
    BY <1>1, <1>8
  <2>2. \A i \in 1 .. Len(base) : Skipping(base, suffix, most)[i] = base[i]
    BY <1>1, <1>9, <2>1
  <2> QED
    BY <1>9, <2>1, <2>2, PrefixElements
<1>11. IsSuffix(suffix, Skipping(base, suffix, most))
  BY <1>8, SkippingOverlap
<1>12. ASSUME NEW k \in 1 .. Len(suffix) + 1,
              IsSuffix(suffix, base \o SubSeq(suffix, k, Len(suffix)))
       PROVE  Len(Skipping(base, suffix, most)) <= Len(base \o SubSeq(suffix, k, Len(suffix)))
  <2>1. PICK j \in 0 .. Len(suffix) : k = j + 1
    <3>1. k - 1 \in 0 .. Len(suffix) /\ k = (k - 1) + 1
      BY <1>1
    <3> QED
      BY <3>1
  <2>2. Skipping(base, suffix, j) = base \o SubSeq(suffix, k, Len(suffix))
    BY <2>1 DEF Skipping
  <2>3. Overlaps(base, suffix, j)
    BY <1>12, <2>2, SkippingOverlap
  <2>4. j \in 0 .. bound
    BY <1>1, <2>3 DEF Overlaps, bound
  <2>5. j <= most
    BY <1>3, <1>6, <2>3, <2>4
  <2>6. Len(Skipping(base, suffix, j)) = Len(base) + Len(suffix) - j
    BY SkippingElements
  <2>7. most \in Nat
    BY <1>2, <1>8
  <2> QED
    BY <1>1, <1>9, <2>2, <2>5, <2>6, <2>7
<1> QED
  BY <1>7, <1>10, <1>11, <1>12 DEF ShortestJoin

(***************************************************************************)
(* A registry names a base, the proxy rewrites and signs it, a client      *)
(* returns with it, and the download is redirected.  Keys, registries,     *)
(* origins and the configurations before and after are any strings and     *)
(* sets of strings; the redirects are any sequence.                        *)
(***************************************************************************)

AnyCargoFetch ==
    [base : DOMAIN CargoBases, before : SUBSET STRING, now : SUBSET STRING,
     key : STRING, domain : STRING, config : STRING, hops : Seq(STRING)]

\* The signature was made by this proxy, for this use and this registry.
SignedFor(x, domain) == x.key = "key" /\ x.domain = domain /\ x.config = "r1"

SignatureOf(x) == CargoProxyBaseSignature(x.key, x.domain, x.config, x.base)

CratePath(x) == <<Seg(DlPrefix), Seg(x.base), SignatureOf(x)>> \o CrateSuffix

ApiPath(x) ==
    <<Seg(ApiPrefix), Seg(x.base), SignatureOf(x)>> \o [i \in DOMAIN ApiSuffix |-> Seg(ApiSuffix[i])]

\* What adapter_upstream_request_url makes of a crate's path: an address below
\* the base, if the signature is right and the base is allowed.
LEMMA CrateAddress ==
    ASSUME NEW x, NEW now
    PROVE  AdapterUpstreamUrl("key", "r1", now, CratePath(x)) =
             IF SignedFor(x, "cargo-dl-base")
             THEN {[origin |-> u.origin, path |-> u.path \o CrateSuffix] :
                     u \in ResolveCargoDownloadBase(now, x.base)}
             ELSE {}
<1> DEFINE route == [base |-> Seg(x.base), signature |-> SignatureOf(x), suffix |-> CrateSuffix]
<1>1. PICK S : CrateSuffix \in Seq(S) /\ CrateSuffix # <<>>
  <2>1. \A a, b, c : <<a, b, c>> \in Seq({a, b, c}) /\ <<a, b, c>> # <<>>
    OBVIOUS
  <2> QED
    BY <2>1 DEF CrateSuffix
<1>2. CargoProxyRoute(DlPrefix, CratePath(x)) = {route}
  BY <1>1, RouteReadBack DEF CratePath
<1>3. route.base.stem[1] = x.base
  BY DEF Seg, File
<1>4. route.signature = CargoProxyBaseSignature("key", "cargo-dl-base", "r1", x.base)
        <=> SignedFor(x, "cargo-dl-base")
  BY SignatureBinds DEF SignatureOf, SignedFor
<1>5. route.suffix = CrateSuffix
  OBVIOUS
<1> HIDE DEF route
<1> DEFINE Signed == {r \in {route} : r.signature =
                        CargoProxyBaseSignature("key", "cargo-dl-base", "r1", r.base.stem[1])}
           Urls(r) == {[origin |-> u.origin, path |-> u.path \o r.suffix] :
                         u \in ResolveCargoDownloadBase(now, r.base.stem[1])}
<1>6. AdapterUpstreamUrl("key", "r1", now, CratePath(x)) = UNION {Urls(r) : r \in Signed}
  BY <1>2 DEF AdapterUpstreamUrl
<1>7. Signed = IF SignedFor(x, "cargo-dl-base") THEN {route} ELSE {}
  BY <1>3, <1>4
<1>8. Urls(route) = {[origin |-> u.origin, path |-> u.path \o CrateSuffix] :
                       u \in ResolveCargoDownloadBase(now, x.base)}
  BY <1>3, <1>5
<1> HIDE DEF Signed, Urls
<1>9. UNION {Urls(r) : r \in Signed} = IF SignedFor(x, "cargo-dl-base") THEN Urls(route) ELSE {}
  BY <1>7
<1> QED
  BY <1>6, <1>8, <1>9

\* What cargo_api_request_url makes of an API call's path.
LEMMA ApiAddress ==
    ASSUME NEW x
    PROVE  CargoApiRequestUrl("key", "r1", ApiPath(x)) =
             IF SignedFor(x, "cargo-api-base")
             THEN {[origin |-> u.origin, path |-> JoinRegistryPath(u.path, ApiSuffix)] :
                     u \in ResolveRegistryLocalCargoBase(x.base)}
             ELSE {}
<1> DEFINE segments == [i \in DOMAIN ApiSuffix |-> Seg(ApiSuffix[i])]
           route == [base |-> Seg(x.base), signature |-> SignatureOf(x), suffix |-> segments]
           Texts(path) == [i \in DOMAIN path |-> path[i].stem[1]]
<1>1. PICK S : ApiSuffix \in [1 .. 4 -> S]
  <2>1. PICK S : ApiSuffix \in Seq(S) /\ Len(ApiSuffix) = 4
    <3>1. \A a, b, c, d : <<a, b, c, d>> \in Seq({a, b, c, d}) /\ Len(<<a, b, c, d>>) = 4
      OBVIOUS
    <3> QED
      BY <3>1 DEF ApiSuffix
  <2> QED
    BY <2>1, LenProperties
<1>2. segments \in [1 .. 4 -> Range(segments)]
  BY <1>1 DEF Range
<1>3. segments \in Seq(Range(segments)) /\ segments # <<>>
  <2>1. segments \in Seq(Range(segments)) /\ Len(segments) = 4
    BY <1>2
  <2> QED
    BY <2>1, EmptySeq
<1>4. Texts(segments) = ApiSuffix
  <2>1. \A t : Seg(t).stem[1] = t
    BY DEF Seg, File
  <2>2. DOMAIN segments = 1 .. 4 /\ DOMAIN ApiSuffix = 1 .. 4
    BY <1>1
  <2>3. \A i \in 1 .. 4 : segments[i].stem[1] = ApiSuffix[i]
    BY <2>1, <2>2
  <2> HIDE DEF segments
  <2>4. Texts(segments) = [i \in 1 .. 4 |-> ApiSuffix[i]]
    BY <2>2, <2>3
  <2>5. ApiSuffix = [i \in 1 .. 4 |-> ApiSuffix[i]]
    BY <1>1
  <2> QED
    BY <2>4, <2>5
<1> HIDE DEF segments, Texts
<1>5. CargoProxyRoute(ApiPrefix, ApiPath(x)) = {route}
  BY <1>3, RouteReadBack DEF ApiPath, segments
<1>6. route.base.stem[1] = x.base
  BY DEF Seg, File
<1>7. route.signature = CargoProxyBaseSignature("key", "cargo-api-base", "r1", x.base)
        <=> SignedFor(x, "cargo-api-base")
  BY SignatureBinds DEF SignatureOf, SignedFor
<1>8. Texts(route.suffix) = ApiSuffix
  BY <1>4
<1> HIDE DEF route
<1> DEFINE Signed == {r \in {route} : r.signature =
                        CargoProxyBaseSignature("key", "cargo-api-base", "r1", r.base.stem[1])}
           Urls(r) == {[origin |-> u.origin, path |-> JoinRegistryPath(u.path, Texts(r.suffix))] :
                         u \in ResolveRegistryLocalCargoBase(r.base.stem[1])}
<1>9. CargoApiRequestUrl("key", "r1", ApiPath(x)) = UNION {Urls(r) : r \in Signed}
  BY <1>5 DEF CargoApiRequestUrl, Texts
<1>10. Signed = IF SignedFor(x, "cargo-api-base") THEN {route} ELSE {}
  BY <1>6, <1>7
<1>11. Urls(route) = {[origin |-> u.origin, path |-> JoinRegistryPath(u.path, ApiSuffix)] :
                        u \in ResolveRegistryLocalCargoBase(x.base)}
  BY <1>6, <1>8
<1> HIDE DEF Signed, Urls
<1>12. UNION {Urls(r) : r \in Signed} = IF SignedFor(x, "cargo-api-base") THEN Urls(route) ELSE {}
  BY <1>10
<1> QED
  BY <1>9, <1>11, <1>12

Fetched(x) ==
    {FetchCargoDownload(x.now, <<u.origin>> \o x.hops) : u \in AdapterUpstreamUrl("key", "r1", x.now, CratePath(x))}

\* A redirect chain begins at the base that was asked for.
LEMMA ChainOfHops ==
    ASSUME NEW origin, NEW hops \in Seq(STRING)
    PROVE  /\ <<origin>> \o hops \in Seq({origin} \cup Range(hops))
           /\ <<origin>> \o hops # <<>>
           /\ Len(<<origin>> \o hops) = Len(hops) + 1
           /\ (<<origin>> \o hops)[1] = origin
           /\ Len(hops) \in Nat
<1> DEFINE T == {origin} \cup Range(hops)
           chain == <<origin>> \o hops
<1>1. <<origin>> \in Seq(T) /\ Len(<<origin>>) = 1 /\ <<origin>>[1] = origin
  OBVIOUS
<1>2. hops \in Seq(T) /\ Len(hops) \in Nat
  <2>1. DOMAIN hops = 1 .. Len(hops) /\ Len(hops) \in Nat /\ hops \in [1 .. Len(hops) -> Range(hops)]
    BY DEF Range
  <2>2. hops \in Seq(Range(hops))
    BY <2>1
  <2> QED
    BY <2>1, <2>2, SeqMonotonic
<1>3. /\ chain \in Seq(T)
      /\ Len(chain) = Len(<<origin>>) + Len(hops)
      /\ \A i \in 1 .. Len(<<origin>>) + Len(hops) :
           chain[i] = IF i <= Len(<<origin>>) THEN <<origin>>[i] ELSE hops[i - Len(<<origin>>)]
  BY <1>1, <1>2, ConcatProperties, Zenon
<1>4. Len(chain) = Len(hops) + 1
  BY <1>1, <1>2, <1>3
<1>5. chain[1] = origin
  <2>1. 1 \in 1 .. Len(<<origin>>) + Len(hops) /\ 1 <= Len(<<origin>>)
    BY <1>1, <1>2
  <2> QED
    BY <1>1, <1>3, <2>1, Zenon
<1>6. chain # <<>>
  BY <1>2, <1>3, <1>4, EmptySeq
<1> QED
  BY <1>2, <1>3, <1>4, <1>5, <1>6

\* What is fetched was signed for, from a base that is allowed now.
LEMMA FetchedFrom ==
    ASSUME NEW x \in AnyCargoFetch, NEW f \in Fetched(x)
    PROVE  /\ SignedFor(x, "cargo-dl-base")
           /\ ValidateCargoUrl(x.base)
           /\ CargoOriginAllowed(x.now, ResolvedBase(x.base).origin)
           /\ f = FetchCargoDownload(x.now, <<ResolvedBase(x.base).origin>> \o x.hops)
<1>1. PICK u \in AdapterUpstreamUrl("key", "r1", x.now, CratePath(x)) :
        f = FetchCargoDownload(x.now, <<u.origin>> \o x.hops)
  BY DEF Fetched
<1>2. SignedFor(x, "cargo-dl-base")
  BY <1>1, CrateAddress
<1>3. PICK v \in ResolveCargoDownloadBase(x.now, x.base) : u = [origin |-> v.origin, path |-> v.path \o CrateSuffix]
  BY <1>1, <1>2, CrateAddress
<1>4. v = ResolvedBase(x.base) /\ ValidateCargoUrl(x.base)
      /\ CargoOriginAllowed(x.now, ResolvedBase(x.base).origin)
  BY <1>3 DEF ResolveCargoDownloadBase
<1>5. u.origin = ResolvedBase(x.base).origin
  BY <1>3, <1>4
<1> QED
  BY <1>1, <1>2, <1>4, <1>5

\* A base that is signed for and allowed now is fetched from.
LEMMA FetchedIfAllowed ==
    ASSUME NEW x \in AnyCargoFetch, SignedFor(x, "cargo-dl-base"), ValidateCargoUrl(x.base),
           CargoOriginAllowed(x.now, ResolvedBase(x.base).origin)
    PROVE  FetchCargoDownload(x.now, <<ResolvedBase(x.base).origin>> \o x.hops) \in Fetched(x)
<1> DEFINE u == [origin |-> ResolvedBase(x.base).origin, path |-> ResolvedBase(x.base).path \o CrateSuffix]
<1>1. ResolvedBase(x.base) \in ResolveCargoDownloadBase(x.now, x.base)
  BY DEF ResolveCargoDownloadBase
<1>2. u \in AdapterUpstreamUrl("key", "r1", x.now, CratePath(x))
  BY <1>1, CrateAddress
<1>3. u.origin = ResolvedBase(x.base).origin
  OBVIOUS
<1> HIDE DEF u
<1> QED
  BY <1>2, <1>3 DEF Fetched

\* A path that begins with three segments has the third of them.
LEMMA ThirdSegment ==
    ASSUME NEW a1, NEW a2, NEW a3, NEW b1, NEW b2, NEW b3, NEW S, NEW suffix \in Seq(S),
           IsPrefix(<<b1, b2, b3>>, <<a1, a2, a3>> \o suffix)
    PROVE  a3 = b3
<1> DEFINE T == S \cup {a1, a2, a3, b1, b2, b3}
           front == <<a1, a2, a3>>
           start == <<b1, b2, b3>>
           path == front \o suffix
<1>1. front \in Seq(T) /\ Len(front) = 3 /\ front[3] = a3
  OBVIOUS
<1>2. start \in Seq(T) /\ Len(start) = 3 /\ start[3] = b3
  OBVIOUS
<1>3. suffix \in Seq(T) /\ Len(suffix) \in Nat
  BY SeqMonotonic
<1> HIDE DEF front, start, T
<1>4. /\ path \in Seq(T)
      /\ \A i \in 1 .. Len(front) + Len(suffix) :
           path[i] = IF i <= Len(front) THEN front[i] ELSE suffix[i - Len(front)]
  BY <1>1, <1>3, ConcatProperties, Zenon
<1> HIDE DEF path
<1>5. path[3] = front[3]
  <2>1. 3 \in 1 .. Len(front) + Len(suffix) /\ 3 <= Len(front)
    BY <1>1, <1>3
  <2> QED
    BY <1>4, <2>1, Zenon
<1>6. IsPrefix(start, path)
  BY DEF path, start, front
<1>7. \A i \in 1 .. Len(start) : start[i] = path[i]
  <2>1. /\ start \in Seq(T) /\ path \in Seq(T)
        /\ IsPrefix(start, path)
    BY <1>2, <1>4, <1>6
  <2> QED
    BY <2>1, PrefixElements
<1>8. start[3] = path[3]
  <2>1. 3 \in 1 .. Len(start)
    BY <1>2
  <2> QED
    BY <1>7, <2>1, Zenon
<1> QED
  BY <1>1, <1>2, <1>5, <1>8

\* The configuration that this proxy hands out leads to a download path only if
\* the proxy signed its base, for downloads and this registry.
LEMMA OfferedIsSigned ==
    ASSUME NEW x \in AnyCargoFetch,
           NEW o \in RewriteCargoRegistryConfig("key", "r1", x.before, [dl |-> x.base, api |-> "local"]),
           IsStrictPrefix(o.dl, CratePath(x))
    PROVE  SignedFor(x, "cargo-dl-base") /\ ValidateCargoUrl(x.base)
<1> DEFINE doc == [dl |-> x.base, api |-> "local"]
           signature == CargoProxyBaseSignature("key", "cargo-dl-base", "r1", x.base)
           written == <<Seg(DlPrefix), Seg(x.base), signature>>
<1>1. doc.dl = x.base
  OBVIOUS
<1>2. PICK d \in RewrittenDownloadBase("key", "r1", x.before, doc.dl),
           a \in RewrittenApiBase("key", "r1", doc.api) : o = [dl |-> d, api |-> a]
  BY DEF RewriteCargoRegistryConfig
<1> HIDE DEF doc
<1>3. ResolveCargoDownloadBase(x.before, x.base) # {} /\ d = written
  BY <1>1, <1>2 DEF RewrittenDownloadBase
<1>4. o.dl = written
  BY <1>2, <1>3
<1>5. ValidateCargoUrl(x.base)
  BY <1>3 DEF ResolveCargoDownloadBase
<1>6. PICK S : CrateSuffix \in Seq(S)
  <2>1. \A s1, s2, s3 : <<s1, s2, s3>> \in Seq({s1, s2, s3})
    OBVIOUS
  <2> QED
    BY <2>1 DEF CrateSuffix
<1>7. IsPrefix(written, CratePath(x))
  BY <1>4 DEF IsStrictPrefix
<1>8. SignatureOf(x) = signature
  <2> HIDE DEF signature
  <2> QED
    BY <1>6, <1>7, ThirdSegment DEF CratePath
<1> QED
  BY <1>5, <1>8, SignatureBinds DEF SignatureOf, SignedFor

\* The path of every base is a sequence of segments.
LEMMA BasePaths ==
    ASSUME NEW base \in DOMAIN CargoBases
    PROVE  \E S : ResolvedBase(base).path \in Seq(S) /\ ApiSuffix \in Seq(S)
<1> DEFINE T == {"api", "v1", "crates", "new", "index"}
<1>1. /\ <<"api", "v1", "crates">> \in Seq(T) /\ <<"crates">> \in Seq(T)
      /\ <<>> \in Seq(T) /\ <<"index">> \in Seq(T)
  OBVIOUS
<1>2. ApiSuffix \in Seq(T)
  <2>1. \A a, b, c, d, e : <<a, b, c, d>> \in Seq({a, b, c, d, e})
    OBVIOUS
  <2> QED
    BY <2>1 DEF ApiSuffix
<1> HIDE DEF T
<1>3. CargoBases[base].path \in Seq(T)
  <2>1. base \in {"local", "relative", "cdn", "foreign", "userinfo"}
    BY DEF CargoBases
  <2>2. CargoBases["local"].path = <<"api", "v1", "crates">>
    BY DEF CargoBases
  <2>3. CargoBases["relative"].path = <<"crates">> /\ CargoBases["foreign"].path = <<"crates">>
    BY DEF CargoBases
  <2>4. CargoBases["userinfo"].path = <<"crates">> /\ CargoBases["cdn"].path = <<>>
    BY DEF CargoBases
  <2> QED
    BY <1>1, <2>1, <2>2, <2>3, <2>4, Zenon
<1>4. <<"index">> \o CargoBases[base].path \in Seq(T)
  BY <1>1, <1>3, ConcatProperties
<1>5. ResolvedBase(base).path \in Seq(T)
  BY <1>3, <1>4 DEF ResolvedBase
<1> QED
  BY <1>2, <1>5

\* The property of one fetch.
LEMMA CargoJudged ==
    ASSUME Drawn("cargo"), sample.in \in AnyCargoFetch
    PROVE  CargoStaysWithinOrigins
<1> DEFINE x == sample.in
           offered == RewriteCargoRegistryConfig("key", "r1", x.before, [dl |-> x.base, api |-> "local"])
           genuine == \E o \in offered : IsStrictPrefix(o.dl, CratePath(x))
           chain == <<ResolvedBase(x.base).origin>> \o x.hops
<1>1. /\ x.base \in DOMAIN CargoBases /\ x.now \in SUBSET STRING /\ x.hops \in Seq(STRING)
  BY DEF AnyCargoFetch
<1>2. PICK S : /\ chain \in Seq(S) /\ chain # <<>> /\ Len(chain) = Len(x.hops) + 1
               /\ chain[1] = ResolvedBase(x.base).origin /\ Len(x.hops) \in Nat
               /\ S = {ResolvedBase(x.base).origin} \cup Range(x.hops)
  BY <1>1, ChainOfHops
<1> HIDE DEF chain
<1>3. ASSUME NEW f \in Fetched(x), NEW i \in DOMAIN f.contacts
      PROVE  /\ f.contacts[i].origin \in {"primary"} \cup x.now
             /\ f.contacts[i].credentials => f.contacts[i].origin = "primary"
  <2>1. f = FetchCargoDownload(x.now, chain) /\ CargoOriginAllowed(x.now, chain[1])
    BY <1>2, FetchedFrom DEF chain
  <2>2. /\ CargoOriginAllowed(x.now, f.contacts[i].origin)
        /\ f.contacts[i].credentials <=> f.contacts[i].origin = "primary"
    <3> DEFINE g == FetchCargoDownload(x.now, chain)
    <3>1. i \in DOMAIN g.contacts
      BY <1>3, <2>1
    <3>2. /\ CargoOriginAllowed(x.now, g.contacts[i].origin)
          /\ g.contacts[i].credentials <=> g.contacts[i].origin = "primary"
      <4>1. CargoOriginAllowed(x.now, chain[1]) /\ chain \in Seq(S)
        BY <1>2, <2>1
      <4>2. CargoOriginAllowed(x.now, g.contacts[i].origin)
        BY <3>1, <4>1, FetchStaysAllowed
      <4>3. g.contacts[i].credentials <=> g.contacts[i].origin = "primary"
        BY <3>1, <4>1, FetchContact
      <4> QED
        BY <4>2, <4>3
    <3> QED
      BY <2>1, <3>2, Zenon
  <2>3. f.contacts[i].origin \in {"primary"} \cup x.now
    BY <2>2 DEF CargoOriginAllowed
  <2> QED
    BY <2>2, <2>3, Zenon
<1>4. ASSUME NEW u \in CargoApiRequestUrl("key", "r1", ApiPath(x))
      PROVE  /\ x.key = "key" /\ x.domain = "cargo-api-base" /\ x.config = "r1"
             /\ u.origin = "primary"
             /\ ShortestJoin(u.path, ResolvedBase(x.base).path, ApiSuffix)
  <2>1. SignedFor(x, "cargo-api-base")
    BY <1>4, ApiAddress
  <2>2. PICK v \in ResolveRegistryLocalCargoBase(x.base) :
          u = [origin |-> v.origin, path |-> JoinRegistryPath(v.path, ApiSuffix)]
    BY <1>4, <2>1, ApiAddress
  <2>3. v = ResolvedBase(x.base) /\ v.origin = "primary"
    BY <2>2 DEF ResolveRegistryLocalCargoBase
  <2>4. u.origin = "primary" /\ u.path = JoinRegistryPath(ResolvedBase(x.base).path, ApiSuffix)
    BY <2>2, <2>3
  <2>5. ShortestJoin(JoinRegistryPath(ResolvedBase(x.base).path, ApiSuffix), ResolvedBase(x.base).path, ApiSuffix)
    BY <1>1, BasePaths, JoinIsShortest
  <2> QED
    BY <2>1, <2>4, <2>5 DEF SignedFor
<1>5. x.key # "key" \/ x.domain # "cargo-dl-base" \/ x.config # "r1" => Fetched(x) = {}
  BY FetchedFrom DEF SignedFor
<1>6. ASSUME genuine, ({ResolvedBase(x.base).origin} \cup Range(x.hops)) \subseteq {"primary"} \cup x.now
      PROVE  \E f \in Fetched(x) :
               f.state = (IF Len(x.hops) <= MaxCargoDownloadRedirects THEN "answered" ELSE "refused")
  <2>1. SignedFor(x, "cargo-dl-base") /\ ValidateCargoUrl(x.base)
    BY <1>6, OfferedIsSigned
  <2>2. \A s \in S : CargoOriginAllowed(x.now, s)
    BY <1>2, <1>6 DEF CargoOriginAllowed
  <2>3. CargoOriginAllowed(x.now, ResolvedBase(x.base).origin)
    BY <1>2, <2>2
  <2>4. FetchCargoDownload(x.now, chain) \in Fetched(x)
    BY <2>1, <2>3, FetchedIfAllowed DEF chain
  <2>5. \A i \in DOMAIN chain : CargoOriginAllowed(x.now, chain[i])
    BY <1>2, <2>2
  <2>6. FetchCargoDownload(x.now, chain).state =
          IF Len(chain) <= MaxCargoDownloadRedirects + 1 THEN "answered" ELSE "refused"
    BY <1>2, <2>5, FetchAnswers
  <2>7. Len(chain) <= MaxCargoDownloadRedirects + 1 <=> Len(x.hops) <= MaxCargoDownloadRedirects
    BY <1>2 DEF MaxCargoDownloadRedirects
  <2> QED
    BY <2>4, <2>6, <2>7
<1>7. CargoStaysWithinOrigins <=>
        /\ \A f \in Fetched(x) : \A i \in DOMAIN f.contacts :
             /\ f.contacts[i].origin \in {"primary"} \cup x.now
             /\ f.contacts[i].credentials => f.contacts[i].origin = "primary"
        /\ \A u \in CargoApiRequestUrl("key", "r1", ApiPath(x)) :
             /\ x.key = "key" /\ x.domain = "cargo-api-base" /\ x.config = "r1"
             /\ u.origin = "primary"
             /\ ShortestJoin(u.path, ResolvedBase(x.base).path, ApiSuffix)
        /\ (x.key # "key" \/ x.domain # "cargo-dl-base" \/ x.config # "r1") => Fetched(x) = {}
        /\ genuine /\ ({ResolvedBase(x.base).origin} \cup Range(x.hops)) \subseteq {"primary"} \cup x.now =>
             \E f \in Fetched(x) :
               f.state = (IF Len(x.hops) <= MaxCargoDownloadRedirects THEN "answered" ELSE "refused")
  BY Zenon DEF CargoStaysWithinOrigins, Fetched, CratePath, ApiPath, SignatureOf
<1> HIDE DEF genuine, offered
<1> QED
  BY <1>3, <1>4, <1>5, <1>6, <1>7

\* A behaviour draws one fetch and stops.
CargoSpec == SampleInit /\ [][Draw("cargo", AnyCargoFetch)]_sample

\* Wherever an index document, a forged or stale signature or a redirect leads
\* a Cargo download, it stays within the origins that the registry allows now,
\* for every configuration, origin and sequence of redirects.
THEOREM CargoWithinOrigins == CargoSpec => []CargoStaysWithinOrigins
<1> DEFINE Inv == Drawn("cargo") => sample.in \in AnyCargoFetch
<1>1. SampleInit => Inv
  BY DEF SampleInit, Drawn
<1>2. Inv /\ [Draw("cargo", AnyCargoFetch)]_sample => Inv'
  BY DEF Draw, Drawn
<1>3. Inv => CargoStaysWithinOrigins
  <2>1. CASE Drawn("cargo")
    BY <2>1, CargoJudged
  <2>2. CASE ~Drawn("cargo")
    BY <2>2 DEF CargoStaysWithinOrigins
  <2> QED
    BY <2>1, <2>2
<1> QED
  BY <1>1, <1>2, <1>3, PTL DEF CargoSpec

(***************************************************************************)
(* OpenVEX.  The documents are imported one after the other, by any actors *)
(* and with any requests, and a decision is asked for at any time.         *)
(***************************************************************************)

VARIABLES imports,     \* the imports that were asked for, granted or not
          statements   \* the rows that create_openvex_document stored

vex == <<imports, statements>>

VexInit == imports = {} /\ statements = {}

ImportVex(actor, request) ==
    /\ imports' = imports \cup {[actor |-> actor, request |-> request]}
    /\ statements' = CreateOpenVexDocument(statements, actor, request)

VexNext == \E actor, request : ImportVex(actor, request)

VexSpec == VexInit /\ [][VexNext]_vex

\* The import was made for this tenant, by who manages it.
MayImport(import, tenant) ==
    /\ import.request.tenant = tenant
    /\ \E role \in import.actor : role.tenant = tenant /\ RoleCanManageControlPlane(role)

Accepted(import) == ValidateOpenVexRequest(import.request) # {}

InForce(import, now) ==
    \/ import.request.policy.mode = "never"
    \/ \E t \in import.request.policy.expires_at : t > now

\* The document says of this product that the vulnerability has such a status.
Says(import, product, vulnerability, status) ==
    \E i \in DOMAIN import.request.document.statements :
       /\ import.request.document.statements[i].vulnerability = vulnerability
       /\ import.request.document.statements[i].status = status
       /\ product \in Range(import.request.document.statements[i].products)

Saying(tenant, product, now, vulnerability, status) ==
    {i \in imports : /\ MayImport(i, tenant) /\ Accepted(i) /\ InForce(i, now)
                     /\ Says(i, product, vulnerability, status)}

Lifting(tenant, product, now, vulnerability) ==
    Saying(tenant, product, now, vulnerability, "fixed")
      \cup Saying(tenant, product, now, vulnerability, "not_affected")

\* The rows of one import.
RowsOf(import) == CreateOpenVexDocument({}, import.actor, import.request)

\* What is stored is what the imports stored one by one.
StoredFromImports == statements = UNION {RowsOf(i) : i \in imports}

\* An import adds its rows and touches no other.
LEMMA ImportAdds ==
    ASSUME NEW store, NEW actor, NEW request
    PROVE  CreateOpenVexDocument(store, actor, request)
             = store \cup CreateOpenVexDocument({}, actor, request)
BY DEF CreateOpenVexDocument

\* The rows are those of the imports, whoever asked for them in which order.
LEMMA ImportsStored == VexSpec => []StoredFromImports
<1>1. VexInit => StoredFromImports
  BY DEF VexInit, StoredFromImports
<1>2. StoredFromImports /\ [VexNext]_vex => StoredFromImports'
  <2>1. SUFFICES ASSUME StoredFromImports, [VexNext]_vex PROVE StoredFromImports'
    OBVIOUS
  <2>2. CASE UNCHANGED vex
    BY <2>1, <2>2 DEF vex, StoredFromImports
  <2>3. ASSUME NEW actor, NEW request, ImportVex(actor, request) PROVE StoredFromImports'
    <3> DEFINE i == [actor |-> actor, request |-> request]
    <3>1. i.actor = actor /\ i.request = request
      OBVIOUS
    <3>2. RowsOf(i) = CreateOpenVexDocument({}, actor, request)
      BY <3>1 DEF RowsOf
    <3>3. imports' = imports \cup {i}
      BY <2>3 DEF ImportVex
    <3>4. statements' = statements \cup RowsOf(i)
      BY <2>3, <3>2, ImportAdds DEF ImportVex
    <3> HIDE DEF i
    <3>5. UNION {RowsOf(j) : j \in imports'} = (UNION {RowsOf(j) : j \in imports}) \cup RowsOf(i)
      BY <3>3
    <3> QED
      BY <2>1, <3>4, <3>5 DEF StoredFromImports
  <2> QED
    BY <2>1, <2>2, <2>3 DEF VexNext
<1> QED
  BY <1>1, <1>2, PTL DEF VexSpec

\* The rows of one import, read off its document.
LEMMA RowsOfImport ==
    ASSUME NEW import, NEW row
    PROVE  row \in RowsOf(import) <=>
             /\ MayImport(import, import.request.tenant) /\ Accepted(import)
             /\ \E i \in DOMAIN import.request.document.statements :
                \E p \in Range(import.request.document.statements[i].products) :
                   row = [tenant |-> import.request.tenant, document |-> import.request.document.id,
                          mode |-> import.request.policy.mode, expires_at |-> import.request.policy.expires_at,
                          vulnerability |-> import.request.document.statements[i].vulnerability,
                          status |-> import.request.document.statements[i].status, product |-> p]
<1> DEFINE request == import.request
           written == request.document.statements
           Row(r) == [tenant |-> request.tenant, document |-> request.document.id,
                      mode |-> request.policy.mode, expires_at |-> request.policy.expires_at,
                      vulnerability |-> r.vulnerability, status |-> r.status, product |-> r.product]
           R(i, p) == [index |-> i, vulnerability |-> written[i].vulnerability,
                       status |-> written[i].status, product |-> p]
           all == UNION {{R(i, p) : p \in Range(written[i].products)} : i \in DOMAIN written}
<1>1. ValidateOpenVexRequest(request) = {} \/ ValidateOpenVexRequest(request) = {all}
  BY Zenon DEF ValidateOpenVexRequest
<1>2. MayImport(import, request.tenant)
        <=> \E role \in import.actor : role.tenant = request.tenant /\ RoleCanManageControlPlane(role)
  BY DEF MayImport
<1>3. RowsOf(import) = IF ~MayImport(import, request.tenant) THEN {}
                       ELSE UNION {{Row(r) : r \in rows} : rows \in ValidateOpenVexRequest(request)}
  BY <1>2 DEF RowsOf, CreateOpenVexDocument
<1>4. \A i, p : Row(R(i, p)) = [tenant |-> request.tenant, document |-> request.document.id,
                                mode |-> request.policy.mode, expires_at |-> request.policy.expires_at,
                                vulnerability |-> written[i].vulnerability,
                                status |-> written[i].status, product |-> p]
  OBVIOUS
<1>5. \A r : r \in all <=> \E i \in DOMAIN written : \E p \in Range(written[i].products) : r = R(i, p)
  <2> HIDE DEF R, Row, written, request
  <2> QED
    OBVIOUS
<1> HIDE DEF Row, R, all
<1>6. row \in RowsOf(import) <=> /\ MayImport(import, request.tenant) /\ Accepted(import)
                                 /\ \E r \in all : row = Row(r)
  BY <1>1, <1>3 DEF Accepted
<1>7. (\E r \in all : row = Row(r))
        <=> \E i \in DOMAIN written : \E p \in Range(written[i].products) : row = Row(R(i, p))
  BY <1>5
<1> QED
  BY <1>4, <1>6, <1>7

\* A row of the document with this status of the vulnerability is active.
Stands(tenant, product, now, v, status, document) ==
    \E s \in ActiveOpenVex(statements, tenant, product, now) :
       s.vulnerability = v /\ s.status = status /\ s.document = document

\* An import of the document gave it this status.
Told(tenant, product, now, v, status, document) ==
    \E i \in Saying(tenant, product, now, v, status) : i.request.document.id = document

\* The active statements are those of the imports that say so.
LEMMA ActiveSaying ==
    ASSUME StoredFromImports, NEW tenant, NEW product, NEW now, NEW v, NEW status, NEW document
    PROVE  Stands(tenant, product, now, v, status, document) <=> Told(tenant, product, now, v, status, document)
<1> DEFINE Row(i, k, p) ==
             [tenant |-> i.request.tenant, document |-> i.request.document.id,
              mode |-> i.request.policy.mode, expires_at |-> i.request.policy.expires_at,
              vulnerability |-> i.request.document.statements[k].vulnerability,
              status |-> i.request.document.statements[k].status, product |-> p]
<1>1. \A i, k, p : /\ Row(i, k, p).tenant = i.request.tenant
                   /\ Row(i, k, p).document = i.request.document.id
                   /\ Row(i, k, p).mode = i.request.policy.mode
                   /\ Row(i, k, p).expires_at = i.request.policy.expires_at
                   /\ Row(i, k, p).vulnerability = i.request.document.statements[k].vulnerability
                   /\ Row(i, k, p).status = i.request.document.statements[k].status
                   /\ Row(i, k, p).product = p
  OBVIOUS
<1>2. \A i, row : row \in RowsOf(i) <=>
        /\ MayImport(i, i.request.tenant) /\ Accepted(i)
        /\ \E k \in DOMAIN i.request.document.statements :
           \E p \in Range(i.request.document.statements[k].products) : row = Row(i, k, p)
  BY RowsOfImport
<1> HIDE DEF Row
<1>3. ASSUME NEW s \in ActiveOpenVex(statements, tenant, product, now),
             s.vulnerability = v, s.status = status, s.document = document
      PROVE  \E i \in Saying(tenant, product, now, v, status) : i.request.document.id = document
  <2>1. s \in statements /\ s.tenant = tenant /\ s.product = product
        /\ (s.mode = "never" \/ \E t \in s.expires_at : t > now)
    BY <1>3 DEF ActiveOpenVex
  <2>2. PICK i \in imports : s \in RowsOf(i)
    BY <2>1 DEF StoredFromImports
  <2>2a. PICK k \in DOMAIN i.request.document.statements :
          \E p \in Range(i.request.document.statements[k].products) : s = Row(i, k, p)
    BY <1>2, <2>2
  <2>3. PICK p \in Range(i.request.document.statements[k].products) : s = Row(i, k, p)
    BY <2>2a
  <2>4. i.request.tenant = tenant /\ p = product
    BY <1>1, <2>1, <2>3
  <2>5. MayImport(i, tenant) /\ Accepted(i)
    BY <1>2, <2>2, <2>4
  <2>6. InForce(i, now)
    BY <1>1, <2>1, <2>3 DEF InForce
  <2>7. Says(i, product, v, status)
    BY <1>1, <1>3, <2>3, <2>4 DEF Says
  <2>8. i.request.document.id = document
    BY <1>1, <1>3, <2>3
  <2> QED
    BY <2>5, <2>6, <2>7, <2>8 DEF Saying
<1>4. ASSUME NEW i \in Saying(tenant, product, now, v, status), i.request.document.id = document
      PROVE  \E s \in ActiveOpenVex(statements, tenant, product, now) :
               s.vulnerability = v /\ s.status = status /\ s.document = document
  <2>1. i \in imports /\ MayImport(i, tenant) /\ Accepted(i) /\ InForce(i, now)
        /\ Says(i, product, v, status)
    BY <1>4 DEF Saying
  <2>2. PICK k \in DOMAIN i.request.document.statements :
          /\ i.request.document.statements[k].vulnerability = v
          /\ i.request.document.statements[k].status = status
          /\ product \in Range(i.request.document.statements[k].products)
    BY <2>1 DEF Says
  <2>3. i.request.tenant = tenant
    BY <2>1 DEF MayImport
  <2>4. Row(i, k, product) \in RowsOf(i)
    BY <1>2, <2>1, <2>2, <2>3
  <2>5. Row(i, k, product) \in statements
    BY <2>1, <2>4 DEF StoredFromImports
  <2>6. Row(i, k, product) \in ActiveOpenVex(statements, tenant, product, now)
    BY <1>1, <2>1, <2>3, <2>5 DEF ActiveOpenVex, InForce
  <2> QED
    BY <1>1, <1>4, <2>2, <2>6
<1> QED
  BY <1>3, <1>4 DEF Stands, Told

\* What a decision makes of the matches of an artifact, whatever was imported
\* before: a vulnerability is held against the threshold unless an import of
\* this tenant, by who manages it, that was accepted and is in force, says that
\* it is fixed in or does not affect this product; the evidence names just the
\* documents of those imports; what is not lifted is under investigation just
\* if such an import says so; and the decision is recorded just if nothing is
\* lifted, because the audit event of a lifted vulnerability is refused.
LiftedAsStated ==
    \A tenant, product, now, matches, threshold :
       LET status == VulnerabilitySignalStatus(matches, ActiveOpenVex(statements, tenant, product, now), threshold)
           LiftedBy(m) == Lifting(tenant, product, now, m.advisory)
       IN  /\ status.vulnerable_above_threshold
                <=> \E m \in matches : LiftedBy(m) = {} /\ VulnerabilityMatchExceedsThreshold(m, threshold)
           /\ status.under_investigation
                <=> \E m \in matches : /\ LiftedBy(m) = {}
                                       /\ Saying(tenant, product, now, m.advisory, "under_investigation") # {}
           /\ status.evidence_references
                = {i.request.document.id : i \in UNION {LiftedBy(m) : m \in matches}}
           /\ PersistEvaluatedDecision(status) <=> \A m \in matches : LiftedBy(m) = {}

\* The verdict on the matches follows from the imports.
LEMMA LiftsFollow == ASSUME StoredFromImports PROVE LiftedAsStated
<1> SUFFICES ASSUME NEW tenant, NEW product, NEW now, NEW matches, NEW threshold
             PROVE  LET status == VulnerabilitySignalStatus(matches,
                                    ActiveOpenVex(statements, tenant, product, now), threshold)
                        LiftedBy(m) == Lifting(tenant, product, now, m.advisory)
                    IN  /\ status.vulnerable_above_threshold
                             <=> \E m \in matches : LiftedBy(m) = {} /\ VulnerabilityMatchExceedsThreshold(m, threshold)
                        /\ status.under_investigation
                             <=> \E m \in matches : /\ LiftedBy(m) = {}
                                                    /\ Saying(tenant, product, now, m.advisory, "under_investigation") # {}
                        /\ status.evidence_references
                             = {i.request.document.id : i \in UNION {LiftedBy(m) : m \in matches}}
                        /\ PersistEvaluatedDecision(status) <=> \A m \in matches : LiftedBy(m) = {}
  BY DEF LiftedAsStated
<1> DEFINE active == ActiveOpenVex(statements, tenant, product, now)
           status == VulnerabilitySignalStatus(matches, active, threshold)
           LiftedBy(m) == Lifting(tenant, product, now, m.advisory)
           About(m) == {s \in active : s.vulnerability = m.advisory}
           suppressed == {m \in matches : \E s \in About(m) : Lifts(s.status)}
           others == matches \ suppressed
           above == \E m \in others : VulnerabilityMatchExceedsThreshold(m, threshold)
           under == \E m \in others : \E s \in About(m) : s.status = "under_investigation"
           named == UNION {{s.document : s \in {t \in About(m) : Lifts(t.status)}} : m \in suppressed}
<1>1. status = [vulnerable_above_threshold |-> above, under_investigation |-> under,
                evidence_references |-> named]
  BY Zenon DEF VulnerabilitySignalStatus
<1>2. \A m, d : (\E s \in About(m) : Lifts(s.status) /\ s.document = d)
                  <=> \E i \in LiftedBy(m) : i.request.document.id = d
  <2> TAKE m, d
  <2>1. /\ Stands(tenant, product, now, m.advisory, "fixed", d)
             <=> Told(tenant, product, now, m.advisory, "fixed", d)
        /\ Stands(tenant, product, now, m.advisory, "not_affected", d)
             <=> Told(tenant, product, now, m.advisory, "not_affected", d)
    BY ActiveSaying
  <2>2. (\E s \in About(m) : Lifts(s.status) /\ s.document = d)
          <=> \/ Stands(tenant, product, now, m.advisory, "fixed", d)
              \/ Stands(tenant, product, now, m.advisory, "not_affected", d)
    BY DEF Stands, Lifts
  <2>3. (\E i \in LiftedBy(m) : i.request.document.id = d)
          <=> \/ Told(tenant, product, now, m.advisory, "fixed", d)
              \/ Told(tenant, product, now, m.advisory, "not_affected", d)
    BY DEF Told, Lifting
  <2> QED
    BY <2>1, <2>2, <2>3, Zenon
<1>3. \A m : (\E s \in About(m) : s.status = "under_investigation")
               <=> Saying(tenant, product, now, m.advisory, "under_investigation") # {}
  <2> TAKE m
  <2>1. ASSUME NEW d PROVE Stands(tenant, product, now, m.advisory, "under_investigation", d)
                             <=> Told(tenant, product, now, m.advisory, "under_investigation", d)
    BY ActiveSaying
  <2>2. (\E s \in About(m) : s.status = "under_investigation")
          <=> \E d : Stands(tenant, product, now, m.advisory, "under_investigation", d)
    BY DEF Stands
  <2>3. Saying(tenant, product, now, m.advisory, "under_investigation") # {}
          <=> \E d : Told(tenant, product, now, m.advisory, "under_investigation", d)
    BY DEF Told
  <2> QED
    BY <2>1, <2>2, <2>3
<1> HIDE DEF active, LiftedBy, status
<1>4. \A m : (\E s \in About(m) : Lifts(s.status)) <=> LiftedBy(m) # {}
  BY <1>2
<1> HIDE DEF About
<1>5. \A m : m \in suppressed <=> m \in matches /\ LiftedBy(m) # {}
  BY <1>4
<1>6. \A m : m \in others <=> m \in matches /\ LiftedBy(m) = {}
  BY <1>5
<1>7. named = {i.request.document.id : i \in UNION {LiftedBy(m) : m \in matches}}
  <2>1. \A d : d \in named <=> \E m \in suppressed : \E s \in About(m) : Lifts(s.status) /\ s.document = d
    OBVIOUS
  <2> HIDE DEF suppressed, named
  <2>2. \A d : d \in named <=> \E m \in suppressed : \E i \in LiftedBy(m) : i.request.document.id = d
    BY <1>2, <2>1
  <2>3. \A d : d \in named <=> \E m \in matches : \E i \in LiftedBy(m) : i.request.document.id = d
    BY <1>5, <2>2
  <2> QED
    BY <2>3
<1> HIDE DEF others, suppressed
<1>8. above <=> \E m \in matches : LiftedBy(m) = {} /\ VulnerabilityMatchExceedsThreshold(m, threshold)
  BY <1>6
<1>9. under <=> \E m \in matches : /\ LiftedBy(m) = {}
                                   /\ Saying(tenant, product, now, m.advisory, "under_investigation") # {}
  BY <1>3, <1>6
<1> HIDE DEF above, under, named
<1>10. /\ status.vulnerable_above_threshold = above /\ status.under_investigation = under
       /\ status.evidence_references = named
  <2>1. \A r, a, b, c : r = [vulnerable_above_threshold |-> a, under_investigation |-> b,
                             evidence_references |-> c]
                          => r.vulnerable_above_threshold = a /\ r.under_investigation = b
                             /\ r.evidence_references = c
    OBVIOUS
  <2> QED
    BY <1>1, <2>1, Zenon
<1>11. PersistEvaluatedDecision(status) <=> status.evidence_references = {}
  BY DEF PersistEvaluatedDecision, SuppressionAudit, AuditEventColumns, RequiredColumns
<1>12. status.vulnerable_above_threshold
         <=> \E m \in matches : LiftedBy(m) = {} /\ VulnerabilityMatchExceedsThreshold(m, threshold)
  BY <1>8, <1>10, Zenon
<1>13. status.under_investigation
         <=> \E m \in matches : /\ LiftedBy(m) = {}
                                /\ Saying(tenant, product, now, m.advisory, "under_investigation") # {}
  BY <1>9, <1>10, Zenon
<1>14. status.evidence_references = {i.request.document.id : i \in UNION {LiftedBy(m) : m \in matches}}
  BY <1>7, <1>10
<1>15. PersistEvaluatedDecision(status) <=> \A m \in matches : LiftedBy(m) = {}
  <2>1. \A d : d \in named <=> \E m \in matches : \E i \in LiftedBy(m) : i.request.document.id = d
    BY <1>7
  <2>2. named = {} <=> \A m \in matches : LiftedBy(m) = {}
    BY <2>1
  <2> QED
    BY <1>10, <1>11, <2>2
<1> QED
  BY <1>12, <1>13, <1>14, <1>15, Zenon DEF status, LiftedBy, active

\* However many documents are imported, by whom and in which order, a
\* vulnerability is lifted only by who may and only while the document is in
\* force, the evidence names exactly the documents that did, and no decision
\* that rests on one of them is recorded.
THEOREM VexLiftsAsStated == VexSpec => []LiftedAsStated
BY ImportsStored, LiftsFollow, PTL

\* The more statements are active, the fewer vulnerabilities count.
LEMMA MoreStatementsLiftMore ==
    ASSUME NEW A, NEW B, A \subseteq B, NEW matches, NEW threshold,
           VulnerabilitySignalStatus(matches, B, threshold).vulnerable_above_threshold
    PROVE  VulnerabilitySignalStatus(matches, A, threshold).vulnerable_above_threshold
<1> DEFINE lifted(active) == {m \in matches : \E s \in {t \in active : t.vulnerability = m.advisory} : Lifts(s.status)}
           above(active) == \E m \in matches \ lifted(active) : VulnerabilityMatchExceedsThreshold(m, threshold)
<1>1. ASSUME NEW active
      PROVE  VulnerabilitySignalStatus(matches, active, threshold).vulnerable_above_threshold = above(active)
  <2> DEFINE About(m) == {s \in active : s.vulnerability = m.advisory}
             under == \E m \in matches \ lifted(active) : \E s \in About(m) : s.status = "under_investigation"
             named == UNION {{s.document : s \in {t \in About(m) : Lifts(t.status)}} : m \in lifted(active)}
  <2>1. VulnerabilitySignalStatus(matches, active, threshold) =
          [vulnerable_above_threshold |-> above(active), under_investigation |-> under,
           evidence_references |-> named]
    BY Zenon DEF VulnerabilitySignalStatus
  <2>2. \A r, a, b, c : r = [vulnerable_above_threshold |-> a, under_investigation |-> b,
                             evidence_references |-> c]
                          => r.vulnerable_above_threshold = a
    OBVIOUS
  <2> HIDE DEF under, named, above
  <2> QED
    BY <2>1, <2>2, Zenon
<1>2. above(B) => above(A)
  <2>1. lifted(A) \subseteq lifted(B)
    OBVIOUS
  <2> HIDE DEF lifted
  <2> QED
    BY <2>1
<1> HIDE DEF above
<1> QED
  BY <1>1, <1>2, Zenon

\* No import makes the decision on an artifact stricter than it was.
ImportsOnlyLift ==
    [][\A tenant, product, now, matches, threshold :
         VulnerabilitySignalStatus(matches, ActiveOpenVex(statements', tenant, product, now), threshold)
             .vulnerable_above_threshold
           => VulnerabilitySignalStatus(matches, ActiveOpenVex(statements, tenant, product, now), threshold)
                .vulnerable_above_threshold]_vex

\* A later document of the same author, id and a higher version adds its rows to
\* those of the earlier one, so that a vulnerability that the earlier one
\* cleared stays cleared whatever the later one says, and until the earlier one
\* expires.
THEOREM VexNeverWithdrawn == VexSpec => ImportsOnlyLift
<1>1. ASSUME VexNext, NEW tenant, NEW product, NEW now
      PROVE  ActiveOpenVex(statements, tenant, product, now) \subseteq ActiveOpenVex(statements', tenant, product, now)
  <2>1. statements \subseteq statements'
    BY <1>1, ImportAdds DEF VexNext, ImportVex
  <2> QED
    BY <2>1 DEF ActiveOpenVex
<1>2. [VexNext]_vex =>
        [\A tenant, product, now, matches, threshold :
           VulnerabilitySignalStatus(matches, ActiveOpenVex(statements', tenant, product, now), threshold)
               .vulnerable_above_threshold
             => VulnerabilitySignalStatus(matches, ActiveOpenVex(statements, tenant, product, now), threshold)
                  .vulnerable_above_threshold]_vex
  <2> SUFFICES ASSUME VexNext, NEW tenant, NEW product, NEW now, NEW matches, NEW threshold,
                      VulnerabilitySignalStatus(matches, ActiveOpenVex(statements', tenant, product, now), threshold)
                        .vulnerable_above_threshold
               PROVE  VulnerabilitySignalStatus(matches, ActiveOpenVex(statements, tenant, product, now), threshold)
                        .vulnerable_above_threshold
    OBVIOUS
  <2> QED
    BY <1>1, MoreStatementsLiftMore
<1> QED
  BY <1>2, PTL DEF VexSpec, ImportsOnlyLift

(***************************************************************************)
(* The SBOM service, for any request and any database.                     *)
(***************************************************************************)

\* An accepted component names what its package URL names.
LEMMA ValidComponent ==
    ASSUME NEW c, ValidComponentInput(c)
    PROVE  /\ c.name = Last(c.purl.segments) /\ c.name # ""
           /\ c.purl.version # {} => ResolvedComponentVersion(c) = c.purl.version
           /\ ResolvedComponentNamespace(c) = {Front(c.purl.segments)} \ {<<>>}
           /\ "" \notin c.version
<1> DEFINE parsed == [ecosystem |-> c.purl.type, namespace |-> Front(c.purl.segments),
                      name |-> Last(c.purl.segments), version |-> c.purl.version]
<1>1. PICK p \in ParseComponentPurl(c.purl) :
        /\ p.ecosystem = c.ecosystem /\ p.name = c.name
        /\ c.namespace \subseteq ({p.namespace} \ {<<>>})
        /\ c.version = {} \/ p.version = {} \/ c.version = p.version
  BY DEF ValidComponentInput
<1>2. ParseComponentPurl(c.purl) = {parsed} /\ p = parsed
  BY <1>1 DEF ParseComponentPurl
<1>3. parsed.namespace = Front(c.purl.segments) /\ parsed.name = Last(c.purl.segments)
      /\ parsed.version = c.purl.version
  OBVIOUS
<1> HIDE DEF parsed
<1>4. ASSUME c.purl.version # {} PROVE ResolvedComponentVersion(c) = c.purl.version
  <2>1. UNION {q.version : q \in {parsed}} = parsed.version
    OBVIOUS
  <2> QED
    BY <1>1, <1>2, <1>3, <1>4, <2>1 DEF ResolvedComponentVersion
<1>5. ResolvedComponentNamespace(c) = {Front(c.purl.segments)} \ {<<>>}
  <2>1. {q.namespace : q \in {q \in {parsed} : q.namespace # <<>>}} = {parsed.namespace} \ {<<>>}
    OBVIOUS
  <2>2. c.namespace # {} => c.namespace = {parsed.namespace} \ {<<>>}
    BY <1>1, <1>2
  <2> QED
    BY <1>2, <1>3, <2>1, <2>2 DEF ResolvedComponentNamespace
<1> QED
  BY <1>1, <1>2, <1>3, <1>4, <1>5 DEF ValidComponentInput

\* The package that stands for a component.
CyclonedxPackage(c) ==
    [ref |-> c.purl, purl |-> c.purl, name |-> c.name, group |-> ResolvedComponentNamespace(c),
     version |-> ResolvedComponentVersion(c), hash |-> IntegrityHash(c), decision |-> c.decision]

SpdxPackage(c, i) ==
    [ref |-> i, purl |-> c.purl, name |-> c.name, group |-> {},
     version |-> IF ResolvedComponentVersion(c) = {} THEN {NoAssertion} ELSE ResolvedComponentVersion(c),
     hash |-> IntegrityHash(c), decision |-> c.decision]

PackageOf(format, c, i) == IF format = "spdx" THEN SpdxPackage(c, i) ELSE CyclonedxPackage(c)

\* A document has one package for each component, in their order.
LEMMA DocumentPackages ==
    ASSUME NEW format, NEW components
    PROVE  Generated(format, components).packages =
             [i \in DOMAIN components |-> PackageOf(format, components[i], i)]
<1>1. \A d, p, q : d = [packages |-> p, dependencies |-> q] => d.packages = p
  OBVIOUS
<1>2. CASE format = "spdx"
  <2>1. GenerateSpdx23(components).packages = [i \in DOMAIN components |-> SpdxPackage(components[i], i)]
    BY <1>1, Zenon DEF GenerateSpdx23, SpdxPackage
  <2> QED
    BY <1>2, <2>1 DEF Generated, PackageOf
<1>3. CASE format # "spdx"
  <2>1. GenerateCyclonedx(components).packages = [i \in DOMAIN components |-> CyclonedxPackage(components[i])]
    BY <1>1, Zenon DEF GenerateCyclonedx, CyclonedxPackage
  <2> QED
    BY <1>3, <2>1 DEF Generated, PackageOf
<1> QED
  BY <1>2, <1>3

\* The components of a stored document were all accepted.
LEMMA StoredComponents ==
    ASSUME NEW db, NEW request, NEW row \in GenerateSbom(db, request)
    PROVE  \E components :
             /\ \A c \in Range(components) : ValidComponentInput(c)
             /\ Len(components) <= MaxComponentCount
             /\ row.format = request.format
             /\ row.document = Generated(request.format, components)
             /\ row.ntia = ValidateNtiaMinimumElements(request.format, Generated(request.format, components))
<1> DEFINE Row(r) == [tenant |-> r.tenant, format |-> request.format, count |-> Len(r.components),
                      document |-> Generated(request.format, r.components),
                      ntia |-> ValidateNtiaMinimumElements(request.format, Generated(request.format, r.components))]
<1>1. \E r : /\ row = Row(r)
             /\ \A c \in Range(r.components) : ValidComponentInput(c)
             /\ Len(r.components) <= MaxComponentCount
  BY DEF GenerateSbom
<1>2. PICK r : /\ row = Row(r)
               /\ \A c \in Range(r.components) : ValidComponentInput(c)
               /\ Len(r.components) <= MaxComponentCount
  BY <1>1
<1>3. /\ row.format = request.format
      /\ row.document = Generated(request.format, r.components)
      /\ row.ntia = ValidateNtiaMinimumElements(request.format, Generated(request.format, r.components))
  <2>1. \A x, a, b, c, d, e : x = [tenant |-> a, format |-> b, count |-> c, document |-> d, ntia |-> e]
                                => x.format = b /\ x.document = d /\ x.ntia = e
    OBVIOUS
  <2> QED
    BY <1>2, <2>1, Zenon
<1> QED
  BY <1>2, <1>3, Zenon

\* Every package of a stored SBOM says what its package URL says: the name, the
\* version if it states one and, in CycloneDX, the namespace; and the verdict on
\* the minimum elements is that every package has a version.  This holds for
\* the components of a request and for the fragments an analysis left behind,
\* whatever the database holds.
THEOREM SbomSaysWhatPurlSays ==
    ASSUME NEW db, NEW request, NEW row \in GenerateSbom(db, request)
    PROVE  /\ \A i \in DOMAIN row.document.packages :
                LET package == row.document.packages[i]
                IN  /\ package.name = Last(package.purl.segments)
                    /\ package.purl.version # {} => package.version = package.purl.version
                    /\ row.format # "spdx" => package.group = {Front(package.purl.segments)} \ {<<>>}
           /\ row.ntia <=> \A i \in DOMAIN row.document.packages : NonEmpty(row.document.packages[i].version)
<1>1. PICK components :
        /\ \A c \in Range(components) : ValidComponentInput(c)
        /\ row.format = request.format
        /\ row.document = Generated(request.format, components)
        /\ row.ntia = ValidateNtiaMinimumElements(request.format, Generated(request.format, components))
  BY StoredComponents, Zenon
<1> DEFINE packages == row.document.packages
<1>2. packages = [i \in DOMAIN components |-> PackageOf(request.format, components[i], i)]
  BY <1>1, DocumentPackages
<1> HIDE DEF packages
<1>3. DOMAIN packages = DOMAIN components
  BY <1>2
<1>4. ASSUME NEW i \in DOMAIN packages
      PROVE  /\ packages[i] = PackageOf(request.format, components[i], i)
             /\ ValidComponentInput(components[i])
  BY <1>1, <1>2, <1>3, <1>4 DEF Range
<1>5. ASSUME NEW i \in DOMAIN packages
      PROVE  /\ packages[i].name = Last(packages[i].purl.segments) /\ packages[i].name # ""
             /\ packages[i].purl.version # {} => packages[i].version = packages[i].purl.version
             /\ row.format # "spdx" => packages[i].group = {Front(packages[i].purl.segments)} \ {<<>>}
  <2> DEFINE c == components[i]
  <2>1. packages[i] = PackageOf(request.format, c, i) /\ ValidComponentInput(c)
    BY <1>4, <1>5
  <2> HIDE DEF c
  <2>2. /\ packages[i].purl = c.purl /\ packages[i].name = c.name
        /\ packages[i].group = IF request.format = "spdx" THEN {} ELSE ResolvedComponentNamespace(c)
        /\ packages[i].version = IF request.format = "spdx" /\ ResolvedComponentVersion(c) = {} THEN {NoAssertion}
                                 ELSE ResolvedComponentVersion(c)
    <3> DEFINE package == PackageOf(request.format, c, i)
    <3>1. /\ package.purl = c.purl /\ package.name = c.name
          /\ package.group = IF request.format = "spdx" THEN {} ELSE ResolvedComponentNamespace(c)
          /\ package.version = IF request.format = "spdx" /\ ResolvedComponentVersion(c) = {} THEN {NoAssertion}
                               ELSE ResolvedComponentVersion(c)
      BY DEF PackageOf, SpdxPackage, CyclonedxPackage
    <3> HIDE DEF package
    <3>2. packages[i] = package
      BY <2>1 DEF package
    <3> QED
      BY <3>1, <3>2
  <2>3. /\ c.name = Last(c.purl.segments) /\ c.name # ""
        /\ c.purl.version # {} => ResolvedComponentVersion(c) = c.purl.version
        /\ ResolvedComponentNamespace(c) = {Front(c.purl.segments)} \ {<<>>}
    BY <2>1, ValidComponent
  <2> QED
    BY <1>1, <2>2, <2>3
<1>6. row.ntia <=> \A i \in DOMAIN packages : NonEmpty(packages[i].version)
  <2>1. \A n : NonEmpty({n}) <=> n # ""
    BY DEF NonEmpty
  <2>2. \A i \in DOMAIN packages : NonEmpty({packages[i].name})
    BY <1>5, <2>1
  <2>3. ValidateNtiaMinimumElements(request.format, row.document)
          <=> {i \in DOMAIN packages : ~NonEmpty({packages[i].name}) \/ ~NonEmpty(packages[i].version)} = {}
    BY DEF ValidateNtiaMinimumElements, ValidateSpdxNtia, ValidateCyclonedxNtia, packages
  <2>4. ValidateNtiaMinimumElements(request.format, row.document)
          <=> \A i \in DOMAIN packages : NonEmpty(packages[i].version)
    BY <2>2, <2>3
  <2> QED
    BY <1>1, <2>4, Zenon
<1> QED
  BY <1>5, <1>6 DEF packages

-----------------------------------------------------------------------------
(***************************************************************************)
(* The dependency graph of deps.dev, for any finite set of edges.          *)
(***************************************************************************)

\* One step of the recursive query.
NextReached(edges, purl, found) ==
    {e.to : e \in {d \in edges : d.from = purl \/ d.from \in found}}

\* Everything the edges lead to, from the package or from the set, is in the set.
ClosedUnder(edges, purl, C) == NextReached(edges, purl, C) \subseteq C

\* The sets that the query accumulates up to step n.
Accumulates(g, edges, purl, n) ==
    g = [m \in 0 .. n |-> IF m = 0 THEN {} ELSE NextReached(edges, purl, g[m - 1])]

\* The accumulation can be continued to any step.
LEMMA AccumulationExists ==
    ASSUME NEW edges, NEW purl, NEW n \in Nat
    PROVE  \E g : Accumulates(g, edges, purl, n)
<1> DEFINE Lacks == {m \in Nat : ~\E g : Accumulates(g, edges, purl, m)}
<1>1. SUFFICES Lacks = {}
  OBVIOUS
<1>2. SUFFICES ASSUME Lacks # {} PROVE FALSE
  OBVIOUS
<1>3. PICK m \in Lacks : \A k \in Lacks : m <= k
  <2>1. Lacks \subseteq Nat
    OBVIOUS
  <2> HIDE DEF Lacks
  <2> QED
    BY <1>2, <2>1, LeastNumber
<1>4. CASE m = 0
  <2> DEFINE g == [k \in 0 .. 0 |-> {}]
  <2>1. g = [k \in 0 .. 0 |-> IF k = 0 THEN {} ELSE NextReached(edges, purl, g[k - 1])]
    OBVIOUS
  <2> QED
    BY <1>3, <1>4, <2>1 DEF Accumulates
<1>5. CASE m # 0
  <2>1. m \in Nat /\ m - 1 \in Nat /\ m - 1 \notin Lacks
    BY <1>3, <1>5
  <2>2. PICK g : Accumulates(g, edges, purl, m - 1)
    BY <2>1
  <2> DEFINE h == [k \in 0 .. m |-> IF k = m THEN NextReached(edges, purl, g[m - 1]) ELSE g[k]]
  <2>3. \A k \in 0 .. m : h[k] = IF k = 0 THEN {} ELSE NextReached(edges, purl, h[k - 1])
    <3> TAKE k \in 0 .. m
    <3>1. CASE k = m
      <4>1. k - 1 \in 0 .. m /\ k - 1 # m /\ k # 0
        BY <1>5, <2>1, <3>1
      <4>2. h[k - 1] = g[k - 1]
        BY <4>1
      <4>3. h[k] = NextReached(edges, purl, g[m - 1])
        BY <3>1
      <4> QED
        BY <3>1, <4>1, <4>2, <4>3
    <3>2. CASE k # m
      <4>1. k \in 0 .. m - 1
        BY <2>1, <3>2
      <4>2. h[k] = g[k]
        BY <3>2
      <4>3. g[k] = IF k = 0 THEN {} ELSE NextReached(edges, purl, g[k - 1])
        BY <2>2, <4>1 DEF Accumulates
      <4>4. k # 0 => k - 1 \in 0 .. m /\ k - 1 # m
        BY <2>1, <4>1
      <4>5. k # 0 => h[k - 1] = g[k - 1]
        BY <4>4
      <4> QED
        BY <4>2, <4>3, <4>5
    <3> QED
      BY <3>1, <3>2
  <2>4. h = [k \in 0 .. m |-> IF k = 0 THEN {} ELSE NextReached(edges, purl, h[k - 1])]
    <3> HIDE DEF h
    <3>1. h = [k \in 0 .. m |-> h[k]]
      BY DEF h
    <3> QED
      BY <2>3, <3>1
  <2>5. Accumulates(h, edges, purl, m)
    BY <2>4 DEF Accumulates
  <2> QED
    BY <1>3, <2>5
<1> QED
  BY <1>4, <1>5

\* ReachableDependencies returns the last of them.
LEMMA ReachedByAccumulation ==
    ASSUME NEW edges, NEW purl, Cardinality(edges) \in Nat
    PROVE  \E g : /\ Accumulates(g, edges, purl, Cardinality(edges))
                  /\ ReachableDependencies(edges, purl) = g[Cardinality(edges)]
<1> DEFINE n == Cardinality(edges)
           g == CHOOSE f : Accumulates(f, edges, purl, n)
<1>1. Accumulates(g, edges, purl, n)
  BY AccumulationExists
<1>2. ReachableDependencies(edges, purl) = g[n]
  BY DEF ReachableDependencies, Accumulates, NextReached
<1> QED
  BY <1>1, <1>2

\* What holds of 0 and passes from each number below n to the next one holds
\* of all the numbers up to n.
LEMMA UpTo ==
    ASSUME NEW n \in Nat, NEW T, 0 \in T, \A k \in 0 .. n - 1 : k \in T => k + 1 \in T
    PROVE  0 .. n \subseteq T
<1> DEFINE Lacks == (0 .. n) \ T
<1>1. SUFFICES ASSUME Lacks # {} PROVE FALSE
  OBVIOUS
<1>2. PICK m \in Lacks : \A k \in Lacks : m <= k
  <2>1. Lacks \subseteq Nat
    OBVIOUS
  <2> HIDE DEF Lacks
  <2> QED
    BY <1>1, <2>1, LeastNumber
<1>3. m \in 1 .. n
  BY <1>2
<1>4. m - 1 \in 0 .. n - 1 /\ m - 1 \notin Lacks
  BY <1>2, <1>3
<1>5. m - 1 \in T
  BY <1>4
<1>6. (m - 1) + 1 \in T
  BY <1>4, <1>5
<1> QED
  BY <1>2, <1>3, <1>6

\* Finitely many edges have finitely many ends, and not more.
LEMMA FewEnds ==
    ASSUME NEW edges, IsFiniteSet(edges)
    PROVE  /\ IsFiniteSet({e.to : e \in edges})
           /\ Cardinality({e.to : e \in edges}) <= Cardinality(edges)
<1> DEFINE D == {e.to : e \in edges}
           f == [e \in edges |-> e.to]
<1>1. f \in Surjection(edges, D)
  BY DEF Surjection
<1> HIDE DEF f, D
<1>2. IsFiniteSet(D) /\ Cardinality(D) <= Cardinality(edges)
  BY <1>1, FS_Surjection
<1> QED
  BY <1>2 DEF D

\* The accumulated sets grow, stay within any set that is closed under the
\* edges, and gain an element in every step until the edges add none.
LEMMA AccumulationGrows ==
    ASSUME NEW edges, IsFiniteSet(edges), NEW purl, NEW n \in Nat, NEW g,
           Accumulates(g, edges, purl, n), NEW C, ClosedUnder(edges, purl, C)
    PROVE  \A k \in 0 .. n :
             /\ g[k] \subseteq NextReached(edges, purl, g[k])
             /\ g[k] \subseteq C
             /\ IsFiniteSet(g[k])
             /\ Cardinality(g[k]) >= k \/ NextReached(edges, purl, g[k]) = g[k]
<1> DEFINE Step(found) == NextReached(edges, purl, found)
           T == {k \in 0 .. n : /\ g[k] \subseteq Step(g[k])
                                /\ g[k] \subseteq C
                                /\ IsFiniteSet(g[k])
                                /\ Cardinality(g[k]) >= k \/ Step(g[k]) = g[k]}
<1>1. g[0] = {}
  BY DEF Accumulates
<1>2. ASSUME NEW k \in 0 .. n - 1 PROVE g[k + 1] = Step(g[k])
  <2>1. k + 1 \in 0 .. n /\ k + 1 # 0 /\ (k + 1) - 1 = k
    OBVIOUS
  <2>2. \A m \in 0 .. n : g[m] = IF m = 0 THEN {} ELSE NextReached(edges, purl, g[m - 1])
    <3> HIDE DEF T
    <3> QED
      BY DEF Accumulates
  <2> HIDE DEF T
  <2> QED
    BY <2>1, <2>2
<1>3. \A U, V : U \subseteq V => Step(U) \subseteq Step(V)
  BY DEF NextReached
<1>4. \A U : IsFiniteSet(Step(U))
  <2> TAKE U
  <2> DEFINE taken == {d \in edges : d.from = purl \/ d.from \in U}
  <2>1. IsFiniteSet(taken)
    BY FS_Subset
  <2>2. IsFiniteSet({e.to : e \in taken})
    BY <2>1, FewEnds
  <2> QED
    BY <2>2 DEF NextReached
<1>5. 0 \in T
  BY <1>1, FS_EmptySet
<1>6. ASSUME NEW k \in 0 .. n - 1, k \in T PROVE k + 1 \in T
  <2> HIDE DEF Step
  <2>1. g[k + 1] = Step(g[k]) /\ k + 1 \in 0 .. n
    BY <1>2
  <2>2. g[k] \subseteq Step(g[k]) /\ g[k] \subseteq C /\ IsFiniteSet(g[k])
    BY <1>6
  <2>3. g[k + 1] \subseteq Step(g[k + 1])
    BY <1>3, <2>1, <2>2
  <2>4. g[k + 1] \subseteq C
    BY <1>3, <2>1, <2>2 DEF Step, ClosedUnder
  <2>5. IsFiniteSet(g[k + 1])
    BY <1>4, <2>1
  <2>6. CASE Step(g[k]) = g[k]
    BY <2>1, <2>3, <2>4, <2>5, <2>6
  <2>7. CASE Step(g[k]) # g[k]
    <3>1. Cardinality(g[k]) >= k
      BY <1>6, <2>7
    <3>2. /\ Cardinality(g[k]) <= Cardinality(g[k + 1])
          /\ Cardinality(g[k]) # Cardinality(g[k + 1])
      <4>1. g[k] \in SUBSET g[k + 1]
        BY <2>1, <2>2
      <4> QED
        BY <2>1, <2>5, <2>7, <4>1, FS_Subset
    <3>3. Cardinality(g[k]) \in Nat /\ Cardinality(g[k + 1]) \in Nat
      BY <2>2, <2>5, FS_CardinalityType
    <3>4. Cardinality(g[k + 1]) >= k + 1
      BY <3>1, <3>2, <3>3
    <3> QED
      BY <2>1, <2>3, <2>4, <2>5, <3>4
  <2> QED
    BY <2>6, <2>7
<1>7. 0 .. n \subseteq T
  <2> HIDE DEF T
  <2> QED
    BY <1>5, <1>6, UpTo
<1> QED
  BY <1>7

\* The recursive query of load_transitive_dependency_signals: as many rounds as
\* there are edges reach everything the edges reach from the package, and
\* nothing else, in any finite graph, one with cycles included: the result is
\* the least set that is closed under the edges.
THEOREM DependenciesReached ==
    ASSUME NEW edges, IsFiniteSet(edges), NEW purl
    PROVE  LET R == ReachableDependencies(edges, purl)
           IN  /\ \A e \in edges : e.from = purl \/ e.from \in R => e.to \in R
               /\ \A C : (\A e \in edges : e.from = purl \/ e.from \in C => e.to \in C)
                            => R \subseteq C
<1> DEFINE n == Cardinality(edges)
           D == {e.to : e \in edges}
<1>1. n \in Nat
  BY FS_CardinalityType
<1>2. PICK g : /\ Accumulates(g, edges, purl, n)
               /\ ReachableDependencies(edges, purl) = g[n]
  BY <1>1, ReachedByAccumulation
<1>3. ASSUME NEW C, \A e \in edges : e.from = purl \/ e.from \in C => e.to \in C
      PROVE  g[n] \subseteq C
  <2>1. ClosedUnder(edges, purl, C)
    BY <1>3 DEF NextReached, ClosedUnder
  <2>2. n \in 0 .. n
    BY <1>1
  <2> HIDE DEF n, D
  <2>3. \A k \in 0 .. n : g[k] \subseteq C
    BY <1>1, <1>2, <2>1, AccumulationGrows
  <2> QED
    BY <2>2, <2>3
<1>4. NextReached(edges, purl, g[n]) \subseteq g[n]
  <2>1. ClosedUnder(edges, purl, D)
    BY DEF NextReached, ClosedUnder
  <2>2. /\ g[n] \subseteq D /\ IsFiniteSet(g[n])
        /\ Cardinality(g[n]) >= n \/ NextReached(edges, purl, g[n]) = g[n]
    <3> HIDE DEF D, n
    <3> QED
      BY <1>1, <1>2, <2>1, AccumulationGrows
  <2>3. IsFiniteSet(D) /\ Cardinality(D) <= n
    BY FewEnds
  <2>4. CASE Cardinality(g[n]) >= n
    <3>1. Cardinality(g[n]) \in Nat /\ Cardinality(D) \in Nat
      BY <2>2, <2>3, FS_CardinalityType
    <3>2. g[n] \in SUBSET D /\ Cardinality(g[n]) <= Cardinality(D)
      BY <2>2, <2>3, FS_Subset
    <3>3. Cardinality(D) = Cardinality(g[n])
      BY <1>1, <2>3, <2>4, <3>1, <3>2
    <3>4. g[n] = D
      <4> HIDE DEF D, n
      <4> QED
        BY <2>3, <3>2, <3>3, FS_Subset
    <3> QED
      BY <2>1, <3>4 DEF ClosedUnder
  <2> QED
    BY <2>2, <2>4
<1>5. \A e \in edges : e.from = purl \/ e.from \in g[n] => e.to \in g[n]
  BY <1>4 DEF NextReached
<1> QED
  BY <1>2, <1>3, <1>5

-----------------------------------------------------------------------------
(***************************************************************************)
(* Cross-ecosystem indicators, for any history of snapshots.               *)
(***************************************************************************)

IocFeeds == {"openssf-malicious-packages", "openssf-package-analysis"}

\* Snapshot i is the last available one of a feed.
Current(snapshots, feed, i) ==
    /\ i \in DOMAIN snapshots
    /\ snapshots[i].feed = feed /\ snapshots[i].state # "unavailable"
    /\ \A j \in DOMAIN snapshots :
         snapshots[j].feed = feed /\ snapshots[j].state # "unavailable" => j <= i

\* The feed was fetched in one of the snapshots.
Refetched(snapshots, feed) ==
    \E i \in DOMAIN snapshots : snapshots[i].feed = feed /\ snapshots[i].state # "unavailable"

\* The records that count are those of the current snapshots.
LEMMA CurrentRecords ==
    ASSUME NEW snapshots
    PROVE  \A r : r \in LatestIoc(snapshots) <=>
             \E feed \in IocFeeds : \E i \in DOMAIN snapshots :
               Current(snapshots, feed, i) /\ r \in IocRecords(snapshots[i].feed, snapshots[i].doc)
BY DEF LatestIoc, Current, IocFeeds

\* Snapshots that are not available leave the current ones what they are.
LEMMA OutageKeepsCurrent ==
    ASSUME NEW S, NEW earlier \in Seq(S), NEW later \in Seq(S),
           \A i \in DOMAIN later : later[i].state = "unavailable", NEW feed, NEW i
    PROVE  Current(earlier \o later, feed, i) <=> Current(earlier, feed, i)
<1> DEFINE all == earlier \o later
<1>1. /\ DOMAIN all = 1 .. Len(earlier) + Len(later)
      /\ DOMAIN earlier = 1 .. Len(earlier) /\ DOMAIN later = 1 .. Len(later)
      /\ Len(earlier) \in Nat /\ Len(later) \in Nat
  OBVIOUS
<1>2. \A j \in DOMAIN earlier : all[j] = earlier[j] /\ j \in DOMAIN all
  BY <1>1
<1>3. \A j \in DOMAIN all : j \in DOMAIN earlier \/ all[j].state = "unavailable"
  <2> SUFFICES ASSUME NEW j \in DOMAIN all, j \notin DOMAIN earlier
               PROVE  all[j].state = "unavailable"
    OBVIOUS
  <2>1. j - Len(earlier) \in DOMAIN later
    BY <1>1
  <2>2. all[j] = later[j - Len(earlier)]
    BY <1>1
  <2> QED
    BY <2>1, <2>2
<1> HIDE DEF all
<1> QED
  BY <1>2, <1>3, Zenon DEF Current, all

\* A snapshot of the feed that is available makes the earlier ones past.
LEMMA UpdateMakesCurrent ==
    ASSUME NEW S, NEW earlier \in Seq(S), NEW later \in Seq(S), NEW feed,
           Refetched(later, feed)
    PROVE  /\ \A i : Current(earlier \o later, feed, i)
                       => i - Len(earlier) \in DOMAIN later
           /\ \A i \in DOMAIN later :
                /\ Current(earlier \o later, feed, Len(earlier) + i) <=> Current(later, feed, i)
                /\ Len(earlier) + i \in DOMAIN (earlier \o later)
                /\ (earlier \o later)[Len(earlier) + i] = later[i]
<1> DEFINE all == earlier \o later
           m == Len(earlier)
<1>1. /\ DOMAIN all = 1 .. m + Len(later)
      /\ DOMAIN later = 1 .. Len(later)
      /\ m \in Nat /\ Len(later) \in Nat
  OBVIOUS
<1>2. \A i \in DOMAIN later : m + i \in DOMAIN all /\ all[m + i] = later[i]
  BY <1>1
<1>3. \A i \in DOMAIN all : i <= m \/ (i - m \in DOMAIN later /\ m + (i - m) = i)
  BY <1>1
<1>4. PICK k \in DOMAIN later : later[k].feed = feed /\ later[k].state # "unavailable"
  BY DEF Refetched
<1> HIDE DEF all, m
<1>5. \A i : Current(all, feed, i) => i - m \in DOMAIN later
  <2> SUFFICES ASSUME NEW i, Current(all, feed, i) PROVE i - m \in DOMAIN later
    OBVIOUS
  <2>1. m + k <= i /\ i \in DOMAIN all
    BY <1>2, <1>4 DEF Current
  <2> QED
    BY <1>1, <1>4, <2>1
<1>6. ASSUME NEW i \in DOMAIN later
      PROVE  Current(all, feed, m + i) <=> Current(later, feed, i)
  <2>1. ASSUME Current(all, feed, m + i) PROVE Current(later, feed, i)
    <3> SUFFICES ASSUME NEW j \in DOMAIN later, later[j].feed = feed,
                        later[j].state # "unavailable"
                 PROVE  j <= i
      BY <1>2, <1>6, <2>1 DEF Current
    <3>1. m + j <= m + i
      BY <1>2, <2>1 DEF Current
    <3> QED
      BY <1>1, <3>1
  <2>2. ASSUME Current(later, feed, i) PROVE Current(all, feed, m + i)
    <3> SUFFICES ASSUME NEW j \in DOMAIN all, all[j].feed = feed,
                        all[j].state # "unavailable"
                 PROVE  j <= m + i
      BY <1>2, <1>6, <2>2 DEF Current
    <3>1. CASE j <= m
      BY <1>1, <3>1
    <3>2. CASE j - m \in DOMAIN later /\ m + (j - m) = j
      <4>1. all[j] = later[j - m]
        BY <1>2, <3>2
      <4>2. j - m <= i
        BY <2>2, <3>2, <4>1 DEF Current
      <4> QED
        BY <1>1, <4>2
    <3> QED
      BY <1>3, <3>1, <3>2
  <2> QED
    BY <2>1, <2>2
<1> QED
  BY <1>2, <1>5, <1>6 DEF all, m

\* The cross-ecosystem indicators that the Triage Counter holds a package to
\* are those of the last available snapshots: any number of failed fetches hides
\* nothing, and once both feeds have been fetched again nothing of what they
\* said before counts, whatever the snapshots, the package and its behaviour.
THEOREM OnlyCurrentIocsCount ==
    ASSUME NEW S, NEW earlier \in Seq(S), NEW later \in Seq(S),
           NEW coordinate, NEW reports, NEW runs
    PROVE  LET Risks(snapshots) == CrossEcosystemIocRisk(snapshots, coordinate, reports, runs)
           IN  /\ (\A i \in DOMAIN later : later[i].state = "unavailable")
                    => (Risks(earlier \o later) <=> Risks(earlier))
               /\ (\A feed \in IocFeeds : Refetched(later, feed))
                    => (Risks(earlier \o later) <=> Risks(later))
<1> DEFINE all == earlier \o later
<1>1. ASSUME \A i \in DOMAIN later : later[i].state = "unavailable"
      PROVE  LatestIoc(all) = LatestIoc(earlier)
  <2>1. \A feed, i : Current(all, feed, i) <=> Current(earlier, feed, i)
    BY <1>1, OutageKeepsCurrent
  <2>2. \A i \in DOMAIN earlier : i \in DOMAIN all /\ all[i] = earlier[i]
    OBVIOUS
  <2> HIDE DEF all
  <2>3. \A r : r \in LatestIoc(all) <=> r \in LatestIoc(earlier)
    <3> TAKE r
    <3>1. r \in LatestIoc(all) <=>
            \E feed \in IocFeeds : \E i \in DOMAIN all :
              Current(all, feed, i) /\ r \in IocRecords(all[i].feed, all[i].doc)
      BY CurrentRecords, Zenon
    <3>2. r \in LatestIoc(earlier) <=>
            \E feed \in IocFeeds : \E i \in DOMAIN earlier :
              Current(earlier, feed, i) /\ r \in IocRecords(earlier[i].feed, earlier[i].doc)
      BY CurrentRecords, Zenon
    <3>3. \A feed, i : Current(earlier, feed, i) => i \in DOMAIN earlier
      BY DEF Current
    <3> QED
      BY <2>1, <2>2, <3>1, <3>2, <3>3, Zenon
  <2> QED
    BY <2>3
<1>2. ASSUME \A feed \in IocFeeds : Refetched(later, feed)
      PROVE  LatestIoc(all) = LatestIoc(later)
  <2> DEFINE m == Len(earlier)
  <2>1. \A feed \in IocFeeds :
          /\ \A i : Current(all, feed, i) => i - m \in DOMAIN later
          /\ \A i \in DOMAIN later : /\ Current(all, feed, m + i) <=> Current(later, feed, i)
                                     /\ m + i \in DOMAIN all
                                     /\ all[m + i] = later[i]
    BY <1>2, UpdateMakesCurrent
  <2>2. \A i \in DOMAIN all : m + (i - m) = i
    OBVIOUS
  <2> HIDE DEF all, m
  <2>3. ASSUME NEW r \in LatestIoc(all) PROVE r \in LatestIoc(later)
    <3>1. PICK feed \in IocFeeds, i \in DOMAIN all :
             Current(all, feed, i) /\ r \in IocRecords(all[i].feed, all[i].doc)
      BY <2>3, CurrentRecords, Zenon
    <3>2. i - m \in DOMAIN later /\ m + (i - m) = i
      BY <2>1, <2>2, <3>1
    <3>3. Current(later, feed, i - m) /\ all[i] = later[i - m]
      BY <2>1, <3>1, <3>2
    <3>4. r \in IocRecords(later[i - m].feed, later[i - m].doc)
      BY <3>1, <3>3
    <3> QED
      BY <3>1, <3>2, <3>3, <3>4, CurrentRecords, Zenon
  <2>4. ASSUME NEW r \in LatestIoc(later) PROVE r \in LatestIoc(all)
    <3>1. PICK feed \in IocFeeds, i \in DOMAIN later :
             Current(later, feed, i) /\ r \in IocRecords(later[i].feed, later[i].doc)
      BY <2>4, CurrentRecords, Zenon
    <3>2. Current(all, feed, m + i) /\ m + i \in DOMAIN all /\ all[m + i] = later[i]
      BY <2>1, <3>1
    <3>3. r \in IocRecords(all[m + i].feed, all[m + i].doc)
      BY <3>1, <3>2
    <3> QED
      BY <3>1, <3>2, <3>3, CurrentRecords, Zenon
  <2> QED
    BY <2>3, <2>4
<1> HIDE DEF all
<1>3. \A snapshots, others :
        LatestIoc(snapshots) = LatestIoc(others) =>
          (CrossEcosystemIocRisk(snapshots, coordinate, reports, runs)
             <=> CrossEcosystemIocRisk(others, coordinate, reports, runs))
  BY DEF CrossEcosystemIocRisk
<1> QED
  BY <1>1, <1>2, <1>3 DEF all

-----------------------------------------------------------------------------
(***************************************************************************)
(* Cargo manifests, with any dependencies of any names in any sections and *)
(* targets, and lockfiles of any packages.                                 *)
(***************************************************************************)

AnyCargoDependency ==
    [name : STRING, table : BOOLEAN, optional : BOOLEAN, sources : SUBSET (DOMAIN SourceIndicator \cup {"registry-index"})]

AnyCargoSections == [CargoSections -> SUBSET AnyCargoDependency]

AnyCargoToml ==
    [parses : {TRUE}, build : STRING, procMacro : BOOLEAN, sections : AnyCargoSections,
     targets : SUBSET AnyCargoSections,
     features : SUBSET [name : STRING,
                        references : SUBSET [dep : BOOLEAN, name : STRING, conditional : BOOLEAN]],
     patch : BOOLEAN, replace : BOOLEAN]

AnyCargoLock ==
    [parses : {TRUE},
     packages : SUBSET [name : STRING, version : STRING,
                        source : [scheme : STRING, url : Seq(STRING)],
                        dependencies : SUBSET [name : STRING, version : SUBSET STRING]]]

AnyCargoManifest == [toml : AnyCargoToml] \cup [lock : AnyCargoLock]

\* A table reports every source of every dependency in it.
LEMMA TableReports ==
    ASSUME NEW dependencies, NEW d \in dependencies, d.table,
           NEW k \in d.sources \cap DOMAIN SourceIndicator
    PROVE  Emit(SourceIndicator[k], "high", d.name) \in ScanCargoDependencyTable(dependencies)
BY DEF ScanCargoDependencyTable

\* Cargo.toml: the sections of the package and of every target are scanned.
LEMMA TomlReports ==
    ASSUME NEW m \in AnyCargoToml, NEW t \in m.targets \cup {m.sections},
           NEW s \in CargoSections, NEW i \in ScanCargoDependencyTable(t[s])
    PROVE  i \in ScanCargoToml(m)
<1>1. m.parses
  BY DEF AnyCargoToml
<1>2. CASE t \in m.targets
  <2>1. i \in ScanCargoTargetTables(m.targets)
    BY <1>2 DEF ScanCargoTargetTables
  <2> QED
    BY <1>1, <2>1 DEF ScanCargoToml
<1>3. CASE t = m.sections
  BY <1>1, <1>3 DEF ScanCargoToml
<1> QED
  BY <1>2, <1>3

\* Cargo.lock: a package of a kind of source that the scan tells from
\* crates.io is reported if anything depends on it.
LEMMA LockReports ==
    ASSUME NEW m \in AnyCargoLock, NEW p \in m.packages, NEW d \in p.dependencies,
           NEW q \in m.packages, Resolves(d, q), ~PassesForCratesIo(q.source),
           NEW k \in ForeignKinds(q.source)
    PROVE  Emit(SourceIndicator[k], "high", q.name) \in ScanCargoLock(m)
<1>1. m.parses
  BY DEF AnyCargoLock
<1>2. q.name \in CargoLockLocalNames(m.packages)
  BY DEF Resolves, CargoLockLocalNames
<1>3. k \in CargoLockSourceKinds(m.packages, q)
  BY <1>2 DEF ForeignKinds, PassesForCratesIo, CargoLockSourceKinds, SourceIndicator
<1> QED
  BY <1>1, <1>3 DEF ScanCargoLock

\* Nothing is said of a name that only packages have which pass for those of
\* crates.io.
LEMMA LockSilent ==
    ASSUME NEW m \in AnyCargoLock, NEW q \in m.packages,
           \A p \in m.packages : p.name = q.name => PassesForCratesIo(p.source)
    PROVE  \A i \in ScanCargoLock(m) : i.about # q.name
<1> SUFFICES ASSUME NEW i \in ScanCargoLock(m), i.about = q.name PROVE FALSE
  OBVIOUS
<1>1. m.parses
  BY DEF AnyCargoLock
<1>2. PICK p \in m.packages : \E k \in CargoLockSourceKinds(m.packages, p) :
         i = Emit(SourceIndicator[k], "high", p.name)
  BY <1>1 DEF ScanCargoLock
<1>3. p.name = q.name
  BY <1>2 DEF Emit
<1>4. PassesForCratesIo(p.source)
  BY <1>3
<1>5. CargoLockSourceKinds(m.packages, p) = {}
  BY <1>4 DEF PassesForCratesIo, CargoLockSourceKinds
<1> QED
  BY <1>2, <1>5

\* What is emitted for a source of a dependency reports it.
LEMMA EmittedReports ==
    ASSUME NEW indicators, NEW k, NEW name,
           Emit(SourceIndicator[k], "high", name) \in indicators
    PROVE  Reported(indicators, k, name)
BY DEF Reported, Emit

\* A behaviour draws one manifest and stops.
CargoManifestSpec == SampleInit /\ [][Draw("cargo manifest", AnyCargoManifest)]_sample

\* The dependencies that a Cargo manifest or lockfile takes from elsewhere
\* than crates.io are reported, for every manifest and every lockfile, up to
\* the registries that the lockfile's scan does not tell from crates.io (the
\* sparse ones and those with its index in their address): of these nothing
\* is said.
THEOREM CargoSourcesAlwaysReported == CargoManifestSpec => []CargoSourcesReported
<1> DEFINE Inv == Drawn("cargo manifest") => sample.in \in AnyCargoManifest
<1>1. SampleInit => Inv
  BY DEF SampleInit, Drawn
<1>2. Inv /\ [Draw("cargo manifest", AnyCargoManifest)]_sample => Inv'
  <2>1. ASSUME Draw("cargo manifest", AnyCargoManifest) PROVE Inv'
    <3>1. PICK x \in AnyCargoManifest : sample' = [kind |-> "cargo manifest", in |-> x]
      BY <2>1 DEF Draw
    <3>2. sample'.in = x
      BY <3>1
    <3> QED
      BY <3>2
  <2>2. ASSUME Inv, sample' = sample PROVE Inv'
    BY <2>2 DEF Drawn
  <2> QED
    BY <2>1, <2>2
<1>3. Inv => CargoSourcesReported
  <2> SUFFICES ASSUME sample.in \in AnyCargoManifest PROVE CargoSourcesReported
    BY DEF CargoSourcesReported
  <2>1. CASE sample.in \in [toml : AnyCargoToml]
    <3> DEFINE m == sample.in.toml
    <3>1. m \in AnyCargoToml /\ "toml" \in DOMAIN sample.in
      BY <2>1
    <3>2. ASSUME NEW t \in m.targets \cup {m.sections}, NEW s \in CargoSections,
                 NEW d \in t[s], d.table, NEW k \in d.sources \ {"registry-index"}
          PROVE  Reported(ScanCargoToml(m), k, d.name)
      <4>1. t \in AnyCargoSections
        BY <3>1 DEF AnyCargoToml
      <4>2. d \in AnyCargoDependency
        BY <4>1 DEF AnyCargoSections
      <4>3. k \in d.sources \cap DOMAIN SourceIndicator
        BY <4>2 DEF AnyCargoDependency
      <4>4. Emit(SourceIndicator[k], "high", d.name) \in ScanCargoToml(m)
        BY <3>1, <3>2, <4>3, TableReports, TomlReports
      <4> QED
        BY <4>4, EmittedReports
    <3> QED
      BY <3>1, <3>2 DEF CargoSourcesReported
  <2>2. CASE sample.in \in [lock : AnyCargoLock]
    <3> DEFINE m == sample.in.lock
    <3>1. m \in AnyCargoLock /\ "toml" \notin DOMAIN sample.in
      BY <2>2
    <3>2. ASSUME NEW p \in m.packages, NEW d \in p.dependencies, NEW q \in m.packages,
                 Resolves(d, q), ~PassesForCratesIo(q.source), NEW k \in ForeignKinds(q.source)
          PROVE  Reported(ScanCargoLock(m), k, q.name)
      BY <3>1, <3>2, LockReports, EmittedReports
    <3>3. ASSUME NEW q \in m.packages,
                 \A p \in m.packages : p.name = q.name => PassesForCratesIo(p.source),
                 NEW k \in DOMAIN SourceIndicator
          PROVE  ~Reported(ScanCargoLock(m), k, q.name)
      BY <3>1, <3>3, LockSilent DEF Reported
    <3> QED
      BY <3>1, <3>2, <3>3 DEF CargoSourcesReported
  <2> QED
    BY <2>1, <2>2 DEF AnyCargoManifest
<1> QED
  BY <1>1, <1>2, <1>3, PTL DEF CargoManifestSpec

=============================================================================
