---------------------------- MODULE FeedRecords -----------------------------
(***************************************************************************)
(* What the Feed Harvester makes of a feed document and what the Triage    *)
(* Counter later finds in it: the deps.dev package identities and          *)
(* dependency graphs, the Scorecard results and the cross-ecosystem        *)
(* indicators of compromise.                                               *)
(*                                                                         *)
(* A JSON object is a record that has a field for each of its keys, a JSON *)
(* array document is [items |-> ...], and text is [text |-> ...].  An      *)
(* Option is the set of its values: {} or a singleton.  A package name is  *)
(* the sequence of its parts, whatever separator the text puts between     *)
(* them, a purl the record of its type, path and version.  Arrays whose    *)
(* order the code never looks at are sets.                                 *)
(***************************************************************************)
EXTENDS Sampling, Integers, Sequences, FiniteSets, SequencesExt

(* The value of the first of the keys that an object has.                  *)
Field(object, keys, otherwise) ==
    LET present == SelectSeq(keys, LAMBDA k : k \in DOMAIN object)
    IN  IF present = <<>> THEN otherwise ELSE object[Head(present)]

-----------------------------------------------------------------------------
(* Package identities.                                                     *)

NoVersion == ""

BuildPurl(ecosystem, namespace, name, version) ==
    [type |-> ecosystem, path |-> namespace \o <<name>>, version |-> version]

Identity(purl, ecosystem, namespace, name, version) ==
    [purl |-> purl, ecosystem |-> ecosystem, namespace |-> namespace,
     name |-> name, version |-> version]

Scope == "@scope"

(* The version is what follows the last @ of the text, so a scoped npm     *)
(* name without one is cut at its scope and has no name left.              *)
ParsePurl(purl) ==
    IF purl.version = NoVersion /\ Head(purl.path) = Scope
    THEN {}
    ELSE {Identity(purl, purl.type, Front(purl.path), Last(purl.path), purl.version)}

PurlType == [NPM |-> "npm", MAVEN |-> "maven", GO |-> "golang", CARGO |-> "cargo",
             PYPI |-> "pypi", NUGET |-> "nuget", RUBYGEMS |-> "gem"]

(* group:artifact of Maven and path/name of npm and Go are split, the      *)
(* names of the other systems are kept whole.                              *)
SplitDepsDevName(system, parts) ==
    IF system \in {"MAVEN", "NPM", "GO"}
    THEN [namespace |-> Front(parts), name |-> Last(parts)]
    ELSE [namespace |-> <<>>, name |-> parts]

FromVersionKey(key) ==
    LET split == SplitDepsDevName(key.system, key.name)
        type == PurlType[key.system]
    IN  IF key.system \notin DOMAIN PurlType THEN {}
        ELSE {Identity(BuildPurl(type, split.namespace, split.name, key.version),
                       type, split.namespace, split.name, key.version)}

PackageIdentity(value) ==
    IF "purl" \in DOMAIN value THEN ParsePurl(value.purl)
    ELSE IF "versionKey" \in DOMAIN value THEN FromVersionKey(value.versionKey)
    ELSE IF {"ecosystem", "name"} \subseteq DOMAIN value
    THEN LET namespace == Field(value, <<"namespace">>, <<>>)
             version == Field(value, <<"version">>, NoVersion)
         IN  {Identity(BuildPurl(value.ecosystem, namespace, value.name, version),
                       value.ecosystem, namespace, value.name, version)}
    ELSE {}

ValueToPurl(value) ==
    IF "text" \in DOMAIN value
    THEN {value.text}
    ELSE {id.purl : id \in PackageIdentity(value)}

(* The key under which the deps.dev API is asked for a package's graph.    *)
VersionKey(value) ==
    IF "versionKey" \in DOMAIN value
    THEN {value.versionKey}
    ELSE UNION {{[system |-> s, name |-> id.namespace \o <<id.name>>, version |-> id.version] :
                    s \in {t \in DOMAIN PurlType : PurlType[t] = id.ecosystem}} :
                  id \in {i \in PackageIdentity(value) : i.version # NoVersion}}

-----------------------------------------------------------------------------
(* deps.dev documents: package metadata, explicit edges or node indices.   *)

DepsDevPackages(doc) == Field(doc, <<"items", "packages", "nodes">>, <<>>)

DependencyGraph(doc) == Field(doc, <<"dependencyGraph">>, [none |-> {}])

Edge(from, to) == [from |-> from, to |-> to, relationship |-> "depends-on"]

PackageLocalEdges(doc) ==
    UNION {{Edge(f.purl, t) : f \in PackageIdentity(p),
                              t \in UNION {ValueToPurl(d) : d \in Field(p, <<"dependencies">>, {})}} :
             p \in Range(DepsDevPackages(doc))}

ExplicitEdges(doc) ==
    LET edges == Field(DependencyGraph(doc), <<"edges">>, Field(doc, <<"edges">>, {}))
        None == [none |-> {}]
    IN  UNION {{Edge(f, t) : f \in ValueToPurl(Field(e, <<"fromPurl", "from">>, None)),
                             t \in ValueToPurl(Field(e, <<"toPurl", "to">>, None))} : e \in edges}

NodeOfFromOne(nodes, index) ==
    IF index \in DOMAIN nodes THEN ValueToPurl(nodes[index]) ELSE {}

(* Node numbers count from zero.                                           *)
NodeOf(nodes, index) ==
    IF index + 1 \in DOMAIN nodes THEN ValueToPurl(nodes[index + 1]) ELSE {}

NodeIndexedEdges(doc) ==
    LET nodes == Field(doc, <<"nodes">>, Field(DependencyGraph(doc), <<"nodes">>, <<>>))
        edges == Field(doc, <<"edges">>, Field(DependencyGraph(doc), <<"edges">>, {}))
    IN  UNION {{Edge(f, t) : f \in NodeOf(nodes, e.fromNode), t \in NodeOf(nodes, e.toNode)} :
                 e \in {e \in edges : {"fromNode", "toNode"} \subseteq DOMAIN e}}

DependencyEdges(doc) ==
    PackageLocalEdges(doc) \cup ExplicitEdges(doc) \cup NodeIndexedEdges(doc)

(* One package for each purl, the first that names it.                     *)
UniquePackages(packages) ==
    LET Add(kept, p) ==
            IF \/ PackageIdentity(p) = {}
               \/ \E i \in DOMAIN kept : ValueToPurl(kept[i]) = ValueToPurl(p)
            THEN kept ELSE Append(kept, p)
    IN  FoldLeft(Add, <<>>, packages)

ShouldEnrich(doc) ==
    \/ "items" \in DOMAIN doc
    \/ /\ "packages" \in DOMAIN doc
       /\ {"nodes", "edges", "dependencyGraph"} \cap DOMAIN doc = {}

ExplicitEdgeDocument(edge) ==
    [fromPurl |-> [text |-> edge.from], toPurl |-> [text |-> edge.to],
     relationship |-> edge.relationship]

(* A live metadata document is completed with the graph of every package   *)
(* it lists; one graph that cannot be fetched fails the whole fetch.       *)
Enriched(doc, api) ==
    LET packages == DepsDevPackages(doc)
        keyed == SelectSeq(packages, LAMBDA p : VersionKey(p) # {})
        answers == [i \in DOMAIN keyed |-> UNION {api[k] : k \in VersionKey(keyed[i])}]
        graphs == UNION Range(answers)
        nodes == [i \in DOMAIN keyed |-> FlattenSeq(SetToSeq({DepsDevPackages(g) : g \in answers[i]}))]
    IN  IF ~ShouldEnrich(doc) \/ keyed = <<>> THEN {doc}
        ELSE IF {} \in Range(answers) THEN {}
        ELSE {[packages |-> UniquePackages(packages \o FlattenSeq(nodes)),
               edges |-> {ExplicitEdgeDocument(e) : e \in UNION {DependencyEdges(g) : g \in graphs}}]}

(* The rows of deps_dev_packages that a snapshot of the document has.      *)
ParseDepsDevPackage(value) ==
    {[identity |-> id, links |-> Field(value, <<"projectLinks">>, <<>>)] :
        id \in PackageIdentity(value)}

PersistedPackages(doc) ==
    UNION {ParseDepsDevPackage(p) : p \in Range(UniquePackages(DepsDevPackages(doc)))}

-----------------------------------------------------------------------------
(* What the Triage Counter looks up for a coordinate.                      *)

Purl(coordinate) ==
    [type |-> coordinate.ecosystem, path |-> coordinate.namespace \o <<coordinate.name>>,
     version |-> coordinate.version]

(* The recursive query: what the edges reach from a package.               *)
ReachableDependencies(edges, purl) ==
    LET Next(found) == {e.to : e \in {d \in edges : d.from = purl \/ d.from \in found}}
        reach[n \in 0 .. Cardinality(edges)] == IF n = 0 THEN {} ELSE Next(reach[n - 1])
    IN  reach[Cardinality(edges)]

(* The signals observed for the packages a coordinate depends on.          *)
TransitiveDependencySignals(edges, coordinate, observations) ==
    IF coordinate.version = NoVersion THEN {}
    ELSE {o.signal : o \in {p \in observations :
             Purl(p.coordinate) \in ReachableDependencies(edges, Purl(coordinate))}}

(* The repository a link names, once its scheme, host and suffix are       *)
(* normalised; a link that is not to GitHub names none.                    *)
NormalizeRepoName(link) == link.github

RepoFromProjectLinks(links) ==
    LET source == SelectSeq(links, LAMBDA l : /\ Field(l, <<"type">>, "SOURCE_REPO") = "SOURCE_REPO"
                                              /\ NormalizeRepoName(l) # {})
    IN  IF source = <<>> THEN {} ELSE NormalizeRepoName(Head(source))

(* The repository whose Scorecard result speaks for a coordinate.          *)
ScorecardRepo(packages, coordinate) ==
    UNION {RepoFromProjectLinks(p.links) :
             p \in {r \in packages : /\ r.identity.ecosystem = coordinate.ecosystem
                                     /\ r.identity.namespace = coordinate.namespace
                                     /\ r.identity.name = coordinate.name
                                     /\ coordinate.version \in {NoVersion, r.identity.version}}}

-----------------------------------------------------------------------------
(* Scorecard results.  Dates are numbers, the missing one is before all.   *)

NoDate == 0

ScorecardResults(doc) ==
    IF "items" \in DOMAIN doc THEN doc.items ELSE Field(doc, <<"results">>, <<>>)

ParseScorecardCheck(value) ==
    IF {"name", "score"} \subseteq DOMAIN value
    THEN {[name |-> value.name, score |-> value.score]} ELSE {}

(* A result without a repository or a score is skipped; checks without a   *)
(* name or a score are, too.                                               *)
ParseScorecardResult(value) ==
    IF {"repo", "score"} \subseteq DOMAIN value
    THEN {[repo |-> value.repo, observed_on |-> Field(value, <<"date">>, NoDate),
           checks |-> SelectSeq(Field(value, <<"checks">>, <<>>),
                                LAMBDA c : ParseScorecardCheck(c) # {})]}
    ELSE {}

(* The rows of a snapshot: a later result replaces the one of the same     *)
(* repository with all its checks, a later check the one of the same name. *)
PersistScorecardRecords(doc) ==
    LET NotAgain(seq, i, key) == \A j \in DOMAIN seq : j > i => seq[j][key] # seq[i][key]
        LastOfEach(seq, key) == {seq[i] : i \in {i \in DOMAIN seq : NotAgain(seq, i, key)}}
        kept == SelectSeq(ScorecardResults(doc), LAMBDA v : ParseScorecardResult(v) # {})
    IN  {[r EXCEPT !.checks = UNION {ParseScorecardCheck(c) : c \in LastOfEach(@, "name")}] :
            r \in UNION {ParseScorecardResult(v) : v \in LastOfEach(kept, "repo")}}

(* The checks of a repository's latest result: the one observed last, of   *)
(* the last snapshot that has one.  Snapshots are in the order of their    *)
(* creation.                                                               *)
ScorecardChecks(snapshots, repo) ==
    LET rows == {[at |-> i, result |-> r] : i \in DOMAIN snapshots, r \in UNION Range(snapshots)}
        of == {row \in rows : row.result \in snapshots[row.at] /\ row.result.repo = repo}
        Before(q, r) == \/ q.result.observed_on < r.result.observed_on
                        \/ q.result.observed_on = r.result.observed_on /\ q.at <= r.at
    IN  UNION {r.result.checks : r \in {r \in of : \A q \in of : Before(q, r)}}

-----------------------------------------------------------------------------
(* Cross-ecosystem indicators.  Text is [word, capitals]: feed values are  *)
(* trimmed and put in lower case before they are stored.                   *)

AsWritten(text) == text

Normalized(text) == [text EXCEPT !.capitals = FALSE]

(* The package a malicious-package entry or an analysis result is about;   *)
(* an npm scope loses its @ here.                                          *)
FeedPackageIdentity(value) ==
    LET package == Field(value, <<"package">>, value)
    IN  IF {"ecosystem", "name"} \subseteq DOMAIN package
        THEN {[ecosystem |-> package.ecosystem, name |-> package.name,
               version |-> Field(package, <<"version">>, NoVersion)]}
        ELSE {}

IndicatorFields ==
    [maintainer |-> {"maintainerIdentity", "maintainerIdentities", "maintainers"},
     domain |-> {"domains", "domain"}, ip |-> {"ips", "ip"}, url |-> {"urls", "url"}]

(* All the texts of the fields, wherever the feed puts them.               *)
IndicatorValues(package, fields) ==
    {Normalized(t) : t \in UNION {Field(package, <<f>>, {}) : f \in fields}}

(* The set of the behaviours, each by its identifier, sorted and joined.   *)
BehavioralFingerprint(result) ==
    LET components == {Normalized(t) : t \in Field(result, <<"behaviors">>, {})}
    IN  IF components = {} THEN {} ELSE {components}

IocRecord(id, type, value) ==
    [ecosystem |-> id.ecosystem, name |-> id.name, version |-> id.version,
     type |-> type, value |-> value]

IocRecords(feed, doc) ==
    IF feed = "openssf-malicious-packages"
    THEN UNION {{IocRecord(id, "package-name", {Normalized(id.name)}) : id \in FeedPackageIdentity(p)}
                \cup UNION {{IocRecord(id, t, {v}) : id \in FeedPackageIdentity(p),
                                 v \in IndicatorValues(p, IndicatorFields[t])} : t \in DOMAIN IndicatorFields} :
                  p \in doc}
    ELSE UNION {{IocRecord(id, "behavioral-fingerprint", f) : id \in FeedPackageIdentity(r),
                                                             f \in BehavioralFingerprint(r)} : r \in doc}

(* Of each feed, the records of its last snapshot that was available.      *)
LatestIoc(snapshots) ==
    LET usable(feed) == {i \in DOMAIN snapshots : snapshots[i].feed = feed
                                                   /\ snapshots[i].state # "unavailable"}
        latest(feed) == {i \in usable(feed) : \A j \in usable(feed) : j <= i}
    IN  UNION {IocRecords(snapshots[i].feed, snapshots[i].doc) :
                 i \in UNION {latest(f) : f \in {"openssf-malicious-packages", "openssf-package-analysis"}}}

(* An indicator counts when packages of another ecosystem share it.        *)
CrossEcosystem(records, r) ==
    \E peer \in records : /\ peer.type = r.type
                          /\ peer.value = r.value
                          /\ peer.ecosystem # r.ecosystem

(* Where the sandbox saw the package connect to.  Only the host is put in  *)
(* lower case; localhost and numeric hosts are no domain.                  *)
DestinationCandidates(events) ==
    UNION {{<<"url", {e.url}>>} \cup {<<"ip", {e.ip}>>}
           \cup (IF e.host.word \in {"localhost", "10.0.0.1"} THEN {} ELSE {<<"domain", {Normalized(e.host)}>>}) :
             e \in {e \in events : e.type = "outbound-network-attempt"}}

StaticComponent ==
    [i \in {"node-outbound-http", "python-outbound-http", "java-outbound-http",
            "python-import-time-network", "rust-raw-network"} |-> "network_access"]
    @@ [i \in {"node-child-process", "python-subprocess", "shell-exec-sync"} |-> "exec_binary"]

(* One candidate for every static report and sandbox run that show any     *)
(* behaviour at all.                                                       *)
FingerprintCandidates(reports, runs) ==
    LET shown(indicators) == {[word |-> StaticComponent[i], capitals |-> FALSE] :
                                 i \in indicators \cap DOMAIN StaticComponent}
        seen(events) == IF \E e \in events : e.type = "outbound-network-attempt"
                        THEN {[word |-> "network_access", capitals |-> FALSE]} ELSE {}
    IN  {shown(i) \cup seen(e) : i \in {i \in reports : shown(i) # {}}, e \in {e \in runs : seen(e) # {}}}

(* The three ways in which a package meets a shared indicator: one of its  *)
(* own records, what it does, and where it connects to.                    *)
PackageIocRisk(shared, coordinate) ==
    \E r \in shared : /\ r.ecosystem = coordinate.ecosystem
                      /\ r.name = coordinate.name
                      /\ \/ NoVersion \in {coordinate.version, r.version}
                         \/ coordinate.version = r.version

BehavioralFingerprintIocRisk(shared, reports, runs) ==
    \E r \in shared : r.type = "behavioral-fingerprint" /\ r.value \in FingerprintCandidates(reports, runs)

SandboxDestinationIocRisk(shared, runs) ==
    \E r \in shared, e \in runs : <<r.type, r.value>> \in DestinationCandidates(e)

CrossEcosystemIocRisk(snapshots, coordinate, reports, runs) ==
    LET records == LatestIoc(snapshots)
        shared == {r \in records : CrossEcosystem(records, r)}
    IN  \/ PackageIocRisk(shared, coordinate)
        \/ BehavioralFingerprintIocRisk(shared, reports, runs)
        \/ SandboxDestinationIocRisk(shared, runs)

-----------------------------------------------------------------------------
(* Bounded inputs: three packages, any graph between them, a document that *)
(* lists some of them in one of the shapes and one of the ways to name a   *)
(* package.                                                                *)
Nodes == <<"a", "b", "c">>

Graphs == SUBSET {e \in Range(Nodes) \X Range(Nodes) : e[1] # e[2]}

DepsDevInputs ==
    [deps : Graphs, listed : SUBSET Range(Nodes) \ {{}},
     shape : {"array", "packages", "local", "explicit", "nodes", "graph"},
     form : {"purl", "key", "fields"}, system : {"NPM", "MAVEN"}, scoped : {FALSE}]
    \cup [deps : Graphs, listed : {Range(Nodes)}, shape : {"packages", "nodes"},
          form : {"key"}, system : {"NPM"}, scoped : {TRUE}]

(* The name deps.dev has for a node, and the coordinate it is asked for by:*)
(* the proxy takes the @ off an npm scope.                                 *)
NameOf(x, n) ==
    IF x.scoped THEN <<Scope, n>> ELSE IF x.system = "MAVEN" THEN <<"group", n>> ELSE <<n>>

CoordinateOf(x, n) ==
    [ecosystem |-> PurlType[x.system], name |-> n, version |-> "1",
     namespace |-> IF x.scoped THEN <<"scope">> ELSE Front(NameOf(x, n))]

(* What really is below a node.                                            *)
Below(deps, n) ==
    {m \in Range(Nodes) : \E len \in 2 .. Len(Nodes) + 1 : \E path \in [1 .. len -> Range(Nodes)] :
        path[1] = n /\ path[len] = m /\ \A i \in 1 .. len - 1 : <<path[i], path[i + 1]>> \in deps}

Links == <<[type |-> "HOMEPAGE", github |-> {"home"}],
           [type |-> "SOURCE_REPO", github |-> {}], [github |-> {"repo"}]>>

Package(x, n) ==
    LET key == [system |-> x.system, name |-> NameOf(x, n), version |-> "1"]
        links == [projectLinks |-> Links]
    IN  CASE x.form = "key" -> [versionKey |-> key] @@ links
          [] x.form = "purl" -> [purl |-> Purl([ecosystem |-> PurlType[x.system], name |-> n, version |-> "1",
                                                namespace |-> Front(NameOf(x, n))])] @@ links
          [] x.form = "fields" -> [ecosystem |-> PurlType[x.system], namespace |-> Front(NameOf(x, n)),
                                   name |-> n, version |-> "1"] @@ links

(* The answer of the deps.dev API: the nodes from the asked one down.      *)
ApiAnswer(x, key) ==
    LET roots == {n \in Range(Nodes) : NameOf(x, n) = key.name /\ key.system = x.system}
        order(n) == <<n>> \o SelectSeq(Nodes, LAMBDA m : m # n /\ m \in Below(x.deps, n))
        index(seq, n) == CHOOSE i \in DOMAIN seq : seq[i] = n
        node(n) == [versionKey |-> [system |-> x.system, name |-> NameOf(x, n), version |-> "1"]]
    IN  {[nodes |-> [i \in DOMAIN order(n) |-> node(order(n)[i])],
          edges |-> {[fromNode |-> index(order(n), d[1]) - 1, toNode |-> index(order(n), d[2]) - 1] :
                        d \in {d \in x.deps : {d[1], d[2]} \subseteq Range(order(n))}}] : n \in roots}

Document(x) ==
    LET listed == SelectSeq(Nodes, LAMBDA n : n \in x.listed)
        packages(seq) == [i \in DOMAIN seq |-> Package(x, seq[i])]
        index(n) == CHOOSE i \in DOMAIN Nodes : Nodes[i] = n
        local(n) == [dependencies |-> {Package(x, d[2]) : d \in {d \in x.deps : d[1] = n}}] @@ Package(x, n)
        numbered == {[fromNode |-> index(d[1]) - 1, toNode |-> index(d[2]) - 1] : d \in x.deps}
        named == {[from |-> Package(x, d[1]), to |-> Package(x, d[2])] : d \in x.deps}
    IN  CASE x.shape = "array" -> [items |-> packages(listed)]
          [] x.shape = "packages" -> [packages |-> packages(listed)]
          [] x.shape = "local" -> [packages |-> [i \in DOMAIN Nodes |-> local(Nodes[i])], edges |-> {}]
          [] x.shape = "explicit" -> [packages |-> packages(listed), edges |-> named]
          [] x.shape = "nodes" -> [nodes |-> packages(Nodes), edges |-> numbered]
          [] x.shape = "graph" -> [packages |-> packages(listed),
                                   dependencyGraph |-> [nodes |-> packages(Nodes), edges |-> numbered]]

(* What is found for every listed package in the snapshot of the document. *)
EvidenceFound(x) ==
    LET keys == UNION {VersionKey(p) : p \in Range(DepsDevPackages(Document(x)))}
        stored == Enriched(Document(x), [k \in keys |-> ApiAnswer(x, k)])
        observed == {[coordinate |-> CoordinateOf(x, n), signal |-> n] : n \in Range(Nodes)}
    IN  \E doc \in stored : \A n \in x.listed :
          /\ TransitiveDependencySignals(DependencyEdges(doc), CoordinateOf(x, n), observed) = Below(x.deps, n)
          /\ ScorecardRepo(PersistedPackages(doc), CoordinateOf(x, n)) = {"repo"}

(* Bounded inputs: two Scorecard documents, each of one day or undated,    *)
(* that speak of a repository, of another one and of none.                 *)
ScorecardInputs ==
    LET check == {[name |-> "c", score |-> 1], [name |-> "c", score |-> 2],
                  [name |-> "d", score |-> 1], [name |-> "d"]}
        result == {[repo |-> "repo", score |-> 5, checks |-> cs] : cs \in {<<c, d>> : c, d \in check}}
                      \cup {[repo |-> "other", score |-> 5, checks |-> <<[name |-> "c", score |-> 3]>>],
                            [repo |-> "repo", checks |-> <<[name |-> "c", score |-> 4]>>]}
        doc == [date : {NoDate, 1, 2}, results : {<<r>> : r \in result}]
                   \cup [date : {1}, results : {<<q, r>> : q, r \in result}]
    IN  {<<d, e>> : d \in doc, e \in {e \in doc : Len(e.results) = 1}}

(* What a check of the repository was last found to score.                 *)
LastScore(docs, name) ==
    LET complete(d) == SelectSeq(d.results, LAMBDA r : {"repo", "score"} \subseteq DOMAIN r /\ r.repo = "repo")
        speaking == {i \in DOMAIN docs : complete(docs[i]) # <<>>}
        latest == {i \in speaking : \A j \in speaking \ {i} :
                      docs[j].date < docs[i].date \/ (docs[j].date = docs[i].date /\ j < i)}
        scores == {SelectSeq(Last(complete(docs[i])).checks,
                             LAMBDA c : c.name = name /\ "score" \in DOMAIN c) : i \in latest}
    IN  {Last(c).score : c \in scores \ {<<>>}}

Dated(doc) ==
    [results |-> [i \in DOMAIN doc.results |->
                     IF doc.date = NoDate THEN doc.results[i]
                     ELSE [date |-> doc.date] @@ doc.results[i]]]

(* Whatever shape a deps.dev document has and however it names a package,  *)
(* the Triage Counter finds for a coordinate exactly the signals of the    *)
(* packages that really are below it, and the source repository the        *)
(* metadata linked it to: the snapshot of a live document, merged from one *)
(* graph per package, loses neither an edge nor a link, invents no edge,   *)
(* and names packages as the requests do.  The repository is held to the   *)
(* scores it was last observed with, in whichever order the snapshots came *)
(* and whatever incomplete entries lie between.                            *)
FeedEvidenceFound ==
    /\ Drawn("deps.dev") /\ ~sample.in.scoped => EvidenceFound(sample.in)
    /\ Drawn("scorecard") =>
           ScorecardChecks([i \in DOMAIN sample.in |-> PersistScorecardRecords(Dated(sample.in[i]))], "repo")
             = UNION {{[name |-> n, score |-> s] : s \in LastScore(sample.in, n)} : n \in {"c", "d"}}

-----------------------------------------------------------------------------
(* Bounded inputs: two packages of the feed that share an indicator in the *)
(* snapshots that list them, and a third package that is asked about.      *)
IocInputs ==
    [type : {"domain", "ip", "url", "behavioral-fingerprint", "package-name"},
     ecosystems : {"npm", "pypi"} \X {"npm", "pypi"},
     capitals : BOOLEAN,                       \* the feed writes capitals
     observedCapitals : BOOLEAN,               \* so does the observed text
     listed : SUBSET {1, 2},                   \* snapshots that list the pair
     state : {"fresh", "degraded", "unavailable"},   \* of the last snapshot
     connects : BOOLEAN, executes : BOOLEAN]   \* what the package does

Word(x, capitals) == [word |-> "mark", capitals |-> capitals]

(* The entries of the two packages in the feed of the indicator.           *)
Entries(x) ==
    LET entry(eco, n) ==
            [package |-> [ecosystem |-> eco, name |-> IF x.type = "package-name" THEN Word(x, FALSE)
                                                      ELSE [word |-> n, capitals |-> FALSE]]]
        marks == CASE x.type = "domain" -> [domains |-> {Word(x, x.capitals)}]
                   [] x.type = "ip" -> [ip |-> {Word(x, FALSE)}]
                   [] x.type = "url" -> [urls |-> {Word(x, x.capitals)}]
                   [] x.type = "package-name" -> [package_seen |-> TRUE]
                   [] x.type = "behavioral-fingerprint" ->
                         [behaviors |-> {[word |-> w, capitals |-> x.capitals] :
                                            w \in {"network_access", "exec_binary"}}]
    IN  {entry(x.ecosystems[1], "p") @@ marks, entry(x.ecosystems[2], "q") @@ marks}

Snapshots(x) ==
    LET feed == IF x.type = "behavioral-fingerprint" THEN "openssf-package-analysis"
                ELSE "openssf-malicious-packages"
    IN  [i \in 1 .. 2 |-> [feed |-> feed, state |-> IF i = 2 THEN x.state ELSE "fresh",
                           doc |-> IF i \in x.listed THEN Entries(x) ELSE {}]]

(* The asked package: its name is the shared one, or its run shows it.     *)
Risk(x) ==
    LET event == [type |-> "outbound-network-attempt", host |-> Word(x, x.observedCapitals),
                  ip |-> Word(x, FALSE), url |-> Word(x, x.observedCapitals)]
        coordinate == [ecosystem |-> "npm", version |-> "1",
                       name |-> IF x.type = "package-name" THEN Word(x, FALSE)
                                ELSE [word |-> "asked", capitals |-> FALSE]]
    IN  CrossEcosystemIocRisk(Snapshots(x), coordinate,
            {IF x.executes THEN {"node-child-process"} ELSE {"eval"}},
            {IF x.connects THEN {event} ELSE {}})

(* A package is a cross-ecosystem risk exactly when the last snapshot that *)
(* was available lists packages of two ecosystems with a mark the package  *)
(* shows: its name, a host or address it connected to, however the feed or *)
(* the sandbox capitalise it, or all of its behaviour.  What an older      *)
(* snapshot said does not count, what an unavailable one fails to say      *)
(* hides nothing.  (An observed URL is compared as it is written.)         *)
IocCorrelates ==
    Drawn("ioc") =>
        LET x == sample.in
            current == IF x.state = "unavailable" THEN 1 ELSE 2
            shown == CASE x.type = "package-name" -> "npm" \in {x.ecosystems[1], x.ecosystems[2]}
                       [] x.type = "behavioral-fingerprint" -> x.connects /\ x.executes
                       [] x.type = "url" -> x.connects /\ ~x.observedCapitals
                       [] OTHER -> x.connects
        IN  Risk(x) <=> /\ current \in x.listed
                        /\ x.ecosystems[1] # x.ecosystems[2]
                        /\ shown
====
