------------------------------ MODULE CliScan -------------------------------
(***************************************************************************)
(* The scan commands of aedo: what is submitted to the control plane, how  *)
(* its answer is merged with the local findings and which exit code a      *)
(* build sees.  The server is an environment that has a verdict on every   *)
(* coordinate and may answer wrongly ordered, short, or not at all.        *)
(***************************************************************************)
EXTENDS CliLockfiles

Decisions == DOMAIN PolicyDecisionRank

Blocking == {"quarantine_pending_analysis", "block_policy_violation",
             "block_known_malicious", "require_hitl_approval"}

-----------------------------------------------------------------------------
(* The stored configuration.                                               *)

(* What login leaves out is taken from the stored configuration, and       *)
(* nothing is stored unless the API answers.                               *)
Login(existing, args, healthy) ==
    IF ~healthy THEN existing
    ELSE {[api |-> args.api,
           profile |-> IF args.profile # {} THEN args.profile
                       ELSE UNION {c.profile : c \in existing}]}

ScanEnrichmentPath(findings) ==
    LET ecosystems == {f.coordinate.ecosystem : f \in Range(findings)}
    IN  IF Cardinality(ecosystems) # 1 THEN "none"
        ELSE IF ecosystems \subseteq {"npm", "pypi"} THEN "registry"
        ELSE IF ecosystems = {"github-actions"} THEN "actions"
        ELSE "none"

(* A registry scan falls back on the default API, the enrichment of        *)
(* actions is skipped without a stored configuration.                      *)
LoadScanEnrichmentConfig(path, stored) ==
    IF stored # {} THEN stored
    ELSE IF path = "registry" THEN {[api |-> "default", profile |-> {}]}
    ELSE {}

-----------------------------------------------------------------------------
(* Submission and merge.                                                   *)

(* A sha256 of the integrity is sent along, other digests are not.         *)
ArtifactSha256(f) == {i \in f.integrity : i.algorithm = "sha256"}

Submission(findings) ==
    [i \in DOMAIN findings |-> [coordinate |-> findings[i].coordinate,
                                sha256 |-> ArtifactSha256(findings[i])]]

(* validate_cli_scan_request: packages of one ecosystem with a registry.   *)
ValidCliScanRequest(submission) ==
    \E ecosystem \in {"npm", "pypi"} :
        {p.coordinate.ecosystem : p \in Range(submission)} = {ecosystem}

(* validate_cli_github_actions_request: the policy profile is named, and   *)
(* so are owner, repository and reference of every action.                 *)
ValidCliGithubActionsRequest(profile, submission) ==
    /\ profile # {} /\ submission # <<>>
    /\ \A p \in Range(submission) :
          /\ p.coordinate.ecosystem = "github-actions"
          /\ p.coordinate.namespace # <<>> /\ p.coordinate.version # {}

(* The Triage Counter's decisions, in the order of the request: the first  *)
(* that cannot be had fails the whole of it.                               *)
JudgedInOrder(server, submission) ==
    [i \in DOMAIN submission |->
        [coordinate |-> submission[i].coordinate,
         decision |-> IF submission[i].coordinate.name \in server.against
                      THEN server.decision ELSE "allow"]]

SubmitCliScan(server, submission) ==
    IF ValidCliScanRequest(submission) THEN {JudgedInOrder(server, submission)} ELSE {}

EnrichCliGithubActions(server, profile, submission) ==
    IF ValidCliGithubActionsRequest(profile, submission)
    THEN {JudgedInOrder(server, submission)} ELSE {}

(* What the client makes no assumption about: a server that does not keep  *)
(* to the order answers something else, one that fails nothing.            *)
ServerAnswer(server, answers) ==
    {CASE server.does = "reorders" -> Reverse(a)
       [] server.does = "truncates" -> Front(a)
       [] server.does = "repeats" -> [i \in DOMAIN a |-> a[1]]
       [] OTHER -> a :
        a \in IF server.does = "fails" THEN {} ELSE answers}

(* The client knows that actions cannot be submitted without a profile.    *)
SubmitScanFindings(server, config, findings, path) ==
    LET submission == Submission(findings)
    IN  IF path = "actions" /\ config.profile = {} THEN {}
        ELSE ServerAnswer(server,
                 IF path = "actions" THEN EnrichCliGithubActions(server, config.profile, submission)
                 ELSE SubmitCliScan(server, submission))

Severity ==
    [allow |-> 0, allow_with_warning |-> 1, fallback_to_approved_candidate |-> 2,
     require_hitl_approval |-> 3, quarantine_pending_analysis |-> 4,
     block_policy_violation |-> 5, block_known_malicious |-> 6]

Stricter(local, remote) == IF Severity[remote] > Severity[local] THEN remote ELSE local

MergeByPosition(local, remote) ==
    IF Len(local) # Len(remote) THEN {}
    ELSE {[i \in DOMAIN local |-> [local[i] EXCEPT !.decision = Stricter(@, remote[i].decision)]]}

(* The answer must have the requested coordinates in the requested order;  *)
(* the empty set is a failure.                                             *)
MergeScanFindings(local, remote) ==
    IF \/ Len(local) # Len(remote)
       \/ \E i \in DOMAIN local : local[i].coordinate # remote[i].coordinate
    THEN {}
    ELSE {[i \in DOMAIN local |-> [local[i] EXCEPT !.decision = Stricter(@, remote[i].decision)]]}

SubmitScanReport(server, stored, findings) ==
    LET path == ScanEnrichmentPath(findings)
        configs == LoadScanEnrichmentConfig(path, stored)
    IN  IF path = "none" \/ configs = {}
        THEN {findings}
        ELSE UNION {UNION {MergeScanFindings(findings, remote) :
                               remote \in SubmitScanFindings(server, c, findings, path)} : c \in configs}

(* The npm and the PyPI packages of an image are submitted apart and put   *)
(* back in their places.                                                   *)
SubmitDockerScanReport(server, stored, findings) ==
    LET Indexes(all, eco) == SelectSeq([i \in DOMAIN all |-> i], LAMBDA i : all[i].coordinate.ecosystem = eco)
        Subset(all, eco) == [k \in DOMAIN Indexes(all, eco) |-> all[Indexes(all, eco)[k]]]
        PutBack(all, eco, merged) ==
            [i \in DOMAIN all |-> IF \E k \in DOMAIN merged : Indexes(all, eco)[k] = i
                                  THEN merged[CHOOSE k \in DOMAIN merged : Indexes(all, eco)[k] = i]
                                  ELSE all[i]]
        Judge(reports, eco) ==
            UNION {IF Subset(all, eco) = <<>> THEN {all}
                   ELSE {PutBack(all, eco, m) : m \in SubmitScanReport(server, stored, Subset(all, eco))} :
                     all \in reports}
    IN  Judge(Judge({findings}, "npm"), "pypi")

ExitCode(findings, failOn) ==
    IF \E f \in Range(findings) :
           IF failOn = "warn" THEN f.decision # "allow" ELSE f.decision \in Blocking
    THEN 1 ELSE 0

-----------------------------------------------------------------------------
(* The pre-flight check of a working directory.                            *)

PreflightFiles == <<"package-lock.json", "pnpm-lock.yaml", "requirements.txt", "requirements-dev.txt">>

ParseFile(cwd, name) ==
    CASE name = "package-lock.json" -> ParsePackageLock(cwd[name])
      [] name = "pnpm-lock.yaml" -> ParsePnpmLock(cwd[name])
      [] OTHER -> ParseRequirements(cwd, name)

(* Every supported file is read; none of them is an error.                 *)
AllParsed(files) ==
    IF files = <<>> \/ \E i \in DOMAIN files : ~files[i].ok
    THEN Unparsed
    ELSE Parsed(FlattenSeq([i \in DOMAIN files |-> files[i].findings]))

DiscoverCiPreflightInputs(cwd) ==
    LET present == SelectSeq(PreflightFiles, LAMBDA f : f \in DOMAIN cwd)
    IN  AllParsed([i \in DOMAIN present |-> ParseFile(cwd, present[i])])

(* Files that disagree on the integrity of a package are an error.         *)
AggregateCiPreflightFindings(findings) ==
    IF \E i, j \in DOMAIN findings : /\ findings[i].coordinate = findings[j].coordinate
                                     /\ ~Agree(findings[i].integrity, findings[j].integrity)
    THEN Unparsed
    ELSE Parsed(DedupeScanFindings(findings))

-----------------------------------------------------------------------------
(* The commands.  The exit code of a command that fails is not 0 either.   *)

Failure == 2

Exit(reports, failOn) ==
    IF reports = {} THEN Failure ELSE ExitCode(CHOOSE r \in reports : TRUE, failOn)

Submitted(server, stored, parsed) ==
    IF parsed.ok THEN SubmitScanReport(server, stored, parsed.findings) ELSE {}

(* Aggregation follows the discovery of the files.                         *)
RunCiPreflight(server, stored, cwd, failOn) ==
    LET discovered == DiscoverCiPreflightInputs(cwd)
    IN  IF ~discovered.ok THEN Failure
        ELSE Exit(Submitted(server, stored, AggregateCiPreflightFindings(discovered.findings)), failOn)

(* --upload-manifest is refused by the commands that have it.              *)
RunScan(server, stored, c) ==
    IF c.uploadManifest /\ c.command \in {"npm", "pnpm", "pypi"} THEN Failure ELSE
    CASE c.command = "npm" -> Exit(Submitted(server, stored, ParsePackageLock(c.file)), c.failOn)
      [] c.command = "pnpm" -> Exit(Submitted(server, stored, ParsePnpmLock(c.file)), c.failOn)
      [] c.command = "pypi" -> Exit(Submitted(server, stored, ParseRequirements(c.file, "requirements.txt")), c.failOn)
      [] c.command = "cargo" -> Exit(Submitted(server, stored, ParseCargoLockScan(c.file)), c.failOn)
      [] c.command = "pom" -> Exit(Submitted(server, stored, ParseMavenPom(c.file)), c.failOn)
      [] c.command = "tree" -> Exit(Submitted(server, stored, ParseMavenDependencyTree(c.file)), c.failOn)
      [] c.command = "rush" -> Exit(Submitted(server, stored, ParseRushConfig(c.manager, c.file)), c.failOn)
      [] c.command = "github-actions" ->
            LET parsed == ParseGithubActionsDir(c.file)
            IN  Exit(Submitted(server, stored,
                         IF c.resolveTags
                         THEN [parsed EXCEPT !.findings = ResolveGithubActionTags(@, c.refs, c.objects)]
                         ELSE parsed), c.failOn)
      [] c.command = "docker" ->
            LET parsed == ParseDockerSyftScanFindings(c.image, c.file)
            IN  Exit(IF parsed.ok THEN SubmitDockerScanReport(server, stored, parsed.findings) ELSE {}, c.failOn)
      [] c.command = "vscode" ->
            LET parsed == ParseVscodeExtensionPackage(c.kind, c.file)
            IN  Exit(IF parsed.ok THEN {parsed.findings} ELSE {}, c.failOn)

-----------------------------------------------------------------------------
(* What the files mean, stated on their own terms: an installed forest of  *)
(* packages is written to the lockfile, and a requirements file stands for *)
(* everything it reaches.                                                  *)

(* A package in its directory; real is its name where that is an alias.    *)
Node(name, version, dependencies) ==
    [name |-> name, real |-> {}, version |-> {version}, integrity |-> {}, dependencies |-> dependencies]

RECURSIVE ForestNodes(_), ForestPaths(_, _)
ForestNodes(forest) == forest \cup UNION {ForestNodes(n.dependencies) : n \in forest}

(* npm writes each package under the path of the one that needs it.        *)
ForestPaths(prefix, forest) ==
    UNION {LET path == prefix \o <<NodeModules>> \o n.name
           IN  {[path |-> path, name |-> n.real, link |-> FALSE, version |-> n.version, integrity |-> n.integrity]}
                   \cup ForestPaths(path, n.dependencies) : n \in forest}

(* The workspaces of the project are linked into node_modules.  The older  *)
(* form has the package behind an alias, and the directory of a workspace, *)
(* in place of a version.                                                  *)
LockOf(form, forest, workspaces) ==
    LET Entry(path, link, version) ==
            [path |-> path, name |-> {}, link |-> link, version |-> version, integrity |-> {}]
        own == {Entry(p, FALSE, {"0"}) : p \in {<<>>} \cup {<<"packages", w>> : w \in workspaces}}
        links == {Entry(<<NodeModules, w>>, TRUE, {}) : w \in workspaces}
    IN  [name |-> "package-lock.json",
         packages |-> IF form = "v1" THEN {} ELSE own \cup links \cup ForestPaths(<<>>, forest),
         dependencies |->
             IF form = "v3" THEN {}
             ELSE {[n EXCEPT !.version = IF n.real = {} THEN @ ELSE {"npm:name@version"}] : n \in forest}
                  \cup {Node(<<w>>, "file:directory", {}) : w \in workspaces}]

NpmCoordinate(name, version) == PackageFinding("npm", name, version, {}).coordinate

InstalledName(n) == IF n.real = {} THEN n.name ELSE CHOOSE r \in n.real : TRUE

ForestCoordinates(forest) == {NpmCoordinate(InstalledName(n), n.version) : n \in ForestNodes(forest)}

(* pnpm writes an entry for each package under packages and again, for its *)
(* dependencies, under snapshots.                                          *)
PnpmLinesOf(entries, spaced) ==
    LET Gap == IF spaced THEN <<[is |-> "empty"]>> ELSE <<>>
        Section(name) == <<[is |-> "section", name |-> name]>> \o Gap
        KeyOf(e) == <<[is |-> "key", name |-> e.name, separator |-> "@", version |-> e.version,
                       peers |-> e.peers]>>
        Resolution(e) ==
            IF e.style = "{}" THEN <<[is |-> "resolution {}", integrity |-> e.integrity]>>
            ELSE <<[is |-> "resolution"], [is |-> "nested"],
                   [is |-> "integrity", integrity |-> e.integrity], [is |-> "field"]>>
        Each(Line(_)) == FlattenSeq([i \in DOMAIN entries |-> Line(entries[i])])
    IN  Section("settings") \o Section("packages")
            \o Each(LAMBDA e : KeyOf(e) \o Resolution(e) \o Gap)
            \o Section("snapshots") \o Each(LAMBDA e : KeyOf(e) \o <<[is |-> "field"]>>)

LinesOf(files, names) == UNION {Range(files[f]) : f \in names \cap DOMAIN files}

Reach(files, from, kinds) ==
    LET Grow(names) == names \cup {l.file : l \in {l \in LinesOf(files, names) : l.is \in kinds}}
    IN  Grow(Grow(Grow(from)))

Requirement(l) == l.is = "requirement"

(* The meaning of a requirements file: the files it reaches through -r     *)
(* list the packages, those it reaches through -c restrict them.           *)
RequirementsMeaning(files) ==
    LET listed == Reach(files, {"requirements.txt"}, {"-r"})
        restricting == Reach(files, {l.file : l \in {l \in LinesOf(files, listed) : l.is = "-c"}}, {"-r", "-c"})
        limits == {l \in LinesOf(files, restricting) : Requirement(l)}
        Pin(l) == IF l.direct THEN {} ELSE {c.version : c \in {c \in Range(l.clauses) : c.operator = "=="}}
        Pins(name) == UNION {Pin(l) : l \in {l \in limits : l.name = name}}
        Hash(l) == IF Cardinality(l.hashes) = 1 THEN l.hashes ELSE {}
        Hashes(name) == UNION {Hash(l) : l \in {l \in limits : l.name = name}}
        Version(l) == Pin(l) \cup (IF l.direct THEN {} ELSE Pins(l.name))
        wanted == {l \in LinesOf(files, listed) : Requirement(l)}
        Few(values) == Cardinality(values) <= 1
    IN  [ok |-> /\ listed \cup restricting \subseteq DOMAIN files
                /\ \A l \in limits : ~l.direct /\ Few(Pins(l.name)) /\ Few(Hashes(l.name))
                /\ \A l \in {l \in wanted : ~l.direct} :
                       Few(Version(l)) /\ Few(Hash(l) \cup Hashes(l.name)),
         coordinates |-> {Found("pypi", <<>>, l.name, Version(l), {}).coordinate : l \in wanted}]

-----------------------------------------------------------------------------
(* Bounded inputs.                                                         *)

PackageA == <<"a">>
PackageB == <<ScopeSign, "b">>

Leaves == {f \in SUBSET {Node(n, v, {}) : n \in {PackageA, PackageB}, v \in {"1", "2"}} :
              \A m, n \in f : m.name = n.name => m = n}

Forests == {f \in UNION {{{x}, {x, y}, {}} :
                x, y \in {Node(n, v, d) : n \in {PackageA, PackageB}, v \in {"1", "2"}, d \in Leaves}} :
               \A m, n \in f : m.name = n.name => m = n}

(* One of the packages is installed under another name.                    *)
AliasedForests == {{[Node(<<"c">>, v, d) EXCEPT !.real = {r}]} \cup f :
                      v \in {"1", "2"}, d \in Leaves, r \in {PackageA, PackageB}, f \in Leaves}

PnpmEntries == {[name |-> n, version |-> v, peers |-> p, style |-> st, integrity |-> i] :
                   n \in {PackageA, PackageB}, v \in {"1", "2"}, p \in BOOLEAN,
                   st \in {"{}", "block"}, i \in {{}, {[algorithm |-> "sha512", digest |-> "x"]}}}

Sha256(d) == [algorithm |-> "sha256", digest |-> d]

Operators == ("==" :> <<"==">>) @@ (">=" :> <<">", "=">>) @@ ("~=" :> <<"~", "=">>) @@ ("!=" :> <<"!", "=">>)

(* The first word of a requirement is all of it up to a blank.             *)
Requires(name, extras, clauses, hashes, direct) ==
    [is |-> "requirement", name |-> name, clauses |-> clauses, hashes |-> hashes, direct |-> direct,
     continued |-> FALSE, extras |-> extras,
     text |-> name \o (IF extras THEN <<"[", "x", "]">> ELSE <<>>)
                  \o FlattenSeq([i \in DOMAIN clauses |->
                         (IF i = 1 THEN <<>> ELSE <<",">>) \o Operators[clauses[i].operator] \o <<clauses[i].version>>])]

Clause(operator, version) == [operator |-> operator, version |-> version]

Pinned(name, version, hashes) == Requires(name, FALSE, <<Clause("==", version)>>, hashes, FALSE)

Refers(option, file) == [is |-> option, file |-> file, continued |-> FALSE]

Comment == [is |-> "comment", continued |-> FALSE]

RequirementLines ==
    {Pinned(PackageA, "1", {}), Pinned(PackageA, "2", {Sha256("x")}),
     Requires(PackageA, FALSE, <<Clause(">=", "1")>>, {Sha256("y")}, FALSE), Requires(<<"b">>, FALSE, <<>>, {}, TRUE),
     Refers("-r", "base.txt"), Refers("-r", "requirements.txt"),
     Refers("-c", "base.txt"), Refers("-c", "limits.txt"), Comment}

RequirementFiles ==
    {[f \in {"requirements.txt", "base.txt"} \cup (IF present THEN {"limits.txt"} ELSE {}) |->
         CASE f = "requirements.txt" -> <<x, y>>
           [] f = "base.txt" -> <<z>>
           [] OTHER -> <<w>>] :
        present \in BOOLEAN, x, y, z \in RequirementLines,
        w \in {l \in RequirementLines : l.is # "comment"}}

(* A requirement alone, a direct reference or with up to two clauses.      *)
SoleRequirements ==
    LET clauses == {Clause(o, v) : o \in DOMAIN Operators, v \in {"1", "2"}}
    IN  {Requires(PackageA, e, <<>>, {}, TRUE) : e \in BOOLEAN}
            \cup {Requires(PackageA, e, c, {}, FALSE) :
                     e \in BOOLEAN, c \in {<<>>} \cup {<<x>> : x \in clauses} \cup {<<x, y>> : x, y \in clauses}}

(* Lines that may go on in the next one.  A hash follows a line that does, *)
(* and nothing else but a comment or a blank line may.                     *)
PhysicalLines ==
    UNION {{[l EXCEPT !.continued = c] : c \in BOOLEAN} :
              l \in {Pinned(PackageA, "1", {Sha256("x")}), Pinned(<<"b">>, "1", {}), Comment,
                     [is |-> "hash", hashes |-> {Sha256("y")}, continued |-> FALSE]}}
        \cup {[is |-> "blank", continued |-> FALSE]}

Continues(lines, i) == i > 1 /\ lines[i - 1].continued /\ lines[i - 1].is # "comment"

RequirementTexts ==
    {lines \in [1..4 -> PhysicalLines] :
        \A i \in DOMAIN lines : /\ lines[i].is = "hash" => Continues(lines, i)
                                /\ Continues(lines, i) => lines[i].is # "requirement"}

(* A dependency of a POM is literal or names a property of the project; a  *)
(* tree is the project and its decorated dependencies after a preamble.    *)
Texts == {[lit |-> "x"], [ref |-> "p"], [ref |-> "project.version"], EmptyText}

MeantText(text) == IF text \in {[ref |-> "p"], [ref |-> "project.version"]} THEN [lit |-> "1"] ELSE text

PomDependencies == [groupId : Texts, artifactId : {[lit |-> "a"], [ref |-> "p"]}, version : Texts,
                    scope : {"", "test", "runtime"}]

MavenCoordinate(group, artifact, version) == Found("maven", group, artifact, version, {}).coordinate

PomMeaning(dependencies) ==
    {MavenCoordinate(<<MeantText(d.groupId)>>, <<MeantText(d.artifactId)>>, {MeantText(d.version)} \ {EmptyText}) :
        d \in {d \in dependencies : d.scope # "test" /\ d.groupId # EmptyText}}

TreeLine(decorated, name) ==
    [is |-> "text", decorated |-> decorated,
     coordinate |-> {[namespace |-> <<"g">>, name |-> <<n>>, version |-> {"1"}] : n \in name}]

JvmInputs ==
    {[command |-> "pom", dependencies |-> <<d, e>>] : d, e \in PomDependencies}
        \cup {[command |-> "tree", preamble |-> p, names |-> <<m, n>>] :
                 p \in {<<>>, <<[is |-> "blank"]>>, <<TreeLine(FALSE, {})>>}, m, n \in {"a", "b", "c"}}
        \cup {[command |-> "cargo", packages |-> <<x, y>>] :
                 x, y \in [name : {<<"a">>, <<"b">>}, version : {"1", "2"}, source : {{}, {"registry"}},
                           checksum : {{}, {Sha256("x")}}]}

LockfileInputs ==
    {[command |-> "npm", forest |-> f, form |-> v, workspaces |-> w] :
        f \in Forests \cup AliasedForests, v \in {"v1", "v2", "v3"}, w \in SUBSET {"w"}}
        \cup {[command |-> "pnpm", entries |-> e, spaced |-> s] :
                 e \in {<<x>> : x \in PnpmEntries} \cup {<<x, y>> : x, y \in PnpmEntries}, s \in BOOLEAN}
        \cup {[command |-> "pypi", files |-> f] : f \in RequirementFiles}
        \cup {[command |-> "sole requirement", line |-> l] : l \in SoleRequirements}
        \cup {[command |-> "lines", lines |-> l] : l \in RequirementTexts}
        \cup JvmInputs

Servers == [against : {{}, {<<"a">>}, {<<"b">>}, {<<"a">>, <<"b">>}},
            decision : {"block_known_malicious", "allow_with_warning", "fallback_to_approved_candidate"},
            does : {"answers", "reorders", "truncates", "repeats", "fails"}]

(* A package-lock, requirements and the packages of an image.              *)
SmallForests == {f \in Forests : Cardinality(ForestNodes(f)) <= 2}

SmallRequirements ==
    {[f \in {"requirements.txt"} |-> <<Pinned(n, "1", {}), Pinned(m, "1", {})>>] :
        n, m \in {<<"a">>, <<"b">>, <<"c">>}}

Artifact(type, path) ==
    [purl |-> {[type |-> type, path |-> path, version |-> {"1"}]}, name |-> <<>>, type |-> "",
     version |-> {}, groupId |-> <<>>, checksum |-> {}]

Images == [repository |-> <<"r", "i">>, tag |-> {"t"}, digest |-> {}]

Coordinates(findings) == {f.coordinate : f \in Range(findings)}

Registry(coordinates) == {c \in coordinates : c.ecosystem \in {"npm", "pypi"}}

Scan(command, file, packages, demands) ==
    [what |-> [command |-> command, uploadManifest |-> FALSE, image |-> Images, manager |-> "pnpm",
               kind |-> "vsix", resolveTags |-> FALSE, file |-> file],
     packages |-> packages, demands |-> demands, stored |-> {}]

LockfileScans ==
    {Scan("npm", LockOf("v3", f, {}), ForestCoordinates(f), {}) : f \in SmallForests}
        \cup {Scan("pypi", r, RequirementsMeaning(r).coordinates, {}) : r \in SmallRequirements}
        \cup {Scan("rush", ("config/pnpm-lock.yaml" :> PnpmLinesOf(e, TRUE)) @@ ("temp/pnpm-lock.yaml" :> <<>>),
                   {NpmCoordinate(x.name, {x.version}) : x \in Range(e)}, {}) :
                 e \in {<<x, y>> : x, y \in {z \in PnpmEntries : z.integrity = {} /\ z.style = "{}"}}}
        \cup {Scan("docker", [manifestDigest |-> {}, artifacts |-> <<Artifact(t, <<"a">>), Artifact(u, <<"b">>)>>],
                   Registry({Found(t, <<>>, <<"a">>, {"1"}, {}).coordinate,
                             Found(u, <<>>, <<"b">>, {"1"}, {}).coordinate}), {}) :
                 t, u \in {"npm", "pypi", "cargo"}}

(* Steps of a workflow use actions by commit or by tag; a tag may be       *)
(* annotated, or lead through too many tags to a commit.                   *)
Uses(name, ref) ==
    [is |-> "mapping", entries |-> {[key |-> "uses", value |->
        [is |-> "text", text |-> [is |-> "action", owner |-> "o", repo |-> name, ref |-> ref]]]}]

Workflow(steps) ==
    [is |-> "mapping", entries |-> {[key |-> "jobs", value |-> [is |-> "sequence", values |-> steps]]}]

TagRefs == [v \in {"v1", "v2"} |-> [type |-> "tag", sha |-> v]]
TagObjects == [v \in {"v1", "v2"} |-> IF v = "v1" THEN [type |-> "commit", sha |-> "sha"]
                                      ELSE [type |-> "tag", sha |-> "v2"]]

ActionScans ==
    {[Scan("github-actions", {Workflow({Uses("a", x)}), Workflow({Uses("b", y), [is |-> "text", text |-> "run"]})},
           IF stored = {} THEN {} ELSE {[ecosystem |-> "github-actions", name |-> <<n>>] : n \in {"a", "b"}},
           {IF r = "sha" \/ (resolve /\ r = "v1") THEN "allow" ELSE "allow_with_warning" : r \in {x, y}})
      EXCEPT !.stored = stored,
             !.what = [@ EXCEPT !.resolveTags = resolve] @@ [refs |-> TagRefs, objects |-> TagObjects]] :
        x, y \in {"sha", "v1", "v2"}, resolve \in BOOLEAN,
        stored \in {Login({}, [api |-> "api", profile |-> p], h) : p \in {{}, {"p"}}, h \in BOOLEAN}}

(* Files of an extension: manifests, scripts and instructions to agents.   *)
ExtensionFile(path, kind, size, pathSignals, textSignals) ==
    [path |-> path, kind |-> kind, size |-> size, symlink |-> FALSE, utf8 |-> TRUE,
     pathSignals |-> pathSignals, textSignals |-> textSignals,
     publisher |-> "p", name |-> "e", version |-> "1",
     signals |-> IF Last(path) = "package.json" THEN textSignals ELSE {}]

Readable(f) == f.kind = "text" /\ f.size <= ExtensionScanMaxTextBytes

ExtensionScans ==
    {Scan("vscode", <<ExtensionFile(<<"extension", "package.json">>, "text", 1, {}, s), x, y>>,
          {}, {SignalDecision[t] : t \in s \cup UNION {f.pathSignals \cup
                                       (IF Readable(f) THEN f.textSignals ELSE {}) : f \in {x, y}}}) :
        s \in {{}, {"lifecycleScript"}},
        x, y \in {ExtensionFile(path, k, n, ps, ts) :
                     path \in {<<"extension", "main.js">>, <<"extension", "sub", "package.json">>},
                     k \in {"text", "binary"}, n \in {1, 2},
                     ps \in {{}, {"agentInstructions"}}, ts \in {{}, {"instructionInjection"}}}}

ScanInputs ==
    {[failOn |-> f, server |-> s] @@ c : f \in {"warn", "block"}, s \in Servers, c \in LockfileScans}

ActionScanInputs ==
    {[failOn |-> f, server |-> s] @@ c :
        f \in {"warn", "block"}, s \in {s \in Servers : s.decision = "block_known_malicious"}, c \in ActionScans}

ExtensionScanInputs ==
    {[failOn |-> f, server |-> CHOOSE s \in Servers : TRUE] @@ c : f \in {"warn", "block"}, c \in ExtensionScans}

(* A working directory with a package-lock, a requirements file or both.   *)
PreflightInputs ==
    {[cwd |-> c.cwd, packages |-> c.packages, demands |-> {}, failOn |-> f, server |-> s, mixed |-> c.mixed] :
        f \in {"warn", "block"}, s \in Servers,
        c \in {[cwd |-> [x \in {"package-lock.json"} |-> LockOf("v3", g, {})],
                packages |-> ForestCoordinates(g), mixed |-> FALSE] : g \in SmallForests}
              \cup {[cwd |-> r, packages |-> RequirementsMeaning(r).coordinates, mixed |-> FALSE] :
                       r \in SmallRequirements}
              \cup {[cwd |-> [x \in {"package-lock.json", "requirements.txt"} |->
                                 IF x = "package-lock.json" THEN LockOf("v3", g, {}) ELSE r[x]],
                     packages |-> ForestCoordinates(g) \cup RequirementsMeaning(r).coordinates,
                     mixed |-> g # {}] : g \in {h \in SmallForests : Cardinality(h) <= 1}, r \in SmallRequirements}}

-----------------------------------------------------------------------------
(* A requirement is read for what it says unless, without extras, != comes *)
(* first, or == is not the only clause.                                    *)
Clear(l) ==
    \/ l.direct
    \/ /\ l.extras \/ l.clauses = <<>> \/ l.clauses[1].operator # "!="
       /\ \A i \in DOMAIN l.clauses : l.clauses[i].operator = "==" => Len(l.clauses) = 1 \/ (l.extras /\ i = Len(l.clauses))

(* A line is swallowed by one before it that goes on and is a comment, or  *)
(* goes on over blank lines.                                               *)
Swallowed(lines, i) ==
    \E j \in 1..(i - 1) : /\ lines[j].continued
                          /\ \A k \in (j + 1)..(i - 1) : lines[k].is = "blank"
                          /\ lines[j].is = "comment" \/ j < i - 1

RequirementCoordinate(l) == Found("pypi", <<>>, l.name, {"1"}, {}).coordinate

(* Every package that a lockfile or a requirements file stands for is      *)
(* scanned, under the coordinate it is installed by, and nothing else is:  *)
(* through every form of a package-lock, through peers and the layout of a *)
(* pnpm lockfile, through inclusions that form a cycle and constraints     *)
(* that come before or after what they restrict.  A requirements file is   *)
(* refused exactly when its constraints contradict each other or it.       *)
(* The property ends exactly where the parsers do: a package-lock with an  *)
(* alias or a linked workspace is scanned under the names of directories;  *)
(* of a requirement that begins with != or mixes == with other clauses the *)
(* name or the version is misread; and a requirement after a comment that  *)
(* ends in a backslash, or after a continued and then a blank line, is not *)
(* scanned at all.                                                         *)
EveryPackageScanned ==
    Drawn("lockfile") =>
        LET in == sample.in
        IN  CASE in.command = "npm" ->
                   Coordinates(ParsePackageLock(LockOf(in.form, in.forest, in.workspaces)).findings)
                           = ForestCoordinates(in.forest)
                       <=> in.workspaces = {} /\ \A n \in in.forest : n.real = {}
              [] in.command = "sole requirement" ->
                   LET files == [f \in {"requirements.txt"} |-> <<in.line>>]
                   IN  Coordinates(ParseRequirements(files, "requirements.txt").findings)
                               = RequirementsMeaning(files).coordinates
                           <=> Clear(in.line)
              [] in.command = "lines" ->
                   Coordinates(ParseRequirements([f \in {"requirements.txt"} |-> in.lines], "requirements.txt").findings)
                       = {RequirementCoordinate(in.lines[i]) :
                             i \in {i \in DOMAIN in.lines : Requirement(in.lines[i]) /\ ~Swallowed(in.lines, i)}}
              [] in.command = "pnpm" ->
                   LET found == ParsePnpmLock(PnpmLinesOf(in.entries, in.spaced)).findings
                   IN  /\ Len(found) = Len(in.entries)
                       /\ \A i \in DOMAIN found :
                              /\ found[i].coordinate = NpmCoordinate(in.entries[i].name, {in.entries[i].version})
                              /\ found[i].integrity = in.entries[i].integrity
              [] in.command = "pom" ->
                   LET props == <<[name |-> "p", value |-> [lit |-> "1"]],
                                  [name |-> "project.version", value |-> [lit |-> "1"]]>>
                   IN  Coordinates(ParseMavenPom([properties |-> props, dependencies |-> in.dependencies]).findings)
                           = PomMeaning(Range(in.dependencies))
              [] in.command = "tree" ->
                   LET lines == in.preamble \o <<TreeLine(FALSE, {"project"})>>
                                    \o [i \in DOMAIN in.names |-> TreeLine(TRUE, {in.names[i]})]
                   IN  Coordinates(ParseMavenDependencyTree(lines).findings)
                           = {MavenCoordinate(<<"g">>, <<n>>, {"1"}) : n \in Range(in.names)}
              [] in.command = "cargo" ->
                   Coordinates(ParseCargoLockScan(in.packages).findings)
                       = {Found("cargo", <<>>, p.name, {p.version}, {}).coordinate :
                             p \in {p \in Range(in.packages) : p.source # {}}}
              [] OTHER ->
                   LET found == ParseRequirements(in.files, "requirements.txt")
                       meaning == RequirementsMeaning(in.files)
                   IN  /\ found.ok = meaning.ok
                       /\ found.ok => Coordinates(found.findings) = meaning.coordinates

Passes(decision, failOn) == IF failOn = "warn" THEN decision = "allow" ELSE decision \notin Blocking

JudgedClean(in) ==
    /\ \A c \in in.packages : c.name \in in.server.against => Passes(in.server.decision, in.failOn)
    /\ \A d \in in.demands : Passes(d, in.failOn)

(* A build that a scan lets through has had every npm and PyPI package of  *)
(* its input judged, each by the decision the control plane has on that    *)
(* package, and so have the actions of its workflows when the client is    *)
(* configured: an answer that is short or in another order, or no answer,  *)
(* never passes for a clean one.  What the client itself warns of or       *)
(* blocks, unpinned actions and the signals of an extension, is in the     *)
(* exit code too.  A pre-flight check that finds packages of npm and of    *)
(* PyPI is the exception: it asks nobody, and passes whatever they are.    *)
CleanExitIsJudged ==
    /\ Drawn("scan") =>
           LET in == sample.in
               c == [failOn |-> in.failOn] @@ in.what
           IN  RunScan(in.server, in.stored, c) = 0 => JudgedClean(in)
    /\ Drawn("preflight") =>
           LET in == sample.in
               exit == RunCiPreflight(in.server, {}, in.cwd, in.failOn)
           IN  IF in.mixed THEN exit = 0 ELSE exit = 0 => JudgedClean(in)

=============================================================================
