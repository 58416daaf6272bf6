---------------------------- MODULE CliLockfiles ----------------------------
(***************************************************************************)
(* The inputs of the aedo command line: how a package-lock, a pnpm         *)
(* lockfile, requirements files, a POM, a Maven dependency tree, Rush,     *)
(* workflow files, a container image and a VS Code extension become the    *)
(* sequence of package coordinates that is sent to be judged.              *)
(*                                                                         *)
(* A parser returns [ok, findings]; a failed one has no findings.  An      *)
(* Option is the set of its values.  A package name is the sequence of its *)
(* parts and a line of text the record of what the parser tells apart in   *)
(* it.  Maps whose order decides nothing are sets of entries.              *)
(***************************************************************************)
EXTENDS Sampling, Integers, Sequences, FiniteSets, SequencesExt

ScopeSign == "@s"
ScopeName == [s \in {ScopeSign} |-> "s"]

Found(ecosystem, namespace, name, version, integrity) ==
    [coordinate |-> [ecosystem |-> ecosystem, namespace |-> namespace,
                     name |-> name, version |-> version],
     integrity |-> integrity, decision |-> "allow"]

(* The scope of an npm name is its namespace, without the @.               *)
PackageFinding(ecosystem, parts, version, integrity) ==
    IF ecosystem = "npm" /\ Head(parts) = ScopeSign /\ Len(parts) > 1
    THEN Found("npm", <<ScopeName[ScopeSign]>>, Tail(parts), version, integrity)
    ELSE Found(ecosystem, <<>>, parts, version, integrity)

(* The elements of a set in a fixed order.                                 *)
InOrder(S) == FoldSet(LAMBDA x, seq : Append(seq, x), <<>>, S)

Parsed(findings) == [ok |-> TRUE, findings |-> findings]
Unparsed == [ok |-> FALSE, findings |-> <<>>]

MergeOptionalValues(left, right) ==
    IF left = {} THEN right
    ELSE IF right = {} \/ left = right THEN left
    ELSE {}

(* One finding for each coordinate, the first, with the integrity they     *)
(* agree on.                                                               *)
DedupeScanFindings(findings) ==
    LET Add(merged, f) ==
            LET at == {i \in DOMAIN merged : merged[i].coordinate = f.coordinate}
            IN  IF at = {} THEN Append(merged, f)
                ELSE [merged EXCEPT ![CHOOSE i \in at : TRUE].integrity =
                                        MergeOptionalValues(@, f.integrity)]
    IN  FoldLeft(Add, <<>>, findings)

-----------------------------------------------------------------------------
(* package-lock.json: the packages of the node_modules paths, or, when the *)
(* file has none of them, the dependencies of its older form.  An entry    *)
(* has a name where npm writes one (the package behind an alias) and may   *)
(* be the link to a workspace; the parser reads neither.                   *)

NodeModules == "node_modules"

PackageLockNameFromPath(path) ==
    LET at == {i \in DOMAIN path : path[i] = NodeModules}
    IN  SubSeq(path, (CHOOSE i \in at : \A j \in at : j <= i) + 1, Len(path))

RECURSIVE LegacyFindings(_)
LegacyFindings(entry) ==
    <<PackageFinding("npm", entry.name, entry.version, entry.integrity)>>
        \o FlattenSeq([i \in DOMAIN InOrder(entry.dependencies) |->
                          LegacyFindings(InOrder(entry.dependencies)[i])])

ParsePackageLock(file) ==
    LET installed == InOrder({p \in file.packages :
                                  \E i \in DOMAIN p.path : p.path[i] = NodeModules /\ i < Len(p.path)})
        legacy == InOrder(file.dependencies)
    IN  IF file.name \in {"yarn.lock", "pnpm-lock.yaml"}
        THEN Unparsed
        ELSE Parsed(
                 IF installed # <<>>
                 THEN [i \in DOMAIN installed |->
                          PackageFinding("npm", PackageLockNameFromPath(installed[i].path),
                                         installed[i].version, installed[i].integrity)]
                 ELSE FlattenSeq([i \in DOMAIN legacy |-> LegacyFindings(legacy[i])]))

-----------------------------------------------------------------------------
(* pnpm-lock.yaml, read line by line: an entry of the packages section     *)
(* opens with its key and is closed by the next key, the next section, an  *)
(* empty line or the end of the file.                                      *)

SplitPnpmKeyWithPeers(key) ==
    [name |-> key.name, version |-> IF key.peers THEN {} ELSE {key.version}]

(* The name ends at the last @; the leading slash and the peers in         *)
(* parentheses are dropped.  A key that puts a slash before the version    *)
(* has none.                                                               *)
SplitPnpmKey(key) ==
    [name |-> key.name, version |-> IF key.separator = "@" THEN {key.version} ELSE {}]

FlushPnpmPackage(s) ==
    LET Entry(key) == PackageFinding("npm", SplitPnpmKey(key).name, SplitPnpmKey(key).version, s.integrity)
    IN  [s EXCEPT !.key = {}, !.integrity = {},
                  !.findings = @ \o (IF \E k \in s.key : SplitPnpmKey(k).version # {}
                                     THEN <<Entry(CHOOSE k \in s.key : TRUE)>> ELSE <<>>)]

PnpmLine(s, line) ==
    LET flushed == FlushPnpmPackage(s)
    IN  CASE line.is = "section" -> [flushed EXCEPT !.inPackages = line.name = "packages",
                                                    !.inResolution = FALSE]
          [] line.is = "empty" -> [flushed EXCEPT !.inResolution = FALSE]
          [] ~s.inPackages -> s
          [] line.is = "key" -> [flushed EXCEPT !.key = {line}, !.inResolution = FALSE]
          [] s.key = {} -> s
          [] line.is = "resolution {}" -> [s EXCEPT !.integrity = line.integrity, !.inResolution = FALSE]
          [] line.is = "resolution" -> [s EXCEPT !.inResolution = TRUE]
          [] s.inResolution /\ line.is = "integrity" -> [s EXCEPT !.integrity = line.integrity]
          [] line.is = "field" -> [s EXCEPT !.inResolution = FALSE]
          [] OTHER -> s

ParsePnpmLock(lines) ==
    LET start == [findings |-> <<>>, inPackages |-> FALSE, key |-> {}, integrity |-> {},
                  inResolution |-> FALSE]
    IN  Parsed(FlushPnpmPackage(FoldLeft(PnpmLine, start, lines)).findings)

-----------------------------------------------------------------------------
(* Requirements files, which include each other and name constraint files. *)
(* A line has the tokens of its first word, whatever they mean, and the    *)
(* hashes of its options.                                                  *)

(* A trailing backslash continues a line, also one that is a comment, and  *)
(* blank lines do not end it.  A logical line is the sequence of its lines.*)
ReadRequirementsLogicalLines(lines) ==
    LET Add(s, line) ==
            CASE line.is = "blank" -> s
              [] line.continued -> [s EXCEPT !.current = Append(@, line)]
              [] OTHER -> [logical |-> Append(s.logical, Append(s.current, line)), current |-> <<>>]
        end == FoldLeft(Add, [logical |-> <<>>, current |-> <<>>], lines)
    IN  end.logical \o (IF end.current = <<>> THEN <<>> ELSE <<end.current>>)

UpTo(text, stops) ==
    LET at == {i \in DOMAIN text : text[i] \in stops}
    IN  IF at = {} THEN text ELSE SubSeq(text, 1, Min(at) - 1)

(* Extras are no part of the name; a token of a name stands for all its    *)
(* spellings in case and separators, which are made one.                   *)
NormalizeRequirementsName(text) == UpTo(text, {"["})

(* Exactly one hash identifies the artifact; several are alternatives.     *)
RequirementsIntegrity(hashes) == IF Cardinality(hashes) = 1 THEN hashes ELSE {}

(* The name ends at the first ==, and all that follows is the version; or  *)
(* else it ends before the first of the other operators' signs.  A comment *)
(* hides the rest of the line, unless that is a direct reference.          *)
ParseRequirementsScanLine(logical) ==
    LET line == Head(logical)
        name == UpTo(line.text, {"=="})
        version == SubSeq(line.text, Len(name) + 2, Len(line.text))
        read == {i \in DOMAIN logical : line.direct \/ \A j \in 1..i : logical[j].is # "comment"}
    IN  [name |-> NormalizeRequirementsName(
                      CASE line.direct -> line.text
                        [] Contains(line.text, "==") -> name
                        [] OTHER -> UpTo(line.text, {"<", ">", "~", "="})),
         version |-> IF line.direct \/ ~Contains(line.text, "==") THEN {}
                     ELSE {IF Len(version) = 1 THEN version[1] ELSE "several clauses"},
         integrity |-> RequirementsIntegrity(UNION {logical[i].hashes : i \in {i \in read : logical[i].is # "comment"}}),
         constraintEligible |-> ~line.direct]

(* -e names a project by its egg, its pyproject.toml or its setup.cfg.     *)
EditableName(line) ==
    IF line.egg # {} THEN line.egg
    ELSE IF line.isDir THEN (IF line.pyproject # {} THEN line.pyproject ELSE line.setupCfg)
    ELSE {}

Agree(left, right) == left = {} \/ right = {} \/ left = right

InsertRequirementConstraint(s, c) ==
    LET same == {d \in s.constraints : d.name = c.name}
        Merged(d) == [d EXCEPT !.version = IF @ = {} THEN c.version ELSE @,
                               !.integrity = IF @ = {} THEN c.integrity ELSE @]
    IN  IF ~c.constraintEligible
        THEN [s EXCEPT !.ok = FALSE]
        ELSE [s EXCEPT !.ok = @ /\ \A d \in same : Agree(d.version, c.version)
                                                /\ Agree(d.integrity, c.integrity),
                       !.constraints = (@ \ same) \cup
                           (IF same = {} THEN {c} ELSE {Merged(d) : d \in same})]

RECURSIVE CollectRequirementConstraints(_, _, _)
CollectRequirementConstraints(files, s, file) ==
    LET Line(t, logical) ==
            LET line == Head(logical)
            IN  CASE line.is \in {"-r", "-c"} -> CollectRequirementConstraints(files, t, line.file)
                  [] line.is = "requirement" -> InsertRequirementConstraint(t, ParseRequirementsScanLine(logical))
                  [] OTHER -> t
    IN  CASE file \in s.constraintVisited \/ ~s.ok -> s
          [] file \notin DOMAIN files -> [s EXCEPT !.ok = FALSE]
          [] OTHER -> FoldLeft(Line, [s EXCEPT !.constraintVisited = @ \cup {file}],
                               ReadRequirementsLogicalLines(files[file]))

RECURSIVE CollectRequirementsFindings(_, _, _)
CollectRequirementsFindings(files, s, file) ==
    LET Editable(name) == [name |-> name, version |-> {}, integrity |-> {}, constraintEligible |-> FALSE]
        Line(t, logical) ==
            LET line == Head(logical)
            IN  CASE line.is = "-r" -> CollectRequirementsFindings(files, t, line.file)
                  [] line.is = "-c" -> CollectRequirementConstraints(files, t, line.file)
                  [] line.is = "-e" -> [t EXCEPT !.entries = @ \o InOrder({Editable(n) : n \in EditableName(line)})]
                  [] line.is = "requirement" -> [t EXCEPT !.entries = Append(@, ParseRequirementsScanLine(logical))]
                  [] OTHER -> t
    IN  CASE file \in s.entryVisited \/ ~s.ok -> s
          [] file \notin DOMAIN files -> [s EXCEPT !.ok = FALSE]
          [] OTHER -> FoldLeft(Line, [s EXCEPT !.entryVisited = @ \cup {file}],
                               ReadRequirementsLogicalLines(files[file]))

Constrained(entry, constraints) ==
    {c \in constraints : entry.constraintEligible /\ c.name = entry.name}

ApplyRequirementConstraints(entry, constraints) ==
    LET Applied(e, c) ==
            LET version == IF e.version = {} THEN c.version ELSE e.version
            IN  [e EXCEPT !.version = version,
                          !.integrity = IF @ = {} /\ c.version \in {{}, version} THEN c.integrity ELSE @]
    IN  IF Constrained(entry, constraints) = {} THEN entry
        ELSE Applied(entry, CHOOSE c \in Constrained(entry, constraints) : TRUE)

ConstrainedFindings(s) ==
    LET compatible == \A i \in DOMAIN s.entries : \A c \in Constrained(s.entries[i], s.constraints) :
                          /\ Agree(s.entries[i].version, c.version)
                          /\ Agree(s.entries[i].integrity, c.integrity)
        Finding(e) == PackageFinding("pypi", e.name, e.version, e.integrity)
    IN  IF s.ok /\ compatible
        THEN Parsed(DedupeScanFindings(
                 [i \in DOMAIN s.entries |-> Finding(ApplyRequirementConstraints(s.entries[i], s.constraints))]))
        ELSE Unparsed

ParseRequirements(files, file) ==
    ConstrainedFindings(CollectRequirementsFindings(
        files, [ok |-> TRUE, entries |-> <<>>, constraints |-> {}, entryVisited |-> {}, constraintVisited |-> {}], file))

-----------------------------------------------------------------------------
(* Cargo.lock, POM, Maven dependency tree and Rush.                        *)

(* A package without a source is a member of the workspace.                *)
ParseCargoLockScan(packages) ==
    LET remote == SelectSeq(packages, LAMBDA p : p.source # {})
    IN  Parsed([i \in DOMAIN remote |->
                   PackageFinding("cargo", remote[i].name, {remote[i].version}, remote[i].checksum)])

(* A text of a POM is literal or one ${property}; the properties are       *)
(* substituted once each, in the order of their names.                     *)
ResolvePomText(props, text) ==
    LET Substitute(out, p) == IF out = [ref |-> p.name] THEN p.value ELSE out
    IN  FoldLeft(Substitute, text, props)

EmptyText == [lit |-> ""]

ParseMavenPom(pom) ==
    LET R(text) == ResolvePomText(pom.properties, text)
        kept == SelectSeq(pom.dependencies,
                    LAMBDA d : d.scope \notin {"test", "system"}
                               /\ EmptyText \notin {R(d.groupId), R(d.artifactId)})
    IN  Parsed([i \in DOMAIN kept |->
                   Found("maven", <<R(kept[i].groupId)>>, <<R(kept[i].artifactId)>>,
                         {R(kept[i].version)} \ {EmptyText}, {})])

(* The first undecorated coordinate of a tree is the project itself.       *)
ParseMavenDependencyTree(lines) ==
    LET Line(s, line) ==
            IF line.is # "text" THEN s
            ELSE IF s.first /\ ~line.decorated THEN [s EXCEPT !.first = line.coordinate = {}]
            ELSE [first |-> FALSE,
                  findings |-> s.findings \o InOrder({Found("maven", c.namespace, c.name, c.version, {}) :
                                                          c \in line.coordinate})]
    IN  Parsed(FoldLeft(Line, [first |-> TRUE, findings |-> <<>>], lines).findings)

RushCandidates ==
    [npm |-> <<"config/npm-shrinkwrap.json", "temp/package-lock.json">>,
     pnpm |-> <<"config/pnpm-lock.yaml", "temp/pnpm-lock.yaml">>]

(* The lockfile under config is preferred to the one under temp.           *)
ParseRushConfig(manager, tree) ==
    LET present == SelectSeq(RushCandidates[manager], LAMBDA f : f \in DOMAIN tree)
    IN  IF manager \notin DOMAIN RushCandidates THEN Unparsed
        ELSE IF present = <<>> THEN Unparsed
        ELSE IF manager = "npm" THEN ParsePackageLock(tree[Head(present)])
        ELSE ParsePnpmLock(tree[Head(present)])

-----------------------------------------------------------------------------
(* Workflow files: a YAML tree is a text, a mapping or a sequence.         *)

RECURSIVE CollectUsesRefs(_)
CollectUsesRefs(yaml) ==
    CASE yaml.is = "mapping" ->
           UNION {IF e.key = "uses" THEN (IF e.value.is = "text" THEN {e.value.text} ELSE {})
                  ELSE CollectUsesRefs(e.value) : e \in yaml.entries}
      [] yaml.is = "sequence" -> UNION {CollectUsesRefs(v) : v \in yaml.values}
      [] OTHER -> {}

IsShaPinned(ref) == ref \in {"sha"}

GithubActionsFinding(owner, repo, ref) ==
    [Found("github-actions", <<owner>>, <<repo>>, {ref}, {}) EXCEPT
        !.decision = IF IsShaPinned(ref) THEN "allow" ELSE "allow_with_warning"]

(* owner/repo@ref or owner/repo/path@ref; local actions and images of      *)
(* containers are not packages.                                            *)
ParseGithubActionsFile(yaml) ==
    {GithubActionsFinding(u.owner, u.repo, u.ref) : u \in {u \in CollectUsesRefs(yaml) : u.is = "action"}}

ParseGithubActionsDir(files) ==
    IF files = {} THEN Unparsed
    ELSE Parsed(InOrder(UNION {ParseGithubActionsFile(f) : f \in files}))

TagResolutionMaxDepth == 3

(* Annotated tags are followed to a commit, to a bounded depth; the empty  *)
(* set is a failure.                                                       *)
RECURSIVE ResolveTag(_, _, _)
ResolveTag(objects, object, depth) ==
    CASE depth = 0 -> {}
      [] object.type = "commit" -> {object.sha}
      [] object.type = "tag" /\ object.sha \in DOMAIN objects ->
            ResolveTag(objects, objects[object.sha], depth - 1)
      [] OTHER -> {}

(* A tag that cannot be resolved leaves the finding as it was.             *)
ResolveGithubActionTags(findings, refs, objects) ==
    LET Sha(f) == UNION {IF v \in DOMAIN refs THEN ResolveTag(objects, refs[v], TagResolutionMaxDepth)
                         ELSE {} : v \in f.coordinate.version}
        Pinned(f) == \A v \in f.coordinate.version : IsShaPinned(v)
        Resolved(f) == IF Pinned(f) \/ Sha(f) = {} THEN f
                       ELSE GithubActionsFinding(f.coordinate.namespace[1], f.coordinate.name[1],
                                                 CHOOSE sha \in Sha(f) : TRUE)
    IN  [i \in DOMAIN findings |-> Resolved(findings[i])]

-----------------------------------------------------------------------------
(* Container images, from the JSON of Syft.                                *)

(* A reference needs a tag or a digest; a digest must be a sha256.         *)
ParseDockerImageReference(image) ==
    IF \/ image.repository = <<>>
       \/ image.tag \cup image.digest = {}
       \/ "malformed" \in image.digest
    THEN {}
    ELSE {[namespace |-> Front(image.repository), name |-> <<Last(image.repository)>>,
           tag |-> image.tag, digest |-> image.digest]}

DockerImageFinding(ref, syft) ==
    Found("docker-oci", ref.namespace, ref.name, IF ref.tag # {} THEN ref.tag ELSE ref.digest,
          IF syft.manifestDigest # {} THEN syft.manifestDigest ELSE ref.digest)

ScannedEcosystems == {"npm", "pypi", "cargo", "maven"}

SyftEcosystem ==
    [t \in {"npm", "javascript", "node-module", "python", "python-package", "pypi",
            "rust", "cargo", "java-archive", "maven"} |->
        CASE t \in {"npm", "javascript", "node-module"} -> "npm"
          [] t \in {"python", "python-package", "pypi"} -> "pypi"
          [] t \in {"rust", "cargo"} -> "cargo"
          [] OTHER -> "maven"]

(* The purl decides; without a usable one, the name and the type do.       *)
ScanFindingFromSyftArtifact(a) ==
    LET usable == {p \in a.purl : p.type \in ScannedEcosystems /\ p.path # <<>>}
        Named(p) == IF p.type = "npm" THEN PackageFinding("npm", p.path, p.version, a.checksum)
                    ELSE Found(p.type, Front(p.path), <<Last(p.path)>>, p.version, a.checksum)
    IN  IF usable # {} THEN {Named(p) : p \in usable}
        ELSE IF a.name = <<>> \/ a.type \notin DOMAIN SyftEcosystem THEN {}
        ELSE {Found(SyftEcosystem[a.type],
                    IF SyftEcosystem[a.type] = "maven" THEN a.groupId ELSE <<>>,
                    a.name, a.version, a.checksum)}

ParseDockerSyftScanFindings(image, syft) ==
    IF ParseDockerImageReference(image) = {} THEN Unparsed
    ELSE Parsed(DedupeScanFindings(
             <<DockerImageFinding(CHOOSE r \in ParseDockerImageReference(image) : TRUE, syft)>>
                 \o FlattenSeq([i \in DOMAIN syft.artifacts |->
                                   InOrder(ScanFindingFromSyftArtifact(syft.artifacts[i]))])))

-----------------------------------------------------------------------------
(* VS Code extensions: a bounded number of files and bytes of text.        *)

ExtensionScanMaxFiles == 3
ExtensionScanMaxTextBytes == 2
ExtensionScanMaxTotalTextBytes == 4

IsExtensionTextCandidate(file) == file.kind # "binary"

(* Text beyond the limit of one file is not read, except that a manifest   *)
(* of that size is refused.                                                *)
ReadExtensionFile(file) ==
    [path |-> file.path, pathSignals |-> file.pathSignals,
     contents |-> IF IsExtensionTextCandidate(file) /\ file.size <= ExtensionScanMaxTextBytes
                     /\ file.utf8
                  THEN {file} ELSE {}]

IsManifestPath(path) == Last(path) = "package.json"

(* The files and the text that is kept of them stay within the budget.     *)
WithinScanBudget(files) ==
    LET Kept(f) == IF ReadExtensionFile(f).contents = {} THEN 0 ELSE f.size
    IN  /\ Len(files) <= ExtensionScanMaxFiles
        /\ FoldLeft(LAMBDA n, f : n + Kept(f), 0, files) <= ExtensionScanMaxTotalTextBytes

(* Symbolic links of a directory are skipped, a path of an archive that    *)
(* leaves its root fails the scan.                                         *)
LoadVscodeExtensionFiles(kind, files) ==
    LET regular == SelectSeq(files, LAMBDA f : ~(kind = "directory" /\ f.symlink))
        Refused(f) == \/ IsManifestPath(f.path) /\ f.size > ExtensionScanMaxTextBytes
                      \/ kind = "vsix" /\ ".." \in Range(f.path)
    IN  IF ~WithinScanBudget(regular) \/ \E f \in Range(regular) : Refused(f) THEN {}
        ELSE {[i \in DOMAIN regular |-> ReadExtensionFile(regular[i])]}

(* The manifest at the root comes first, by the layout of the source, and  *)
(* then the one with the shortest path.                                    *)
ManifestRank(kind, path) ==
    CASE path = <<"extension", "package.json">> -> IF kind = "vsix" THEN 0 ELSE 1
      [] path = <<"package.json">> -> IF kind = "vsix" THEN 1 ELSE 0
      [] OTHER -> 2

FindVscodeExtensionManifest(kind, files) ==
    LET candidates == {f \in Range(files) : /\ f.contents # {} /\ IsManifestPath(f.path)
                                            /\ \A i \in 2..Len(f.path) : f.path[i] # NodeModules}
        Before(f, g) == \/ ManifestRank(kind, f.path) < ManifestRank(kind, g.path)
                        \/ /\ ManifestRank(kind, f.path) = ManifestRank(kind, g.path)
                           /\ Len(f.path) <= Len(g.path)
    IN  {f \in candidates : \A g \in candidates : Before(f, g)}

PolicyDecisionRank ==
    [allow |-> 0, fallback_to_approved_candidate |-> 0, allow_with_warning |-> 1,
     require_hitl_approval |-> 2, quarantine_pending_analysis |-> 3,
     block_policy_violation |-> 4, block_known_malicious |-> 4]

(* What the manifest and each file show, with the decision it calls for.   *)
SignalDecision ==
    [broadActivation |-> "allow_with_warning", lifecycleScript |-> "block_policy_violation",
     installerFetch |-> "block_policy_violation", agentInstructions |-> "block_policy_violation",
     instructionInjection |-> "block_policy_violation", credentialAccess |-> "allow_with_warning",
     workspaceAccess |-> "allow_with_warning", networkAccess |-> "allow_with_warning",
     processExecution |-> "allow_with_warning"]

CollectVscodeExtensionSignals(manifest, files) ==
    manifest.signals \cup UNION {f.pathSignals : f \in Range(files)}
                     \cup UNION {f.textSignals : f \in UNION {g.contents : g \in Range(files)}}

ValidVscodeExtensionManifest(m) == "" \notin {m.publisher, m.name, m.version}

(* The extension itself, and one finding for each signal.                  *)
VscodeExtensionFindings(m, signals) ==
    LET Extension(name) == Found("vscode", <<m.publisher>>, name, {m.version}, {})
    IN  <<Extension(<<m.name>>)>>
            \o InOrder({[Extension(<<m.name, s>>) EXCEPT !.decision = SignalDecision[s]] : s \in signals})

ParseVscodeExtensionPackage(kind, files) ==
    LET loaded == LoadVscodeExtensionFiles(kind, files)
        manifests == UNION {UNION {f.contents : f \in FindVscodeExtensionManifest(kind, l)} : l \in loaded}
        manifest == CHOOSE m \in manifests : TRUE
    IN  IF manifests = {} \/ ~ValidVscodeExtensionManifest(manifest) THEN Unparsed
        ELSE Parsed(VscodeExtensionFindings(manifest,
                        CollectVscodeExtensionSignals(manifest, CHOOSE l \in loaded : TRUE)))
=============================================================================
