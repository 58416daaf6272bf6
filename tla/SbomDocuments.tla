--------------------------- MODULE SbomDocuments ----------------------------
(***************************************************************************)
(* aedo sbom generate: a lockfile, requirements, a Maven dependency tree   *)
(* or a container image becomes a document of components and of edges      *)
(* between their references, decisions of the control plane are attached,  *)
(* and the document is rendered as CycloneDX or as SPDX.                   *)
(*                                                                         *)
(* A loader returns the set of its document, empty when it fails.  A       *)
(* reference is the tuple of what its text is put together from.           *)
(***************************************************************************)
EXTENDS CliScan

(* A scope loses its @, and a dash reads like any other separator.         *)
SanitizeReference(parts) ==
    LET Words(part) == CASE part = ScopeSign -> <<ScopeName[ScopeSign]>>
                         [] part = "s-b" -> <<"s", "b">>
                         [] OTHER -> <<part>>
    IN  FlattenSeq([i \in DOMAIN parts |-> Words(parts[i])])

BuildComponent(reference, f, source) ==
    [ref |-> reference, coordinate |-> f.coordinate, integrity |-> f.integrity, source |-> source,
     decision |-> {}]

(* The root is referred to by its purl, when the input names one.          *)
BuildRoot(ecosystem, coordinates) ==
    [ecosystem |-> ecosystem, coordinate |-> coordinates,
     ref |-> IF coordinates = {} THEN <<"root">> ELSE <<"purl", CHOOSE c \in coordinates : TRUE>>]

PurlReference(coordinate) == <<"purl", coordinate>>

(* Components are put in the order of their purls.                         *)
FinalizeDocument(root, components, edges) ==
    [root |-> root, components |-> InOrder(components), edges |-> edges]

FirstOf(values, Key(_)) ==
    {values[i] : i \in {i \in DOMAIN values : \A j \in 1..(i - 1) : Key(values[j]) # Key(values[i])}}

(* Without declared dependencies the root depends on what nothing else     *)
(* depends on.                                                             *)
CollectRootDependencies(edges, components) ==
    {c.ref : c \in components} \ {e[2] : e \in edges}

WithRootDependencies(root, components, edges, declared) ==
    edges \cup {<<root.ref, to>> : to \in IF declared = {} THEN CollectRootDependencies(edges, components)
                                          ELSE declared}

-----------------------------------------------------------------------------
(* package-lock.json.                                                      *)

PackageLockParentPathTop(path) == <<>>

PackageLockParentPath(path) ==
    LET at == {i \in DOMAIN path : i > 1 /\ path[i] = NodeModules}
    IN  IF at = {} THEN <<>> ELSE SubSeq(path, 1, (CHOOSE i \in at : \A j \in at : j <= i) - 1)

(* The directory of the package is searched first, and then outwards.      *)
RECURSIVE ResolvePackageLockDependency(_, _, _)
ResolvePackageLockDependency(installed, base, name) ==
    LET candidate == base \o <<NodeModules>> \o name
    IN  IF candidate \in installed THEN {candidate}
        ELSE IF base = <<>> THEN {}
        ELSE ResolvePackageLockDependency(installed, PackageLockParentPath(base), name)

(* The older form nests packages, which is read as dependency; requires,   *)
(* where npm wrote the dependencies, is not read.  The first of a          *)
(* reference is kept.                                                      *)
LegacyReference(entry) ==
    <<"npm:legacy", SanitizeReference(entry.name),
      IF entry.version = {} THEN {"unspecified"} ELSE entry.version>>

RECURSIVE CollectLegacyNpmComponents(_), CollectLegacyNpmEdges(_)
CollectLegacyNpmComponents(entry) ==
    LET children == InOrder(entry.dependencies)
    IN  <<BuildComponent(LegacyReference(entry),
                         PackageFinding("npm", entry.name, entry.version, entry.integrity), {})>>
            \o FlattenSeq([i \in DOMAIN children |-> CollectLegacyNpmComponents(children[i])])
CollectLegacyNpmEdges(entry) ==
    {<<LegacyReference(entry), LegacyReference(child)>> : child \in entry.dependencies}
        \cup UNION {CollectLegacyNpmEdges(child) : child \in entry.dependencies}

LegacyPackageLockSbom(file, root) ==
    LET entries == InOrder(file.dependencies)
        all == FlattenSeq([i \in DOMAIN entries |-> CollectLegacyNpmComponents(entries[i])])
    IN  FinalizeDocument(root, FirstOf(all, LAMBDA c : c.ref),
            {<<root.ref, LegacyReference(e)>> : e \in file.dependencies}
                \cup UNION {CollectLegacyNpmEdges(e) : e \in file.dependencies})

(* What an entry needs it needs as one of its dependencies, or among its   *)
(* optional, peer or dev dependencies, which are not read.                 *)
DependencyNames(entry) == {d.name : d \in {d \in entry.needs : d.kind = "dependencies"}}

(* Entries outside node_modules are the project and its workspaces: what   *)
(* they depend on, the root depends on.                                    *)
LoadPackageLockSbom(file) ==
    LET root == BuildRoot("npm", {NpmCoordinate(n, {}) : n \in file.project})
        installed == {p \in file.packages : \E i \in DOMAIN p.path : p.path[i] = NodeModules /\ i < Len(p.path)}
        paths == {p.path : p \in installed}
        Reference(path) == <<"npm:path", SanitizeReference(path)>>
        components == {BuildComponent(Reference(p.path),
                                      PackageFinding("npm", PackageLockNameFromPath(p.path), p.version, p.integrity),
                                      {}) : p \in installed}
        From(p) == IF p \in installed THEN Reference(p.path) ELSE root.ref
        edges == UNION {UNION {{<<From(p), Reference(to)>> : to \in ResolvePackageLockDependency(paths, p.path, name)} :
                                   name \in DependencyNames(p)} : p \in file.packages}
    IN  IF file.packages = {} THEN {LegacyPackageLockSbom(file, root)}
        ELSE {FinalizeDocument(root, components,
                  WithRootDependencies(root, components, edges, {e[2] : e \in {e \in edges : e[1] = root.ref}}))}

-----------------------------------------------------------------------------
(* pnpm-lock.yaml: the keys of its packages and of its snapshots.          *)

ResolvePnpmDependency(keys, dependency) ==
    LET Same(k) == k.name = dependency.name /\ k.version = dependency.version
        exact == {k \in keys : Same(k) /\ k.peers = dependency.peers}
    IN  IF exact # {} THEN exact ELSE {k \in keys : Same(k)}

LoadPnpmLockSbom(file) ==
    LET root == BuildRoot("npm", {})
        keys == {k \in {e.key : e \in file.packages \cup file.snapshots} : SplitPnpmKey(k).version # {}}
        Reference(k) == <<"pnpm:key", SanitizeReference(k.name), k.version, k.peers>>
        Integrity(k) == UNION {p.integrity : p \in {p \in file.packages : p.key = k}}
        components == {BuildComponent(Reference(k),
                                      PackageFinding("npm", SplitPnpmKey(k).name, SplitPnpmKey(k).version, Integrity(k)),
                                      {}) : k \in keys}
        Targets(dependencies) == {Reference(k) : k \in UNION {ResolvePnpmDependency(keys, d) : d \in dependencies}}
        edges == UNION {{<<Reference(s.key), to>> : to \in Targets(s.dependencies)} :
                            s \in {s \in file.snapshots : s.key \in keys}}
    IN  {FinalizeDocument(root, components,
             WithRootDependencies(root, components, edges, Targets(UNION file.importers)))}

-----------------------------------------------------------------------------
(* Cargo.lock, with the root of the manifest beside it.                    *)

CargoManifestPackageInfo(package, workspaceVersion) ==
    [name |-> package.name, version |-> IF package.version = {"workspace"} THEN workspaceVersion ELSE package.version]

CargoWorkspaceMemberIsExcluded(workspace, path) ==
    \E e \in workspace.exclude : IF e.glob THEN path \in e.paths
                                 ELSE \E p \in e.paths : IsPrefix(p, path)

(* Only the members a pattern matches can be excluded.                     *)
LoadCargoWorkspaceMemberPackage(workspace, member) ==
    {p \in member.paths : member.glob => ~CargoWorkspaceMemberIsExcluded(workspace, p)}

(* The root of a workspace without a package of its own is its only        *)
(* member, among the default members if there are any.                     *)
LoadCargoWorkspacePackage(tree, workspace) ==
    LET Paths(members) == UNION {LoadCargoWorkspaceMemberPackage(workspace, m) : m \in members}
        paths == IF workspace.defaultMembers = {} THEN Paths(workspace.members)
                 ELSE Paths(workspace.defaultMembers) \cap Paths(workspace.members)
        candidates == {CargoManifestPackageInfo(q, workspace.version) :
                          q \in UNION {tree[p].package : p \in paths \cap DOMAIN tree}}
    IN  IF Cardinality(candidates) = 1 THEN candidates ELSE {}

LoadCargoManifestPackage(tree) ==
    IF <<>> \notin DOMAIN tree THEN {}
    ELSE LET workspaces == tree[<<>>].workspace
             FromWorkspace == UNION {LoadCargoWorkspacePackage(tree, w) : w \in workspaces}
         IN  IF \E w \in workspaces : w.defaultMembers # {} THEN FromWorkspace
             ELSE IF tree[<<>>].package # {}
             THEN {CargoManifestPackageInfo(q, UNION {w.version : w \in workspaces}) : q \in tree[<<>>].package}
             ELSE FromWorkspace

CargoComponentReference(p) == <<"cargo:pkg", SanitizeReference(p.name), p.version, p.source>>

(* A dependency is written with as much as tells it apart: its name, its   *)
(* version, its source.                                                    *)
ResolveCargoDependencies(packages, spec) ==
    {p \in packages : /\ p.name = spec.name
                      /\ spec.version # {} => p.version \in spec.version
                      /\ spec.version # {} /\ spec.source # {} => p.source = spec.source}

LoadCargoLockSbom(packages, tree) ==
    LET manifests == LoadCargoManifestPackage(tree)
        matching == {p \in packages : p.source = {} /\ \E m \in manifests :
                        m.name = p.name /\ m.version \in {{}, {p.version}}}
        rootPackage == IF Cardinality(matching) = 1 THEN matching ELSE {}
        RootVersion(m) == IF m.version # {} THEN m.version ELSE {p.version : p \in rootPackage}
        root == BuildRoot("cargo", {Found("cargo", <<>>, m.name, RootVersion(m), {}).coordinate : m \in manifests})
        others == packages \ rootPackage
        components == {BuildComponent(CargoComponentReference(p),
                                      PackageFinding("cargo", p.name, {p.version}, p.checksum), p.source) : p \in others}
        Targets(p) == {CargoComponentReference(q) : q \in UNION {ResolveCargoDependencies(others, d) : d \in p.dependencies}}
        edges == UNION {{<<CargoComponentReference(p), to>> : to \in Targets(p)} : p \in others}
    IN  {FinalizeDocument(root, components,
             WithRootDependencies(root, components, edges, UNION {Targets(p) : p \in rootPackage}))}

-----------------------------------------------------------------------------
(* Requirements: everything they list is a dependency of the root.  The    *)
(* files are read by the rules of the scan.                                *)

CollectRequirementsEntries(files, file) ==
    CollectRequirementsFindings(files, [ok |-> TRUE, entries |-> <<>>, constraints |-> {},
                                        entryVisited |-> {}, constraintVisited |-> {}], file)

EnsureRequirementConstraintCompatible(entry, constraints) ==
    \A c \in Constrained(entry, constraints) : /\ Agree(entry.version, c.version)
                                               /\ Agree(entry.integrity, c.integrity)

DedupeRequirementsEntries(entries) ==
    LET Findings == [i \in DOMAIN entries |->
                        PackageFinding("pypi", entries[i].name, entries[i].version, entries[i].integrity)]
    IN  Range(DedupeScanFindings(Findings))

LoadRequirementsSbom(files, file) ==
    LET s == CollectRequirementsEntries(files, file)
        root == BuildRoot("pypi", {})
        Reference(f) == <<"pypi:req", SanitizeReference(f.coordinate.name),
                          IF f.coordinate.version = {} THEN {"unspecified"} ELSE f.coordinate.version>>
        findings == DedupeRequirementsEntries([i \in DOMAIN s.entries |->
                        ApplyRequirementConstraints(s.entries[i], s.constraints)])
    IN  IF ~s.ok \/ \E i \in DOMAIN s.entries : ~EnsureRequirementConstraintCompatible(s.entries[i], s.constraints)
        THEN {}
        ELSE {FinalizeDocument(root, {BuildComponent(Reference(f), f, {}) : f \in findings},
                               {<<root.ref, Reference(f)>> : f \in findings})}

-----------------------------------------------------------------------------
(* A Maven dependency tree, read line by line with the stack of the        *)
(* packages that enclose the line.                                         *)

(* Artifacts other than plain jars cannot be told apart by a coordinate.   *)
Representable(line) == line.jar /\ ~line.classifier

MavenTreeRoot(s, line) ==
    IF ~Representable(line) \/ s.root # {} THEN [s EXCEPT !.ok = FALSE]
    ELSE LET root == BuildRoot("maven", {line.coordinate})
         IN  [s EXCEPT !.root = {root}, !.stack = <<root.ref>>]

MavenTreeEntry(s, line) ==
    LET reference == PurlReference(line.coordinate)
        component == BuildComponent(reference, [coordinate |-> line.coordinate, integrity |-> {}], {})
    IN  CASE s.root = {} \/ line.conflict -> s
          [] ~Representable(line) \/ line.depth > Len(s.stack) -> [s EXCEPT !.ok = FALSE]
          [] OTHER -> [s EXCEPT !.components = @ \cup {component},
                                !.edges = @ \cup {<<s.stack[line.depth], reference>>},
                                !.stack = Append(SubSeq(@, 1, line.depth), reference)]

LoadMavenDependencyTreeSbom(lines) ==
    LET Line(s, line) == CASE ~s.ok -> s
                           [] line.is = "root" -> MavenTreeRoot(s, line)
                           [] line.is = "entry" -> MavenTreeEntry(s, line)
                           [] OTHER -> s
        end == FoldLeft(Line, [ok |-> TRUE, root |-> {}, components |-> {}, edges |-> {}, stack |-> <<>>], lines)
    IN  IF end.ok THEN {FinalizeDocument(root, end.components, end.edges) : root \in end.root} ELSE {}

-----------------------------------------------------------------------------
(* A container image, from the JSON of Syft: its packages depend on        *)
(* nothing but the image.                                                  *)
SbomComponentFromSyftArtifact(artifact) ==
    {BuildComponent(PurlReference(f.coordinate), f, {}) : f \in ScanFindingFromSyftArtifact(artifact)}

(* The image by its registry, repository, tag and digest.                  *)
DockerRoots(image, syft) ==
    {BuildRoot("docker-oci", {DockerImageFinding(ref, syft).coordinate}) : ref \in ParseDockerImageReference(image)}

LoadDockerSyftSbom(image, syft) ==
    LET found == FlattenSeq([i \in DOMAIN syft.artifacts |->
                                InOrder(SbomComponentFromSyftArtifact(syft.artifacts[i]))])
        components == FirstOf(found, LAMBDA c : c.coordinate)
    IN  {FinalizeDocument(root, components, {<<root.ref, c.ref>> : c \in components}) :
            root \in DockerRoots(image, syft)}

(* One input is chosen; a lockfile is read by its name.                    *)
LoadSbomDocument(in) ==
    CASE in.command = "npm" -> LoadPackageLockSbom(in.file)
      [] in.command = "pnpm" -> LoadPnpmLockSbom(in.file)
      [] in.command = "cargo" -> LoadCargoLockSbom(in.file, in.tree)
      [] in.command = "pypi" -> LoadRequirementsSbom(in.file, "requirements.txt")
      [] in.command = "tree" -> LoadMavenDependencyTreeSbom(in.file)
      [] in.command = "docker" -> LoadDockerSyftSbom(in.image, in.file)
      [] OTHER -> {}

-----------------------------------------------------------------------------
(* Decisions.                                                              *)

SupportsRemoteDecisionEnrichment(document) ==
    /\ document.root.ecosystem \in {"npm", "pypi"}
    /\ document.components # <<>>
    /\ \A c \in Range(document.components) : c.coordinate.ecosystem \in {"npm", "pypi"}

DecisionInputs(document) ==
    [i \in DOMAIN document.components |->
        [coordinate |-> document.components[i].coordinate, integrity |-> document.components[i].integrity,
         decision |-> "allow"]]

ApplyInOrder(document, decisions) ==
    [document EXCEPT !.components = [i \in DOMAIN @ |->
        IF i \in DOMAIN decisions THEN [@[i] EXCEPT !.decision = {decisions[i].decision}] ELSE @[i]]]

(* An answer that does not line up with the components decides nothing.    *)
ApplyResolvedDecisions(document, decisions) ==
    IF /\ Len(decisions) = Len(document.components)
       /\ \A i \in DOMAIN decisions : decisions[i].coordinate = document.components[i].coordinate
    THEN ApplyInOrder(document, decisions)
    ELSE document

EnrichSbomWithDecisions(document, server, config) ==
    LET path == ScanEnrichmentPath(DecisionInputs(document))
        answers == IF path = "none" THEN {} ELSE SubmitScanFindings(server, config, DecisionInputs(document), path)
    IN  IF answers = {} THEN document
        ELSE ApplyResolvedDecisions(document, CHOOSE a \in answers : TRUE)

(* The command never fails for want of a decision.                         *)
RunSbomGenerate(server, stored, in) ==
    {IF SupportsRemoteDecisionEnrichment(d) /\ stored # {}
     THEN EnrichSbomWithDecisions(d, server, CHOOSE c \in stored : TRUE)
     ELSE d : d \in LoadSbomDocument(in)}

-----------------------------------------------------------------------------
(* Rendering.                                                              *)

ParseStandardHash(integrity) == {i \in integrity : i.algorithm \in {"sha256", "sha512"}}

RenderComponent(c, identifier) ==
    [id |-> identifier, coordinate |-> c.coordinate, hash |-> ParseStandardHash(c.integrity),
     source |-> c.source, decision |-> c.decision]

RenderCyclonedx(document) ==
    [root |-> document.root.ref,
     packages |-> {RenderComponent(c, c.ref) : c \in Range(document.components)},
     dependencies |-> document.edges]

(* The last component of a reference has its identifier.                   *)
AssignSpdxIds(document) ==
    [r \in {document.root.ref} \cup {c.ref : c \in Range(document.components)} |->
        LET at == {i \in DOMAIN document.components : document.components[i].ref = r}
        IN  IF at = {} THEN 0 ELSE CHOOSE i \in at : \A j \in at : j <= i]

RenderSpdx(document) ==
    LET ids == AssignSpdxIds(document)
    IN  [root |-> ids[document.root.ref],
         packages |-> {RenderComponent(c, ids[c.ref]) : c \in Range(document.components)},
         dependencies |-> {<<ids[e[1]], ids[e[2]]>> :
                              e \in {e \in document.edges : {e[1], e[2]} \subseteq DOMAIN ids}}]

-----------------------------------------------------------------------------
(* What the inputs mean, on the terms of the tools that write them: which  *)
(* packages there are and which of them a package depends on.  A package   *)
(* is known by its coordinate and its source, the project is the root.     *)
(* told are the dependencies that aedo is to tell of.                      *)

TheRoot == <<"root">>
LockPackage(coordinate, source) == <<"package", coordinate, source>>

(* Node looks in the node_modules of every enclosing directory, the        *)
(* nearest first.                                                          *)
NodeResolves(paths, from, name) ==
    LET Candidate(i) == SubSeq(from, 1, i) \o <<NodeModules>> \o name
        at == {i \in 0..Len(from) : Candidate(i) \in paths}
    IN  {Candidate(i) : i \in {i \in at : \A j \in at : j <= i}}

Kinds == {"dependencies", "optionalDependencies", "peerDependencies", "devDependencies"}

PackageLockMeaning(file) ==
    LET installed == {p \in file.packages : NodeModules \in Range(p.path)}
        At(path) == CHOOSE p \in installed : p.path = path
        Is(p) == IF p \in installed
                 THEN LockPackage(NpmCoordinate(SubSeq(p.path, 1 + Len(p.path) - Len(p.name), Len(p.path)), p.version), {})
                 ELSE TheRoot
        Needed(p, kinds) == {At(to) : to \in UNION {NodeResolves({q.path : q \in installed}, p.path, d.name) :
                                                        d \in {d \in p.needs : d.kind \in kinds}}}
        Edges(kinds) == UNION {{<<Is(p), Is(q)>> : q \in Needed(p, kinds)} : p \in file.packages}
    IN  [packages |-> {Is(p) : p \in installed}, edges |-> Edges(Kinds), told |-> Edges({"dependencies"}),
         whole |-> \A p \in installed : Needed(p, Kinds) = Needed(p, {"dependencies"})]

(* A forest of packages, each under the one that needs it.                 *)
RECURSIVE ForestEdges(_, _, _)
ForestEdges(Is(_), above, forest) ==
    {<<above, Is(n)>> : n \in forest} \cup UNION {ForestEdges(Is, Is(n), n.dependencies) : n \in forest}

ForestMeaning(Is(_), forest) ==
    [packages |-> {Is(n) : n \in ForestNodes(forest)}, edges |-> ForestEdges(Is, TheRoot, forest)]

(* The older package-lock says where a package is installed, and says in   *)
(* requires what it depends on: on the one inside it, or else beside it.   *)
RequiredBy(forest, n) ==
    LET Named(nodes) == {m \in nodes : m.name \in n.requires}
    IN  Named(n.dependencies) \cup {m \in Named(forest) : \A c \in Named(n.dependencies) : c.name # m.name}

LegacyMeaning(Is(_), forest) ==
    LET nested == ForestMeaning(Is, forest)
    IN  [packages |-> nested.packages, told |-> nested.edges,
         edges |-> {<<TheRoot, Is(n)>> : n \in forest}
                       \cup UNION {{<<Is(n), Is(m)>> : m \in RequiredBy(forest, n)} : n \in forest},
         whole |-> \A n \in forest : RequiredBy(forest, n) = n.dependencies]

NpmNode(n) == LockPackage(NpmCoordinate(n.name, n.version), {})
MavenNode(n) == LockPackage(MavenCoordinate(<<"g">>, n.name, n.version), {})

(* The lines Maven prints of a forest; a version that lost a conflict is   *)
(* printed without what it depends on.                                     *)
RECURSIVE TreeLinesOf(_, _)
TreeLinesOf(forest, depth) ==
    LET nodes == InOrder(forest)
        EntryLine(n, conflict) ==
            [is |-> "entry", depth |-> depth, conflict |-> conflict, jar |-> TRUE, classifier |-> FALSE,
             coordinate |-> MavenCoordinate(<<"g">>, n.name, IF conflict THEN {"9"} ELSE n.version)]
    IN  FlattenSeq([i \in DOMAIN nodes |->
            <<EntryLine(nodes[i], FALSE)>> \o TreeLinesOf(nodes[i].dependencies, depth + 1)
                \o <<EntryLine(nodes[i], TRUE)>>])

(* Cargo writes the shortest form of a dependency that no other package of *)
(* the lockfile shares.                                                    *)
CargoSpec(packages, p) ==
    LET Alone(Same(_)) == \A q \in packages : Same(q) => q = p
        short == Alone(LAMBDA q : q.name = p.name)
        middle == Alone(LAMBDA q : q.name = p.name /\ q.version = p.version)
    IN  [name |-> p.name, version |-> IF short THEN {} ELSE {p.version},
         source |-> IF short \/ middle THEN {} ELSE p.source]

CargoLockOf(graph) ==
    {[name |-> p.name, version |-> p.version, source |-> p.source, checksum |-> {},
      dependencies |-> {CargoSpec(DOMAIN graph, q) : q \in graph[p]}] : p \in DOMAIN graph}

CargoMeaning(graph, root) ==
    LET Is(p) == IF p \in root THEN TheRoot
                 ELSE LockPackage(Found("cargo", <<>>, p.name, {p.version}, {}).coordinate, p.source)
    IN  [packages |-> {Is(p) : p \in DOMAIN graph \ root},
         edges |-> UNION {{<<Is(p), Is(q)>> : q \in graph[p]} : p \in DOMAIN graph}]

PnpmMeaning(graph, direct) ==
    LET Is(k) == LockPackage(NpmCoordinate(k.name, {k.version}), {})
    IN  [packages |-> {Is(k) : k \in DOMAIN graph},
         edges |-> {<<TheRoot, Is(k)>> : k \in direct}
                       \cup UNION {{<<Is(k), Is(q)>> : q \in graph[k]} : k \in DOMAIN graph}]

ListMeaning(coordinates) ==
    [packages |-> {LockPackage(c, {}) : c \in coordinates},
     edges |-> {<<TheRoot, LockPackage(c, {})>> : c \in coordinates}]

-----------------------------------------------------------------------------
(* Bounded inputs.                                                         *)

Sbom(command, file, meaning) ==
    [what |-> [command |-> command, file |-> file, tree |-> <<>>, image |-> Images], ok |-> TRUE,
     meaning |-> meaning @@ [told |-> meaning.edges, whole |-> TRUE],
     server |-> [against |-> {}, decision |-> "allow_with_warning", does |-> "fails"], stored |-> {}]

(* Packages of node_modules, nested to depth three, and of a workspace.    *)
InstallPaths == {<<NodeModules, "a">>, <<NodeModules, "b">>, <<NodeModules, ScopeSign, "b">>, <<NodeModules, "s-b">>,
                 <<NodeModules, "a", NodeModules, "b">>, <<NodeModules, "a", NodeModules, "c">>,
                 <<NodeModules, "a", NodeModules, "c", NodeModules, "b">>, <<"packages", "x", NodeModules, "b">>}

PackageLockFile(paths, direct, nested) ==
    [project |-> {<<"root">>}, dependencies |-> {},
     packages |-> {[path |-> p, integrity |-> {}, version |-> {<<"0", "1", "2", "3", "4", "5", "6">>[Len(p) + 1]},
                    name |-> IF ScopeSign \in Range(p) THEN <<ScopeSign, "b">>
                             ELSE IF p = <<>> THEN <<>> ELSE <<Last(p)>>,
                    needs |-> CASE p = <<>> -> direct
                                [] p # <<>> /\ Last(p) \in {"a", "c", "x"} -> nested
                                [] OTHER -> {}] :
                      p \in paths \cup {<<>>, <<"packages", "x">>}}]

Needs(kind, names) == {[kind |-> kind, name |-> n] : n \in names}

PackageLockSboms ==
    {LET file == PackageLockFile(paths, direct, nested) IN Sbom("npm", file, PackageLockMeaning(file)) :
        paths \in SUBSET InstallPaths,
        direct \in {{}, Needs("dependencies", {<<"b">>}), Needs("dependencies", {<<"a">>, <<ScopeSign, "b">>}),
                    Needs("dependencies", {<<"a">>}) \cup Needs("devDependencies", {<<"b">>})},
        nested \in {{}, Needs("dependencies", {<<"b">>}), Needs("dependencies", {<<"a">>, <<ScopeSign, "b">>}),
                    Needs("dependencies", {<<"a">>}) \cup Needs("optionalDependencies", {<<"b">>})}}

(* Packages inside others require nothing.                                 *)
LegacySboms ==
    UNION {{LET forest == {[requires |-> requires[n.name]] @@ n : n \in f}
            IN  Sbom("npm", [project |-> {}, packages |-> {}, dependencies |-> forest], LegacyMeaning(NpmNode, forest)) :
               requires \in [{n.name : n \in f} -> SUBSET {PackageA, PackageB}]} : f \in Forests}

MavenSboms ==
    {Sbom("tree", <<[is |-> "noise"],
                    [is |-> "root", coordinate |-> MavenCoordinate(<<"g">>, <<"root">>, {"0"}),
                     jar |-> TRUE, classifier |-> FALSE]>> \o TreeLinesOf(f, 1),
          ForestMeaning(MavenNode, f)) : f \in Forests}

PnpmKeys == [name : {<<"a">>, <<ScopeSign, "b">>}, version : {"1"}, peers : {"", "(p)"}, separator : {"@"}]

PnpmSboms ==
    UNION {UNION {{Sbom("pnpm", [packages |-> {[key |-> [k EXCEPT !.peers = ""], integrity |-> {}] : k \in keys},
                                 snapshots |-> {[key |-> k, dependencies |-> graph[k]] : k \in keys},
                                 importers |-> {direct}],
                        PnpmMeaning(graph, direct)) :
                      graph \in [keys -> {{}} \cup {{k} : k \in keys}]} :
                  direct \in {{}} \cup {{k} : k \in keys}} :
              keys \in {keys \in SUBSET PnpmKeys : Cardinality(keys) <= 3}}

Crate(name, version, source) == [name |-> name, version |-> version, source |-> source]
RootCrate == Crate(<<"r">>, "0", {})
LeafCrates == {Crate(<<"a">>, "1", {"registry"}), Crate(<<"a">>, "2", {"registry"}), Crate(<<"a">>, "1", {"git"})}
MiddleCrate == Crate(<<"b">>, "1", {"registry"})

(* The manifest beside the lockfile: the package, a workspace whose only   *)
(* member it is, once the excluded ones are left out, or none that tells.  *)
CargoManifestOf(packages, workspaces) == [package |-> packages, workspace |-> workspaces]
Member(glob, names) == [glob |-> glob, paths |-> {<<"crates", n>> : n \in names}]
Members(members, defaults, exclude) ==
    [members |-> members, defaultMembers |-> defaults, exclude |-> exclude, version |-> {"0"}]
CrateManifests ==
    (<<"crates", "r">> :> CargoManifestOf({[name |-> <<"r">>, version |-> {"workspace"}]}, {}))
        @@ (<<"crates", "x">> :> CargoManifestOf({[name |-> <<"x">>, version |-> {"1"}]}, {}))

SourceTrees ==
    {[tree |-> (<<>> :> CargoManifestOf({[name |-> <<"r">>, version |-> {"0"}]}, {})), known |-> TRUE],
     [tree |-> (<<>> :> CargoManifestOf({}, {Members({Member(TRUE, {"r", "x"})}, {}, {Member(FALSE, {"x"})})}))
                   @@ CrateManifests, known |-> TRUE],
     [tree |-> (<<>> :> CargoManifestOf({}, {Members({Member(TRUE, {"r", "x"})}, {Member(FALSE, {"r"})}, {})}))
                   @@ CrateManifests, known |-> TRUE],
     [tree |-> (<<>> :> CargoManifestOf({}, {Members({Member(TRUE, {"r", "x"})}, {}, {})})) @@ CrateManifests, known |-> FALSE],
     [tree |-> CrateManifests, known |-> FALSE]}

CargoSboms ==
    UNION {{LET graph == [p \in leaves \cup {RootCrate, MiddleCrate} |->
                             CASE p = RootCrate -> top [] p = MiddleCrate -> middle [] OTHER -> {}]
            IN  [Sbom("cargo", CargoLockOf(graph), CargoMeaning(graph, IF t.known THEN {RootCrate} ELSE {}))
                    EXCEPT !.what.tree = t.tree] :
               t \in SourceTrees, top \in SUBSET (leaves \cup {MiddleCrate}), middle \in SUBSET leaves} :
           leaves \in SUBSET LeafCrates}

RequirementsSboms ==
    {[Sbom("pypi", f, ListMeaning(RequirementsMeaning(f).coordinates)) EXCEPT !.ok = RequirementsMeaning(f).ok] :
        f \in SmallRequirements
              \cup {f \in RequirementFiles : "limits.txt" \in DOMAIN f /\ f["base.txt"] = <<Refers("-c", "limits.txt")>>}}

ImageSboms ==
    {Sbom("docker", [manifestDigest |-> {}, artifacts |-> <<Artifact(t, m), Artifact(u, n)>>],
          ListMeaning({Found(t, <<>>, m, {"1"}, {}).coordinate, Found(u, <<>>, n, {"1"}, {}).coordinate})) :
        t, u \in {"npm", "pypi", "cargo"}, m, n \in {<<"a">>, <<"b">>}}

(* Documents of several components, before every kind of server.           *)
DecidedSboms ==
    {[x EXCEPT !.server = s, !.stored = {[api |-> "api", profile |-> {}]}] :
        s \in Servers,
        x \in {LET file == PackageLockFile(paths, Needs("dependencies", {<<"a">>}), Needs("dependencies", {<<"b">>}))
               IN  Sbom("npm", file, PackageLockMeaning(file)) :
                   paths \in {paths \in SUBSET InstallPaths : Cardinality(paths) \in 2..3}}}

-----------------------------------------------------------------------------
(* Two components with the same reference cannot be told apart by edges:   *)
(* names that differ in their scope sign or separators collapse.           *)
ReferencesDistinct(paths) ==
    \A p, q \in paths : SanitizeReference(p) = SanitizeReference(q) => p = q

Identities(rendered, id) ==
    IF id = rendered.root THEN {TheRoot}
    ELSE {LockPackage(p.coordinate, p.source) : p \in {p \in rendered.packages : p.id = id}}

Faithful(rendered, in) ==
    LET edges == UNION {Identities(rendered, e[1]) \X Identities(rendered, e[2]) : e \in rendered.dependencies}
        Within(pairs) == {e \in pairs : e[1] # TheRoot}
        declared == in.meaning.told \ Within(in.meaning.told)
        Verdict(c) == IF c.name \in in.server.against THEN in.server.decision ELSE "allow"
    IN  /\ {LockPackage(p.coordinate, p.source) : p \in rendered.packages} = in.meaning.packages
        /\ Within(edges) = Within(in.meaning.told)
        /\ Within(edges) = Within(in.meaning.edges) <=> in.meaning.whole
        /\ declared # {} => edges \ Within(edges) = declared
        /\ \A e \in rendered.dependencies : Identities(rendered, e[1]) # {} /\ Identities(rendered, e[2]) # {}
        /\ \A p \in rendered.packages :
               /\ p.decision \subseteq {Verdict(p.coordinate)}
               /\ in.server.does = "answers" /\ in.stored # {} => p.decision # {}

(* The document that aedo sbom generate writes, in CycloneDX and in SPDX,  *)
(* has exactly the packages of the lockfile, the requirements, the tree or *)
(* the image, and exactly the dependencies between them that pnpm, Cargo   *)
(* or Maven resolve; no edge dangles, and a decision on a component is the *)
(* one the control plane took on its own coordinate, whatever order or     *)
(* length its answer has.  Of npm's dependencies it has those that are     *)
(* listed under dependencies, so all of them exactly if no optional, peer  *)
(* or dev dependency resolves to another package; and of those of an older *)
(* package-lock the nesting, which is what its packages depend on exactly  *)
(* if each requires just the packages inside it.  A project that declares  *)
(* no dependencies has an edge to whatever nothing else depends on.        *)
(* A package is known by its directory; package-locks in which the         *)
(* sanitized references of two directories are equal are left out.         *)
SbomIsFaithful ==
    Drawn("sbom") =>
        LET in == sample.in
            documents == RunSbomGenerate(in.server, in.stored, in.what)
        IN  /\ (documents # {}) = in.ok
            /\ (in.what.command = "npm" => ReferencesDistinct({p.path : p \in in.what.file.packages}))
                   => \A d \in documents : Faithful(RenderCyclonedx(d), in) /\ Faithful(RenderSpdx(d), in)
=============================================================================
