----------------------------- MODULE Manifests ------------------------------
(***************************************************************************)
(* The Surgeon's structured reading of package manifests: package.json,    *)
(* setup.cfg, pom.xml, Cargo.toml, Cargo.lock, pyproject.toml, the METADATA *)
(* of a wheel and top_level.txt.  A manifest is the record of what the     *)
(* scanner looks for in it; a scan is the set of the indicators it emits,  *)
(* each [type, severity, about].                                           *)
(***************************************************************************)
EXTENDS Sampling, Integers, Sequences, FiniteSets, SequencesExt

Emit(type, severity, about) == [type |-> type, severity |-> severity, about |-> about]

EmitIf(condition, type, severity) == IF condition THEN {Emit(type, severity, "")} ELSE {}

-----------------------------------------------------------------------------
(* npm.                                                                    *)

NpmLifecycleHooks == {"preinstall", "install", "postinstall", "prepare", "prepack",
                      "postpack", "prepublish", "prepublishOnly"}

MaxNpmDependencies == 100

ScanNpmScripts(scripts) ==
    {Emit("npm-lifecycle-hook", "critical", s.name) : s \in {s \in scripts : s.name \in NpmLifecycleHooks}}
    \cup {Emit("npm-script-network-call", "critical", s.name) : s \in {s \in scripts : s.network}}
    \cup EmitIf(\E s \in scripts : s.substitutes, "npm-script-shell-construction", "high")

ScanNpmDependencies(dependencies) ==
    {Emit("npm-non-registry-dependency", "high", d.name) :
        d \in {d \in dependencies : /\ d.section \in {"dependencies", "optionalDependencies"}
                                    /\ d.source \in {"file:", "git+", "github:", "git://"}}}
    \cup {Emit("npm-suspicious-dependency-name", "critical", d.name) : d \in {d \in dependencies : d.odd}}
    \cup EmitIf(Cardinality(dependencies) > MaxNpmDependencies, "npm-excessive-dependencies", "medium")

ScanPackageJson(m) ==
    IF ~m.parses THEN {Emit("malformed-package-json", "medium", "")}
    ELSE ScanNpmScripts(m.scripts)
         \cup EmitIf(m.bin, "npm-executable-entry-point", "medium")
         \cup EmitIf(m.install, "npm-root-install-field", "high")
         \cup ScanNpmDependencies(m.dependencies)

-----------------------------------------------------------------------------
(* Python.                                                                 *)

(* setup.cfg is read line by line under the section last opened.           *)
ScanSetupCfg(lines) ==
    LET Section(i) == LET opened == {j \in 1..i : lines[j].is = "section"}
                      IN  IF opened = {} THEN "none"
                          ELSE lines[CHOOSE j \in opened : \A k \in opened : k <= j].name
        Within(i, name) == lines[i].is # "section" /\ Section(i) = name
    IN  UNION {
        {Emit("python-setup-cfg-entry-point", "medium", i) :
            i \in {i \in DOMAIN lines : Within(i, "options.entry_points") /\ lines[i].is = "assignment"}},
        {Emit("python-setup-cfg-setup-requires", "high", i) :
            i \in {i \in DOMAIN lines : Within(i, "options") /\ lines[i].is = "setup_requires"}},
        {Emit("ai-agent-injection", "critical", i) :
            i \in {i \in DOMAIN lines : lines[i].is = "injection"}}}

KnownBuildBackends == {"setuptools", "hatchling", "flit_core", "maturin", "poetry-core",
                       "pdm-backend", "scikit-build-core"}

ScanPyprojectToml(m) ==
    IF ~m.parses THEN {Emit("malformed-pyproject-toml", "medium", "")}
    ELSE {Emit("python-entry-point", "medium", s) : s \in m.scripts}
         \cup {Emit("python-unusual-build-backend", "high", r) : r \in m.requires \ KnownBuildBackends}
         \cup EmitIf({"cmdclass", "package_data"} \cap m.setuptools # {}, "python-setuptools-custom-hook", "high")

TopLevelModules(names) ==
    IF names = {} THEN {} ELSE {Emit("python-top-level-module-hint", "info", names)}

MaxRequiresDist == 50

ScanWheelMetadata(m) ==
    EmitIf(m.injection, "ai-agent-injection", "critical")
    \cup EmitIf(m.homePage \notin {"", "http", "https"}, "python-unusual-home-page", "low")
    \cup EmitIf(m.requiresDist > MaxRequiresDist, "python-excessive-dependencies", "medium")
    \cup TopLevelModules(m.importNames)

-----------------------------------------------------------------------------
(* Maven.  Dependencies of plugins are not dependencies of the project.    *)

ScanPomDependencies(dependencies) ==
    EmitIf(dependencies # {}, "maven-dependency", "low")
    \cup EmitIf(\E d \in dependencies : d.scope \notin {"", "compile"}, "maven-dependency-scope", "low")
    \cup EmitIf(\E d \in dependencies : d.classifier, "maven-dependency-classifier", "low")

ScanPomBuild(m) ==
    EmitIf(m.plugins > 0, "maven-build-plugin", "high")
    \cup EmitIf(m.repositories > 0, "maven-repository-override", "high")
    \cup EmitIf(m.parent, "maven-parent-pom", "medium")
    \cup EmitIf(m.relocation, "maven-relocation", "high")

ScanPomXml(m) ==
    IF ~m.parses \/ ~m.project THEN {Emit("malformed-pom-xml", "medium", "")}
    ELSE ScanPomDependencies({d \in m.dependencies : ~d.ofPlugin}) \cup ScanPomBuild(m)

-----------------------------------------------------------------------------
(* Cargo.                                                                  *)

CargoSections == {"dependencies", "dev-dependencies", "build-dependencies"}

SourceIndicator == [git |-> "cargo-git-dependency", path |-> "cargo-path-dependency",
                    registry |-> "cargo-alternate-registry-dependency"]

(* Only a dependency that is written as a table can name a source.         *)
ScanCargoDependencyTable(dependencies) ==
    UNION {{Emit(SourceIndicator[s], "high", d.name) : s \in d.sources \cap DOMAIN SourceIndicator} :
             d \in {d \in dependencies : d.table}}

OptionalNames(dependencies) == {d.name : d \in {d \in dependencies : d.table /\ d.optional}}

ScanCargoTargetTablesAlone(targets) ==
    UNION {ScanCargoDependencyTable(t["dependencies"]) : t \in targets}

ScanCargoTargetTables(targets) ==
    UNION {UNION {ScanCargoDependencyTable(t[s]) : s \in CargoSections} : t \in targets}

(* A reference to an optional dependency enables it unless it is           *)
(* conditional (dep?/feature); dep: takes away its implicit feature.       *)
CargoFeatureGraph(features, optional) ==
    LET named == UNION {f.references : f \in features}
        replaced == {r.name : r \in {r \in named : r.dep /\ r.name \in optional}}
        implicit == Cardinality(optional \ replaced)
        Edges(P(_)) == FoldLeft(LAMBDA n, f : n + Cardinality({r \in f.references : P(r)}), 0, SetToSeq(features))
    IN  [features |-> Cardinality(features) + implicit,
         edges |-> Edges(LAMBDA r : TRUE) + implicit,
         optionalEdges |-> Edges(LAMBDA r : ~r.conditional /\ r.name \in optional) + implicit]

(* A build script is declared by its path or by build = true.              *)
ScanCargoBuild(m) ==
    EmitIf(m.build \notin {"absent", "false", ""}, "cargo-build-script", "critical")
    \cup EmitIf(m.procMacro, "cargo-proc-macro", "high")

ScanCargoOverrides(m) ==
    EmitIf(m.patch, "cargo-patch-override", "high") \cup EmitIf(m.replace, "cargo-replace-override", "high")

(* What the dependency tables, those of targets included, add up to.       *)
CargoDependencyAnalysis(m, optional) ==
    LET tables(s) == {m.sections[s]} \cup {t[s] : t \in m.targets}
    IN  EmitIf(\E t \in tables("build-dependencies") : t # {}, "cargo-build-dependency", "high")
        \cup EmitIf(\E t \in tables("dev-dependencies") : t # {}, "cargo-dev-dependency", "low")
        \cup EmitIf(optional # {}, "cargo-optional-dependency", "low")
        \cup EmitIf(\E t \in m.targets, s \in CargoSections : t[s] # {}, "cargo-target-specific-dependency", "low")
        \cup EmitIf(CargoFeatureGraph(m.features, optional).features > 0, "cargo-feature-graph", "low")

ScanCargoToml(m) ==
    LET optional == OptionalNames(UNION {UNION {t[s] : s \in CargoSections} : t \in m.targets \cup {m.sections}})
    IN  IF ~m.parses THEN {Emit("malformed-cargo-toml", "medium", "")}
        ELSE UNION {
            ScanCargoBuild(m),
            UNION {ScanCargoDependencyTable(m.sections[s]) : s \in CargoSections},
            ScanCargoTargetTables(m.targets),
            CargoDependencyAnalysis(m, optional),
            ScanCargoOverrides(m)}

(* The names that some package of the lockfile depends on.                 *)
CargoLockLocalNames(packages) == UNION {{d.name : d \in p.dependencies} : p \in packages}

(* The source of a locked package has a scheme and the words of an address;*)
(* an address that has the index of crates.io anywhere in it is taken for  *)
(* that index.                                                             *)
CratesIoIndexes == {"github.com/rust-lang/crates.io-index", "index.crates.io"}

IsDefaultCratesIoSource(source) == \E i \in DOMAIN source.url : source.url[i] \in CratesIoIndexes

(* A package without a source is the workspace's own; it is a path         *)
(* dependency when another package depends on one of its name.  Schemes    *)
(* other than these three are passed over.                                 *)
CargoLockSourceKinds(packages, p) ==
    {k \in DOMAIN SourceIndicator :
       \/ p.source.scheme = "git+" /\ k = "git"
       \/ p.source.scheme = "path+" /\ k = "path"
       \/ p.source.scheme = "registry+" /\ k = "registry" /\ ~IsDefaultCratesIoSource(p.source)
       \/ p.source.scheme = "none" /\ k = "path" /\ p.name \in CargoLockLocalNames(packages)}

ScanCargoLock(m) ==
    IF ~m.parses THEN {Emit("malformed-cargo-lock", "medium", "")}
    ELSE UNION {{Emit(SourceIndicator[k], "high", p.name) : k \in CargoLockSourceKinds(m.packages, p)} :
                  p \in m.packages}

-----------------------------------------------------------------------------
(* Bounded inputs and the property.                                        *)

CargoDependencies ==
    {[name |-> n, table |-> t, optional |-> o, sources |-> s] :
        n \in {"a"}, t \in BOOLEAN, o \in BOOLEAN,
        s \in {{}, {"git"}, {"path"}, {"git", "path"}, {"registry"}, {"registry-index"}}}

OneSection == {[s \in CargoSections |-> IF s = chosen THEN {d} ELSE {}] :
                  chosen \in CargoSections, d \in CargoDependencies}

NoDependencies == [s \in CargoSections |-> {}]

CargoFeatureSets ==
    {{}} \cup {{[name |-> "f", references |-> {[dep |-> x, name |-> "a", conditional |-> c]}]} :
                  x, c \in BOOLEAN}

CargoTomls ==
    {[parses |-> TRUE, build |-> "absent", procMacro |-> FALSE, sections |-> s, targets |-> t,
      features |-> f, patch |-> FALSE, replace |-> FALSE] :
        s \in OneSection \cup {NoDependencies}, t \in {{}} \cup {{x} : x \in OneSection}, f \in CargoFeatureSets}

Source(scheme, url) == [scheme |-> scheme, url |-> url]

LockSources ==
    {Source("none", <<>>), Source("git+", <<"host">>), Source("path+", <<"crate">>)}
        \cup {Source(scheme, url) : scheme \in {"registry+", "sparse+"},
                                   url \in {<<"index.crates.io">>, <<"host">>, <<"host", "index.crates.io">>}}

CargoLocks ==
    {[parses |-> TRUE, packages |-> {[name |-> "root", version |-> "1", source |-> Source("none", <<>>),
                                      dependencies |-> {d}], p, q}] :
        d \in [name : {"a", "b"}, version : {{}, {"1"}}],
        p, q \in [name : {"a", "b"}, version : {"1", "2"}, source : LockSources,
                  dependencies : {{}, {[name |-> "a", version |-> {"2"}]}}]}

CargoManifests == [toml : CargoTomls] \cup [lock : CargoLocks]

Reported(indicators, kind, name) == \E i \in indicators : i.type = SourceIndicator[kind] /\ i.about = name

Resolves(dependency, p) == p.name = dependency.name /\ dependency.version \subseteq {p.version}

(* What the source of a locked package is, unless it is crates.io.         *)
ForeignKinds(source) ==
    CASE source.scheme \in {"none", "path+"} -> {"path"}
      [] source.scheme = "git+" -> {"git"}
      [] source.scheme \in {"registry+", "sparse+"} ->
            IF \E index \in CratesIoIndexes : source.url = <<index>> THEN {} ELSE {"registry"}
      [] OTHER -> {}

(* The registries that the scan of a lockfile does not tell from crates.io.*)
PassesForCratesIo(source) ==
    source.scheme = "sparse+" \/ (source.scheme = "registry+" /\ IsDefaultCratesIoSource(source))

(* Every dependency of a crate that does not come from crates.io is        *)
(* reported with the kind of its source, whichever section or target of    *)
(* Cargo.toml declares it and however a package of Cargo.lock refers to it,*)
(* with these exceptions: Cargo.toml must name the registry by registry    *)
(* (not registry-index), and nothing is said of the packages of a lockfile *)
(* whose registry is sparse or has the index of crates.io in its address.  *)
CargoSourcesReported ==
    Drawn("cargo manifest") =>
        IF "toml" \in DOMAIN sample.in
        THEN LET m == sample.in.toml
             IN  \A t \in m.targets \cup {m.sections}, s \in CargoSections : \A d \in t[s] :
                     d.table => \A k \in d.sources \ {"registry-index"} : Reported(ScanCargoToml(m), k, d.name)
        ELSE LET m == sample.in.lock
             IN  /\ \A p \in m.packages : \A d \in p.dependencies : \A q \in m.packages :
                       Resolves(d, q) /\ ~PassesForCratesIo(q.source)
                           => \A k \in ForeignKinds(q.source) : Reported(ScanCargoLock(m), k, q.name)
                 /\ \A q \in m.packages :
                       (\A p \in m.packages : p.name = q.name => PassesForCratesIo(p.source))
                           => \A k \in DOMAIN SourceIndicator : ~Reported(ScanCargoLock(m), k, q.name)
=============================================================================
