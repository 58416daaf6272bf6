----------------------------- MODULE StaticScan -----------------------------
(***************************************************************************)
(* The Surgeon's scanner: an artifact is unpacked under limits, the tree   *)
(* is walked, nested ZIP containers are opened to depth one, and each file *)
(* is read by its manifest reader, its AST walk and the pattern rules.     *)
(* A text is the set of the marks the patterns match, with its syntax      *)
(* tree; a class file is its constant pool and the members its methods     *)
(* use.  The result is the set of indicators, each with its file.          *)
(***************************************************************************)
EXTENDS Manifests, TLC, Functions

CONSTANTS MaxFileCount, MaxSingleFileBytes, MaxExpandedBytes

-----------------------------------------------------------------------------
(* The rules.                                                              *)

RuntimeRules ==
    [r \in {"javascript-eval", "javascript-function-constructor", "node-child-process",
            "python-exec", "python-eval", "python-subprocess", "sleeper-trigger",
            "ci-environment-gate", "hostname-gate", "counter-file-gate", "remote-config-gate"} |-> "high"]
    @@ [r \in {"credential-path", "worm-cross-package-write"} |-> "critical"]

EcosystemRules ==
    [r \in {"npm-install-lifecycle-hook", "java-runtime-exec", "java-process-builder",
            "java-define-class", "rust-raw-network"} |-> "critical"]
    @@ [r \in {"node-outbound-http", "node-env-read", "python-outbound-http", "python-env-read",
               "java-outbound-http", "java-socket-client", "java-env-read", "java-reflection-load",
               "java-deserialization", "java-filesystem-access", "java-jni-load",
               "java-hardcoded-endpoint-or-token", "java-static-init", "rust-env-read"} |-> "high"]

PayloadRules ==
    [r \in {"hardcoded-npm-token", "hardcoded-github-token", "hardcoded-aws-key",
            "hardcoded-pypi-token", "hardcoded-gcp-oauth", "hardcoded-k8s-serviceaccount-token",
            "private-key-material", "shell-exec-sync", "python-import-time-network"} |-> "critical"]
    @@ [r \in {"shell-command-concatenation", "hex-escape-sequence", "hex-blob",
               "minified-js-payload", "binary-blob-embedded"} |-> "high"]

Rules == RuntimeRules @@ EcosystemRules @@ PayloadRules

NetworkIndicatorTypes == {"node-outbound-http", "python-outbound-http", "java-outbound-http",
                          "java-socket-client", "rust-raw-network"}

Nothing == "nothing"

(* What the code around a network call says of its destination and its     *)
(* payload: window is the set of forms that occur in it.  The first form   *)
(* of a destination that is found is reported with its encoding.           *)
ExtractIndicatorDetails(window) ==
    [destination |-> CASE "url" \in window -> "plaintext"
                       [] "base64 url" \in window -> "base64-decoded"
                       [] "percent url" \in window -> "url-decoded"
                       [] "host:port" \in window -> "plaintext"
                       [] OTHER -> Nothing,
     payload |-> IF "environment" \in window THEN "environment" ELSE Nothing]

(* The rules that match at a mark, and the details of a network call.      *)
ScanRules(marks) ==
    LET matched == {m \in marks : m.rule \in DOMAIN Rules}
        network == {m \in matched : m.rule \in NetworkIndicatorTypes}
    IN  {Emit(m.rule, Rules[m.rule], Nothing) : m \in matched \ network}
        \cup {[type |-> m.rule, severity |-> Rules[m.rule], details |-> ExtractIndicatorDetails(m.window)] :
                 m \in network}

(* Injected instructions count in the files an agent reads; high entropy   *)
(* and long base64 runs count everywhere.                                  *)
ScanWholeText(file, marks) ==
    LET Has(mark) == \E m \in marks : m.rule = mark
    IN  EmitIf(file.agent /\ Has("injection"), "ai-agent-injection", "critical")
        \cup EmitIf(Has("entropy"), "high-entropy-string", "high")
        \cup EmitIf(Has("base64"), "encoded-payload", "medium")

-----------------------------------------------------------------------------
(* The syntax trees.                                                       *)

DangerousNodeBuiltins ==
    [b \in {"child_process", "vm"} |-> "critical"]
    @@ [b \in {"cluster", "worker_threads", "net", "dgram", "dns", "http", "https", "tls"} |-> "high"]

(* The first argument of a call, when it is a string: a module is known by *)
(* its head, without node: and without a subpath.                          *)
Module(head) == [head |-> head]

NoModule == Module(Nothing)

CheckModuleImport(module) ==
    IF module.head \in DOMAIN DangerousNodeBuiltins
    THEN {Emit("js-ast-dangerous-import", DangerousNodeBuiltins[module.head], Nothing)} ELSE {}

JsNode(n) ==
    CASE n.kind = "call" /\ n.callee = "eval" -> {Emit("js-ast-eval", "critical", Nothing)}
      [] n.kind = "call" /\ n.callee \in {"require", "module.require"} ->
             IF n.arg = NoModule THEN {} ELSE CheckModuleImport(n.arg)
      [] n.kind = "call" /\ n.callee \in {"setTimeout", "setInterval", "setImmediate"} ->
             IF n.arg = NoModule THEN {} ELSE {Emit("js-ast-deferred-string-eval", "high", Nothing)}
      [] n.kind = "call" /\ n.callee \in {"execSync", "spawnSync", "execFileSync"} ->
             {Emit("js-ast-shell-exec-sync", "critical", Nothing)}
      [] n.kind = "new" /\ n.callee = "Function" -> {Emit("js-ast-function-constructor", "critical", Nothing)}
      [] n.kind = "import()" /\ n.arg = NoModule -> {Emit("js-ast-dynamic-import", "high", Nothing)}
      [] n.kind \in {"import", "import()"} -> CheckModuleImport(n.arg)
      [] n.kind = "member" /\ n.callee = "process.env" -> {Emit("js-ast-process-env", "high", Nothing)}
      [] OTHER -> {}

DangerousStdlib ==
    [m \in {<<"subprocess">>, <<"pty">>, <<"ctypes">>, <<"builtins">>} |-> "critical"]
    @@ [m \in {<<"os">>, <<"sys">>, <<"socket">>, <<"http", "client">>, <<"urllib", "request">>,
               <<"urllib", "error">>, <<"multiprocessing">>, <<"cffi">>, <<"importlib">>, <<"runpy">>,
               <<"code">>, <<"codeop">>, <<"pickle">>, <<"shelve">>, <<"marshal">>} |-> "high"]

(* The dotted name or its first component is a dangerous module.           *)
EmitForModule(module) ==
    LET hits == {module, <<Head(module)>>} \cap DOMAIN DangerousStdlib
    IN  {Emit("py-ast-dangerous-import", DangerousStdlib[m], Nothing) : m \in hits}

DangerousBuiltins == [b \in {"eval", "exec", "__import__"} |-> "critical"]
                     @@ [b \in {"compile", "open"} |-> "high"]

CheckImportStatement(n) == UNION {EmitForModule(m) : m \in Range(n.modules)}

(* Only the first dotted name below the statement is looked at: behind a   *)
(* relative module that is the first imported name.                        *)
CheckFromImportStatement(n) ==
    IF ~n.relative THEN EmitForModule(Head(n.modules))
    ELSE IF Len(n.modules) > 1 THEN EmitForModule(n.modules[2]) ELSE {}

CheckCallExpression(n) ==
    IF n.callee \in DOMAIN DangerousBuiltins
    THEN {Emit("py-ast-dangerous-call", DangerousBuiltins[n.callee], Nothing)}
    ELSE EmitIf(n.callee = "getattr" /\ n.names \cap {"__import__", "exec", "eval"} # {},
                "py-ast-obfuscated-call", "critical")

PyNode(n) ==
    CASE n.kind = "import" -> CheckImportStatement(n)
      [] n.kind = "from" -> CheckFromImportStatement(n)
      [] n.kind = "call" -> CheckCallExpression(n)
      [] OTHER -> {}

(* Every node of the tree is visited, those below a reported one too.      *)
RECURSIVE WalkNode(_)
WalkNode(n) == {n} \cup UNION {WalkNode(c) : c \in n.below}

Visited(tree) == UNION {WalkNode(n) : n \in tree}

ScanAst(file, text) ==
    CASE file.ext \in {"js", "mjs", "cjs", "jsx", "ts", "mts", "cts", "tsx"} ->
             UNION {JsNode(n) : n \in Visited(text.tree)}
      [] file.ext = "py" -> UNION {PyNode(n) : n \in Visited(text.tree)}
      [] OTHER -> {}

-----------------------------------------------------------------------------
(* One text.                                                               *)

ScanManifest(file, text) ==
    CASE file.name = "package.json" -> ScanPackageJson(text.manifest)
      [] file.name = "pom.xml" -> ScanPomXml(text.manifest)
      [] file.name = "Cargo.toml" -> ScanCargoToml(text.manifest)
      [] file.name = "Cargo.lock" -> ScanCargoLock(text.manifest)
      [] file.name = "pyproject.toml" -> ScanPyprojectToml(text.manifest)
      [] file.name = "setup.cfg" -> ScanSetupCfg(text.manifest)
      [] file.name = "METADATA" -> ScanWheelMetadata(text.manifest)
      [] file.name = "top_level.txt" -> TopLevelModules(text.manifest)
      [] OTHER -> {}

(* A Rust file is an active build script when the Cargo.toml beside it     *)
(* names it, or leaves the default build.rs on.                            *)
IsActiveCargoBuildScript(file, beside) ==
    /\ file.ext = "rs"
    /\ \E m \in beside :
          /\ m.parses
          /\ \/ m.build = file.name
             \/ m.build \in {"absent", "true"} /\ file.name = "build.rs"

ScanText(file, text, beside) ==
    ScanManifest(file, text)
    \cup EmitIf(IsActiveCargoBuildScript(file, beside), "cargo-build-script", "critical")
    \cup ScanAst(file, text)
    \cup ScanRules(text.marks)
    \cup ScanWholeText(file, text.marks)

-----------------------------------------------------------------------------
(* Binaries.                                                               *)

TagSize == [long |-> 8, integer |-> 4, class |-> 2, handle |-> 3]

(* A constant takes one index of the pool, a long or double takes two.     *)
SlotsEach(tag) == 1

Slots(tag) == IF tag = "long" THEN 2 ELSE 1

(* The pool is walked while the index is below the declared count; what    *)
(* stands behind the pool is no tag.  The walk returns the constants it    *)
(* has passed, or -1.                                                      *)
WalkPool(count, pool) ==
    LET Step(walk, tag) ==
            IF walk.index >= count THEN walk
            ELSE [index |-> walk.index + Slots(tag), passed |-> walk.passed + 1]
        walk == FoldLeft(Step, [index |-> 1, passed |-> 0], pool)
    IN  IF walk.index < count THEN -1 ELSE walk.passed

PoolBytes(pool) == FoldLeft(LAMBDA n, tag : n + 1 + TagSize[tag], 0, pool)

(* The header, the pool and the interfaces must fit; a pool that is longer *)
(* than it declares is read as whatever follows, which is left out here.   *)
LooksLikeJavaClassFile(file, b) ==
    /\ file.ext = "class"
    /\ b.magic = "cafebabe"
    /\ b.length >= 24
    /\ b.major \in 45..70
    /\ b.count > 0
    /\ WalkPool(b.count, b.pool) = Len(b.pool)
    /\ b.length >= 10 + PoolBytes(b.pool) + 8 + 2 * b.interfaces

IsVendoredNativeSourcePath(file) == file.ext \in {"c", "cpp", "h", "s", "asm"}

LooksLikeNativeBinary(b) == b.magic \in {"elf", "mz", "ar", "mach-o", "cafebabe"}

IsBundledNativeArtifact(file, b) ==
    /\ ~LooksLikeJavaClassFile(file, b)
    /\ file.ext \in {"a", "so", "dylib", "dll", "lib", "o", "obj", "rlib"} \/ LooksLikeNativeBinary(b)

(* Below target/ of a Cargo source tree nothing native is reported.        *)
IsIgnoredBuildOutputPath(file, cargoSourceRoot) == cargoSourceRoot /\ file.dir = "target"

NativeArtifactIndicators(file, b, cargoSourceRoot) ==
    IF IsIgnoredBuildOutputPath(file, cargoSourceRoot) THEN {}
    ELSE EmitIf(IsVendoredNativeSourcePath(file), "vendored-native-code", "high")
         \cup EmitIf(IsBundledNativeArtifact(file, b), "bundled-native-artifact", "high")

MinString == 6

(* The printable runs that are long enough, read as one text.              *)
ExtractBinaryStrings(b) == UNION {s.marks : s \in {s \in b.strings : s.length >= MinString}}

AsText(marks) == [marks |-> marks, tree |-> {}, manifest |-> Nothing]

(* What the methods of a class use, when there is a method.                *)
DisassembleJavaClass(b) == UNION {m.marks : m \in b.methods}

ScanBinaryContent(file, b) ==
    (IF LooksLikeJavaClassFile(file, b) THEN ScanText(file, AsText(DisassembleJavaClass(b)), {}) ELSE {})
    \cup ScanText(file, AsText(ExtractBinaryStrings(b)), {})

ScanContent(file, content, beside, cargoSourceRoot) ==
    NativeArtifactIndicators(file, content, cargoSourceRoot)
    \cup IF content.utf8 THEN ScanText(file, content, beside) ELSE ScanBinaryContent(file, content)

-----------------------------------------------------------------------------
(* Containers.                                                             *)

IsZipContainer(file) == file.ext \in {"jar", "war", "ear", "whl", "zip"}

IsJavaArchive(file) == file.ext \in {"jar", "war", "ear"}

(* The structure of a JAR: manifest, services, nested archives, shaded     *)
(* classes, resources, and signatures that are complete when one alias has *)
(* both its file and its block.                                            *)
JarStructure(entries) ==
    LET Some(role) == \E e \in entries : e.role = role
        Aliases(role) == {e.alias : e \in {e \in entries : e.role = role}}
        signed == Aliases("signature file") \cup Aliases("signature block") # {}
        complete == Some("manifest") /\ Aliases("signature file") \cap Aliases("signature block") # {}
    IN  UNION {
        EmitIf(Some("manifest"), "jar-manifest-structure", "low"),
        EmitIf(Some("service"), "jar-service-loader-entry", "medium"),
        EmitIf(\E e \in entries : e.file.ext \in {"jar", "war", "ear", "zip"}, "jar-nested-archive", "medium"),
        EmitIf(Some("shaded"), "jar-shaded-class-namespace", "low"),
        EmitIf(Some("resource"), "jar-resource-entry", "low"),
        EmitIf(signed /\ complete, "jar-signature-metadata", "low"),
        EmitIf(signed /\ ~complete, "jar-signature-metadata-incomplete", "medium")}

At(path, indicators) == {[path |-> path, indicator |-> i] : i \in indicators}

(* One container, entry by entry: state is [count, found, seen, over].     *)
(* Entries beyond the file limit end the loop without a word, larger ones  *)
(* and those whose header or data cannot be read are passed over, and      *)
(* nothing is opened a second level down.                                  *)
ScanZipEntry(container, state, e) ==
    IF state.over \/ e.broken = "header" \/ e.file.dir = "directory" THEN state
    ELSE IF e.climbs
    THEN [state EXCEPT !.found = @ \cup At(<<container>>, {Emit("zip-path-traversal", "critical", Nothing)})]
    ELSE IF state.count + 1 > MaxFileCount THEN [state EXCEPT !.count = @ + 1, !.over = TRUE]
    ELSE IF e.size > MaxSingleFileBytes \/ e.broken = "data" THEN [state EXCEPT !.count = @ + 1]
    ELSE [state EXCEPT !.count = @ + 1, !.seen = @ \cup {e},
                       !.found = @ \cup At(<<container, e.file>>, ScanContent(e.file, e.content, {}, FALSE))]

(* What is no ZIP is not read as anything else.                            *)
ScanZipContainer(file, content, count) ==
    LET end == FoldLeft(LAMBDA s, e : ScanZipEntry(file, s, e),
                        [count |-> count, found |-> {}, seen |-> {}, over |-> FALSE], content.entries)
    IN  IF ~content.valid THEN [count |-> count, found |-> {}]
        ELSE [count |-> end.count,
              found |-> end.found \cup IF IsJavaArchive(file) THEN At(<<file>>, JarStructure(end.seen)) ELSE {}]

-----------------------------------------------------------------------------
(* The artifact.                                                           *)

Rejected(reason) == [ok |-> FALSE, reason |-> reason]

Place(file) == IF file.dir = "" THEN <<file.name>> ELSE <<file.dir, file.name>>

(* The directories that an entry makes: its own or those above a file.     *)
DirectoriesOf(e) ==
    {SubSeq(Place(e.file), 1, n) : n \in 1 .. Len(Place(e.file)) - (IF e.kind = "directory" THEN 0 ELSE 1)}

(* create_dir_all fails on a file, and File::create on a directory.        *)
Obstructed(state, e) ==
    \/ \E f \in DOMAIN state.tree : Place(f) \in DirectoriesOf(e)
    \/ e.kind # "directory" /\ Place(e.file) \in state.directories

(* The first entry that breaks a rule, or cannot be written, ends the      *)
(* unpacking.                                                              *)
UnpackEntry(state, e) ==
    IF ~state.ok THEN state
    ELSE IF e.kind = "link" THEN Rejected("link")
    ELSE IF e.climbs THEN Rejected("path")
    ELSE IF e.kind = "directory"
    THEN IF Obstructed(state, e) THEN Rejected("place")
         ELSE [state EXCEPT !.directories = @ \cup DirectoriesOf(e)]
    ELSE IF state.count + 1 > MaxFileCount THEN Rejected("files")
    ELSE IF e.size > MaxSingleFileBytes THEN Rejected("size")
    ELSE IF state.bytes + e.size > MaxExpandedBytes THEN Rejected("expanded")
    ELSE IF Obstructed(state, e) THEN Rejected("place")
    ELSE [ok |-> TRUE, count |-> state.count + 1, bytes |-> state.bytes + e.size,
          directories |-> state.directories \cup DirectoriesOf(e),
          tree |-> (e.file :> e.content) @@ state.tree]

(* A later entry of the same path overwrites the file.                     *)
Unpack(entries) ==
    FoldLeft(UnpackEntry, [ok |-> TRUE, count |-> 0, bytes |-> 0, directories |-> {}, tree |-> <<>>], entries)

ScanFile(tree, state, file) ==
    LET content == tree[file]
        CargoToml(f) == f.dir = file.dir /\ f.name = "Cargo.toml" /\ tree[f].utf8
        beside == {tree[f].manifest : f \in {f \in DOMAIN tree : CargoToml(f)}}
        cargoSourceRoot == \E f \in DOMAIN tree : f.dir = "" /\ f.name = "Cargo.toml"
        zip == ScanZipContainer(file, content, state.count + 1)
    IN  IF ~state.ok THEN state
        ELSE IF state.count + 1 > MaxFileCount THEN Rejected("files")
        ELSE IF content.size > MaxSingleFileBytes
        THEN [ok |-> TRUE, count |-> state.count + 1,
              found |-> state.found
                        \cup At(<<file>>, NativeArtifactIndicators(file, content, cargoSourceRoot)
                                          \cup {Emit("oversized-file", "medium", Nothing)})]
        ELSE IF IsZipContainer(file)
        THEN [ok |-> TRUE, count |-> zip.count,
              found |-> state.found \cup zip.found
                        \cup At(<<file>>, NativeArtifactIndicators(file, content, cargoSourceRoot))]
        ELSE [ok |-> TRUE, count |-> state.count + 1,
              found |-> state.found \cup At(<<file>>, ScanContent(file, content, beside, cargoSourceRoot))]

(* The tree is walked in the order in which the file system lists it.      *)
ScanDirectory(tree, order) ==
    FoldLeft(LAMBDA s, f : ScanFile(tree, s, f), [ok |-> TRUE, count |-> 0, found |-> {}], order)

Listed(files, backwards) == IF backwards THEN Reverse(SetToSeq(files)) ELSE SetToSeq(files)

ScanArtifactPackage(entries, backwards) ==
    LET unpacked == Unpack(entries)
    IN  IF unpacked.ok THEN ScanDirectory(unpacked.tree, Listed(DOMAIN unpacked.tree, backwards)) ELSE unpacked
-----------------------------------------------------------------------------
(* Bounded inputs.  A node of a syntax tree carries in shows the indicator *)
(* a reader of the program would ask for.                                  *)

JsNodes == {
    [kind |-> "call", callee |-> "eval", arg |-> NoModule, shows |-> "js-ast-eval"],
    [kind |-> "call", callee |-> "require", arg |-> Module("child_process"), shows |-> "js-ast-dangerous-import"],
    [kind |-> "call", callee |-> "module.require", arg |-> Module("net"), shows |-> "js-ast-dangerous-import"],
    [kind |-> "call", callee |-> "require", arg |-> Module("./local"), shows |-> Nothing],
    [kind |-> "call", callee |-> "setTimeout", arg |-> NoModule, shows |-> Nothing],
    [kind |-> "call", callee |-> "setTimeout", arg |-> Module("code"), shows |-> "js-ast-deferred-string-eval"],
    [kind |-> "call", callee |-> "execSync", arg |-> NoModule, shows |-> "js-ast-shell-exec-sync"],
    [kind |-> "new", callee |-> "Function", arg |-> NoModule, shows |-> "js-ast-function-constructor"],
    [kind |-> "import()", callee |-> Nothing, arg |-> NoModule, shows |-> "js-ast-dynamic-import"],
    [kind |-> "import", callee |-> Nothing, arg |-> Module("https"), shows |-> "js-ast-dangerous-import"],
    [kind |-> "member", callee |-> "process.env", arg |-> NoModule, shows |-> "js-ast-process-env"],
    [kind |-> "function", callee |-> Nothing, arg |-> NoModule, shows |-> Nothing]}

PyNodes == {
    [kind |-> "import", modules |-> <<<<"numpy">>, <<"os", "path">>>>, shows |-> "py-ast-dangerous-import"],
    [kind |-> "import", modules |-> <<<<"urllib">>>>, shows |-> Nothing],
    [kind |-> "from", modules |-> <<<<"http", "client">>, <<"x">>>>, relative |-> FALSE, shows |-> "py-ast-dangerous-import"],
    [kind |-> "from", modules |-> <<<<"pkg">>, <<"x">>>>, relative |-> TRUE, shows |-> Nothing],
    [kind |-> "call", callee |-> "exec", shows |-> "py-ast-dangerous-call"],
    [kind |-> "call", callee |-> "getattr", names |-> {"eval"}, shows |-> "py-ast-obfuscated-call"],
    [kind |-> "def", shows |-> Nothing]}

TreeLeaves(nodes) == {[below |-> {}] @@ n : n \in nodes}

(* Trees of up to three levels.                                            *)
Trees(nodes) ==
    {{[below |-> {[below |-> {c}] @@ b}] @@ a} : a, b \in nodes, c \in TreeLeaves(nodes)}

Windows == SUBSET {"url", "base64 url", "percent url", "host:port", "environment"}

Marks == {[rule |-> r, window |-> {}] : r \in {"credential-path", "injection", "entropy", "base64"}}
         \cup {[rule |-> "node-outbound-http", window |-> w] : w \in Windows}

Text(marks, tree, manifest) ==
    [utf8 |-> TRUE, magic |-> Nothing, size |-> 1, marks |-> marks, tree |-> tree, manifest |-> manifest, shows |-> {}]

Plain == Text({[rule |-> "credential-path", window |-> {}]}, {}, Nothing)

Binary(magic, strings) ==
    [utf8 |-> FALSE, magic |-> magic, size |-> 1, length |-> 24, major |-> 0, count |-> 0, pool |-> <<>>,
     interfaces |-> 0, strings |-> strings, methods |-> {}]

(* What javac writes: the count is one more than the indices in use.       *)
ClassFile(pool, interfaces, major) ==
    LET indices == FoldLeft(LAMBDA n, tag : n + IF tag = "long" THEN 2 ELSE 1, 0, pool)
    IN  [Binary("cafebabe", {}) EXCEPT
            !.length = 10 + PoolBytes(pool) + 8 + 2 * interfaces + 6, !.major = major, !.count = indices + 1,
            !.pool = pool, !.interfaces = interfaces,
            !.methods = {[name |-> "<clinit>", marks |-> {[rule |-> "java-runtime-exec", window |-> {}]}]}]

ClassFiles == {ClassFile(p, i, m) : p \in SeqOf(DOMAIN TagSize, 3), i \in 0..1, m \in {45, 70}}

ScannedFile(dir, name, ext) == [dir |-> dir, name |-> name, ext |-> ext, agent |-> FALSE]

Entry(file, content) == [kind |-> "file", file |-> file, climbs |-> FALSE, size |-> content.size, content |-> content]

SingleFiles ==
    {Entry(ScannedFile("", "a.js", "js"), Text({}, t, Nothing)) : t \in Trees(JsNodes)}
    \cup {Entry(ScannedFile("", "a.py", "py"), Text({}, t, Nothing)) : t \in Trees(PyNodes)}
    \cup {Entry([ScannedFile("", "README", "") EXCEPT !.agent = TRUE], Text({m, n}, {}, Nothing)) : m, n \in Marks}
    \cup {Entry(ScannedFile("", "A.class", "class"), c) : c \in ClassFiles}
    \cup {Entry(ScannedFile("", "a.bin", "bin"), Binary("elf", {[length |-> l, marks |-> Plain.marks]})) : l \in 5..7}

(* The entries of archives that strain the limits.                         *)
TopEntries ==
    LET plain == Entry(ScannedFile("", "a.txt", "txt"), Plain)
    IN  {plain, [plain EXCEPT !.kind = "link"], [plain EXCEPT !.climbs = TRUE], [plain EXCEPT !.kind = "directory"],
         [plain EXCEPT !.content = Text({}, {}, Nothing)], [plain EXCEPT !.size = MaxSingleFileBytes + 1],
         [plain EXCEPT !.size = MaxSingleFileBytes], Entry(ScannedFile("d", "b.txt", "txt"), Plain),
         Entry(ScannedFile("", "d", ""), Plain)}

NestedEntries ==
    LET Nested(file, content, role) ==
            [file |-> file, climbs |-> FALSE, broken |-> Nothing, size |-> 1, content |-> content,
             role |-> role, alias |-> "a"]
        plain == Nested(ScannedFile("", "a.txt", "txt"), Plain, "resource")
    IN  {plain, [plain EXCEPT !.climbs = TRUE], [plain EXCEPT !.file.dir = "directory"],
         [plain EXCEPT !.size = MaxSingleFileBytes + 1],
         [plain EXCEPT !.broken = "header"], [plain EXCEPT !.broken = "data"],
         Nested(ScannedFile("", "A.class", "class"), ClassFile(<<"long">>, 0, 61), "shaded"),
         Nested(ScannedFile("", "MANIFEST.MF", "MF"), Text({}, {}, Nothing), "manifest"),
         Nested(ScannedFile("", "A.SF", "SF"), Text({}, {}, Nothing), "signature file"),
         Nested(ScannedFile("", "A.RSA", "RSA"), Binary(Nothing, {}), "signature block")}

Jar(entries) ==
    Entry(ScannedFile("", "a.jar", "jar"), Binary(Nothing, {}) @@ [valid |-> TRUE, entries |-> entries])

(* A file that only has the name of a ZIP.                                 *)
NoZip == Entry(ScannedFile("", "a.zip", "zip"), Plain @@ [valid |-> FALSE, entries |-> <<>>])

ArtifactInputs ==
    [entries : {<<e>> : e \in SingleFiles \cup {NoZip}} \cup SeqOf(TopEntries, 4)
                \cup {<<Jar(n)>> \o s : n \in SeqOf(NestedEntries, 3), s \in SeqOf({Entry(ScannedFile("d", "b.txt", "txt"), Plain)}, 1)},
     backwards : BOOLEAN]

Manifest(manifest, shows) == [Text({}, {}, manifest) EXCEPT !.shows = shows]

(* One manifest of each kind, with what a reader finds in it.              *)
ManifestOf ==
    [package_json |-> Manifest(
        [parses |-> TRUE, scripts |-> {[name |-> "postinstall", network |-> TRUE, substitutes |-> FALSE]},
         bin |-> FALSE, install |-> FALSE,
         dependencies |-> {[name |-> "d", section |-> "optionalDependencies", source |-> "git+", odd |-> FALSE]}],
        {"npm-lifecycle-hook", "npm-script-network-call", "npm-non-registry-dependency"}),
     pom_xml |-> Manifest(
        [parses |-> TRUE, project |-> TRUE, plugins |-> 1, repositories |-> 1, parent |-> FALSE, relocation |-> TRUE,
         dependencies |-> {[ofPlugin |-> TRUE, scope |-> "", classifier |-> FALSE]}],
        {"maven-build-plugin", "maven-repository-override", "maven-relocation"}),
     setup_cfg |-> Manifest(
        <<[is |-> "section", name |-> "options"], [is |-> "setup_requires"], [is |-> "section", name |-> "metadata"],
          [is |-> "injection"]>>,
        {"python-setup-cfg-setup-requires", "ai-agent-injection"}),
     pyproject_toml |-> Manifest(
        [parses |-> TRUE, scripts |-> {"run"}, requires |-> {"setuptools", "own-backend"}, setuptools |-> {"cmdclass"}],
        {"python-entry-point", "python-unusual-build-backend", "python-setuptools-custom-hook"}),
     metadata |-> Manifest(
        [injection |-> TRUE, homePage |-> "ftp", requiresDist |-> MaxRequiresDist + 1, importNames |-> {}],
        {"ai-agent-injection", "python-unusual-home-page", "python-excessive-dependencies"}),
     top_level_txt |-> Manifest({"m"}, {"python-top-level-module-hint"})]

ManifestName == [package_json |-> "package.json", pom_xml |-> "pom.xml", setup_cfg |-> "setup.cfg",
                 pyproject_toml |-> "pyproject.toml", metadata |-> "METADATA", top_level_txt |-> "top_level.txt"]

ManifestInputs(kind) ==
    {[entries |-> <<Entry(ScannedFile("", ManifestName[kind], ""), ManifestOf[kind])>>, backwards |-> FALSE]}

(* A crate: its manifest, a script that is its build script or not, and    *)
(* native code in a directory.                                             *)
CrateInputs ==
    {[entries |-> <<Entry(ScannedFile("", "Cargo.toml", "toml"),
                          Manifest([m EXCEPT !.build = build], IF build = "gen.rs" THEN {"cargo-build-script"} ELSE {})),
                    Entry(ScannedFile("", script, "rs"),
                          Manifest(Nothing, IF script = (IF build = "absent" THEN "build.rs" ELSE build)
                                            THEN {"cargo-build-script"} ELSE {})),
                    Entry(ScannedFile(dir, "a.so", "so"),
                          Manifest(Nothing, IF dir = "target" THEN {} ELSE {"bundled-native-artifact"}))>>,
      backwards |-> b] :
        m \in {m \in CargoTomls : m.targets = {} /\ m.features = {}}, build \in {"absent", "false", "gen.rs"},
        script \in {"build.rs", "gen.rs"}, dir \in {"target", "native"}, b \in BOOLEAN}

-----------------------------------------------------------------------------
(* The property.                                                           *)

(* What a reader finds in a content.                                       *)
Shown(content) ==
    IF content.utf8
    THEN {m.rule : m \in {m \in content.marks : m.rule \in DOMAIN Rules}}
         \cup ({n.shows : n \in Visited(content.tree)} \ {Nothing}) \cup content.shows
    ELSE UNION {{m.rule : m \in x.marks} : x \in content.methods \cup {s \in content.strings : s.length >= MinString}}

IsClass(content) == content.magic = "cafebabe" /\ content.pool # <<>>

(* Unpacked, an archive holds the last entry of each path.                 *)
LastOf(entries, i) ==
    entries[i].kind = "file" /\ \A j \in i + 1 .. Len(entries) :
        entries[j].kind = "file" => entries[j].file # entries[i].file

(* What a scan may make of the entries of an archive.                      *)
ScannedWhole(entries, result) ==
    LET files == {i \in DOMAIN entries : entries[i].kind = "file"}
        Inner(i) == IF IsZipContainer(entries[i].file) THEN Range(entries[i].content.entries) ELSE {}
        nested == [i \in files |-> IF IsZipContainer(entries[i].file)
                                   THEN Len(SelectSeq(entries[i].content.entries, LAMBDA e : ~e.climbs /\ e.file.dir # "directory"))
                                   ELSE 0]
        bytes == FoldLeft(LAMBDA n, e : n + IF e.kind = "file" THEN e.size ELSE 0, 0, entries)
        sound == /\ \A i \in DOMAIN entries : entries[i].kind # "link" /\ ~entries[i].climbs
                 /\ \A i \in files : entries[i].size <= MaxSingleFileBytes
                 /\ bytes <= MaxExpandedBytes
                 /\ Cardinality(files) <= MaxFileCount
                 /\ \A i \in files, j \in DOMAIN entries : Place(entries[i].file) \notin DirectoriesOf(entries[j])
        spacious == Cardinality(files) + FoldFunction(+, 0, nested) <= MaxFileCount
        Reports(path, type) == \E r \in result.found : r.path = path /\ r.indicator.type = type
    IN  /\ result.ok => sound
        /\ sound /\ spacious => result.ok
        /\ result.ok /\ spacious =>
              \A i \in {i \in files : LastOf(entries, i)} :
                 LET e == entries[i]
                 IN  /\ ~IsZipContainer(e.file) =>
                           /\ \A type \in Shown(e.content) : Reports(<<e.file>>, type)
                           /\ IsClass(e.content) => ~Reports(<<e.file>>, "bundled-native-artifact")
                     /\ \A n \in Inner(i) :
                           IF n.size <= MaxSingleFileBytes /\ ~n.climbs /\ n.broken = Nothing /\ n.file.dir # "directory"
                           THEN \A type \in Shown(n.content) : Reports(<<e.file, n.file>>, type)
                           ELSE (\A o \in Inner(i) : o.file = n.file => o.broken # Nothing)
                                   => \A r \in result.found : r.path # <<e.file, n.file>>
                     /\ IsZipContainer(e.file) /\ ~e.content.valid =>
                           \A type \in Shown(e.content) : ~Reports(<<e.file>>, type)
                     /\ e.content.utf8 /\ ~IsZipContainer(e.file) => \A m \in e.content.marks :
                           m.rule \in NetworkIndicatorTypes /\ m.window \ {"environment"} # {} =>
                              \E r \in result.found : /\ r.path = <<e.file>> /\ r.indicator.type = m.rule
                                                       /\ r.indicator.details.destination # Nothing

(* When the Surgeon completes the scan of an artifact, the archive had no  *)
(* link, no path that leaves it, no path that is a file and a directory    *)
(* and nothing beyond the limits, and all that its files show, at any      *)
(* depth of their syntax trees, in the members of classes and inside       *)
(* containers that keep within the limits, is reported under its path with *)
(* the destination its surroundings name; no class file is taken for       *)
(* native code.  An archive without these faults is never turned away.     *)
(* Of an entry of a container that cannot be read, and of a file that only *)
(* has the name of a container, nothing is reported.                       *)
NothingGoesUnscanned ==
    Drawn("artifact") =>
        ScannedWhole(sample.in.entries, ScanArtifactPackage(sample.in.entries, sample.in.backwards))
=============================================================================
