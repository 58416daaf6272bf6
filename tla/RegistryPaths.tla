--------------------------- MODULE RegistryPaths ----------------------------
(***************************************************************************)
(* How Mosquito Net reads a package out of a request path, rewrites the    *)
(* links of registry documents to point at itself, and finds the upstream  *)
(* address of what is then asked: the string algorithms of the proxy.      *)
(*                                                                         *)
(* A path is the sequence of its non-empty segments.  A segment is a file  *)
(* name [stem, ext, sum]: the tokens of its stem (words and the            *)
(* separators "-", "_", "." between them, "@" before a scope, "/" where    *)
(* the client escaped one), its extension and the suffix of a checksum or  *)
(* signature file.  An Option is the set of its values.                    *)
(***************************************************************************)
EXTENDS Sampling, Integers, Sequences, FiniteSets, SequencesExt

File(stem, ext) == [stem |-> stem, ext |-> ext, sum |-> ""]

Seg(token) == File(<<token>>, "")

AnyVersion == <<>>

Coord(namespace, name, version) ==
    [namespace |-> namespace, name |-> name, version |-> version]

Context(kind, coordinate, explicit) ==
    [kind |-> kind, coordinate |-> coordinate, explicit |-> explicit]

(* The escaped slash of a scope separates segments like a plain one.       *)
DecodeRegistryPath(path) ==
    FlattenSeq([i \in DOMAIN path |->
        IF Contains(path[i].stem, "/")
        THEN LET at == CHOOSE k \in DOMAIN path[i].stem : path[i].stem[k] = "/"
             IN  <<File(SubSeq(path[i].stem, 1, at - 1), ""),
                   [path[i] EXCEPT !.stem = SubSeq(@, at + 1, Len(@))]>>
        ELSE <<path[i]>>])

-----------------------------------------------------------------------------
(* npm: name, @scope/name, name/version, name/-/name-version.tgz           *)

NpmPackagePath(path) ==
    IF path = <<>> THEN {}
    ELSE IF Head(path[1].stem) # "@" THEN {SubSeq(path, 1, 1)}
    ELSE IF Len(path) = 1 THEN {}
    ELSE {SubSeq(path, 1, 2)}

(* reject_unsafe_path, for one segment.                                    *)
Unsafe(stem) == stem \in {<<>>, <<".">>, <<".", ".">>} \/ Contains(stem, "backslash")

NormalizeNpmName(package) ==
    IF \E i \in DOMAIN package : Unsafe(package[i].stem) THEN {}
    ELSE IF Len(package) = 1 THEN {Coord(<<>>, package[1].stem, AnyVersion)}
    ELSE IF Len(package[1].stem) = 1 THEN {}
    ELSE {Coord(Tail(package[1].stem), package[2].stem, AnyVersion)}

(* The version cut off at the first dash instead of after the name.        *)
NpmTarballVersionFirstDash(file, name) ==
    IF file.ext = "tgz" /\ Contains(file.stem, "-")
    THEN LET at == CHOOSE i \in DOMAIN file.stem :
                     file.stem[i] = "-" /\ \A j \in 1 .. i - 1 : file.stem[j] # "-"
         IN  SubSeq(file.stem, at + 1, Len(file.stem))
    ELSE AnyVersion

NpmTarballVersion(file, name) ==
    IF file.ext = "tgz" /\ IsStrictPrefix(name \o <<"-">>, file.stem)
    THEN SubSeq(file.stem, Len(name) + 2, Len(file.stem))
    ELSE AnyVersion

NpmRequestContext(path) ==
    LET artifact == \E i \in 2 .. Len(path) - 1 : path[i] = Seg("-")
    IN  UNION {LET tail == SubSeq(path, Len(package) + 1, Len(path))
               IN  {Context(IF artifact THEN "artifact" ELSE "metadata",
                            IF artifact
                            THEN [c EXCEPT !.version = NpmTarballVersion(Last(path), c.name)]
                            ELSE c,
                            artifact \/ (tail # <<>> /\ Head(tail) # Seg("-"))) :
                      c \in NormalizeNpmName(package)} :
                 package \in NpmPackagePath(path)}

-----------------------------------------------------------------------------
(* PyPI: simple/name and distribution files.                               *)

Separators == {"-", "_", "."}

Lower == [A |-> "a", B |-> "b"]

(* Runs of separators become one dash, letters become lower case.          *)
CanonicalizePypiName(tokens) ==
    LET Add(done, t) ==
            IF t \in Separators
            THEN IF done # <<>> /\ Last(done) = "-" THEN done ELSE Append(done, "-")
            ELSE Append(done, IF t \in DOMAIN Lower THEN Lower[t] ELSE t)
        all == FoldLeft(Add, <<>>, tokens)
        open == IF all # <<>> /\ Head(all) = "-" THEN Tail(all) ELSE all
    IN  IF Unsafe(tokens) THEN {}
        ELSE {IF open # <<>> /\ Last(open) = "-" THEN Front(open) ELSE open}

Dashes(tokens) == {i \in DOMAIN tokens : tokens[i] = "-"}

(* A wheel's name ends at its first dash and its version at the second, a  *)
(* source archive's name ends at its last dash.                            *)
PypiDistribution(file) ==
    LET dashes == Dashes(file.stem)
        first == CHOOSE i \in dashes : \A j \in dashes : i <= j
        second == {i \in dashes : Cardinality({j \in dashes : j < i}) = 1}
        last == CHOOSE i \in dashes : \A j \in dashes : j <= i
        end == IF second = {} THEN Len(file.stem) ELSE (CHOOSE i \in second : TRUE) - 1
        named(cut, stop) == {Coord(<<>>, name, SubSeq(file.stem, cut + 1, stop)) :
                               name \in CanonicalizePypiName(SubSeq(file.stem, 1, cut - 1))}
    IN  IF dashes = {} THEN {}
        ELSE IF file.ext = "whl" THEN named(first, end)
        ELSE IF file.ext \in {"tar.gz", "zip"} THEN named(last, Len(file.stem))
        ELSE {}

PypiRequestContext(path) ==
    IF Len(path) >= 2 /\ path[1] = Seg("simple")
    THEN {Context("metadata", Coord(<<>>, name, AnyVersion), FALSE) : name \in CanonicalizePypiName(path[2].stem)}
    ELSE IF path = <<>> THEN {}
    ELSE {Context("artifact", c, TRUE) : c \in PypiDistribution(Last(path))}

-----------------------------------------------------------------------------
(* Cargo: the sparse index and the downloads that go through the proxy.    *)
(* The name of a crate is the sequence of its letters here.                *)

CanonicalizeCargoName(letters) ==
    [i \in DOMAIN letters |-> IF letters[i] \in DOMAIN Lower THEN Lower[letters[i]] ELSE letters[i]]

Joined(letters) == File(letters, "")

CargoSparseIndexPath(name) ==
    CASE Len(name) = 1 -> <<Seg("1"), Joined(name)>>
      [] Len(name) = 2 -> <<Seg("2"), Joined(name)>>
      [] Len(name) = 3 -> <<Seg("3"), Joined(SubSeq(name, 1, 1)), Joined(name)>>
      [] OTHER -> <<Joined(SubSeq(name, 1, 2)), Joined(SubSeq(name, 3, 4)), Joined(name)>>

(* Only the index path of the canonical name is accepted.                  *)
CargoSparseIndexPackageName(path) ==
    IF path = <<>> THEN {}
    ELSE LET canonical == CanonicalizeCargoName(Last(path).stem)
         IN  IF path = CargoSparseIndexPath(canonical) THEN {canonical} ELSE {}

(* dl-prefix/base/signature/name/version/download                          *)
CargoProxyRoute(prefix, path) ==
    IF Len(path) >= 4 /\ path[1] = Seg(prefix)
    THEN {[base |-> path[2], signature |-> path[3], suffix |-> SubSeq(path, 4, Len(path))]}
    ELSE {}

DlPrefix == "__cargo_dl__"
ApiPrefix == "__cargo_api__"

(* Three numbers, and possibly a pre-release after a dash.                 *)
LooksLikeCargoVersion(version) ==
    Head(version) = "1.0.0" /\ (Len(version) > 1 => version[2] = "-" /\ Len(version) > 2)

CargoDownloadCoordinate(path) ==
    {Coord(<<>>, CanonicalizeCargoName(r.suffix[1].stem), r.suffix[2].stem) :
       r \in {r \in CargoProxyRoute(DlPrefix, path) :
                /\ Len(r.suffix) = 3 /\ r.suffix[3] = Seg("download")
                /\ LooksLikeCargoVersion(r.suffix[2].stem)}}

CargoRequestContext(path) ==
    IF CargoDownloadCoordinate(path) # {}
    THEN {Context("artifact", c, TRUE) : c \in CargoDownloadCoordinate(path)}
    ELSE {Context("metadata", Coord(<<>>, n, AnyVersion), FALSE) :
            n \in CargoSparseIndexPackageName(path)}

-----------------------------------------------------------------------------
(* Maven: group/artifact/version/file and maven-metadata.xml               *)

SnapshotVersion(version) == Contains(version, "SNAPSHOT")

StemsOf(path, last) == [i \in 1 .. last |-> path[i].stem]

MavenMetadataFile(file) == file.stem = <<"maven-metadata">> /\ file.ext = "xml"

MavenRequestContext(path) ==
    LET n == Len(path)
        metadata == MavenMetadataFile(path[n])
        at(back, version) == Coord(StemsOf(path, n - back - 1), path[n - back].stem, version)
        archive == path[n].sum = "" /\ path[n].ext \in {"jar", "aar", "war", "ear"}
    IN  IF n < 3 THEN {}
        ELSE IF metadata /\ n >= 4 /\ SnapshotVersion(path[n - 1].stem)
        THEN {Context("metadata", at(2, path[n - 1].stem), TRUE)}
        ELSE IF metadata \/ n = 3
        THEN {Context("metadata", at(1, AnyVersion), FALSE)}
        ELSE {Context(IF archive THEN "artifact" ELSE "metadata", at(2, path[n - 1].stem), TRUE)}

(* Any other file: the whole path is the name, the host the namespace.     *)
GenericRequestContext(path, host) ==
    IF path = <<>> THEN {}
    ELSE {Context("artifact", Coord(<<host>>, path, AnyVersion), TRUE)}

RequestContext(adapter, rawPath) ==
    LET path == DecodeRegistryPath(rawPath)
    IN  CASE adapter = "npm" -> NpmRequestContext(path)
          [] adapter = "pypi" -> PypiRequestContext(path)
          [] adapter = "cargo" -> CargoRequestContext(path)
          [] adapter = "maven" -> MavenRequestContext(path)
          [] adapter = "generic-http" -> GenericRequestContext(path, "upstream")
          [] adapter = "docker-oci" -> {}

-----------------------------------------------------------------------------
(* Links.  A link is absolute, rooted or relative; an absolute one names   *)
(* an origin, a relative one climbs ups directories before its path.       *)

(* The path below the mount to which the proxy rewrites a link: the host   *)
(* of an absolute link and the climbing of a relative one are dropped.     *)
RewriteRegistryUrl(link) == link.path

FileNameOf(link) == Last(link.path)

(* The first segment of a path that is an absolute address itself; the     *)
(* second is its origin then.                                              *)
Scheme == Seg("https://")

(* The address a path below the mount stands for: it is joined to the      *)
(* address of the registry, which may lie below a path of its origin; an   *)
(* absolute address replaces all of it.                                    *)
UpstreamRequestUrl(base, path) ==
    IF Head(path) = Scheme
    THEN [origin |-> path[2].stem[1], path |-> SubSeq(path, 3, Len(path))]
    ELSE [base EXCEPT !.path = @ \o path]

-----------------------------------------------------------------------------
(* Cargo downloads and API calls.  The base that an index document names   *)
(* is one of the entries of CargoBases; a relative one has no origin.      *)

CargoBases ==
    [local    |-> [origin |-> "primary", path |-> <<"api", "v1", "crates">>, plain |-> TRUE],
     relative |-> [origin |-> "",        path |-> <<"crates">>,              plain |-> TRUE],
     cdn      |-> [origin |-> "mirror",  path |-> <<>>,                      plain |-> TRUE],
     foreign  |-> [origin |-> "foreign", path |-> <<"crates">>,              plain |-> TRUE],
     userinfo |-> [origin |-> "primary", path |-> <<"crates">>,              plain |-> FALSE]]

(* The keyed digest of a base, for one use and one registry.               *)
CargoProxyBaseSignature(key, domain, config, base) ==
    File(<<key, domain, config, base>>, "")

CargoOriginAllowed(allowed, origin) == origin = "primary" \/ origin \in allowed

(* Neither another scheme nor user information is accepted.                *)
ValidateCargoUrl(base) == CargoBases[base].plain

(* A relative base is joined to the upstream address.                      *)
ResolvedBase(base) ==
    IF CargoBases[base].origin = ""
    THEN [origin |-> "primary", path |-> <<"index">> \o CargoBases[base].path]
    ELSE [origin |-> CargoBases[base].origin, path |-> CargoBases[base].path]

ResolveCargoDownloadBaseAny(allowed, base) == {ResolvedBase(base)}

ResolveCargoDownloadBase(allowed, base) ==
    IF ValidateCargoUrl(base) /\ CargoOriginAllowed(allowed, ResolvedBase(base).origin)
    THEN {ResolvedBase(base)} ELSE {}

ResolveRegistryLocalCargoBase(base) ==
    IF ValidateCargoUrl(base) /\ ResolvedBase(base).origin = "primary"
    THEN {ResolvedBase(base)} ELSE {}

(* config.json as the client sees it: both bases lead through the proxy.   *)
RewrittenDownloadBase(key, config, allowed, base) ==
    {<<Seg(DlPrefix), Seg(base), CargoProxyBaseSignature(key, "cargo-dl-base", config, base)>> :
       r \in ResolveCargoDownloadBase(allowed, base)}

RewrittenApiBase(key, config, base) ==
    {<<Seg(ApiPrefix), Seg(base), CargoProxyBaseSignature(key, "cargo-api-base", config, base)>> :
       r \in ResolveRegistryLocalCargoBase(base)}

RewriteCargoRegistryConfig(key, config, allowed, doc) ==
    {[dl |-> d, api |-> a] : d \in RewrittenDownloadBase(key, config, allowed, doc.dl),
                             a \in RewrittenApiBase(key, config, doc.api)}

(* The address of a download: the signature must be this proxy's, for this *)
(* registry and for downloads, and the base must (still) be allowed.       *)
AdapterUpstreamUrl(key, config, allowed, path) ==
    UNION {{[origin |-> u.origin, path |-> u.path \o r.suffix] :
              u \in ResolveCargoDownloadBase(allowed, r.base.stem[1])} :
           r \in {r \in CargoProxyRoute(DlPrefix, path) :
              r.signature = CargoProxyBaseSignature(key, "cargo-dl-base", config, r.base.stem[1])}}

(* Whatever of the suffix repeats the end of the base is not repeated.     *)
JoinRegistryPath(base, suffix) ==
    LET overlaps == {k \in 0 .. (IF Len(base) < Len(suffix) THEN Len(base) ELSE Len(suffix)) :
                       SubSeq(base, Len(base) - k + 1, Len(base)) = SubSeq(suffix, 1, k)}
        most == CHOOSE k \in overlaps : \A j \in overlaps : j <= k
    IN  base \o SubSeq(suffix, most + 1, Len(suffix))

CargoApiRequestUrl(key, config, path) ==
    UNION {{[origin |-> u.origin,
             path |-> JoinRegistryPath(u.path, [i \in DOMAIN r.suffix |-> r.suffix[i].stem[1]])] :
              u \in ResolveRegistryLocalCargoBase(r.base.stem[1])} :
           r \in {r \in CargoProxyRoute(ApiPrefix, path) :
              r.signature = CargoProxyBaseSignature(key, "cargo-api-base", config, r.base.stem[1])}}

MaxCargoDownloadRedirects == 4

(* A download follows redirects itself: each hop must be allowed, and only *)
(* the registry's own origin is sent its credentials.  hops are the        *)
(* origins that redirect to one another, the last one answers.             *)
InjectedCredentials(origin) == origin = "primary"

(* The hops at which the download is given up: one redirect too many, or a *)
(* redirect to an origin that is not allowed.                              *)
RefusedHops(allowed, hops) ==
    {i \in DOMAIN hops : \/ i > MaxCargoDownloadRedirects + 1
                         \/ i > 1 /\ ~CargoOriginAllowed(allowed, hops[i])}

FetchCargoDownload(allowed, hops) ==
    LET refused == RefusedHops(allowed, hops)
        contacted == {i \in DOMAIN hops : \A j \in refused : i < j}
    IN  [state |-> IF refused = {} THEN "answered" ELSE "refused",
         contacts |-> [i \in contacted |->
                         [origin |-> hops[i], credentials |-> InjectedCredentials(hops[i])]]]

-----------------------------------------------------------------------------
(* Bounded inputs: what the package managers ask for, by their layouts.    *)

(* With and without a pre-release, and one that is no semantic version.    *)
Versions == {<<"1.0.0">>, <<"1.0.0", "-", "rc">>, <<"1">>}

UnsafeNames == {<<".", ".">>, <<"a", "backslash", "b">>}

NpmPath(x) ==
    LET scope == IF x.scope = <<>> THEN <<>> ELSE <<File(<<"@">> \o x.scope, "")>>
        escaped == <<File(<<"@">> \o x.scope \o <<"/">> \o x.name, "")>>
        name == IF x.escaped /\ x.scope # <<>> THEN escaped ELSE scope \o <<File(x.name, "")>>
    IN  CASE x.asks = "listing" -> name
          [] x.asks = "version" -> name \o <<File(x.version, "")>>
          [] x.asks = "file" -> name \o <<Seg("-"), File(x.name \o <<"-">> \o x.version, "tgz")>>

NpmAsks ==
    [adapter : {"npm"}, scope : {<<>>, <<"s">>}, name : {<<"a">>, <<"a", "-", "b">>, <<"a", "-", "1">>} \cup UnsafeNames,
     version : Versions, asks : {"listing", "version", "file"}, escaped : BOOLEAN]

(* A wheel is named with underscores, an archive as its author liked.      *)
PypiPath(x) ==
    LET Spelled(separator) == [i \in DOMAIN x.name |-> IF x.name[i] = "-" THEN separator ELSE x.name[i]]
    IN  CASE x.asks = "listing" -> <<Seg("simple"), File(Spelled(x.separator), "")>>
          [] x.asks = "wheel" -> <<Seg("packages"), File(Spelled("_") \o <<"-">> \o x.version
                                     \o <<"-", "py3", "-", "none", "-", "any">>, "whl")>>
          [] x.asks = "file" -> <<Seg("packages"), File(Spelled(x.separator) \o <<"-">> \o x.version, x.ext)>>

PypiAsks ==
    [adapter : {"pypi"}, name : {<<"a">>, <<"a", "-", "b">>, <<"A", "-", "b">>} \cup UnsafeNames,
     separator : Separators, version : Versions, asks : {"listing", "wheel", "file"}, ext : {"tar.gz", "zip"}]

Letters == {"a", "B"}

CargoPath(x) ==
    IF x.asks = "listing" THEN CargoSparseIndexPath(CanonicalizeCargoName(x.name))
    ELSE <<Seg(DlPrefix), Seg("cdn"), CargoProxyBaseSignature("key", "cargo-dl-base", "r1", "cdn"),
           File(x.name, ""), File(x.version, ""), Seg("download")>>

CargoAsks ==
    [adapter : {"cargo"}, name : UNION {[1 .. n -> Letters] : n \in 1 .. 5}, version : Versions,
     asks : {"listing", "file"}]

MavenPath(x) ==
    LET group == [i \in DOMAIN x.group |-> Seg(x.group[i])]
        sum(file) == [file EXCEPT !.sum = x.sum]
    IN  CASE x.asks = "listing" -> group \o <<Seg("art"), sum(File(<<"maven-metadata">>, "xml"))>>
          [] x.asks = "version" -> group \o <<Seg("art"), File(x.version, ""),
                                             sum(File(<<"maven-metadata">>, "xml"))>>
          [] x.asks = "file" -> group \o <<Seg("art"), File(x.version, ""),
                                          sum(File(<<"art", "-">> \o x.version, x.ext))>>

MavenAsks ==
    {x \in [adapter : {"maven"}, group : {<<"org">>, <<"org", "x">>}, version : {<<"1.0.0">>, <<"1", "-", "SNAPSHOT">>},
            asks : {"listing", "version", "file"}, ext : {"jar", "pom", "war"}, sum : {"", "sha1", "asc"}] :
        x.asks = "version" => SnapshotVersion(x.version)}

(* The context each of them should be read as.                             *)
Meant(x) ==
    CASE x.adapter = "npm" ->
           Context(IF x.asks = "file" THEN "artifact" ELSE "metadata",
                   Coord(x.scope, x.name, IF x.asks = "file" THEN x.version ELSE AnyVersion), x.asks # "listing")
      [] x.adapter = "pypi" ->
           Context(IF x.asks = "listing" THEN "metadata" ELSE "artifact",
                   Coord(<<>>, [i \in DOMAIN x.name |-> IF x.name[i] = "A" THEN "a" ELSE x.name[i]],
                         IF x.asks = "listing" THEN AnyVersion ELSE x.version), x.asks # "listing")
      [] x.adapter = "cargo" ->
           Context(IF x.asks = "listing" THEN "metadata" ELSE "artifact",
                   Coord(<<>>, [i \in DOMAIN x.name |-> IF x.name[i] = "B" THEN "b" ELSE x.name[i]],
                         IF x.asks = "listing" THEN AnyVersion ELSE x.version), x.asks # "listing")
      [] x.adapter = "maven" ->
           Context(IF x.asks = "file" /\ x.sum = "" /\ x.ext # "pom" THEN "artifact" ELSE "metadata",
                   Coord([i \in DOMAIN x.group |-> <<x.group[i]>>], <<"art">>,
                         IF x.asks = "listing" THEN AnyVersion ELSE x.version), x.asks # "listing")

PathOf(x) ==
    CASE x.adapter = "npm" -> NpmPath(x)
      [] x.adapter = "pypi" -> PypiPath(x)
      [] x.adapter = "cargo" -> CargoPath(x)
      [] x.adapter = "maven" -> MavenPath(x)

(* What is not taken for a package at all.                                 *)
Refused(x) ==
    \/ x.adapter \in {"npm", "pypi"} /\ x.name \in UnsafeNames
    \/ x.adapter = "cargo" /\ x.asks = "file" /\ x.version = <<"1">>

(* PyPI's file names are cut at dashes: a version must not have one.       *)
Ambiguous(x) == x.adapter = "pypi" /\ x.asks # "listing" /\ Contains(x.version, "-")

(* The registry has an origin of its own or lies below a path of it.       *)
RegistryBases == [origin : {"primary"}, path : {<<>>, <<Seg("repo")>>}]

(* The ways a page names a file: on the registry's own origin, on another  *)
(* one, as the tail of another address, or from where the page is.         *)
LinksTo(path) ==
    {[form |-> "absolute", origin |-> o, ups |-> 0, path |-> p] :
        o \in {"primary", "files"}, p \in {path, <<Scheme, Seg("files")>> \o path}}
    \cup {[form |-> "rooted", origin |-> "primary", ups |-> 0, path |-> path]}
    \cup {[form |-> "relative", origin |-> "primary", ups |-> u, path |-> path] : u \in 0 .. 2}

(* The page is simple/name/ below the address of the registry.             *)
LeadsTo(base, link) ==
    LET page == base.path \o <<Seg("simple"), Seg("name")>>
    IN  [origin |-> link.origin,
         path |-> IF link.form = "relative"
                  THEN SubSeq(page, 1, Len(page) - link.ups) \o link.path ELSE link.path]

(* The links whose rewriting loses nothing: a relative link that climbs to *)
(* the root of the registry; a path from the root of its origin, if that   *)
(* is the root of the registry.                                            *)
Followed(base, link) ==
    IF link.form = "relative" THEN link.ups = 2
    ELSE link.origin = "primary" /\ base.path = <<>> /\ Head(link.path) # Scheme

(* What a package manager asks for is what the proxy asks a decision for:  *)
(* the path of a listing, a version or a file is read as the coordinate it *)
(* was laid out from, in all four layouts, however a name is spelled,      *)
(* scoped or escaped and whatever dashes it has, and versions too, except  *)
(* in the file names of PyPI, where a version with a dash is read as       *)
(* another package or version; names that climb and crates without a       *)
(* semantic version are refused.  The link to a file on a page, rewritten, *)
(* is judged as that file; followed, it is fetched from where it pointed   *)
(* exactly when it climbs to the root of the registry or names it in full: *)
(* a file on another host, or below the path of a registry that has one,   *)
(* is asked of the registry at another address.                            *)
RequestNamesPackage ==
    Drawn("path") =>
        LET x == sample.in
            read == RequestContext(x.adapter, PathOf(x))
        IN  /\ Refused(x) /\ ~Ambiguous(x) => read = {}
            /\ ~Refused(x) => (read = {Meant(x)} <=> ~Ambiguous(x))
            /\ x.adapter \in {"npm", "pypi"} /\ Meant(x).kind = "artifact" =>
                 \A link \in LinksTo(PathOf(x)) :
                    /\ Head(link.path) # Scheme => RequestContext(x.adapter, RewriteRegistryUrl(link)) = read
                    /\ \A base \in RegistryBases :
                         UpstreamRequestUrl(base, RewriteRegistryUrl(link)) = LeadsTo(base, link)
                            <=> Followed(base, link)

(* Bounded inputs: a base that a registry named while some mirrors were    *)
(* allowed, asked for later with a signature of this or of other making,   *)
(* and the redirects that follow.                                          *)
CargoOrigins == {"primary", "mirror", "foreign"}

CargoFetches ==
    [base : DOMAIN CargoBases, before : SUBSET {"mirror"}, now : SUBSET {"mirror"},
     key : {"key", "other"}, domain : {"cargo-dl-base", "cargo-api-base"}, config : {"r1", "r2"},
     hops : UNION {[1 .. n -> CargoOrigins] : n \in 0 .. 5}]

CrateSuffix == <<Seg("a"), Seg("1.0.0"), Seg("download")>>

ApiSuffix == <<"api", "v1", "crates", "new">>

(* The shortest path that begins with the base and ends with the suffix.   *)
ShortestJoin(path, base, suffix) ==
    /\ IsPrefix(base, path) /\ IsSuffix(suffix, path)
    /\ \A k \in 1 .. Len(suffix) + 1 :
         LET other == base \o SubSeq(suffix, k, Len(suffix))
         IN  IsSuffix(suffix, other) => Len(path) <= Len(other)

(* A crate is only ever fetched from the registry's origin or from one the *)
(* registry allows now, over all redirects; the credentials go to the      *)
(* registry's own origin alone; a base that this proxy did not sign for    *)
(* downloads of this registry is not fetched at all; and a download whose  *)
(* base and hops are allowed is answered, within the limit of redirects.   *)
(* An API call goes to the registry's own origin, below the base it named  *)
(* and with nothing of the base repeated.                                  *)
CargoStaysWithinOrigins ==
    Drawn("cargo") =>
        LET x == sample.in
            path == <<Seg(DlPrefix), Seg(x.base), CargoProxyBaseSignature(x.key, x.domain, x.config, x.base)>>
                    \o CrateSuffix
            urls == AdapterUpstreamUrl("key", "r1", x.now, path)
            fetched == {FetchCargoDownload(x.now, <<u.origin>> \o x.hops) : u \in urls}
            apiPath == <<Seg(ApiPrefix), Seg(x.base), CargoProxyBaseSignature(x.key, x.domain, x.config, x.base)>>
                       \o [i \in DOMAIN ApiSuffix |-> Seg(ApiSuffix[i])]
            offered == RewriteCargoRegistryConfig("key", "r1", x.before, [dl |-> x.base, api |-> "local"])
            genuine == \E o \in offered : IsStrictPrefix(o.dl, path)
        IN  /\ \A f \in fetched : \A i \in DOMAIN f.contacts :
                 /\ f.contacts[i].origin \in {"primary"} \cup x.now
                 /\ f.contacts[i].credentials => f.contacts[i].origin = "primary"
            /\ \A u \in CargoApiRequestUrl("key", "r1", apiPath) :
                 /\ x.key = "key" /\ x.domain = "cargo-api-base" /\ x.config = "r1"
                 /\ u.origin = "primary"
                 /\ ShortestJoin(u.path, ResolvedBase(x.base).path, ApiSuffix)
            /\ (x.key # "key" \/ x.domain # "cargo-dl-base" \/ x.config # "r1") => fetched = {}
            /\ genuine /\ ({ResolvedBase(x.base).origin} \cup Range(x.hops)) \subseteq {"primary"} \cup x.now =>
                 \E f \in fetched : f.state = (IF Len(x.hops) <= MaxCargoDownloadRedirects THEN "answered" ELSE "refused")
====
