---------------------------- MODULE SbomService -----------------------------
(***************************************************************************)
(* The SBOM service and its routes in the control plane: components of a   *)
(* request, or the fragments an analysis left behind with the decisions on *)
(* their artifacts, become a stored document, whose minimum elements are   *)
(* validated when it is generated and again whenever it is listed.         *)
(*                                                                         *)
(* A result is a set, empty when the request is refused; an Option is the  *)
(* set of its values; a blank text is the empty one.  Rows are sequences   *)
(* in the order of their creation.                                         *)
(***************************************************************************)
EXTENDS Sampling, Integers, Sequences, FiniteSets, SequencesExt

Ecosystems == {"npm", "maven"}
Unknown == "unknown"
NoAssertion == "NOASSERTION"

-----------------------------------------------------------------------------
(* Package URLs.                                                           *)

(* pkg:type/segments@version; a version must not be empty.                 *)
ParseComponentPurl(purl) ==
    IF purl.type \notin Ecosystems \/ purl.segments = <<>> \/ purl.version = {""} THEN {}
    ELSE {[ecosystem |-> purl.type, namespace |-> Front(purl.segments),
           name |-> Last(purl.segments), version |-> purl.version]}

ResolvedComponentNamespace(c) ==
    IF c.namespace # {} THEN c.namespace
    ELSE {p.namespace : p \in {p \in ParseComponentPurl(c.purl) : p.namespace # <<>>}}

ResolvedComponentVersionGiven(c) == c.version

ResolvedComponentVersion(c) ==
    IF c.version # {} THEN c.version ELSE UNION {p.version : p \in ParseComponentPurl(c.purl)}

(* The fields of a component must say what its purl says.                  *)
ValidComponentInput(c) ==
    /\ c.name # "" /\ c.decision # ""
    /\ "" \notin c.version
    /\ \E p \in ParseComponentPurl(c.purl) :
          /\ p.ecosystem = c.ecosystem
          /\ p.name = c.name
          /\ c.namespace \subseteq ({p.namespace} \ {<<>>})
          /\ c.version = {} \/ p.version = {} \/ c.version = p.version

-----------------------------------------------------------------------------
(* Where components come from.                                             *)

StoredFragmentComponents(fragment, decisions) ==
    [i \in DOMAIN fragment.components |->
        [fragment.components[i] EXCEPT
            !.decision = IF decisions = <<>> THEN Unknown ELSE Last(decisions).decision]]

(* The last decision that the tenant of the fragment took on its artifact. *)
LoadAnalysisJobComponents(db, job, tenant) ==
    LET rows == SelectSeq(db.fragments, LAMBDA f : f.job = job /\ (tenant = {} \/ f.tenant \in tenant))
        Decisions(f) == SelectSeq(db.decisions, LAMBDA d : d.artifact = f.artifact /\ d.tenant = f.tenant)
    IN  IF rows = <<>> THEN {}
        ELSE {[tenant |-> IF tenant # {} THEN tenant ELSE {Head(rows).tenant},
               components |-> FlattenSeq([i \in DOMAIN rows |->
                                  StoredFragmentComponents(rows[i], Decisions(rows[i]))])]}

ResolveGenerateComponents(db, request) ==
    IF request.components # <<>> THEN {[tenant |-> request.tenant, components |-> request.components]}
    ELSE UNION {LoadAnalysisJobComponents(db, job, request.tenant) : job \in request.job}

ValidateGenerateRequest(request) ==
    /\ request.source # ""
    /\ request.components # <<>> \/ request.job # {}
    /\ \A c \in Range(request.components) : ValidComponentInput(c)

-----------------------------------------------------------------------------
(* Documents: every component is a direct dependency of the root.          *)

IntegrityHash(c) == {i \in c.integrity : i.algorithm \in {"sha256", "sha512"}}

GenerateCyclonedx(components) ==
    [packages |-> [i \in DOMAIN components |->
        [ref |-> components[i].purl, purl |-> components[i].purl, name |-> components[i].name,
         group |-> ResolvedComponentNamespace(components[i]), version |-> ResolvedComponentVersion(components[i]),
         hash |-> IntegrityHash(components[i]), decision |-> components[i].decision]],
     dependencies |-> {components[i].purl : i \in DOMAIN components}]

(* SPDX numbers the packages, has no group and asserts nothing of a        *)
(* version it does not know.                                               *)
GenerateSpdx23(components) ==
    [packages |-> [i \in DOMAIN components |->
        [ref |-> i, purl |-> components[i].purl, name |-> components[i].name, group |-> {},
         version |-> IF ResolvedComponentVersion(components[i]) = {} THEN {NoAssertion}
                     ELSE ResolvedComponentVersion(components[i]),
         hash |-> IntegrityHash(components[i]), decision |-> components[i].decision]],
     dependencies |-> DOMAIN components]

Generated(format, components) ==
    IF format = "spdx" THEN GenerateSpdx23(components) ELSE GenerateCyclonedx(components)

(* The elements a document may lack: the others are always written.        *)
NonEmpty(texts) == texts # {} /\ "" \notin texts

ValidateCyclonedxNtia(document) ==
    {i \in DOMAIN document.packages : ~NonEmpty({document.packages[i].name})
                                      \/ ~NonEmpty(document.packages[i].version)}

ValidateSpdxNtia(document) == ValidateCyclonedxNtia(document)

ValidateNtiaMinimumElements(format, document) ==
    (IF format = "spdx" THEN ValidateSpdxNtia(document) ELSE ValidateCyclonedxNtia(document)) = {}

-----------------------------------------------------------------------------
(* The handlers.                                                           *)

MaxComponentCount == 3

(* The file is written before its row, so that a failure between the two   *)
(* leaves a file nobody lists.                                             *)
GenerateSbom(db, request) ==
    LET resolved == IF ValidateGenerateRequest(request) THEN ResolveGenerateComponents(db, request) ELSE {}
        accepted == {r \in resolved : /\ \A c \in Range(r.components) : ValidComponentInput(c)
                                      /\ Len(r.components) <= MaxComponentCount}
    IN  {[tenant |-> r.tenant, format |-> request.format, count |-> Len(r.components),
          document |-> Generated(request.format, r.components),
          ntia |-> ValidateNtiaMinimumElements(request.format, Generated(request.format, r.components))] :
             r \in accepted}

Stored(row, failure) == IF failure = "insert" THEN {} ELSE {row}

(* A document that cannot be read is listed as invalid.                    *)
SbomMetadataFromRow(row, failure) ==
    [tenant |-> row.tenant, format |-> row.format, count |-> row.count,
     ntia |-> failure # "read" /\ ValidateNtiaMinimumElements(row.format, row.document)]

DefaultSbomListLimit == 2
MaxSbomListLimit == 3

ResolveSbomListLimit(limit) ==
    IF limit = {} THEN {DefaultSbomListLimit}
    ELSE IF limit = {0} THEN {}
    ELSE {IF l < MaxSbomListLimit THEN l ELSE MaxSbomListLimit : l \in limit}

(* The newest first.                                                       *)
ListTenantSboms(rows, tenant, limit, failure) ==
    LET own == Reverse(SelectSeq(rows, LAMBDA r : r.tenant = {tenant}))
    IN  {[i \in 1..(IF Len(own) < n THEN Len(own) ELSE n) |-> SbomMetadataFromRow(own[i], failure)] :
            n \in ResolveSbomListLimit(limit)}

GetTenantSbom(rows, tenant, id, failure) ==
    IF id \in DOMAIN rows /\ rows[id].tenant = {tenant} /\ failure # "read" THEN {rows[id].document} ELSE {}

(* The control plane lets only users of the tenant through, and refuses a  *)
(* limit that the service would cut off.                                   *)
EnsureTenantUser(actor, tenant) == actor = tenant

ValidSbomListLimit(limit) == limit \subseteq 1..MaxSbomListLimit

(* The control plane's client: a service that does not answer, or answers  *)
(* with an error, is an error of the request.                              *)
ClientListTenantSboms(rows, tenant, limit, failure) ==
    IF failure = "service" THEN {} ELSE ListTenantSboms(rows, tenant, limit, failure)

ClientDownloadTenantSbom(rows, tenant, id, failure) ==
    IF failure = "service" THEN {} ELSE GetTenantSbom(rows, tenant, id, failure)

ListThroughApi(rows, actor, tenant, limit, failure) ==
    IF EnsureTenantUser(actor, tenant) /\ ValidSbomListLimit(limit)
    THEN ClientListTenantSboms(rows, tenant, limit, failure) ELSE {}

DownloadThroughApi(rows, actor, tenant, id, failure) ==
    IF EnsureTenantUser(actor, tenant) THEN ClientDownloadTenantSbom(rows, tenant, id, failure) ELSE {}

-----------------------------------------------------------------------------
(* Bounded inputs: requests with components of their own, sound and not,   *)
(* and requests for the fragments of a job.                                *)

Purls == [type : Ecosystems \cup {"gem"}, segments : {<<>>, <<"a">>, <<"g", "a">>}, version : {{}, {""}, {"1"}}]

Input(purl, ecosystem, name, version, namespace, integrity, decision) ==
    [purl |-> purl, ecosystem |-> ecosystem, name |-> name, version |-> version, namespace |-> namespace,
     integrity |-> integrity, decision |-> decision]

GivenComponents == {Input(p, e, n, v, ns, {}, d) : p \in Purls, e \in Ecosystems, n \in {"a", "b"},
                        v \in {{}, {"1"}, {"2"}, {""}}, ns \in {{}, {<<"g">>}, {<<"h">>}}, d \in {"ALLOW", ""}}

(* The fragment of the Surgeon: the root package and its digest.           *)
FragmentComponent(version, scoped) ==
    Input([type |-> "npm", segments |-> IF scoped THEN <<"g", "a">> ELSE <<"a">>, version |-> version],
          "npm", "a", version, IF scoped THEN {<<"g">>} ELSE {}, {[algorithm |-> "sha256", digest |-> "x"]}, "")

Tenants == {"t1", "t2"}

Databases ==
    {[fragments |-> <<[job |-> 1, tenant |-> "t1", artifact |-> "x", components |-> <<FragmentComponent(v, s)>>],
                      [job |-> 2, tenant |-> "t2", artifact |-> "x", components |-> <<FragmentComponent({"1"}, s)>>],
                      [job |-> 1, tenant |-> "t1", artifact |-> "y", components |-> <<FragmentComponent({"2"}, ~s)>>]>>,
      decisions |-> ds] :
        v \in {{}, {"1"}}, s \in BOOLEAN,
        ds \in UNION {[1..n -> [artifact : {"x", "y"}, tenant : Tenants, decision : {"ALLOW", "BLOCK"}]] : n \in 0..2}}

NoDatabase == [fragments |-> <<>>, decisions |-> <<>>]

SbomRequests ==
    {[db |-> NoDatabase,
      request |-> [source |-> s, format |-> f, tenant |-> {"t1"}, job |-> {}, components |-> cs]] :
        s \in {"lock", ""}, f \in {"cyclonedx", "spdx"},
        cs \in {<<c>> : c \in GivenComponents} \cup {<<>>}
               \cup {[i \in 1..n |-> FragmentComponent({"1"}, FALSE)] : n \in 2..4}}

SbomJobRequests ==
    {[db |-> db, request |-> [source |-> "job", format |-> f, tenant |-> t, job |-> j, components |-> <<>>]] :
        db \in Databases, f \in {"cyclonedx", "spdx"}, t \in {{}, {"t1"}, {"t2"}}, j \in {{}, {1}, {2}, {3}}}

-----------------------------------------------------------------------------
(* A stored SBOM tells the truth about what was asked for: each component  *)
(* has the version and the namespace its purl states, an analysed artifact *)
(* has the last decision of its own tenant and of no other, the verdict on *)
(* its minimum elements is that no component lacks a version (which SPDX   *)
(* never does), and listing it later repeats that verdict unless the file  *)
(* is gone.  Through the control plane it is read by its own tenant only.  *)
SbomTellsTheTruth ==
    Drawn("sbom service") =>
        LET db == sample.in.db
            request == sample.in.request
            About(row, i) == row.document.packages[i]
            Versionless(row) == \E i \in DOMAIN row.document.packages : About(row, i).purl.version = {}
                                    /\ About(row, i).version \subseteq {NoAssertion}
            Judged(row) ==
                LET mine == SelectSeq(db.fragments, LAMBDA f : f.job \in request.job /\ f.tenant \in row.tenant)
                    Ours(f) == {i \in DOMAIN db.decisions : db.decisions[i].artifact = f.artifact
                                                            /\ db.decisions[i].tenant = f.tenant}
                IN  /\ Len(mine) = row.count
                    /\ \A i \in DOMAIN mine :
                          \/ About(row, i).decision = Unknown /\ Ours(mine[i]) = {}
                          \/ \E last \in Ours(mine[i]) : /\ \A j \in Ours(mine[i]) : j <= last
                                                         /\ About(row, i).decision = db.decisions[last].decision
        IN  \A row \in GenerateSbom(db, request) :
                /\ \A i \in 1..row.count :
                       /\ About(row, i).purl.version # {} => About(row, i).version = About(row, i).purl.version
                       /\ About(row, i).name = Last(About(row, i).purl.segments)
                       /\ row.format = "cyclonedx" /\ Len(About(row, i).purl.segments) > 1
                              => About(row, i).group = {Front(About(row, i).purl.segments)}
                /\ Cardinality(row.document.dependencies) <= row.count
                /\ row.ntia = (row.format = "spdx" \/ ~Versionless(row))
                /\ request.components = <<>> => Judged(row)
                /\ \A failure \in {"none", "read", "insert", "service"}, actor, tenant \in Tenants, limit \in {{}, {0}, {1}, {9}} :
                       LET rows == SetToSeq(Stored(row, failure))
                       IN  /\ \A list \in ListThroughApi(rows, actor, tenant, limit, failure) :
                                  \A i \in DOMAIN list : /\ list[i].tenant = {actor}
                                                         /\ list[i].ntia = (failure # "read" /\ row.ntia)
                           /\ DownloadThroughApi(rows, actor, tenant, 1, failure) # {} => row.tenant = {actor}
=============================================================================
