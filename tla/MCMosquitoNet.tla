--------------------------- MODULE MCMosquitoNet ---------------------------
(* Settings small enough to be explored with concurrent requests.  Requests, *)
(* profiles and digests are interchangeable, and the reason of a refusal has *)
(* no effect on what follows.                                                *)
EXTENDS MosquitoNet, TLC

CONSTANTS p1, p2

Settings(adapters, classes, modes, profiles, changes, faults) ==
    [adapter: adapters, versions: {{"v1"}}, classes: {classes}, modes: {modes},
     profiles: {profiles}, edits: {changes}, faults: {faults}]

MCSetting ==
    \* every path and every failure
    Settings({"pypi", "cargo", "maven", "generic-http", "docker-oci"}, Class, {"warn"}, {p1}, {},
             {"triage-outage", "triage-error", "upstream", "limit"})
    \cup Settings({"npm"}, {"index", "manifest"}, {"warn"}, {p1}, {}, {"triage-outage", "upstream"})
    \* a listing of two versions is pruned to a fallback, or filtered
    \cup {[s EXCEPT !.versions = {"v1", "v2"}] :
              s \in Settings({"npm", "pypi"}, {"index"}, {"enforce"}, {p1}, {}, {})}
    \* verdicts are revised
    \cup Settings({"cargo", "generic-http"}, {"artifact", "index"},
                  {"enforce"}, {p1}, {"verdict"}, {"triage-outage"})
    \* packages are replaced
    \cup Settings({"npm", "maven"}, {"artifact"}, {"enforce"}, {p1}, {"publish"}, {})
    \cup Settings({"cargo"}, {"artifact", "index"}, {"enforce"}, {p1}, {"publish"}, {})
    \* the registry is reconfigured
    \cup Settings({"npm"}, {"artifact"}, {"enforce", "warn"}, {p1}, {"configure"}, {})
    \cup Settings({"cargo"}, {"index"}, {"enforce"}, {p1, p2}, {"configure"}, {})

Symmetry == Permutations(Request) \cup Permutations({p1, p2}) \cup Permutations(Digest)

View ==
    <<worldVars, cacheVars,
      [r \in Request |-> IF requests[r].status \in {"none", "ok"} THEN requests[r]
                         ELSE New.pc]>>
=============================================================================
