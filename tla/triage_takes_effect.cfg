SPECIFICATION FairSpec
CONSTANTS
    Version = {v1}
    NoVersion = NoVersion
    Override = {o1}
    Environment = {"analysis", "override", "observe"}
    Handler = {h1}
    Profile = {p1}
    Config <- MCConfig
    Digest = {d1}
    DigestOf <- MCDigestOf
    Observable = {"known_malicious"}
    Clients = {"artifact", "enrichment"}
PROPERTIES OverrideEnds MalwareTakesEffect
