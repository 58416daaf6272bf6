SPECIFICATION Spec
CONSTANTS
    Version = {v1, v2}
    NoVersion = NoVersion
    Override = {}
    Environment = {"analysis", "restart"}
    Handler = {h1, h2}
    Profile = {p1}
    Config <- MCConfig
    Digest = {d1}
    DigestOf <- MCDigestOf
    Observable = {}
    Clients = {"artifact", "upload"}
SYMMETRY Symmetry
VIEW Read
INVARIANTS ServedIsAnalysed QuarantineHasJob
