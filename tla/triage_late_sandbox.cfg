SPECIFICATION FairSpec
CONSTANTS
    Version = {v1}
    NoVersion = NoVersion
    Override = {}
    Environment = {"analysis"}
    Handler = {h1}
    Profile = {p1}
    Config <- MCConfig
    Digest = {d1}
    DigestOf <- MCDigestOf
    Observable = {}
    Clients = {"artifact"}
PROPERTIES SandboxResultTakesEffect
