SPECIFICATION Spec
CONSTANTS
    Version = {v1}
    NoVersion = NoVersion
    Override = {o1}
    Environment = {"analysis", "bypass", "rebind", "advisory"}
    Handler = {h1}
    Profile = {p1, p2}
    Config <- MCConfig
    Digest = {d1}
    DigestOf <- MCDigestOf
    Observable = {}
    Clients = {"artifact", "simulation", "packument"}
INVARIANTS AnswerOfOwnProfile
