SPECIFICATION Spec
CONSTANTS
    Request = {r1, r2}
    Digest = {d1, d2}
    ErrorPage = error
    NoDigest = none
    p1 = p1
    p2 = p2
    Setting <- MCSetting
    Ttl = {1}
    TriageAge = 1
    MaxEdits = 1
SYMMETRY Symmetry
VIEW View
INVARIANTS ServedAsJudged HiddenForCause
PROPERTIES BlockTakesEffect ProfileSwitchTakesEffect
