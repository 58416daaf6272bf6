SPECIFICATION FairSpec
CONSTANTS
    Setting <- MCSetting
    Live = {"deps.dev"}
    FreshAge = 1
INVARIANTS
    FreshIsCurrent
PROPERTIES
    OutageIsNoticed
    RefreshRecovers
