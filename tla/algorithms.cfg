SPECIFICATION Spec
CHECK_DEADLOCK FALSE
CONSTANTS
    MaxFileCount = 3
    MaxSingleFileBytes = 2
    MaxExpandedBytes = 4
INVARIANTS
    FeedEvidenceFound
    IocCorrelates
    RequestNamesPackage
    CargoStaysWithinOrigins
    
    TwinsAgree
    EveryPackageScanned
    
    
    
    SbomTellsTheTruth
    SbomIsFaithful
