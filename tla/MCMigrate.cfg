SPECIFICATION FairSpec
CONSTANTS
    s1 = s1  s2 = s2  s3 = s3
    Servers = {s1, s2, s3}
    LastFile = 4
    Altering = {2}
    Databases = {"postgres", "sqlite", "sqliteBusy"}
    MaxStops = 2
CHECK_DEADLOCK FALSE
INVARIANTS
    TypeOK
    AppliedOnce
    TrackedIsApplied
    PrefixApplied
    DoneMeansApplied
    NothingLeftOut
PROPERTIES
    SchemaCompleted
    ImplementsMigrationLog
