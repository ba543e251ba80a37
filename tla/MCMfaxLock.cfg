SPECIFICATION FairSpec
CONSTANTS
    u1 = u1  k1 = k1  r1 = r1  r2 = r2
    Nil = Nil
    Users = {u1}
    ChTokens = {}
    SessTokens = {}
    Secrets = {k1}
    RCodes = {}
    Requests = {r1, r2}
    Serves <- MCServes
    InitTotp <- MCInitTotp
    InitRec <- MCInitRec
    InitSess <- MCInitSess
    EnrollRequired = TRUE
    LockoutOn = TRUE
    RecoveryOn = FALSE
    RecoveryCount = 1
    SerialWrites = TRUE
    Threshold = 2
    Window = 2
    Duration = 1
    MaxDuration = 2
    ChallengeTTL = 2
    MaxAttempts = 2
    Period = 4
    StartTime = 8
    MaxTime = 10
    MaxFaults = 1
INVARIANTS
    LockNotMissed
    LockDelayBounded
    FewUnderLock
PROPERTIES
    LockEarned
    LockTiered
    ThresholdLeadsToLock
