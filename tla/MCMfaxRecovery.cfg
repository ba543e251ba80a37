SPECIFICATION Spec
CONSTANTS
    u1 = u1  k1 = k1  c1 = c1  c2 = c2  c3 = c3
    r1 = r1  r2 = r2  r3 = r3  s1 = s1
    Nil = Nil
    Users = {u1}
    ChTokens = {}
    SessTokens = {s1}
    Secrets = {k1}
    RCodes = {c1, c2, c3}
    Requests = {r1, r2, r3}
    Serves <- MCServes
    InitTotp <- MCInitTotp
    InitRec <- MCInitRec
    InitSess <- MCInitSess
    EnrollRequired = TRUE
    LockoutOn = FALSE
    RecoveryOn = TRUE
    RecoveryCount = 1
    SerialWrites = TRUE
    Threshold = 2
    Window = 1
    Duration = 1
    MaxDuration = 2
    ChallengeTTL = 1
    MaxAttempts = 1
    Period = 4
    StartTime = 8
    MaxTime = 8
    MaxFaults = 1
SYMMETRY MCSymmetry
INVARIANTS
    OneRecoverySet
PROPERTIES
    NoReplay
