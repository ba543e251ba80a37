SPECIFICATION Spec
CONSTANTS
    u1 = u1  k1 = k1  k2 = k2  r1 = r1  r2 = r2  r3 = r3  s1 = s1  s2 = s2
    Nil = Nil
    Users = {u1}
    ChTokens = {}
    SessTokens = {s1, s2}
    Secrets = {k1, k2}
    RCodes = {}
    Requests = {r1}
    Serves <- MCServesLogin
    InitTotp <- MCActiveTotp
    InitRec <- MCInitRec
    InitSess <- MCInitSess
    EnrollRequired = FALSE
    LockoutOn = FALSE
    RecoveryOn = FALSE
    RecoveryCount = 1
    SerialWrites = TRUE
    Threshold = 1
    Window = 1
    Duration = 1
    MaxDuration = 2
    ChallengeTTL = 1
    MaxAttempts = 1
    Period = 4
    StartTime = 8
    MaxTime = 8
    MaxFaults = 1
PROPERTIES
    SecondFactorAsked
