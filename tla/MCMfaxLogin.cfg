SPECIFICATION Spec
CONSTANTS
    u1 = u1  k1 = k1  c1 = c1  r1 = r1  r2 = r2  t1 = t1  s1 = s1  s2 = s2
    Nil = Nil
    Users = {u1}
    ChTokens = {t1}
    SessTokens = {s1, s2}
    Secrets = {k1}
    RCodes = {c1}
    Requests = {r1, r2}
    Serves <- MCServes
    InitTotp <- MCInitTotp
    InitRec <- MCInitRec
    InitSess <- MCInitSess
    EnrollRequired = TRUE
    LockoutOn = TRUE
    RecoveryOn = TRUE
    RecoveryCount = 1
    SerialWrites = TRUE
    Threshold = 2
    Window = 1
    Duration = 1
    MaxDuration = 2
    ChallengeTTL = 1
    MaxAttempts = 2
    Period = 4
    StartTime = 11
    MaxTime = 12
    MaxFaults = 1
SYMMETRY MCSymmetry
INVARIANTS
    AttemptsCapped
    SessionsPaid
PROPERTIES
    NoReplay
    ImplementsSecondFactor
