SPECIFICATION Spec
CONSTANTS
    u1 = u1  s1 = s1  s2 = s2  r1 = r1  r2 = r2
    Nil = Nil
    Users = {u1}
    Tokens = {s1, s2}
    Requests = {r1, r2}
    Serves = {"page", "logout", "login", "enrol", "elevate"}
    SessionTTL = 1
    MaxTime = 2
    MaxFaults = 1
    MaxEdits = 1
    InitSessions <- MCInitSessions
SYMMETRY MCSymmetry
INVARIANTS
    TypeOK
    ServedEntitled
PROPERTIES
    NotResurrected
    ImplementsSessionLife
