SPECIFICATION MCSpec
CONSTANTS
    c1 = c1  c2 = c2  p1 = p1  p2 = p2  fr = fr  en = en
    Garbage = Garbage  Empty = Empty  Malformed = Malformed  Unset = Unset  None = None
    Alphabet = {"0", "1", "a"}
    Lowered <- MCLowered
    Confused <- MCConfused
    Separators = {"-", " "}
    CodeLen = 3
    Group = 2
    MaxTyped = 5
    Clients = {c1, c2}
    Proxies = {p1, p2}
    Accounts = {c1}
    Ports = {1, 2}
    Limits = {0, 1, 2}
    MaxHops = 2
    Tags = {fr, en}
    Full = 2
    MaxEntries = 2
    Symbols = {"/", "?", "&", "=", "+", " ", "ctl", "x", "next", "login", "err", "codes"}
    PathChars <- MCPathChars
    QueryChars <- MCQueryChars
    MaxPath = 2
    MaxQuery = 3
    Letters = {"x", "next", "login", "err", "codes"}
    Verify <- MCVerify
    Landing <- MCLanding
    Drivers = {"", "sqlite3", "pgx", "postgresql", "mariadb", "oracle"}
    EngineOf <- MCEngineOf
    Characters = {",", "?", "$", "0", "1", "2", "3", "4", "5", "6", "7", "8", "9"}
    Statements <- MCStatements
INVARIANTS
    ReadAsShown
    MistakeNotForgiven
    RefusedForOwn
    LimitHeld
    TextInBestLanguage
    LangNamesText
    TargetKept
    BoundInOrder
CHECK_DEADLOCK FALSE
