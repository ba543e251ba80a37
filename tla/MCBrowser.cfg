SPECIFICATION Spec
CONSTANTS
    tab1 = tab1  tab2 = tab2  k1 = k1  k2 = k2  s1 = s1  s2 = s2
    home = home  account = account  elsewhere = elsewhere
    Nil = Nil
    Keep = Keep
    Tabs = {tab1, tab2}
    CsrfTokens = {k1, k2}
    SessTokens = {s1, s2}
    Paths = {home, account}
    Foreign = {elsewhere}
    Home = home
    Bound = TRUE
    SecondFactor = "required"
    Recovery = TRUE
    MaxRestarts = 1
SYMMETRY MCSymmetry
INVARIANTS
    UndisturbedUsable
PROPERTIES
    AcceptedInSession
    CookieSettles
    LandsWhereAsked
