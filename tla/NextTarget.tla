------------------------------- MODULE NextTarget -------------------------------
(***************************************************************************)
(* The page a visitor asked for, as text: RequireAuth writes it in ?next=, *)
(* the login and the second factor carry it from an address to a form      *)
(* field and back, and the last redirect sends the browser to it.          *)
(*                                                                         *)
(* A character is a pair <<c, n>>: c, percent-encoded n times.  <<"?", 1>> *)
(* is %3F and <<"?", 2>> is %253F.  A word that needs no encoding ("next", *)
(* "login") is one character.                                              *)
(***************************************************************************)
EXTENDS Naturals, Sequences, FiniteSetsExt, SequencesExt

CONSTANTS Symbols,     \* what a character stands for
          PathChars,   \* characters of a path, after its "/"
          QueryChars,  \* characters of a query
          MaxPath, MaxQuery,  \* bounds of their lengths
          Letters,     \* what url.QueryEscape leaves alone
          Verify,      \* verifyPath, with a query or without
          Landing      \* recoveryLanding, or the empty text

Raw(c) == <<c, 0>>

VARIABLES place,    \* where the browser is
          address,  \* the address it was sent to
          field,    \* the hidden field "next" of the form it shows
          asked,    \* history: the page asked for
          lost      \* history: the login was started over

targetVars == <<place, address, field, asked, lost>>

Texts(chars, n) == UNION {[1..k -> chars] : k \in 0..n}
Home == <<Raw("/")>>
Login == <<Raw("/"), Raw("login")>>
LoginErr == Login \o <<Raw("?"), Raw("err")>>

--------------------------------------------------------------------------------
(* net/url. *)

Escaped(char) ==
    IF char[2] = 0 /\ char[1] \in Letters THEN char
    ELSE IF char = Raw(" ") THEN Raw("+") ELSE <<char[1], char[2] + 1>>
Decoded(char) == IF char[2] > 0 THEN <<char[1], char[2] - 1>> ELSE char
Unescaped(char) == IF char = Raw("+") THEN Raw(" ") ELSE Decoded(char)

QueryEscape(text) == [i \in DOMAIN text |-> Escaped(text[i])]
PathUnescape(text) == [i \in DOMAIN text |-> Decoded(text[i])]
QueryUnescape(text) == [i \in DOMAIN text |-> Unescaped(text[i])]

\* What comes before the first c of a text, and what comes after.
Before(text, c) ==
    LET i == SelectInSeq(text, LAMBDA x : x = Raw(c))
    IN  IF i = 0 THEN text ELSE SubSeq(text, 1, i - 1)
After(text, c) ==
    LET i == SelectInSeq(text, LAMBDA x : x = Raw(c))
    IN  IF i = 0 THEN <<>> ELSE SubSeq(text, i + 1, Len(text))

\* URL.Path and URL.RawQuery of a request for an address.
Path(url) == PathUnescape(Before(url, "?"))
RawQuery(url) == After(url, "?")

\* Where a query, a "&" put before it, has a parameter "next".
NextKeys(query) ==
    {i \in 1..(Len(query) - 2) :
        SubSeq(query, i, i + 2) = <<Raw("&"), Raw("next"), Raw("=")>>}

\* URL.Query().Get("next").
GetNext(url) ==
    LET query == <<Raw("&")>> \o RawQuery(url)
        keys == NextKeys(query)
    IN  IF keys = {} THEN <<>>
        ELSE QueryUnescape(Before(SubSeq(query, Min(keys) + 3, Len(query)), "&"))

Char == Symbols \X Nat

\* The page of the second factor may have a query, with no "next" of its own.
ASSUME TargetAssumption ==
    /\ {"/", "?", "&", "=", "+", " ", "next", "login", "err"} \subseteq Symbols
    /\ PathChars \cup QueryChars \subseteq Char
    /\ {Raw("/"), Raw("?")} \cap PathChars \subseteq {Raw("/")}
    /\ {"next", "login", "err"} \subseteq Letters
    /\ {"+", "&", " "} \cap Letters = {}
    /\ MaxPath \in Nat /\ MaxQuery \in Nat
    /\ Verify \in Seq(Char) /\ NextKeys(<<Raw("&")>> \o RawQuery(Verify)) = {}

--------------------------------------------------------------------------------
(* authx/handlers.go. *)

isLocalPath(p) ==
    /\ p # <<>> /\ p[1] = Raw("/")
    /\ Len(p) > 1 => p[2] \notin {Raw("/"), Raw("\\")}
    /\ \A i \in DOMAIN p : p[i] # Raw("ctl")

SafeRedirectPath(next, fallback) == IF isLocalPath(next) THEN next ELSE fallback

NextEquals == <<Raw("next"), Raw("=")>>

\* Mutant: the target is joined as it stands.
withNextRaw(base, next) ==
    IF ~isLocalPath(next) THEN base
    ELSE base \o <<Raw(IF Raw("?") \in Range(base) THEN "&" ELSE "?")>>
              \o NextEquals \o next
withNext(base, next) ==
    IF ~isLocalPath(next) THEN base
    ELSE base \o <<Raw(IF Raw("?") \in Range(base) THEN "&" ELSE "?")>>
              \o NextEquals \o QueryEscape(next)

\* The target RedirectToLogin keeps for a request.
CurrentTarget(url) ==
    Path(url) \o (IF RawQuery(url) = <<>> THEN <<>> ELSE <<Raw("?")>> \o RawQuery(url))

TargetInit ==
    place = "out" /\ address = <<>> /\ field = <<>> /\ asked = <<>> /\ lost = FALSE

\* A visitor asks for a page that RequireAuth protects.
RedirectToLogin ==
    /\ place = "out" /\ place' = "login"
    /\ \E path \in Texts(PathChars, MaxPath), query \in Texts(QueryChars, MaxQuery) :
          LET url == Home \o path \o (IF query = <<>> THEN <<>> ELSE <<Raw("?")>> \o query)
              next == CurrentTarget(url) IN
          /\ asked' = url
          /\ address' = Login \o (IF next \in {Home, Login} THEN <<>>
                                  ELSE <<Raw("?")>> \o NextEquals \o QueryEscape(next))
    /\ UNCHANGED <<field, lost>>

\* The form, unless another tab has logged in.
LoginGET ==
    /\ place = "login"
    /\ \/ /\ field' = GetNext(address) /\ place' = "loginForm"
          /\ UNCHANGED <<address, lost>>
       \/ /\ address' = Home /\ place' = "landed" /\ lost' = TRUE
          /\ UNCHANGED field
    /\ UNCHANGED asked

\* A wrong password shows the form again with its field; Begin asks for a code, or
\* sends a locked account back; without second factor the login is done.
LoginPOST ==
    /\ place = "loginForm"
    /\ \/ UNCHANGED <<address, place>>
       \/ address' = withNext(Verify, field) /\ place' = "verify"
       \/ address' = withNext(LoginErr, field) /\ place' = "login"
       \/ address' = SafeRedirectPath(field, Home) /\ place' = "landed"
    /\ UNCHANGED <<field, asked, lost>>

\* Without a challenge the login starts over.
VerifyGET ==
    /\ place = "verify"
    /\ \/ /\ field' = GetNext(address) /\ place' = "verifyForm"
          /\ UNCHANGED <<address, lost>>
       \/ /\ address' = Login /\ place' = "login" /\ lost' = TRUE
          /\ UNCHANGED field
    /\ UNCHANGED asked

\* A wrong code shows the form again; a challenge that is gone or dropped starts
\* the login over; a code, or a recovery code, ends it.
VerifyPOST ==
    /\ place = "verifyForm"
    /\ \/ UNCHANGED <<address, place, lost>>
       \/ address' \in {Login, LoginErr} /\ place' = "login" /\ lost' = TRUE
       \/ /\ address' = SafeRedirectPath(field, Home)
          /\ place' = "landed" /\ UNCHANGED lost
       \/ /\ Landing # <<>> /\ address' = Landing
          /\ place' = "landed" /\ UNCHANGED lost
    /\ UNCHANGED <<field, asked>>

TargetNext == RedirectToLogin \/ LoginGET \/ LoginPOST \/ VerifyGET \/ VerifyPOST

TargetSpec == TargetInit /\ [][TargetNext]_targetVars

--------------------------------------------------------------------------------
(* Properties. *)

\* A path that means the same once it has been decoded: RedirectToLogin keeps
\* URL.Path, and an encoded "?" or "%" of it comes back as a bare one.
Decodable(url) ==
    LET path == Path(url) IN PathUnescape(path) = path /\ Raw("?") \notin Range(path)

\* Whoever asked for a page of the site ends on that page with its query intact,
\* over any number of failures and over the page of the second factor: the server
\* sees there what it was asked for.  A target that is not local, a login started
\* over and one begun at the home or login page end at home, and a recovery code
\* may end on its own page.
TargetKept ==
    place = "landed" =>
        \/ address = Landing
        \/ lost /\ address = Home
        \/ ~isLocalPath(CurrentTarget(asked)) /\ address = Home
        \/ CurrentTarget(asked) \in {Home, Login} /\ address = Home
        \/ ~Decodable(asked)
        \/ Path(address) = Path(asked) /\ RawQuery(address) = RawQuery(asked)

================================================================================
