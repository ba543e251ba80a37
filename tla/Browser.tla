-------------------------------- MODULE Browser ---------------------------------
(***************************************************************************)
(* What one browser with several tabs lives through: the forms protected   *)
(* by csrfx.Protector, the session cookie of authx, and the ?next= that a  *)
(* login carries from RequireAuth to SafeRedirectPath, over the page of    *)
(* the second factor, or the set-up of one and the Elevate that ends it.   *)
(*                                                                         *)
(* The cookies of a request are those of the jar when it is sent; those of *)
(* an answer reach the jar when it is delivered.  In between the tabs      *)
(* overlap freely.  The server keeps the open sessions and nothing else:   *)
(* one action stands for LoadSession, the Protector, RequireAuth and the   *)
(* handler, whose interleaving in the database is the matter of Sessions   *)
(* and Mfax.                                                               *)
(***************************************************************************)
EXTENDS Naturals, FiniteSets

CONSTANTS Tabs,
          CsrfTokens,   \* what randomToken can draw
          SessTokens,   \* session tokens that can be drawn
          Paths,        \* local paths with a protected page, Home among them
          Foreign,      \* values of ?next= that are no local path
          Home,         \* homePath, which is "/"
          Nil,          \* no cookie, no target, no form
          Keep,         \* an answer that leaves a cookie alone
          Bound,        \* WithSessionBinding, with the token of SessionFrom
          SecondFactor, \* Begin: "off", "optional", or "required" to enrol
          Recovery,     \* WithRecoveryCodes: EnablePOST shows the codes
          MaxRestarts   \* bound of the restarts of the browser

Targets == Paths \cup Foreign
Gets == {"page", "loginForm", "verifyForm", "setupForm"}
Posts == {"act", "login", "verify", "enable", "logout"}

\* The recovery codes are a page of the project too, the answer to a POST.
Pages == {"page", "codes"}

\* The form a submission comes from.
FormOf == [act |-> "page", logout |-> "page", login |-> "loginForm",
           verify |-> "verifyForm", enable |-> "setupForm"]

ASSUME BrowserAssumption ==
    /\ Home \in Paths
    /\ Paths \cap Foreign = {}
    /\ {Bound, Recovery} \subseteq BOOLEAN
    /\ SecondFactor \in {"off", "optional", "required"}
    /\ MaxRestarts \in Nat
    /\ {Nil, Keep} \cap (CsrfTokens \cup SessTokens \cup Targets) = {}

VARIABLES jar,       \* the two cookies of the browser
          tab,       \* tab -> the form it shows: kind, target and token
          sent,      \* tab -> its request on the way
          answer,    \* tab -> the answer on the way
          open,      \* sessions that LoadSession accepts
          setup,     \* sessions opened for the set-up of a second factor
          drawn,     \* tokens drawn so far
          restarts,
          disturbed, \* history: tab -> the cookies changed for another reason
                     \* than its own answer since it sent its last request
          asked      \* history: tab -> the page its user is after

vars == <<jar, tab, sent, answer, open, setup, drawn, restarts, disturbed, asked>>

Idle(t) == sent[t] = Nil /\ answer[t] = Nil

Init ==
    /\ jar = [csrf |-> Nil, session |-> Nil]
    /\ tab = [t \in Tabs |-> Nil]
    /\ sent = [t \in Tabs |-> Nil]
    /\ answer = [t \in Tabs |-> Nil]
    /\ open = {} /\ setup = {} /\ drawn = {} /\ restarts = 0
    /\ disturbed = [t \in Tabs |-> FALSE]
    /\ asked = [t \in Tabs |-> Home]

--------------------------------------------------------------------------------
(* The two middlewares, as functions of a request. *)

\* SessionFrom, once LoadSession has looked the cookie up.
SessionFrom(cookie) == IF cookie \in open THEN cookie ELSE Nil

\* Mutant: the token is never bound.
ExpectedUnbound(token, session) == <<token>>
\* The HMAC is a tuple: injective, and never the token itself.
Expected(token, session) == IF Bound THEN <<token, session>> ELSE <<token>>

\* What travels between the browser and the server, and what a tab shows.
Cookie == CsrfTokens \cup {Nil}
Session == SessTokens \cup {Nil}
Target == Targets \cup {Nil}
Token == {Expected(token, session) : token \in CsrfTokens, session \in Session}

\* The page of the set-up has no field for the target.
Form == {form \in [kind : Gets \cup Pages, target : Target, token : Token,
                   for : CsrfTokens \X Session] : form.kind = "setupForm" => form.target = Nil}
Goto == [kind : Gets, target : Target]
Request == {r \in [kind : Gets \cup Posts, target : Target, csrf : Cookie, session : Session,
                   token : Token \cup {Nil}, for : (CsrfTokens \X Session) \cup {Nil}] :
               r.kind = "enable" => r.target = Nil}
Reply == [csrf : CsrfTokens \cup {Keep}, session : Session \cup {Keep},
          goto : Goto \cup {Nil}, form : Form \cup {Nil},
          bare : BOOLEAN, passed : BOOLEAN]

ASSUME NilAssumption == Nil \notin Request \cup Reply

\* What the cookies of the browser are worth now.
Worth == <<jar.csrf, SessionFrom(jar.session)>>
DisturbOthers(t) ==
    disturbed' = [u \in Tabs |-> disturbed[u] \/ (u # t /\ Worth' # Worth)]
DisturbAll == disturbed' = [t \in Tabs |-> disturbed[t] \/ Worth' # Worth]

\* Mutants: a token is drawn for every request; the value of the cookie is shown.
CookieTokensFresh(r) == CsrfTokens \ drawn
ShownRaw(r, token) == <<token>>

\* The token of the request: its cookie, or a fresh one that the answer sets.
CookieTokens(r) == IF r.csrf # Nil THEN {r.csrf} ELSE CsrfTokens \ drawn
SetsCookie(r, token) == IF token = r.csrf THEN Keep ELSE token

\* Token(r): what the forms of the answer carry.
Shown(r, token) == Expected(token, SessionFrom(r.session))
Valid(r, token) == r.token # Nil /\ r.token = Expected(token, SessionFrom(r.session))

\* LoadSession clears the cookie of a session it does not find, and sets that of a
\* session that slides once more, whatever the browser holds when it arrives.
SessionCookie(r) ==
    IF r.session = Nil \/ r.session \in open \cap setup THEN Keep ELSE SessionFrom(r.session)

--------------------------------------------------------------------------------
(* The target of a login. *)

\* Mutant: the target is forgotten on the way to the second factor.
WithNextDropped(next) == Nil

IsLocalPath(next) == next \in Paths
SafeRedirectPath(next) == IF IsLocalPath(next) THEN next ELSE Home
WithNext(next) == IF IsLocalPath(next) THEN next ELSE Nil
RedirectToLogin(path) == [kind |-> "loginForm", target |-> IF path = Home THEN Nil ELSE path]

--------------------------------------------------------------------------------
(* The browser. *)

Send(t, kind, target, form) ==
    sent' = [sent EXCEPT ![t] =
        [kind |-> kind, target |-> target, csrf |-> jar'.csrf, session |-> jar'.session,
         token |-> IF form = Nil THEN Nil ELSE form.token,
         for |-> IF form = Nil THEN Nil ELSE form.for]]

\* What a tab shows goes when it sends a request.
Leave(t) == tab' = [tab EXCEPT ![t] = Nil]

\* The user opens a page, a link to the login page, or the set-up of a second factor.
Navigate(t) ==
    /\ Idle(t) /\ Leave(t)
    /\ UNCHANGED <<jar, answer, open, setup, drawn, restarts>>
    /\ \/ \E target \in Targets :
             /\ asked' = [asked EXCEPT ![t] = target]
             /\ \/ target \in Paths /\ Send(t, "page", target, Nil)
                \/ Send(t, "loginForm", target, Nil)
       \/ asked' = [asked EXCEPT ![t] = Home] /\ Send(t, "setupForm", Nil, Nil)
    /\ disturbed' = [disturbed EXCEPT ![t] = FALSE]

\* The user submits a form of the page.  A logout forgets what was asked.
Submit(t) ==
    /\ Idle(t) /\ tab[t] # Nil /\ Leave(t)
    /\ UNCHANGED <<jar, answer, open, setup, drawn, restarts>>
    /\ \E kind \in Posts :
          /\ FormOf[kind] = IF tab[t].kind \in Pages THEN "page" ELSE tab[t].kind
          /\ Send(t, kind, tab[t].target, tab[t])
          /\ asked' = IF kind = "logout" THEN [asked EXCEPT ![t] = Home] ELSE asked
    /\ disturbed' = [disturbed EXCEPT ![t] = FALSE]

Held(cookie, set) == IF set = Keep THEN cookie ELSE set

\* The answer arrives: its cookies go to the jar, its page is shown or its
\* redirection followed.
Deliver(t) ==
    /\ answer[t] # Nil
    /\ UNCHANGED <<open, setup, drawn, restarts>>
    /\ answer' = [answer EXCEPT ![t] = Nil]
    /\ LET a == answer[t] IN
       /\ jar' = [csrf |-> Held(jar.csrf, a.csrf), session |-> Held(jar.session, a.session)]
       /\ \/ /\ a.goto # Nil
             /\ Send(t, a.goto.kind, a.goto.target, Nil)
             /\ disturbed' = [u \in Tabs |-> u # t /\ (disturbed[u] \/ Worth' # Worth)]
             /\ UNCHANGED <<tab, asked>>
          \/ /\ a.goto = Nil
             /\ tab' = [tab EXCEPT ![t] = a.form]
             /\ asked' = IF a.form # Nil /\ a.form.kind \in Pages
                         THEN [asked EXCEPT ![t] = a.form.target] ELSE asked
             /\ DisturbOthers(t)
             /\ UNCHANGED sent

\* The browser is closed and opened again with its tabs: requests on their way
\* are lost, and the CSRF cookie, which has no expiry, is gone.
Restart ==
    /\ restarts < MaxRestarts
    /\ restarts' = restarts + 1
    /\ jar' = [jar EXCEPT !.csrf = Nil]
    /\ sent' = [t \in Tabs |-> Nil]
    /\ answer' = [t \in Tabs |-> Nil]
    /\ asked' = [t \in Tabs |-> IF tab[t] # Nil /\ tab[t].target # Nil
                                THEN tab[t].target ELSE Home]
    /\ UNCHANGED <<tab, open, setup, drawn>>
    /\ DisturbAll

\* A session expires, or the project ends it.
Expire ==
    /\ \E s \in open : open' = open \ {s}
    /\ UNCHANGED <<jar, tab, sent, answer, setup, drawn, restarts, asked>>
    /\ DisturbAll

--------------------------------------------------------------------------------
(* The server. *)

\* What was asked is given up by a login that starts again, by the login page of
\* a user who is signed in, which redirects home, and by the set-up page, which
\* does not read ?next=.
GivesUp(t, goto) ==
    \/ sent[t].kind = "setupForm"
    \/ /\ goto # Nil
       /\ \/ sent[t].kind \in {"verifyForm", "verify"} /\ goto.kind = "loginForm"
          \/ sent[t].kind = "loginForm" /\ goto.kind = "page"

Answer(t, a) ==
    /\ answer' = [answer EXCEPT ![t] = a]
    /\ sent' = [sent EXCEPT ![t] = Nil]
    /\ asked' = IF GivesUp(t, a.goto) THEN [asked EXCEPT ![t] = Home] ELSE asked
    /\ UNCHANGED <<jar, tab, restarts>>
    /\ DisturbOthers(t)

Answered(t, token, session, goto, form) ==
    Answer(t, [csrf |-> SetsCookie(sent[t], token), session |-> session,
               goto |-> goto, form |-> form, bare |-> sent[t].csrf = Nil,
               passed |-> sent[t].kind \in Gets \/ Valid(sent[t], token)])

\* The answer of a handler that opens and ends no session.
Plain(t, token, goto, form) ==
    /\ drawn' = drawn \cup {token}
    /\ UNCHANGED <<open, setup>>
    /\ Answered(t, token, SessionCookie(sent[t]), goto, form)

FormFor(t, token, kind, target) ==
    [kind |-> kind, target |-> target, token |-> Shown(sent[t], token),
     for |-> <<token, SessionFrom(sent[t].session)>>]

Show(t, token, kind, target) == Plain(t, token, Nil, FormFor(t, token, kind, target))
Redirect(t, token, goto) == Plain(t, token, goto, Nil)

\* The Protector lets safe methods through, and the others with their token.
Passes(t, token, kind) ==
    /\ sent[t].kind = kind
    /\ kind \in Posts => Valid(sent[t], token)
UserFrom(t) == SessionFrom(sent[t].session) # Nil
SignedIn(t) == UserFrom(t) /\ sent[t].session \notin setup

\* The failure handler shows the form again, with the token of the request.
Refuse(t, token) ==
    /\ sent[t].kind \in Posts
    /\ ~Valid(sent[t], token)
    /\ Show(t, token, FormOf[sent[t].kind], sent[t].target)

\* An error page: the role is not the right one, a statement fails.
Error(t, token) ==
    /\ Passes(t, token, sent[t].kind)
    /\ Plain(t, token, Nil, Nil)

\* A page of the project behind RequireAuth, and what its form does.
PageGET(t, token) ==
    /\ Passes(t, token, "page")
    /\ \/ SignedIn(t) /\ Show(t, token, "page", sent[t].target)
       \/ ~SignedIn(t) /\ Redirect(t, token, RedirectToLogin(sent[t].target))
PagePOST(t, token) ==
    /\ Passes(t, token, "act")
    /\ \/ SignedIn(t) /\ Redirect(t, token, [kind |-> "page", target |-> sent[t].target])
       \/ SignedIn(t) /\ Recovery /\ Show(t, token, "codes", Home)
       \/ ~SignedIn(t) /\ Redirect(t, token, RedirectToLogin(sent[t].target))

LoginGET(t, token) ==
    /\ Passes(t, token, "loginForm")
    /\ \/ SignedIn(t) /\ Redirect(t, token, [kind |-> "page", target |-> Home])
       \/ ~SignedIn(t) /\ Show(t, token, "loginForm", sent[t].target)

\* OpenSession: the cookie of the new session comes after the one of LoadSession.
OpenSession(t, token, s, goto, form) ==
    /\ s \notin drawn
    /\ drawn' = drawn \cup {token, s}
    /\ Answered(t, token, s, goto, form)

Granted(t, token) ==
    \E s \in SessTokens :
        /\ open' = open \cup {s} /\ UNCHANGED setup
        /\ OpenSession(t, token, s,
              [kind |-> "page", target |-> SafeRedirectPath(sent[t].target)], Nil)

\* Begin, for an account without a second factor that must have one.
Enrol(t, token) ==
    \E s \in SessTokens :
        /\ open' = open \cup {s} /\ setup' = setup \cup {s}
        /\ OpenSession(t, token, s,
              [kind |-> "setupForm", target |-> WithNext(sent[t].target)], Nil)

\* The credentials are wrong, or right and Begin decides: a code is needed or the
\* account is locked, a set-up, or nothing.
LoginPOST(t, token) ==
    /\ Passes(t, token, "login")
    /\ \/ Show(t, token, "loginForm", sent[t].target)
       \/ /\ SecondFactor # "off"
          /\ \E kind \in {"verifyForm", "loginForm"} :
                Redirect(t, token, [kind |-> kind, target |-> WithNext(sent[t].target)])
       \/ SecondFactor = "required" /\ Enrol(t, token)
       \/ SecondFactor # "required" /\ Granted(t, token)

\* A challenge that is lost sends the user back to the login.
VerifyGET(t, token) ==
    /\ Passes(t, token, "verifyForm")
    /\ \/ Show(t, token, "verifyForm", sent[t].target)
       \/ Redirect(t, token, [kind |-> "loginForm", target |-> Nil])
VerifyPOST(t, token) ==
    /\ Passes(t, token, "verify")
    /\ \/ Show(t, token, "verifyForm", sent[t].target)
       \/ Redirect(t, token, [kind |-> "loginForm", target |-> Nil])
       \/ Granted(t, token)

\* The page of the set-up, for any session; not when a second factor is active.
SetupGET(t, token) ==
    /\ Passes(t, token, "setupForm")
    /\ \/ ~UserFrom(t) /\ Redirect(t, token, [kind |-> "loginForm", target |-> Nil])
       \/ UserFrom(t) /\ Redirect(t, token, [kind |-> "page", target |-> Home])
       \/ UserFrom(t) /\ Show(t, token, "setupForm", Nil)

\* The session of the request is deleted; a failure is ignored.
Deleted(t) == {{}, {sent[t].session}}

\* The set-up session is replaced by an authenticated one.  The recovery codes come
\* in the same answer, with the token of the request; they may fail to be drawn.
Elevate(t, token) ==
    /\ UserFrom(t) /\ ~SignedIn(t)
    /\ UNCHANGED setup
    /\ \E s \in SessTokens, gone \in Deleted(t) :
          /\ open' = (open \ gone) \cup {s}
          /\ \/ /\ ~Recovery
                /\ OpenSession(t, token, s, [kind |-> "page", target |-> Home], Nil)
             \/ /\ Recovery
                /\ \E form \in {FormFor(t, token, "codes", Home), Nil} :
                      OpenSession(t, token, s, Nil, form)

\* The code is refused, the second factor active already, or the code is right.
EnablePOST(t, token) ==
    /\ Passes(t, token, "enable")
    /\ \/ ~UserFrom(t) /\ Redirect(t, token, [kind |-> "loginForm", target |-> Nil])
       \/ UserFrom(t) /\ Redirect(t, token, [kind |-> "setupForm", target |-> Nil])
       \/ UserFrom(t) /\ Redirect(t, token, [kind |-> "page", target |-> Home])
       \/ SignedIn(t) /\ Recovery /\ Show(t, token, "codes", Home)
       \/ Elevate(t, token)

Logout(t, token) ==
    /\ Passes(t, token, "logout")
    /\ \E gone \in Deleted(t) : open' = open \ gone
    /\ drawn' = drawn \cup {token} /\ UNCHANGED setup
    /\ Answered(t, token, Nil, [kind |-> "loginForm", target |-> Nil], Nil)

\* randomToken fails: an error page without a form.
NoToken(t) ==
    /\ sent[t].csrf = Nil
    /\ UNCHANGED <<open, setup, drawn>>
    /\ Answer(t, [csrf |-> Keep, session |-> SessionCookie(sent[t]), goto |-> Nil,
                  form |-> Nil, bare |-> TRUE, passed |-> FALSE])

Middleware(t) ==
    /\ sent[t] # Nil
    /\ \/ NoToken(t)
       \/ \E token \in CookieTokens(sent[t]) :
             \/ Refuse(t, token) \/ Error(t, token)
             \/ PageGET(t, token) \/ PagePOST(t, token)
             \/ LoginGET(t, token) \/ LoginPOST(t, token)
             \/ VerifyGET(t, token) \/ VerifyPOST(t, token)
             \/ SetupGET(t, token) \/ EnablePOST(t, token)
             \/ Logout(t, token)

Next ==
    \/ \E t \in Tabs : Navigate(t) \/ Submit(t) \/ Deliver(t) \/ Middleware(t)
    \/ Restart \/ Expire

Spec == Init /\ [][Next]_vars

--------------------------------------------------------------------------------
(* Properties. *)

\* The recovery codes that EnablePOST shows as it elevates a session.
Elevated(form) == form.kind = "codes" /\ form.for[2] \in setup

\* The form a tab shows is accepted, unless another tab, an expiry or a restart
\* changed the cookies since the tab sent the request it answers: the form of a
\* refusal works, and so does a form that comes with the cookie of LoadSession.
\* Only the page that follows an elevation is refused for nothing.
UndisturbedUsable ==
    \A t \in Tabs :
        (Idle(t) /\ tab[t] # Nil /\ ~disturbed[t] /\ ~Elevated(tab[t]))
            => tab[t].token = Expected(jar.csrf, SessionFrom(jar.session))

\* A mutating request goes through only with a form that was rendered for its
\* cookie and, with WithSessionBinding, for its session: forms shown before a
\* login, a logout or the end of a session are refused.
AcceptedInSession ==
    [][\A t \in Tabs :
          (/\ sent[t] # Nil /\ sent[t].kind \in Posts
           /\ answer'[t] # Nil /\ answer'[t].passed)
              => /\ sent[t].for[1] = sent[t].csrf
                 /\ Bound => sent[t].for[2] = SessionFrom(sent[t].session)]_vars

\* The forms of the other tabs survive a tab that browses: once no request
\* without a cookie is on its way, the CSRF cookie changes no more.
CookieSettles ==
    [][(/\ jar.csrf # Nil
        /\ \A t \in Tabs : sent[t] = Nil \/ sent[t].csrf # Nil
        /\ \A t \in Tabs : answer[t] = Nil \/ ~answer[t].bare)
           => jar'.csrf \in {jar.csrf, Nil}]_vars

\* Over the login form, its errors, the second factor and refusals, in spite of
\* the other tabs, a login ends on the page its tab asked for, or at home when
\* that is no local path.
LandsWhereAsked ==
    [][\A t \in Tabs :
          (/\ answer'[t] # Nil /\ answer'[t].goto # Nil
           /\ answer'[t].session \in open' \ (open \cup setup'))
              => answer'[t].goto.target = IF asked'[t] \in Paths THEN asked'[t] ELSE Home]_vars

================================================================================
