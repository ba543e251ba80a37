----------------------------- MODULE BrowserProofs ------------------------------
(***************************************************************************)
(* For any number of tabs, tokens, pages and restarts of the browser:      *)
(*                                                                         *)
(*   AcceptedInSessionCorrect  a form outlives neither its cookie nor its  *)
(*                             session                                     *)
(*   CookieSettlesCorrect      the cookie of the forms changes no more     *)
(*   UndisturbedUsableCorrect  nobody is refused for nothing, but on the   *)
(*                             page that ends a set-up                     *)
(*   LandsWhereAskedCorrect    a login ends where its tab wanted to go     *)
(*                                                                         *)
(* A step concerns one tab, a restart or an expiry.  What the server may   *)
(* do is reduced to five outcomes: no token, a form, a redirection, a      *)
(* session that is opened, a logout (Outcomes).  Each invariant is then    *)
(* shown for the tab that moves and for the others.                        *)
(***************************************************************************)
EXTENDS Browser, TLAPS

TypeInv ==
    /\ jar \in [csrf : Cookie, session : Session]
    /\ tab \in [Tabs -> Form \cup {Nil}]
    /\ sent \in [Tabs -> Request \cup {Nil}]
    /\ answer \in [Tabs -> Reply \cup {Nil}]
    /\ open \subseteq SessTokens
    /\ disturbed \in [Tabs -> BOOLEAN]
    /\ asked \in [Tabs -> Target]

\* A tab waits for one answer, and shows nothing meanwhile.
OneAtATime == \A t \in Tabs : /\ sent[t] = Nil \/ answer[t] = Nil
                              /\ Idle(t) \/ tab[t] = Nil

\* A form was rendered for a token that was drawn, and carries the proof of it.
Rendered(form) ==
    /\ form.for[1] \in drawn
    /\ form.token = Expected(form.for[1], form.for[2])

\* Whatever cookie the browser holds or is about to hold was drawn.
CookiesDrawn ==
    /\ open \subseteq drawn
    /\ {jar.csrf, jar.session} \subseteq drawn \cup {Nil}
    /\ \A t \in Tabs :
          /\ sent[t] # Nil => {sent[t].csrf, sent[t].session} \subseteq drawn \cup {Nil}
          /\ answer[t] # Nil => /\ answer[t].csrf \in drawn \cup {Keep}
                                /\ answer[t].session \in drawn \cup {Nil, Keep}

FormsRendered ==
    \A t \in Tabs :
        /\ tab[t] # Nil => Rendered(tab[t])
        /\ (sent[t] # Nil /\ sent[t].token # Nil) => Rendered(sent[t])
        /\ (answer[t] # Nil /\ answer[t].form # Nil) => Rendered(answer[t].form)

\* Only a request without a cookie is answered with a new one.
OnlyBareSets == \A t \in Tabs : (answer[t] # Nil /\ ~answer[t].bare) => answer[t].csrf = Keep

BaseInv == TypeInv /\ OneAtATime /\ CookiesDrawn /\ FormsRendered /\ OnlyBareSets

--------------------------------------------------------------------------------
(* The steps. *)

\* Where the handlers redirect: what the tab asked for is kept, or given up.
Leads(t, goto) ==
    \/ SafeRedirectPath(goto.target) = SafeRedirectPath(sent[t].target) /\ ~GivesUp(t, goto)
    \/ SafeRedirectPath(goto.target) = Home /\ GivesUp(t, goto)

LEMMA TargetFacts ==
  /\ Home \in Paths /\ Nil \notin Targets /\ Nil \notin CsrfTokens /\ Nil \notin SessTokens
  /\ Keep \notin CsrfTokens /\ Keep \notin SessTokens /\ Bound \in BOOLEAN
  /\ \A x : SafeRedirectPath(x) \in Paths
  /\ \A x : SafeRedirectPath(SafeRedirectPath(x)) = SafeRedirectPath(x)
  /\ \A x : SafeRedirectPath(WithNext(x)) = SafeRedirectPath(x)
  /\ \A x : SafeRedirectPath(RedirectToLogin(x).target) = SafeRedirectPath(x)
  /\ SafeRedirectPath(Nil) = Home /\ SafeRedirectPath(Home) = Home
  BY BrowserAssumption DEF Targets, SafeRedirectPath, WithNext, RedirectToLogin, IsLocalPath

\* What a form that is shown leads to.  A page of the project says it itself.
Carries(t, kind, target) ==
    \/ kind \in Pages
    \/ sent[t].kind = "setupForm" /\ target = Nil
    \/ sent[t].kind \notin {"logout", "setupForm"} /\ target = sent[t].target

\* A login, or the end of a set-up, opens a session.
Opens(t, token, s, goto, form) ==
    /\ sent[t].kind \in {"login", "verify", "enable"} /\ Valid(sent[t], token)
    /\ open' \subseteq open \cup {s} /\ setup \subseteq setup'
    /\ OpenSession(t, token, s, goto, form)
    /\ goto # Nil => /\ goto.kind \in {"page", "setupForm"}
                     /\ \/ goto.target = SafeRedirectPath(sent[t].target)
                        \/ goto.target = WithNext(sent[t].target) /\ s \in setup'
    /\ form # Nil => /\ goto = Nil /\ form = FormFor(t, token, "codes", Home)
                     /\ SessionFrom(sent[t].session) \in setup

\* What the server may do with a request.
Outcome(t, token) ==
    \/ \E kind \in Gets \cup Pages, target \in Target :
          /\ kind = "setupForm" => target = Nil
          /\ Carries(t, kind, target) /\ Show(t, token, kind, target)
    \/ \E goto \in Goto \cup {Nil} :
          /\ goto = Nil \/ (Leads(t, goto) /\ sent[t].kind # "logout")
          /\ Redirect(t, token, goto)
    \/ \E s \in SessTokens, goto \in Goto \cup {Nil}, form \in Form \cup {Nil} :
          Opens(t, token, s, goto, form)
    \/ Valid(sent[t], token) /\ Logout(t, token)

LEMMA ProofsTyped ==
  /\ \A token \in CsrfTokens, session \in Session : Expected(token, session) \in Token
  /\ \A cookie \in Session : SessionFrom(cookie) \in Session
  BY DEF Token, Session, SessionFrom

LEMMA CookieTokensTyped ==
  ASSUME NEW r \in Request, NEW token \in CookieTokens(r)
  PROVE  /\ token \in CsrfTokens /\ SetsCookie(r, token) \in CsrfTokens \cup {Keep}
         /\ SessionCookie(r) \in Session \cup {Keep} /\ Shown(r, token) \in Token
         /\ SessionFrom(r.session) \in Session
  <1>1. token \in CsrfTokens /\ r.session \in Session
    BY DEF CookieTokens, Request, Cookie
  <1> QED
    BY <1>1, ProofsTyped DEF SetsCookie, SessionCookie, Shown

LEMMA FormForTyped ==
  ASSUME NEW t \in Tabs, sent[t] \in Request, NEW token \in CookieTokens(sent[t]),
         NEW kind \in Gets \cup Pages, NEW target \in Target, kind = "setupForm" => target = Nil
  PROVE  FormFor(t, token, kind, target) \in Form
  BY CookieTokensTyped DEF FormFor, Form

LEMMA Outcomes ==
  ASSUME NEW t \in Tabs, Middleware(t), TypeInv
  PROVE  /\ sent[t] \in Request /\ sent[t] # Nil
         /\ NoToken(t) \/ \E token \in CookieTokens(sent[t]) : Outcome(t, token)
  <1>1. sent[t] \in Request /\ sent[t] # Nil
    BY DEF Middleware, TypeInv
  <1>2. /\ sent[t].target \in Target /\ WithNext(sent[t].target) \in Target
        /\ SafeRedirectPath(sent[t].target) \in Target
        /\ Home \in Target /\ Nil \in Target
        /\ sent[t].kind = "enable" => sent[t].target = Nil
    BY <1>1, TargetFacts DEF Request, Target, Targets, WithNext, IsLocalPath
  <1>3. \A kind \in Gets, target \in Target : [kind |-> kind, target |-> target] \in Goto
    BY DEF Goto
  <1>4. ASSUME NEW token, NEW kind \in Gets \cup Pages, NEW target \in Target,
               kind = "setupForm" => target = Nil,
               Carries(t, kind, target), Show(t, token, kind, target)
        PROVE  Outcome(t, token)
    BY <1>4 DEF Outcome
  <1>5. ASSUME NEW token, NEW kind \in Gets, NEW target \in Target,
               Leads(t, [kind |-> kind, target |-> target]), sent[t].kind # "logout",
               Redirect(t, token, [kind |-> kind, target |-> target])
        PROVE  Outcome(t, token)
    BY <1>3, <1>5 DEF Outcome
  <1>6. ASSUME NEW token \in CookieTokens(sent[t]), NEW s \in SessTokens,
               NEW goto \in Goto \cup {Nil}, NEW form \in Form \cup {Nil},
               Opens(t, token, s, goto, form)
        PROVE  Outcome(t, token)
    BY <1>6 DEF Outcome
  <1>7. ASSUME NEW token \in CookieTokens(sent[t]), Refuse(t, token)
        PROVE  Outcome(t, token)
    <2>1. /\ sent[t].kind \in Posts /\ Show(t, token, FormOf[sent[t].kind], sent[t].target)
      BY <1>7 DEF Refuse
    <2>2. /\ FormOf[sent[t].kind] \in Gets /\ sent[t].kind # "setupForm"
          /\ sent[t].kind = "logout" => FormOf[sent[t].kind] = "page"
          /\ FormOf[sent[t].kind] = "setupForm" => sent[t].kind = "enable"
      BY <2>1 DEF Posts, Gets, FormOf
    <2>3. Carries(t, FormOf[sent[t].kind], sent[t].target)
      BY <2>2 DEF Carries, Pages
    <2> QED
      BY <1>2, <1>4, <2>1, <2>2, <2>3
  <1>8. ASSUME NEW token \in CookieTokens(sent[t]), Error(t, token)
        PROVE  Outcome(t, token)
    BY <1>8 DEF Error, Outcome, Redirect
  <1>9. ASSUME NEW token \in CookieTokens(sent[t]), PageGET(t, token) \/ PagePOST(t, token)
        PROVE  Outcome(t, token)
    <2>1. sent[t].kind \in {"page", "act"}
      BY <1>9 DEF PageGET, PagePOST, Passes
    <2>2. ASSUME Show(t, token, "page", sent[t].target) \/ Show(t, token, "codes", Home)
          PROVE  Outcome(t, token)
      BY <1>2, <1>4, <2>2 DEF Carries, Pages
    <2>3. ASSUME Redirect(t, token, RedirectToLogin(sent[t].target))
          PROVE  Outcome(t, token)
      <3> DEFINE target == IF sent[t].target = Home THEN Nil ELSE sent[t].target
      <3>1. /\ RedirectToLogin(sent[t].target) = [kind |-> "loginForm", target |-> target]
            /\ SafeRedirectPath(target) = SafeRedirectPath(sent[t].target)
        BY TargetFacts DEF RedirectToLogin
      <3>2. Leads(t, [kind |-> "loginForm", target |-> target])
        BY <2>1, <3>1 DEF Leads, GivesUp
      <3> QED
        BY <1>2, <1>5, <2>1, <2>3, <3>1, <3>2 DEF Gets
    <2>4. ASSUME Redirect(t, token, [kind |-> "page", target |-> sent[t].target])
          PROVE  Outcome(t, token)
      <3>1. Leads(t, [kind |-> "page", target |-> sent[t].target])
        BY <2>1 DEF Leads, GivesUp
      <3> QED
        BY <1>2, <1>5, <2>1, <2>4, <3>1 DEF Gets
    <2> QED
      BY <1>9, <2>2, <2>3, <2>4 DEF PageGET, PagePOST
  <1>10. ASSUME NEW token \in CookieTokens(sent[t]), LoginGET(t, token)
         PROVE  Outcome(t, token)
    <2>1. sent[t].kind = "loginForm"
      BY <1>10 DEF LoginGET, Passes
    <2>2. ASSUME Redirect(t, token, [kind |-> "page", target |-> Home])
          PROVE  Outcome(t, token)
      <3>1. [kind |-> "page", target |-> Home] \in Goto
        BY <1>2, <1>3 DEF Gets
      <3>2. [kind |-> "page", target |-> Home] = Nil \/ Leads(t, [kind |-> "page", target |-> Home])
        BY <2>1, TargetFacts DEF Leads, GivesUp
      <3> QED
        BY <2>1, <2>2, <3>1, <3>2 DEF Outcome
    <2>3. ASSUME Show(t, token, "loginForm", sent[t].target)
          PROVE  Outcome(t, token)
      BY <1>2, <1>4, <2>1, <2>3 DEF Carries, Gets
    <2> QED
      BY <1>10, <2>2, <2>3 DEF LoginGET
  <1>11. ASSUME NEW token \in CookieTokens(sent[t]),
                sent[t].kind \in {"login", "verify"}, Valid(sent[t], token), Granted(t, token)
         PROVE  Outcome(t, token)
    <2> DEFINE goto == [kind |-> "page", target |-> SafeRedirectPath(sent[t].target)]
    <2>1. PICK s \in SessTokens : Opens(t, token, s, goto, Nil)
      BY <1>11 DEF Granted, Opens
    <2>2. goto \in Goto
      BY <1>2, <1>3 DEF Gets
    <2> QED
      BY <1>6, <2>1, <2>2
  <1>12. ASSUME NEW token \in CookieTokens(sent[t]), LoginPOST(t, token)
         PROVE  Outcome(t, token)
    <2>1. sent[t].kind = "login" /\ Valid(sent[t], token)
      BY <1>12 DEF LoginPOST, Passes, Posts
    <2>2. ASSUME NEW kind \in {"verifyForm", "loginForm"},
                 Redirect(t, token, [kind |-> kind, target |-> WithNext(sent[t].target)])
          PROVE  Outcome(t, token)
      <3>1. Leads(t, [kind |-> kind, target |-> WithNext(sent[t].target)])
        BY <2>1, TargetFacts DEF Leads, GivesUp
      <3> QED
        BY <1>2, <1>5, <2>1, <2>2, <3>1 DEF Gets
    <2>3. ASSUME Show(t, token, "loginForm", sent[t].target)
          PROVE  Outcome(t, token)
      BY <1>2, <1>4, <2>1, <2>3 DEF Carries, Gets
    <2>4. ASSUME Enrol(t, token) PROVE Outcome(t, token)
      <3> DEFINE goto == [kind |-> "setupForm", target |-> WithNext(sent[t].target)]
      <3>1. PICK s \in SessTokens : Opens(t, token, s, goto, Nil)
        BY <2>1, <2>4 DEF Enrol, Opens
      <3>2. goto \in Goto
        BY <1>2, <1>3 DEF Gets
      <3> QED
        BY <1>6, <3>1, <3>2
    <2> QED
      BY <1>11, <1>12, <2>1, <2>2, <2>3, <2>4 DEF LoginPOST
  <1>13. ASSUME NEW token \in CookieTokens(sent[t]), VerifyGET(t, token) \/ VerifyPOST(t, token)
         PROVE  Outcome(t, token)
    <2> DEFINE login == [kind |-> "loginForm", target |-> Nil]
    <2>1. /\ sent[t].kind \in {"verifyForm", "verify"}
          /\ VerifyPOST(t, token) => sent[t].kind = "verify" /\ Valid(sent[t], token)
      BY <1>13 DEF VerifyGET, VerifyPOST, Passes, Posts
    <2>2. ASSUME Redirect(t, token, login) PROVE Outcome(t, token)
      <3>1. login \in Goto /\ (login = Nil \/ Leads(t, login))
        BY <1>2, <1>3, <2>1, TargetFacts DEF Leads, GivesUp, Gets
      <3> QED
        BY <2>1, <2>2, <3>1 DEF Outcome
    <2>3. ASSUME Show(t, token, "verifyForm", sent[t].target) PROVE Outcome(t, token)
      BY <1>2, <1>4, <2>1, <2>3 DEF Carries, Gets
    <2> QED
      BY <1>11, <1>13, <2>1, <2>2, <2>3 DEF VerifyGET, VerifyPOST
  <1>14. ASSUME NEW token \in CookieTokens(sent[t]),
                sent[t].kind \in {"setupForm", "enable"},
                NEW goto \in {[kind |-> "loginForm", target |-> Nil],
                              [kind |-> "setupForm", target |-> Nil],
                              [kind |-> "page", target |-> Home]},
                Redirect(t, token, goto)
         PROVE  Outcome(t, token)
    <2>1. goto \in Goto
      BY <1>2, <1>3 DEF Gets
    <2>2. SafeRedirectPath(goto.target) = Home
      BY TargetFacts
    <2>3. CASE sent[t].kind = "setupForm"
      BY <1>14, <2>1, <2>2, <2>3 DEF Outcome, Leads, GivesUp
    <2>4. CASE sent[t].kind = "enable"
      <3>1. SafeRedirectPath(sent[t].target) = Home /\ ~GivesUp(t, goto)
        BY <1>2, <2>4, TargetFacts DEF GivesUp
      <3> QED
        BY <1>14, <2>1, <2>2, <2>4, <3>1 DEF Outcome, Leads
    <2> QED
      BY <1>14, <2>3, <2>4
  <1>15. ASSUME NEW token \in CookieTokens(sent[t]), SetupGET(t, token)
         PROVE  Outcome(t, token)
    <2>1. sent[t].kind = "setupForm"
      BY <1>15 DEF SetupGET, Passes
    <2>2. ASSUME Show(t, token, "setupForm", Nil) PROVE Outcome(t, token)
      BY <1>2, <1>4, <2>1, <2>2 DEF Carries, Gets
    <2> QED
      BY <1>14, <1>15, <2>1, <2>2 DEF SetupGET
  <1>16. ASSUME NEW token \in CookieTokens(sent[t]), sent[t].kind = "enable",
                Valid(sent[t], token), Elevate(t, token)
         PROVE  Outcome(t, token)
    <2> DEFINE home == [kind |-> "page", target |-> Home]
               codes == FormFor(t, token, "codes", Home)
    <2>1. /\ SessionFrom(sent[t].session) \in setup /\ setup' = setup
          /\ SafeRedirectPath(sent[t].target) = Home
      BY <1>2, <1>16, TargetFacts DEF Elevate, SignedIn, UserFrom, SessionFrom
    <2>2. home \in Goto /\ codes \in Form
      BY <1>1, <1>2, <1>3, FormForTyped DEF Gets, Pages
    <2>3. PICK s \in SessTokens :
            /\ open' \subseteq open \cup {s}
            /\ \/ OpenSession(t, token, s, home, Nil)
               \/ \E form \in {codes, Nil} : OpenSession(t, token, s, Nil, form)
      BY <1>16 DEF Elevate
    <2>4. CASE OpenSession(t, token, s, home, Nil)
      <3>1. Opens(t, token, s, home, Nil)
        BY <1>16, <2>1, <2>3, <2>4 DEF Opens
      <3> QED
        BY <1>6, <2>2, <3>1
    <2>5. ASSUME NEW form \in {codes, Nil}, OpenSession(t, token, s, Nil, form)
          PROVE  Outcome(t, token)
      <3>1. Opens(t, token, s, Nil, form)
        BY <1>16, <2>1, <2>3, <2>5 DEF Opens
      <3> QED
        BY <1>6, <2>2, <3>1
    <2> QED
      BY <2>3, <2>4, <2>5
  <1>17. ASSUME NEW token \in CookieTokens(sent[t]), EnablePOST(t, token)
         PROVE  Outcome(t, token)
    <2>1. sent[t].kind = "enable" /\ Valid(sent[t], token)
      BY <1>17 DEF EnablePOST, Passes, Posts
    <2>2. ASSUME Show(t, token, "codes", Home) PROVE Outcome(t, token)
      BY <1>2, <1>4, <2>2 DEF Carries, Pages
    <2> QED
      BY <1>14, <1>16, <1>17, <2>1, <2>2 DEF EnablePOST
  <1>18. ASSUME NEW token \in CookieTokens(sent[t]), Logout(t, token)
         PROVE  Outcome(t, token)
    BY <1>18 DEF Logout, Passes, Posts, Outcome
  <1> QED
    BY <1>1, <1>7, <1>8, <1>9, <1>10, <1>12, <1>13, <1>15, <1>17, <1>18 DEF Middleware

--------------------------------------------------------------------------------
(* Types. *)

LEMMA SendTyped ==
  ASSUME TypeInv, NEW t \in Tabs, NEW kind \in Gets \cup Posts, NEW target \in Target,
         NEW form \in Form \cup {Nil}, jar' \in [csrf : Cookie, session : Session],
         Send(t, kind, target, form), kind = "enable" => target = Nil
  PROVE  sent' \in [Tabs -> Request \cup {Nil}] /\ sent'[t] # Nil
  <1> DEFINE r == [kind |-> kind, target |-> target, csrf |-> jar'.csrf,
                   session |-> jar'.session,
                   token |-> IF form = Nil THEN Nil ELSE form.token,
                   for |-> IF form = Nil THEN Nil ELSE form.for]
  <1>1. r \in Request
    BY DEF Request, Form
  <1> QED
    BY <1>1, NilAssumption DEF Send, TypeInv

LEMMA AnswerTyped ==
  ASSUME TypeInv, NEW t \in Tabs, NEW a \in Reply, Answer(t, a), open' \subseteq SessTokens
  PROVE  TypeInv' /\ answer'[t] \in Reply
  <1>1. Home \in Target
    BY TargetFacts DEF Target, Targets
  <1>2. asked' \in [Tabs -> Target]
    BY <1>1 DEF Answer, TypeInv
  <1>3. disturbed' \in [Tabs -> BOOLEAN]
    BY DEF Answer, DisturbOthers, TypeInv
  <1> QED
    BY <1>2, <1>3 DEF Answer, TypeInv

LEMMA AnsweredTyped ==
  ASSUME TypeInv, NEW t \in Tabs, sent[t] \in Request, NEW token \in CookieTokens(sent[t]),
         NEW session \in Session \cup {Keep}, NEW goto \in Goto \cup {Nil},
         NEW form \in Form \cup {Nil}, Answered(t, token, session, goto, form),
         open' \subseteq SessTokens
  PROVE  TypeInv' /\ answer'[t] \in Reply
  <1> DEFINE a == [csrf |-> SetsCookie(sent[t], token), session |-> session,
                   goto |-> goto, form |-> form, bare |-> sent[t].csrf = Nil,
                   passed |-> sent[t].kind \in Gets \/ Valid(sent[t], token)]
  <1>1. (sent[t].kind \in Gets \/ Valid(sent[t], token)) \in BOOLEAN
    BY DEF Valid
  <1>2. a \in Reply
    BY <1>1, CookieTokensTyped DEF Reply
  <1> QED
    BY <1>2, AnswerTyped DEF Answered

LEMMA MiddlewareTyped ==
  ASSUME TypeInv, NEW t \in Tabs, Middleware(t)
  PROVE  TypeInv' /\ answer'[t] \in Reply
  <1>1. sent[t] \in Request /\ open \subseteq SessTokens /\ {Nil, Keep} \subseteq Session \cup {Keep}
    BY Outcomes DEF Session, TypeInv
  <1>2. CASE NoToken(t)
    <2> DEFINE a == [csrf |-> Keep, session |-> SessionCookie(sent[t]), goto |-> Nil,
                     form |-> Nil, bare |-> TRUE, passed |-> FALSE]
    <2>1. SessionCookie(sent[t]) \in Session \cup {Keep}
      BY <1>1, ProofsTyped DEF SessionCookie, Request
    <2>2. a \in Reply /\ open' = open
      BY <1>2, <2>1 DEF Reply, NoToken
    <2> QED
      BY <1>1, <1>2, <2>2, AnswerTyped DEF NoToken
  <1>3. ASSUME NEW token \in CookieTokens(sent[t]), Outcome(t, token)
        PROVE  TypeInv' /\ answer'[t] \in Reply
    <2>1. ASSUME NEW goto \in Goto \cup {Nil}, NEW form \in Form \cup {Nil},
                 Plain(t, token, goto, form)
          PROVE  TypeInv' /\ answer'[t] \in Reply
      BY <1>1, <2>1, CookieTokensTyped, AnsweredTyped DEF Plain
    <2>2. ASSUME NEW kind \in Gets \cup Pages, NEW target \in Target,
                 kind = "setupForm" => target = Nil, Show(t, token, kind, target)
          PROVE  TypeInv' /\ answer'[t] \in Reply
      BY <1>1, <2>1, <2>2, FormForTyped DEF Show
    <2>3. ASSUME NEW goto \in Goto \cup {Nil}, Redirect(t, token, goto)
          PROVE  TypeInv' /\ answer'[t] \in Reply
      BY <2>1, <2>3 DEF Redirect
    <2>4. ASSUME NEW s \in SessTokens, NEW goto \in Goto \cup {Nil}, NEW form \in Form \cup {Nil},
                 Opens(t, token, s, goto, form)
          PROVE  TypeInv' /\ answer'[t] \in Reply
      <3>1. /\ open' \subseteq SessTokens /\ s \in Session \cup {Keep}
            /\ Answered(t, token, s, goto, form)
        BY <1>1, <2>4 DEF Opens, OpenSession, Session
      <3> QED
        BY <1>1, <3>1, AnsweredTyped
    <2>5. ASSUME Logout(t, token) PROVE TypeInv' /\ answer'[t] \in Reply
      <3>1. [kind |-> "loginForm", target |-> Nil] \in Goto /\ open' \subseteq SessTokens
        BY <1>1, <2>5 DEF Goto, Gets, Target, Logout
      <3> QED
        BY <1>1, <2>5, <3>1, AnsweredTyped DEF Logout
    <2> QED
      BY <1>3, <2>2, <2>3, <2>4, <2>5 DEF Outcome
  <1> QED
    BY <1>2, <1>3, Outcomes

\* A tab that sends waits.
Waits(t) == sent'[t] # Nil

LEMMA BrowserTyped ==
  ASSUME TypeInv
  PROVE  /\ \A t \in Tabs : Navigate(t) \/ Submit(t) => TypeInv' /\ Waits(t)
         /\ \A t \in Tabs : Deliver(t) => TypeInv' /\ (answer[t].goto # Nil => Waits(t))
  <1>0. Nil \in Target /\ Home \in Target /\ Paths \subseteq Target /\ Targets \subseteq Target
    BY TargetFacts DEF Target, Targets
  <1>1. ASSUME NEW t \in Tabs, Navigate(t) PROVE TypeInv' /\ Waits(t)
    <2>1. PICK kind \in Gets, target \in Target :
            /\ Send(t, kind, target, Nil)
            /\ \/ asked' = [asked EXCEPT ![t] = target]
               \/ asked' = [asked EXCEPT ![t] = Home]
      BY <1>0, <1>1 DEF Navigate, Gets
    <2>2. sent' \in [Tabs -> Request \cup {Nil}] /\ Waits(t)
      BY <1>0, <1>1, <2>1, SendTyped DEF Waits, Navigate, TypeInv, Gets
    <2> QED
      BY <1>0, <1>1, <2>1, <2>2 DEF Navigate, Leave, TypeInv
  <1>2. ASSUME NEW t \in Tabs, Submit(t) PROVE TypeInv' /\ Waits(t)
    <2>1. PICK kind \in Posts :
            /\ FormOf[kind] = IF tab[t].kind \in Pages THEN "page" ELSE tab[t].kind
            /\ Send(t, kind, tab[t].target, tab[t])
            /\ asked' = IF kind = "logout" THEN [asked EXCEPT ![t] = Home] ELSE asked
      BY <1>2 DEF Submit
    <2>2. /\ tab[t] \in Form /\ tab[t].target \in Target
          /\ tab[t].kind = "setupForm" => tab[t].target = Nil
      BY <1>2 DEF Submit, TypeInv, Form
    <2>3. kind = "enable" => tab[t].kind = "setupForm"
      BY <2>1 DEF FormOf, Posts, Pages
    <2>4. sent' \in [Tabs -> Request \cup {Nil}] /\ Waits(t)
      BY <1>2, <2>1, <2>2, <2>3, SendTyped DEF Waits, Submit, TypeInv
    <2> QED
      BY <1>0, <1>2, <2>1, <2>4 DEF Submit, Leave, TypeInv
  <1>3. ASSUME NEW t \in Tabs, Deliver(t)
        PROVE  TypeInv' /\ (answer[t].goto # Nil => Waits(t))
    <2> DEFINE a == answer[t]
    <2>1. a \in Reply
      BY <1>3 DEF Deliver, TypeInv
    <2>2. jar' \in [csrf : Cookie, session : Session]
      BY <1>3, <2>1 DEF Deliver, Held, TypeInv, Reply, Cookie
    <2>3. answer' \in [Tabs -> Reply \cup {Nil}] /\ open' = open
      BY <1>3 DEF Deliver, TypeInv
    <2>4. CASE /\ a.goto # Nil
               /\ Send(t, a.goto.kind, a.goto.target, Nil)
               /\ disturbed' = [u \in Tabs |-> u # t /\ (disturbed[u] \/ Worth' # Worth)]
               /\ UNCHANGED <<tab, asked>>
      <3>1. sent' \in [Tabs -> Request \cup {Nil}] /\ Waits(t)
        BY <2>1, <2>2, <2>4, SendTyped DEF Waits, Reply, Goto, Gets
      <3>2. disturbed' \in [Tabs -> BOOLEAN]
        BY <2>4 DEF TypeInv
      <3> QED
        BY <2>2, <2>3, <2>4, <3>1, <3>2 DEF TypeInv
    <2>5. CASE /\ a.goto = Nil
               /\ tab' = [tab EXCEPT ![t] = a.form]
               /\ asked' = IF a.form # Nil /\ a.form.kind \in Pages
                           THEN [asked EXCEPT ![t] = a.form.target] ELSE asked
               /\ DisturbOthers(t)
               /\ UNCHANGED sent
      <3>1. tab' \in [Tabs -> Form \cup {Nil}] /\ asked' \in [Tabs -> Target]
        BY <2>1, <2>5 DEF Reply, Form, TypeInv
      <3>2. disturbed' \in [Tabs -> BOOLEAN]
        BY <2>5 DEF DisturbOthers, TypeInv
      <3> QED
        BY <2>2, <2>3, <2>5, <3>1, <3>2 DEF TypeInv
    <2> QED
      BY <1>3, <2>4, <2>5 DEF Deliver
  <1> QED
    BY <1>1, <1>2, <1>3

LEMMA StepTyped == TypeInv /\ [Next]_vars => TypeInv'
  <1> SUFFICES ASSUME TypeInv, [Next]_vars PROVE TypeInv'
    OBVIOUS
  <1>0. Nil \in Target /\ Home \in Target
    BY TargetFacts DEF Target, Targets
  <1>1. CASE Restart
    <2>1. asked' \in [Tabs -> Target]
      BY <1>0, <1>1 DEF Restart, TypeInv, Form
    <2>2. disturbed' \in [Tabs -> BOOLEAN]
      BY <1>1 DEF Restart, DisturbAll, TypeInv
    <2> QED
      BY <1>1, <2>1, <2>2 DEF Restart, TypeInv, Cookie
  <1>2. CASE Expire
    BY <1>2 DEF Expire, DisturbAll, TypeInv
  <1>3. CASE UNCHANGED vars
    BY <1>3 DEF vars, TypeInv
  <1> QED
    BY <1>1, <1>2, <1>3, BrowserTyped, MiddlewareTyped DEF Next

--------------------------------------------------------------------------------
(* The answer of the server, as the invariants see it. *)

\* The form of a page answers the request as it came, with the cookie of LoadSession
\* unless a session is elevated.
ShowsForm(t, a) ==
    a.form # Nil =>
        /\ a.goto = Nil
        /\ \/ a.form.kind \in Pages
           \/ asked'[t] = Home /\ a.form.target = Nil
           \/ sent[t].kind # "logout" /\ asked' = asked /\ a.form.target = sent[t].target
        /\ \/ Elevated(a.form)'
           \/ open' = open /\ a.session = SessionCookie(sent[t])
        /\ \E token \in CookieTokens(sent[t]) :
              /\ a.csrf = SetsCookie(sent[t], token)
              /\ a.form.token = Expected(token, SessionFrom(sent[t].session))
              /\ a.form.for = <<token, SessionFrom(sent[t].session)>>
              /\ token \in drawn'

\* A redirection leads where the tab wanted to go, unless that is given up; one that
\* comes with a new authenticated session gives nothing up.
Redirects(t, a) ==
    a.goto # Nil =>
        /\ \/ /\ SafeRedirectPath(a.goto.target) = SafeRedirectPath(sent[t].target)
              /\ sent[t].kind # "logout" /\ asked' = asked
           \/ SafeRedirectPath(a.goto.target) = Home /\ asked'[t] = Home
           \/ /\ SafeRedirectPath(a.goto.target) = Home
              /\ sent[t].kind = "logout" /\ asked' = asked
        /\ a.session \in open' \ (open \cup setup') =>
              /\ a.goto.target = SafeRedirectPath(sent[t].target)
              /\ sent[t].kind # "logout" /\ asked' = asked

Replied(t, a) ==
    /\ answer' = [answer EXCEPT ![t] = a]
    /\ drawn \subseteq drawn' /\ open' \subseteq drawn' /\ setup \subseteq setup'
    /\ open' \cap drawn \subseteq open
    /\ a.csrf \in drawn' \cup {Keep} /\ a.session \in drawn' \cup {Nil, Keep}
    /\ ~a.bare => a.csrf = Keep
    /\ a.passed => \/ sent[t].kind \in Gets
                   \/ \E token \in CookieTokens(sent[t]) : Valid(sent[t], token)
    /\ ShowsForm(t, a) /\ Redirects(t, a)

\* What the Protector adds to the answer of a handler.
Protected(t, token, session, goto, form, a) ==
    /\ answer' = [answer EXCEPT ![t] = a]
    /\ a.form = form /\ a.goto = goto /\ a.session = session
    /\ a.csrf = SetsCookie(sent[t], token)
    /\ a.csrf \in {token, Keep} /\ (~a.bare => a.csrf = Keep)
    /\ a.passed => \/ sent[t].kind \in Gets
                   \/ \E k \in CookieTokens(sent[t]) : Valid(sent[t], k)
    /\ asked' = IF GivesUp(t, goto) THEN [asked EXCEPT ![t] = Home] ELSE asked

LEMMA AnsweredIsProtected ==
  ASSUME NEW t \in Tabs, NEW token \in CookieTokens(sent[t]),
         NEW session, NEW goto, NEW form, Answered(t, token, session, goto, form)
  PROVE  \E a : Protected(t, token, session, goto, form, a)
  <1> DEFINE a == [csrf |-> SetsCookie(sent[t], token), session |-> session,
                   goto |-> goto, form |-> form, bare |-> sent[t].csrf = Nil,
                   passed |-> sent[t].kind \in Gets \/ Valid(sent[t], token)]
  <1>1. /\ answer' = [answer EXCEPT ![t] = a]
        /\ asked' = IF GivesUp(t, goto) THEN [asked EXCEPT ![t] = Home] ELSE asked
    BY DEF Answered, Answer
  <1>2. a.csrf \in {token, Keep} /\ (~a.bare => a.csrf = Keep)
    BY DEF SetsCookie, CookieTokens
  <1>3. /\ a.form = form /\ a.goto = goto /\ a.session = session
        /\ a.csrf = SetsCookie(sent[t], token)
    OBVIOUS
  <1>4. a.passed => \/ sent[t].kind \in Gets
                    \/ \E k \in CookieTokens(sent[t]) : Valid(sent[t], k)
    OBVIOUS
  <1> HIDE DEF a
  <1> QED
    BY <1>1, <1>2, <1>3, <1>4 DEF Protected

LEMMA FormForFields ==
  ASSUME NEW t, NEW token, NEW kind, NEW target
  PROVE  /\ FormFor(t, token, kind, target).kind = kind
         /\ FormFor(t, token, kind, target).target = target
         /\ FormFor(t, token, kind, target).token
               = Expected(token, SessionFrom(sent[t].session))
         /\ FormFor(t, token, kind, target).for = <<token, SessionFrom(sent[t].session)>>
  BY DEF FormFor, Shown

LEMMA ServerReplies ==
  ASSUME TypeInv, CookiesDrawn, NEW t \in Tabs, Middleware(t)
  PROVE  \E a : Replied(t, a)
  <1>1. sent[t] \in Request /\ sent[t] # Nil /\ open \subseteq drawn
    BY Outcomes DEF CookiesDrawn
  <1>2. /\ SessionCookie(sent[t]) \in open \cup {Nil, Keep}
        /\ Nil \notin open /\ Keep \notin open
    BY TargetFacts DEF SessionCookie, SessionFrom, TypeInv
  <1>3. CASE NoToken(t)
    <2> DEFINE a == [csrf |-> Keep, session |-> SessionCookie(sent[t]), goto |-> Nil,
                     form |-> Nil, bare |-> TRUE, passed |-> FALSE]
    <2>1. /\ answer' = [answer EXCEPT ![t] = a] /\ open' = open /\ drawn' = drawn
          /\ setup' = setup
      BY <1>3 DEF NoToken, Answer
    <2>2. Replied(t, a)
      BY <1>1, <1>2, <2>1 DEF Replied, ShowsForm, Redirects
    <2> QED
      BY <2>2
  <1>4. ASSUME NEW token \in CookieTokens(sent[t]), Outcome(t, token)
        PROVE  \E a : Replied(t, a)
    <2>1. ASSUME NEW kind \in Gets \cup Pages, NEW target \in Target, Carries(t, kind, target),
                 Show(t, token, kind, target)
          PROVE  \E a : Replied(t, a)
      <3> DEFINE form == FormFor(t, token, kind, target)
      <3>1. /\ Answered(t, token, SessionCookie(sent[t]), Nil, form)
            /\ drawn' = drawn \cup {token} /\ open' = open /\ setup' = setup
        BY <2>1 DEF Show, Plain
      <3>2. PICK a : Protected(t, token, SessionCookie(sent[t]), Nil, form, a)
        BY <3>1, AnsweredIsProtected
      <3>3. asked' = IF sent[t].kind = "setupForm" THEN [asked EXCEPT ![t] = Home] ELSE asked
        BY <3>2 DEF Protected, GivesUp
      <3>4. \/ kind \in Pages
            \/ asked'[t] = Home /\ target = Nil
            \/ sent[t].kind # "logout" /\ asked' = asked /\ target = sent[t].target
        BY <2>1, <3>3 DEF Carries, TypeInv
      <3>5. ShowsForm(t, a) /\ Redirects(t, a)
        BY <3>1, <3>2, <3>4, FormForFields DEF ShowsForm, Redirects, Protected
      <3> QED
        BY <1>1, <1>2, <3>1, <3>2, <3>5 DEF Replied, Protected
    <2>2. ASSUME NEW goto \in Goto \cup {Nil},
                 goto = Nil \/ (Leads(t, goto) /\ sent[t].kind # "logout"),
                 Redirect(t, token, goto)
          PROVE  \E a : Replied(t, a)
      <3>1. /\ Answered(t, token, SessionCookie(sent[t]), goto, Nil)
            /\ drawn' = drawn \cup {token} /\ open' = open /\ setup' = setup
        BY <2>2 DEF Redirect, Plain
      <3>2. PICK a : Protected(t, token, SessionCookie(sent[t]), goto, Nil, a)
        BY <3>1, AnsweredIsProtected
      <3>3. GivesUp(t, goto) => asked'[t] = Home
        BY <3>2 DEF Protected, TypeInv
      <3>4. ShowsForm(t, a) /\ Redirects(t, a)
        BY <2>2, <3>1, <3>2, <3>3 DEF ShowsForm, Redirects, Protected, Leads
      <3> QED
        BY <1>1, <1>2, <3>1, <3>2, <3>4 DEF Replied, Protected
    <2>3. ASSUME NEW s \in SessTokens, NEW goto \in Goto \cup {Nil}, NEW form \in Form \cup {Nil},
                 Opens(t, token, s, goto, form)
          PROVE  \E a : Replied(t, a)
      <3>1. /\ Answered(t, token, s, goto, form) /\ s \notin drawn
            /\ drawn' = drawn \cup {token, s} /\ open' \subseteq open \cup {s}
            /\ setup \subseteq setup' /\ sent[t].kind \in {"login", "verify", "enable"}
            /\ Valid(sent[t], token)
        BY <2>3 DEF Opens, OpenSession
      <3>2. PICK a : Protected(t, token, s, goto, form, a)
        BY <3>1, AnsweredIsProtected
      <3>3. goto # Nil => /\ SafeRedirectPath(goto.target) = SafeRedirectPath(sent[t].target)
                          /\ s \notin setup' => goto.target = SafeRedirectPath(sent[t].target)
        BY <2>3, TargetFacts DEF Opens
      <3>4. GivesUp(t, goto) => asked'[t] = Home
        BY <3>2 DEF Protected, TypeInv
      <3>5. ~GivesUp(t, goto) \/ (goto # Nil /\ sent[t].kind = "verify" /\ goto.kind = "loginForm")
        BY <3>1 DEF GivesUp
      <3>6. goto # Nil => goto.kind \in {"page", "setupForm"}
        BY <2>3 DEF Opens
      <3>7. asked' = asked
        BY <3>2, <3>5, <3>6 DEF Protected
      <3>8. form # Nil => /\ goto = Nil /\ form = FormFor(t, token, "codes", Home)
                          /\ SessionFrom(sent[t].session) \in setup
        BY <2>3 DEF Opens
      <3>9. form # Nil => Elevated(form)'
        BY <3>1, <3>8, FormForFields DEF Elevated
      <3>10. ShowsForm(t, a)
        BY <3>1, <3>2, <3>8, <3>9, FormForFields DEF ShowsForm, Protected, Pages, Elevated
      <3>11. Redirects(t, a)
        BY <3>1, <3>2, <3>3, <3>7 DEF Redirects, Protected
      <3> QED
        BY <1>1, <3>1, <3>2, <3>10, <3>11 DEF Replied, Protected
    <2>4. ASSUME Valid(sent[t], token), Logout(t, token) PROVE \E a : Replied(t, a)
      <3> DEFINE goto == [kind |-> "loginForm", target |-> Nil]
      <3>1. /\ sent[t].kind = "logout" /\ open' \subseteq open /\ setup' = setup
            /\ drawn' = drawn \cup {token} /\ Answered(t, token, Nil, goto, Nil)
        BY <2>4 DEF Logout, Passes
      <3>2. PICK a : Protected(t, token, Nil, goto, Nil, a)
        BY <3>1, AnsweredIsProtected
      <3>3. asked' = asked
        BY <3>1, <3>2 DEF Protected, GivesUp
      <3>4. ShowsForm(t, a) /\ Redirects(t, a)
        BY <1>2, <3>1, <3>2, <3>3, TargetFacts DEF ShowsForm, Redirects, Protected
      <3> QED
        BY <1>1, <3>1, <3>2, <3>4 DEF Replied, Protected
    <2> QED
      BY <1>4, <2>1, <2>2, <2>3, <2>4 DEF Outcome
  <1> QED
    BY <1>3, <1>4, Outcomes

LEMMA ServerAnswers ==
  ASSUME TypeInv, NEW t \in Tabs, Middleware(t), NEW a, Replied(t, a)
  PROVE  a # Nil
  <1>1. a = answer'[t]
    BY DEF Replied, TypeInv
  <1> QED
    BY <1>1, MiddlewareTyped, NilAssumption

LEMMA ServerFrame ==
  ASSUME TypeInv, NEW t \in Tabs, Middleware(t)
  PROVE  /\ sent' = [sent EXCEPT ![t] = Nil]
         /\ UNCHANGED <<jar, tab, restarts>>
         /\ DisturbOthers(t)
         /\ \A u \in Tabs : u # t => asked'[u] = asked[u]
  <1>1. ASSUME NEW a, Answer(t, a)
        PROVE  /\ sent' = [sent EXCEPT ![t] = Nil]
               /\ UNCHANGED <<jar, tab, restarts>>
               /\ DisturbOthers(t)
               /\ \A u \in Tabs : u # t => asked'[u] = asked[u]
    BY <1>1 DEF Answer, TypeInv
  <1> QED
    BY <1>1, Outcomes DEF NoToken, Outcome, Show, Redirect, Plain, Opens, OpenSession, Logout,
                          Answered

--------------------------------------------------------------------------------
(* Cookies and forms. *)

LEMMA Sends ==
  ASSUME TypeInv, NEW t \in Tabs, NEW kind, NEW target, NEW form, Send(t, kind, target, form)
  PROVE  /\ \A u \in Tabs : u # t => sent'[u] = sent[u]
         /\ sent'[t].kind = kind /\ sent'[t].target = target
         /\ sent'[t].csrf = jar'.csrf /\ sent'[t].session = jar'.session
         /\ form = Nil => sent'[t].token = Nil
         /\ form # Nil => sent'[t].token = form.token /\ sent'[t].for = form.for
  BY DEF Send, TypeInv

\* A request leaves a tab that has no other on its way.
LEMMA LeavingKeepsBase ==
  ASSUME BaseInv, NEW t \in Tabs, NEW kind, NEW target,
         NEW form, form = Nil \/ form = tab[t], Send(t, kind, target, form),
         answer[t] = Nil, Leave(t), UNCHANGED <<jar, answer, open, drawn>>
  PROVE  (OneAtATime /\ CookiesDrawn /\ FormsRendered /\ OnlyBareSets)'
  <1>1. OneAtATime'
    BY Sends DEF BaseInv, OneAtATime, Leave, Idle, TypeInv
  <1>2. CookiesDrawn'
    BY Sends DEF BaseInv, CookiesDrawn
  <1>3. FormsRendered'
    BY Sends DEF BaseInv, FormsRendered, Rendered, Leave, TypeInv
  <1> QED
    BY <1>1, <1>2, <1>3 DEF BaseInv, OnlyBareSets

LEMMA DeliverKeepsBase ==
  ASSUME BaseInv, NEW t \in Tabs, Deliver(t)
  PROVE  (OneAtATime /\ CookiesDrawn /\ FormsRendered /\ OnlyBareSets)'
  <1> DEFINE a == answer[t]
  <1> USE DEF BaseInv
  <1>1. /\ a # Nil /\ answer' = [answer EXCEPT ![t] = Nil] /\ UNCHANGED <<open, drawn>>
        /\ jar' = [csrf |-> Held(jar.csrf, a.csrf), session |-> Held(jar.session, a.session)]
        /\ a.csrf \in drawn \cup {Keep} /\ a.session \in drawn \cup {Nil, Keep}
    BY DEF Deliver, CookiesDrawn
  <1>2. {jar'.csrf, jar'.session} \subseteq drawn \cup {Nil}
    BY <1>1 DEF Held, CookiesDrawn
  <1>3. \A u \in Tabs : answer'[u] = IF u = t THEN Nil ELSE answer[u]
    BY <1>1 DEF TypeInv
  <1>4. OnlyBareSets'
    BY <1>3 DEF OnlyBareSets
  <1>5. CASE Send(t, a.goto.kind, a.goto.target, Nil) /\ UNCHANGED tab
    <2>1. OneAtATime'
      BY <1>1, <1>3, <1>5, Sends DEF OneAtATime, Idle
    <2>2. CookiesDrawn'
      BY <1>1, <1>2, <1>3, <1>5, Sends DEF CookiesDrawn
    <2>3. FormsRendered'
      BY <1>1, <1>3, <1>5, Sends DEF FormsRendered, Rendered
    <2> QED
      BY <1>4, <2>1, <2>2, <2>3
  <1>6. CASE tab' = [tab EXCEPT ![t] = a.form] /\ UNCHANGED sent
    <2>1. OneAtATime'
      BY <1>1, <1>3, <1>6 DEF OneAtATime, Idle, TypeInv
    <2>2. CookiesDrawn'
      BY <1>1, <1>2, <1>3, <1>6 DEF CookiesDrawn
    <2>3. FormsRendered'
      BY <1>1, <1>3, <1>6 DEF FormsRendered, Rendered, TypeInv
    <2> QED
      BY <1>4, <2>1, <2>2, <2>3
  <1> QED
    BY <1>5, <1>6 DEF Deliver

LEMMA ServerKeepsBase ==
  ASSUME BaseInv, NEW t \in Tabs, Middleware(t)
  PROVE  (OneAtATime /\ CookiesDrawn /\ FormsRendered /\ OnlyBareSets)'
  <1> USE DEF BaseInv
  <1>0. sent[t] # Nil
    BY Outcomes
  <1>1. PICK a : Replied(t, a)
    BY ServerReplies
  <1>2. /\ \A u \in Tabs : answer'[u] = IF u = t THEN a ELSE answer[u]
        /\ \A u \in Tabs : sent'[u] = IF u = t THEN Nil ELSE sent[u]
        /\ UNCHANGED <<jar, tab>>
    BY <1>1, ServerFrame DEF Replied, TypeInv
  <1>3. drawn \subseteq drawn' /\ open' \subseteq drawn'
    BY <1>1 DEF Replied
  <1>4. OneAtATime'
    BY <1>0, <1>2 DEF OneAtATime, Idle
  <1>5. CookiesDrawn'
    BY <1>1, <1>2, <1>3 DEF CookiesDrawn, Replied
  <1>6. FormsRendered'
    <2>1. ASSUME a.form # Nil PROVE Rendered(a.form)'
      <3>1. PICK token \in CookieTokens(sent[t]) :
              /\ a.form.token = Expected(token, SessionFrom(sent[t].session))
              /\ a.form.for = <<token, SessionFrom(sent[t].session)>>
              /\ token \in drawn'
        BY <1>1, <2>1 DEF Replied, ShowsForm
      <3>2. a.form.for[1] = token /\ a.form.for[2] = SessionFrom(sent[t].session)
        BY <3>1
      <3> QED
        BY <3>1, <3>2 DEF Rendered
    <2> QED
      BY <1>2, <1>3, <2>1 DEF FormsRendered, Rendered
  <1>7. OnlyBareSets'
    BY <1>1, <1>2 DEF OnlyBareSets, Replied
  <1> QED
    BY <1>4, <1>5, <1>6, <1>7

LEMMA BaseStep == BaseInv /\ [Next]_vars => BaseInv'
  <1> SUFFICES ASSUME BaseInv, [Next]_vars
               PROVE  (OneAtATime /\ CookiesDrawn /\ FormsRendered /\ OnlyBareSets)'
    BY StepTyped DEF BaseInv
  <1>1. ASSUME NEW t \in Tabs, Navigate(t)
        PROVE  (OneAtATime /\ CookiesDrawn /\ FormsRendered /\ OnlyBareSets)'
    BY <1>1, LeavingKeepsBase DEF Navigate, Idle
  <1>2. ASSUME NEW t \in Tabs, Submit(t)
        PROVE  (OneAtATime /\ CookiesDrawn /\ FormsRendered /\ OnlyBareSets)'
    BY <1>2, LeavingKeepsBase DEF Submit, Idle
  <1>3. CASE Restart
    BY <1>3 DEF Restart, BaseInv, TypeInv, OneAtATime, Idle, CookiesDrawn, FormsRendered,
                Rendered, OnlyBareSets
  <1>4. CASE Expire
    BY <1>4 DEF Expire, BaseInv, OneAtATime, Idle, CookiesDrawn, FormsRendered, Rendered, OnlyBareSets
  <1>5. CASE UNCHANGED vars
    BY <1>5 DEF vars, BaseInv, OneAtATime, Idle, CookiesDrawn, FormsRendered, Rendered, OnlyBareSets
  <1> QED
    BY <1>1, <1>2, <1>3, <1>4, <1>5, DeliverKeepsBase, ServerKeepsBase DEF Next

LEMMA StartsBase == Init => BaseInv
  <1> SUFFICES ASSUME Init PROVE BaseInv
    OBVIOUS
  <1>1. TypeInv
    BY TargetFacts DEF Init, TypeInv, Cookie, Session, Target, Targets
  <1> QED
    BY <1>1 DEF Init, BaseInv, OneAtATime, Idle, CookiesDrawn, FormsRendered, OnlyBareSets

\* What the browser holds was drawn, and a form carries the proof of what it was
\* rendered for.
THEOREM FormsHeld == Spec => []BaseInv
  BY StartsBase, BaseStep, PTL DEF Spec

\* A mutating request passes only with a form of its own cookie and, when the token
\* is bound, of its own session: the proof names both, and a token that is drawn
\* for the answer was never shown before.
THEOREM AcceptedInSessionCorrect == Spec => AcceptedInSession
  <1> DEFINE Accepts(t) ==
        (/\ sent[t] # Nil /\ sent[t].kind \in Posts
         /\ answer'[t] # Nil /\ answer'[t].passed)
            => /\ sent[t].for[1] = sent[t].csrf
               /\ Bound => sent[t].for[2] = SessionFrom(sent[t].session)
  <1>1. ASSUME BaseInv, [Next]_vars, NEW t \in Tabs PROVE Accepts(t)
    <2> USE DEF BaseInv
    <2>1. SUFFICES ASSUME sent[t] # Nil, sent[t].kind \in Posts,
                          answer'[t] # Nil, answer'[t].passed
                   PROVE  /\ sent[t].for[1] = sent[t].csrf
                          /\ Bound => sent[t].for[2] = SessionFrom(sent[t].session)
      OBVIOUS
    <2>2. answer[t] = Nil
      BY <1>1, <2>1 DEF OneAtATime
    <2>3. Middleware(t)
      <3>1. ASSUME NEW u \in Tabs, u # t, Middleware(u) PROVE answer'[t] = answer[t]
        <4>1. PICK a : Replied(u, a)
          BY <1>1, <3>1, ServerReplies
        <4> QED
          BY <1>1, <3>1, <4>1 DEF Replied, TypeInv
      <3>2. ASSUME NEW u \in Tabs, Deliver(u) PROVE answer'[t] \in {answer[t], Nil}
        BY <1>1, <3>2 DEF Deliver, TypeInv
      <3>3. CASE UNCHANGED vars
        BY <2>1, <2>2, <3>3 DEF vars
      <3> QED
        BY <1>1, <2>1, <2>2, <3>1, <3>2, <3>3 DEF Next, Navigate, Submit, Restart, Expire
    <2>4. PICK a : Replied(t, a)
      BY <1>1, <2>3, ServerReplies
    <2>5. PICK token \in CookieTokens(sent[t]) : Valid(sent[t], token)
      <3>1. answer'[t] = a
        BY <1>1, <2>4 DEF Replied, TypeInv
      <3> QED
        BY <2>1, <2>4, <3>1 DEF Replied, Gets, Posts
    <2>6. Rendered(sent[t]) /\ sent[t].token = Expected(token, SessionFrom(sent[t].session))
      BY <1>1, <2>1, <2>5 DEF Valid, FormsRendered
    <2>7. /\ sent[t].for[1] = token /\ sent[t].for[1] \in drawn
          /\ Bound => sent[t].for[2] = SessionFrom(sent[t].session)
      BY <2>6 DEF Rendered, Expected
    <2> QED
      BY <2>5, <2>7 DEF CookieTokens
  <1>2. BaseInv /\ [Next]_vars => [\A t \in Tabs : Accepts(t)]_vars
    BY <1>1
  <1> QED
    BY <1>2, FormsHeld, PTL DEF Spec, AcceptedInSession

\* The CSRF cookie changes only with the answer to a request that had none.
THEOREM CookieSettlesCorrect == Spec => CookieSettles
  <1> DEFINE Settles ==
        (/\ jar.csrf # Nil
         /\ \A t \in Tabs : sent[t] = Nil \/ sent[t].csrf # Nil
         /\ \A t \in Tabs : answer[t] = Nil \/ ~answer[t].bare)
            => jar'.csrf \in {jar.csrf, Nil}
  <1>1. BaseInv /\ [Next]_vars => [Settles]_vars
    <2> SUFFICES ASSUME BaseInv, Next,
                        \A t \in Tabs : answer[t] = Nil \/ ~answer[t].bare
                 PROVE  jar'.csrf \in {jar.csrf, Nil}
      OBVIOUS
    <2> USE DEF BaseInv
    <2>1. ASSUME NEW t \in Tabs, Deliver(t) PROVE jar'.csrf = jar.csrf
      BY <2>1 DEF Deliver, Held, OnlyBareSets
    <2>2. ASSUME NEW t \in Tabs, Middleware(t) PROVE jar' = jar
      BY <2>2, ServerFrame
    <2>3. CASE Restart
      BY <2>3 DEF Restart, TypeInv
    <2> QED
      BY <2>1, <2>2, <2>3 DEF Next, Navigate, Submit, Expire
  <1> QED
    BY <1>1, FormsHeld, PTL DEF Spec, CookieSettles

--------------------------------------------------------------------------------
(* Where a login ends. *)

\* Whatever a tab is waiting for, or shows, leads where its user wants to go.
BoundFor(t, target) == SafeRedirectPath(target) = SafeRedirectPath(asked[t])

TabTarget(t) ==
    /\ sent[t] # Nil =>
          IF sent[t].kind = "logout" THEN asked[t] = Home ELSE BoundFor(t, sent[t].target)
    /\ answer[t] # Nil =>
          /\ answer[t].goto # Nil => BoundFor(t, answer[t].goto.target)
          /\ (answer[t].form # Nil /\ answer[t].form.kind \notin Pages)
                => BoundFor(t, answer[t].form.target)
    /\ (Idle(t) /\ tab[t] # Nil) => BoundFor(t, tab[t].target)

TargetInv == \A t \in Tabs : TabTarget(t)

\* A tab is not concerned by what happens in another.
LEMMA OtherTabTarget ==
  ASSUME NEW u \in Tabs, TabTarget(u),
         UNCHANGED <<tab[u], sent[u], answer[u], asked[u]>>
  PROVE  TabTarget(u)'
  BY DEF TabTarget, BoundFor, Idle

LEMMA TargetStep == BaseInv /\ TargetInv /\ [Next]_vars => TargetInv'
  <1> SUFFICES ASSUME BaseInv, TargetInv, [Next]_vars, NEW u \in Tabs
               PROVE  TabTarget(u)'
    BY DEF TargetInv
  <1> USE DEF BaseInv
  <1>0. TabTarget(u)
    BY DEF TargetInv
  <1>1. ASSUME NEW t \in Tabs, Navigate(t) PROVE TabTarget(u)'
    <2>1. PICK kind \in Gets, target \in Target, aim \in Target :
            /\ asked' = [asked EXCEPT ![t] = aim] /\ Send(t, kind, target, Nil)
            /\ SafeRedirectPath(target) = SafeRedirectPath(aim)
      <3>1. CASE asked' = [asked EXCEPT ![t] = Home] /\ Send(t, "setupForm", Nil, Nil)
        BY <3>1, TargetFacts DEF Gets, Target, Targets
      <3>2. ASSUME NEW target \in Targets, asked' = [asked EXCEPT ![t] = target],
                   NEW kind \in {"page", "loginForm"}, Send(t, kind, target, Nil)
            PROVE  \E get \in Gets, where \in Target, aim \in Target :
                      /\ asked' = [asked EXCEPT ![t] = aim] /\ Send(t, get, where, Nil)
                      /\ SafeRedirectPath(where) = SafeRedirectPath(aim)
        BY <3>2 DEF Gets, Target
      <3> QED
        BY <1>1, <3>1, <3>2 DEF Navigate
    <2>2. answer[t] = Nil /\ answer' = answer /\ (u # t => tab'[u] = tab[u])
      BY <1>1 DEF Navigate, Idle, Leave, TypeInv
    <2>3. CASE u = t
      <3>1. Waits(t) /\ asked'[t] = aim /\ sent'[t].kind = kind /\ sent'[t].target = target
        BY <1>1, <2>1, BrowserTyped, Sends DEF TypeInv
      <3> QED
        BY <2>1, <2>2, <2>3, <3>1 DEF TabTarget, BoundFor, Idle, Waits, Gets
    <2>4. CASE u # t
      <3>1. asked'[u] = asked[u] /\ sent'[u] = sent[u]
        BY <2>1, <2>4, Sends DEF TypeInv
      <3> QED
        BY <1>0, <2>2, <2>4, <3>1, OtherTabTarget
    <2> QED
      BY <2>3, <2>4
  <1>2. ASSUME NEW t \in Tabs, Submit(t) PROVE TabTarget(u)'
    <2>1. PICK kind \in Posts :
            /\ Send(t, kind, tab[t].target, tab[t])
            /\ asked' = IF kind = "logout" THEN [asked EXCEPT ![t] = Home] ELSE asked
      BY <1>2 DEF Submit
    <2>2. /\ Idle(t) /\ tab[t] # Nil /\ answer[t] = Nil /\ answer' = answer
          /\ u # t => tab'[u] = tab[u]
      BY <1>2 DEF Submit, Idle, Leave, TypeInv
    <2>3. CASE u = t
      <3>1. /\ Waits(t) /\ sent'[t].kind = kind /\ sent'[t].target = tab[t].target
            /\ asked'[t] = IF kind = "logout" THEN Home ELSE asked[t]
        BY <1>2, <2>1, BrowserTyped, Sends DEF TypeInv
      <3> QED
        BY <1>0, <2>2, <2>3, <3>1 DEF TabTarget, BoundFor, Idle, Waits
    <2>4. CASE u # t
      <3>1. asked'[u] = asked[u] /\ sent'[u] = sent[u]
        BY <2>1, <2>4, Sends DEF TypeInv
      <3> QED
        BY <1>0, <2>2, <2>4, <3>1, OtherTabTarget
    <2> QED
      BY <2>3, <2>4
  <1>3. ASSUME NEW t \in Tabs, Deliver(t) PROVE TabTarget(u)'
    <2> DEFINE a == answer[t]
    <2>1. a # Nil /\ answer' = [answer EXCEPT ![t] = Nil]
      BY <1>3 DEF Deliver
    <2>2. answer'[t] = Nil /\ (u # t => answer'[u] = answer[u]) /\ sent[t] = Nil
      BY <2>1 DEF TypeInv, OneAtATime
    <2>3. CASE a.goto # Nil
      <3>1. Send(t, a.goto.kind, a.goto.target, Nil) /\ UNCHANGED <<tab, asked>>
        BY <1>3, <2>3 DEF Deliver
      <3>2. /\ Waits(t) /\ a.goto.kind \in Gets
            /\ sent'[t].kind = a.goto.kind /\ sent'[t].target = a.goto.target
            /\ u # t => sent'[u] = sent[u]
        BY <1>3, <2>1, <2>3, <3>1, BrowserTyped, Sends DEF TypeInv, Reply, Goto
      <3>3. CASE u = t
        BY <1>0, <2>1, <2>2, <2>3, <3>1, <3>2, <3>3 DEF TabTarget, BoundFor, Idle, Waits, Gets
      <3>4. CASE u # t
        BY <1>0, <2>2, <3>1, <3>2, <3>4, OtherTabTarget
      <3> QED
        BY <3>3, <3>4
    <2>4. CASE a.goto = Nil
      <3>1. /\ tab' = [tab EXCEPT ![t] = a.form]
            /\ asked' = IF a.form # Nil /\ a.form.kind \in Pages
                        THEN [asked EXCEPT ![t] = a.form.target] ELSE asked
            /\ sent' = sent
        BY <1>3, <2>4 DEF Deliver
      <3>2. /\ tab'[t] = a.form
            /\ asked'[t] = IF a.form # Nil /\ a.form.kind \in Pages THEN a.form.target ELSE asked[t]
            /\ u # t => tab'[u] = tab[u] /\ asked'[u] = asked[u]
        BY <3>1 DEF TypeInv
      <3>3. CASE u = t
        BY <1>0, <2>1, <2>2, <3>1, <3>2, <3>3 DEF TabTarget, BoundFor, Idle
      <3>4. CASE u # t
        BY <1>0, <2>2, <3>1, <3>2, <3>4, OtherTabTarget
      <3> QED
        BY <3>3, <3>4
    <2> QED
      BY <2>3, <2>4
  <1>4. ASSUME NEW t \in Tabs, Middleware(t) PROVE TabTarget(u)'
    <2>1. PICK a : Replied(t, a)
      BY <1>4, ServerReplies
    <2>2. /\ answer'[u] = IF u = t THEN a ELSE answer[u]
          /\ sent'[u] = IF u = t THEN Nil ELSE sent[u]
          /\ u # t => asked'[u] = asked[u]
          /\ a # Nil /\ sent[t] # Nil /\ tab' = tab
      BY <1>4, <2>1, ServerFrame, ServerAnswers, Outcomes DEF Replied, TypeInv
    <2>3. CASE u = t
      <3>1. IF sent[t].kind = "logout" THEN asked[t] = Home ELSE BoundFor(t, sent[t].target)
        BY <1>0, <2>2, <2>3 DEF TabTarget
      <3>2. a.goto # Nil => BoundFor(t, a.goto.target)'
        BY <2>1, <3>1, TargetFacts DEF Replied, Redirects, BoundFor
      <3>3. (a.form # Nil /\ a.form.kind \notin Pages) => BoundFor(t, a.form.target)'
        BY <2>1, <3>1, TargetFacts DEF Replied, ShowsForm, BoundFor
      <3> QED
        BY <2>2, <2>3, <3>2, <3>3 DEF TabTarget, BoundFor, Idle, SafeRedirectPath, IsLocalPath
    <2>4. CASE u # t
      BY <1>0, <2>2, <2>4, OtherTabTarget
    <2> QED
      BY <2>3, <2>4
  <1>5. CASE Restart
    <2>1. /\ sent'[u] = Nil /\ answer'[u] = Nil /\ tab' = tab
          /\ asked'[u] = IF tab[u] # Nil /\ tab[u].target # Nil THEN tab[u].target ELSE Home
      BY <1>5 DEF Restart
    <2> QED
      BY <2>1, TargetFacts DEF TabTarget, BoundFor
  <1>6. CASE Expire \/ UNCHANGED vars
    BY <1>0, <1>6, OtherTabTarget DEF Expire, vars
  <1> QED
    BY <1>1, <1>2, <1>3, <1>4, <1>5, <1>6 DEF Next

\* A login ends on the page its tab asked for: the target is carried by every form,
\* redirection and request on the way, and only a login that starts again gives it up.
THEOREM LandsWhereAskedCorrect == Spec => LandsWhereAsked
  <1> DEFINE Lands(t) ==
        (/\ answer'[t] # Nil /\ answer'[t].goto # Nil
         /\ answer'[t].session \in open' \ (open \cup setup'))
            => answer'[t].goto.target = IF asked'[t] \in Paths THEN asked'[t] ELSE Home
  <1>1. Init => TargetInv
    BY DEF Init, TargetInv, TabTarget
  <1>2. ASSUME BaseInv, TargetInv, [Next]_vars, NEW t \in Tabs PROVE Lands(t)
    <2> USE DEF BaseInv
    <2>1. SUFFICES ASSUME answer'[t] # Nil, answer'[t].goto # Nil,
                          answer'[t].session \in open' \ (open \cup setup')
                   PROVE  answer'[t].goto.target = SafeRedirectPath(asked'[t])
      BY DEF SafeRedirectPath, IsLocalPath
    <2>2. PICK u \in Tabs : Middleware(u)
      BY <1>2, <2>1 DEF Next, vars, Navigate, Submit, Deliver, Restart, Expire
    <2>3. PICK a : Replied(u, a)
      BY <1>2, <2>2, ServerReplies
    <2>4. CASE u # t
      <3>1. answer'[t] = answer[t] /\ open' \cap drawn \subseteq open
        BY <1>2, <2>3, <2>4 DEF Replied, TypeInv
      <3>2. answer[t].session \in drawn \cup {Nil, Keep}
        BY <1>2, <2>1, <3>1 DEF CookiesDrawn
      <3>3. open' \subseteq SessTokens /\ Nil \notin SessTokens /\ Keep \notin SessTokens
        BY <1>2, StepTyped, TargetFacts DEF TypeInv
      <3> QED
        BY <2>1, <3>1, <3>2, <3>3
    <2>5. CASE u = t
      <3>1. answer'[t] = a
        BY <1>2, <2>3, <2>5 DEF Replied, TypeInv
      <3>2. /\ a.goto.target = SafeRedirectPath(sent[t].target)
            /\ sent[t].kind # "logout" /\ asked' = asked
        BY <2>1, <2>3, <2>5, <3>1 DEF Replied, Redirects
      <3>3. BoundFor(t, sent[t].target)
        BY <1>2, <2>2, <2>5, <3>2 DEF Middleware, TargetInv, TabTarget
      <3> QED
        BY <3>1, <3>2, <3>3 DEF BoundFor
    <2> QED
      BY <2>4, <2>5
  <1>3. BaseInv /\ TargetInv /\ [Next]_vars => [\A t \in Tabs : Lands(t)]_vars
    BY <1>2
  <1> QED
    BY <1>1, <1>3, TargetStep, FormsHeld, PTL DEF Spec, LandsWhereAsked

--------------------------------------------------------------------------------
(* Who is refused, and why. *)

\* As long as nothing disturbs a tab, its request carries what the cookies of the
\* browser are worth, its answer leaves that as it is or brings the token its form
\* needs, and its form is accepted.
TabWorth(t) ==
    ~disturbed[t] =>
        /\ sent[t] # Nil =>
              sent[t].csrf = jar.csrf /\ SessionFrom(sent[t].session) = SessionFrom(jar.session)
        /\ (answer[t] # Nil /\ answer[t].form # Nil /\ ~Elevated(answer[t].form)) =>
              /\ answer[t].session \in {Keep, SessionFrom(jar.session)}
              /\ answer[t].form.token = Expected(Held(jar.csrf, answer[t].csrf),
                                                 SessionFrom(jar.session))
        /\ (Idle(t) /\ tab[t] # Nil /\ ~Elevated(tab[t])) =>
              tab[t].token = Expected(jar.csrf, SessionFrom(jar.session))

WorthInv == \A t \in Tabs : TabWorth(t)

\* What another tab, an expiry or a restart does to the cookies disturbs, or makes
\* no difference: a session that was drawn is not opened again.
LEMMA OtherTabWorth ==
  ASSUME BaseInv, open' \subseteq SessTokens, NEW u \in Tabs, TabWorth(u),
         UNCHANGED <<tab[u], sent[u], answer[u]>>,
         open' \cap drawn \subseteq open, setup \subseteq setup',
         ~disturbed'[u] => ~disturbed[u] /\ Worth' = Worth
  PROVE  TabWorth(u)'
  <1> USE DEF BaseInv
  <1>1. SUFFICES ASSUME ~disturbed'[u]
                 PROVE  /\ sent[u] # Nil =>
                              /\ sent[u].csrf = jar'.csrf
                              /\ SessionFrom(sent[u].session)' = SessionFrom(jar.session)'
                        /\ (answer[u] # Nil /\ answer[u].form # Nil /\ ~Elevated(answer[u].form)) =>
                              /\ answer[u].session \in {Keep, SessionFrom(jar.session)'}
                              /\ answer[u].form.token
                                    = Expected(Held(jar.csrf, answer[u].csrf),
                                               SessionFrom(jar.session))'
                        /\ (Idle(u) /\ tab[u] # Nil /\ ~Elevated(tab[u])) =>
                              tab[u].token = Expected(jar.csrf, SessionFrom(jar.session))'
    BY DEF TabWorth, Idle, Elevated
  <1>2. /\ jar'.csrf = jar.csrf /\ SessionFrom(jar.session)' = SessionFrom(jar.session)
        /\ ~disturbed[u]
    BY <1>1 DEF Worth
  <1>3. Nil \notin open /\ Nil \notin open'
    BY TargetFacts DEF TypeInv
  <1>4. ASSUME sent[u] # Nil
        PROVE  SessionFrom(sent[u].session)' = SessionFrom(jar.session)'
    <2>1. /\ sent[u].session \in drawn \cup {Nil} /\ sent'[u] = sent[u]
          /\ SessionFrom(sent[u].session) = SessionFrom(jar.session)
      BY <1>2, <1>4 DEF CookiesDrawn, TabWorth
    <2>2. CASE sent[u].session \in open
      BY <1>2, <1>3, <2>1, <2>2 DEF SessionFrom
    <2>3. CASE sent[u].session \notin open
      BY <1>2, <1>3, <2>1, <2>3 DEF SessionFrom
    <2> QED
      BY <2>2, <2>3
  <1>5. ASSUME answer[u] # Nil, answer[u].form # Nil, ~Elevated(answer[u].form)
        PROVE  /\ answer[u].session \in {Keep, SessionFrom(jar.session)'}
               /\ answer[u].form.token
                     = Expected(Held(jar.csrf, answer[u].csrf), SessionFrom(jar.session))'
    BY <1>2, <1>5 DEF TabWorth, Held, Expected
  <1>6. ASSUME Idle(u), tab[u] # Nil, ~Elevated(tab[u])
        PROVE  tab[u].token = Expected(jar.csrf, SessionFrom(jar.session))'
    BY <1>2, <1>6 DEF TabWorth, Expected
  <1> QED
    BY <1>2, <1>4, <1>5, <1>6 DEF TabWorth

\* The form of an answer suits the cookies that come with it.
LEMMA ServerKeepsWorth ==
  ASSUME BaseInv, NEW t \in Tabs, TabWorth(t), Middleware(t)
  PROVE  TabWorth(t)'
  <1> USE DEF BaseInv
  <1>1. PICK a : Replied(t, a)
    BY ServerReplies
  <1>2. /\ answer'[t] = a /\ a # Nil /\ sent'[t] = Nil /\ sent[t] # Nil
        /\ jar' = jar
    BY <1>1, ServerFrame, ServerAnswers, Outcomes DEF Replied, TypeInv
  <1>3. disturbed'[t] = disturbed[t]
    <2>1. DisturbOthers(t)
      BY ServerFrame
    <2> QED
      BY <2>1 DEF DisturbOthers, TypeInv
  <1>4. SUFFICES ASSUME ~disturbed[t], a.form # Nil, ~Elevated(a.form)'
                 PROVE  /\ a.session \in {Keep, SessionFrom(jar.session)'}
                        /\ a.form.token = Expected(Held(jar.csrf, a.csrf),
                                                   SessionFrom(jar.session))'
    BY <1>2, <1>3 DEF TabWorth, Idle, Elevated
  <1>5. sent[t].csrf = jar.csrf /\ SessionFrom(sent[t].session) = SessionFrom(jar.session)
    BY <1>2, <1>4 DEF TabWorth
  <1>6. PICK token \in CookieTokens(sent[t]) :
          /\ a.csrf = SetsCookie(sent[t], token)
          /\ a.form.token = Expected(token, SessionFrom(sent[t].session))
    BY <1>1, <1>4 DEF Replied, ShowsForm
  <1>7. open' = open /\ a.session = SessionCookie(sent[t])
    BY <1>1, <1>4 DEF Replied, ShowsForm
  <1>8. token \in CsrfTokens /\ token # Keep
    BY <1>2, Outcomes, CookieTokensTyped, TargetFacts
  <1>9. Held(jar.csrf, a.csrf) = token
    BY <1>5, <1>6, <1>8 DEF Held, SetsCookie, CookieTokens
  <1>10. a.session \in {Keep, SessionFrom(jar.session)}
    BY <1>5, <1>7 DEF SessionCookie
  <1> QED
    BY <1>2, <1>5, <1>6, <1>7, <1>9, <1>10 DEF Held, SessionFrom, Expected

LEMMA WorthStep == BaseInv /\ WorthInv /\ [Next]_vars => WorthInv'
  <1> SUFFICES ASSUME BaseInv, WorthInv, [Next]_vars, NEW u \in Tabs
               PROVE  TabWorth(u)'
    BY DEF WorthInv
  <1> USE DEF BaseInv
  <1>0. TabWorth(u) /\ open' \subseteq SessTokens
    BY StepTyped DEF WorthInv, TypeInv
  <1>1. ASSUME NEW t \in Tabs, Navigate(t) \/ Submit(t) PROVE TabWorth(u)'
    <2>1. PICK kind, target, form : Send(t, kind, target, form)
      BY <1>1 DEF Navigate, Submit
    <2>2. /\ answer[t] = Nil /\ UNCHANGED <<jar, answer, open, setup>>
          /\ u # t => tab'[u] = tab[u]
          /\ disturbed' = [disturbed EXCEPT ![t] = FALSE] /\ Waits(t)
      BY <1>1, BrowserTyped DEF Navigate, Submit, Idle, Leave, TypeInv
    <2>3. CASE u = t
      BY <2>1, <2>2, <2>3, Sends DEF TabWorth, Idle, SessionFrom, Waits
    <2>4. CASE u # t
      BY <1>0, <2>1, <2>2, <2>4, Sends, OtherTabWorth DEF Worth, SessionFrom, TypeInv
    <2> QED
      BY <2>3, <2>4
  <1>2. ASSUME NEW t \in Tabs, Deliver(t) PROVE TabWorth(u)'
    <2> DEFINE a == answer[t]
    <2>1. /\ a # Nil /\ answer' = [answer EXCEPT ![t] = Nil] /\ UNCHANGED <<open, setup>>
          /\ jar' = [csrf |-> Held(jar.csrf, a.csrf), session |-> Held(jar.session, a.session)]
      BY <1>2 DEF Deliver
    <2>2. answer'[t] = Nil /\ (u # t => answer'[u] = answer[u]) /\ sent[t] = Nil
      BY <2>1 DEF TypeInv, OneAtATime
    <2>5. a.session \in {Keep, SessionFrom(jar.session)}
             => SessionFrom(jar.session)' = SessionFrom(jar.session)
      BY <2>1 DEF Held, SessionFrom
    <2>3. CASE a.goto # Nil
      <3>1. /\ Send(t, a.goto.kind, a.goto.target, Nil) /\ tab' = tab
            /\ disturbed' = [v \in Tabs |-> v # t /\ (disturbed[v] \/ Worth' # Worth)]
        BY <1>2, <2>3 DEF Deliver
      <3>2. /\ Waits(t) /\ sent'[t].csrf = jar'.csrf /\ sent'[t].session = jar'.session
            /\ u # t => sent'[u] = sent[u]
        BY <1>2, <2>3, <3>1, BrowserTyped, Sends
      <3>3. CASE u = t
        BY <2>2, <3>2, <3>3 DEF TabWorth, Idle, SessionFrom, Waits
      <3>4. CASE u # t
        BY <1>0, <2>1, <2>2, <3>1, <3>2, <3>4, OtherTabWorth
      <3> QED
        BY <3>3, <3>4
    <2>4. CASE a.goto = Nil
      <3>1. tab' = [tab EXCEPT ![t] = a.form] /\ DisturbOthers(t) /\ sent' = sent
        BY <1>2, <2>4 DEF Deliver
      <3>2. /\ tab'[t] = a.form /\ disturbed'[t] = disturbed[t]
            /\ u # t => /\ tab'[u] = tab[u]
                        /\ disturbed'[u] = (disturbed[u] \/ Worth' # Worth)
        BY <3>1 DEF DisturbOthers, TypeInv
      <3>3. CASE u = t
        BY <1>0, <2>1, <2>2, <2>5, <3>1, <3>2, <3>3 DEF TabWorth, Elevated, Expected
      <3>4. CASE u # t
        BY <1>0, <2>1, <2>2, <3>1, <3>2, <3>4, OtherTabWorth
      <3> QED
        BY <3>3, <3>4
    <2> QED
      BY <2>3, <2>4
  <1>3. ASSUME NEW t \in Tabs, Middleware(t) PROVE TabWorth(u)'
    <2>1. PICK a : Replied(t, a)
      BY <1>3, ServerReplies
    <2>2. CASE u # t
      <3>1. /\ UNCHANGED <<tab[u], sent[u], answer[u]>>
            /\ open' \cap drawn \subseteq open /\ setup \subseteq setup'
            /\ disturbed'[u] = (disturbed[u] \/ Worth' # Worth)
        BY <1>3, <2>1, <2>2, ServerFrame DEF Replied, TypeInv, DisturbOthers
      <3> QED
        BY <1>0, <3>1, OtherTabWorth
    <2> QED
      BY <1>0, <1>3, <2>2, ServerKeepsWorth
  <1>4. CASE Restart
    <2>1. /\ UNCHANGED <<tab, open, setup>> /\ sent'[u] = Nil /\ answer'[u] = Nil
          /\ disturbed'[u] = (disturbed[u] \/ Worth' # Worth)
      BY <1>4 DEF Restart, DisturbAll
    <2>2. Idle(u) \/ tab[u] = Nil
      BY DEF OneAtATime
    <2> QED
      BY <1>0, <2>1, <2>2 DEF TabWorth, Worth, Expected, Elevated, Idle
  <1>5. CASE Expire
    <2>1. /\ UNCHANGED <<tab, sent, answer, setup>> /\ open' \subseteq open
          /\ disturbed'[u] = (disturbed[u] \/ Worth' # Worth)
      BY <1>5 DEF Expire, DisturbAll
    <2> QED
      BY <1>0, <2>1, OtherTabWorth
  <1>6. CASE UNCHANGED vars
    BY <1>0, <1>6, OtherTabWorth DEF vars, Worth, SessionFrom
  <1> QED
    BY <1>1, <1>2, <1>3, <1>4, <1>5, <1>6 DEF Next

\* The form of a tab is accepted unless the cookies changed behind its back, or a
\* session was elevated for it: the token it shows is the one of its request, or the
\* one that comes with it, and the cookie LoadSession sets again is the one of the
\* session it is bound to.
THEOREM UndisturbedUsableCorrect == Spec => []UndisturbedUsable
  <1>1. Init => WorthInv
    BY DEF Init, WorthInv, TabWorth
  <1>2. WorthInv => UndisturbedUsable
    BY DEF WorthInv, TabWorth, UndisturbedUsable
  <1> QED
    BY <1>1, <1>2, WorthStep, FormsHeld, PTL DEF Spec
================================================================================
