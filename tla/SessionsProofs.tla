---------------------------- MODULE SessionsProofs -----------------------------
(***************************************************************************)
(* What holds of Sessions for any number of requests, accounts, tokens,    *)
(* edits and failed statements.                                            *)
(*                                                                         *)
(*   RequestsKept           the inductive invariant: what a request has in *)
(*                          hand at each statement, and where it saw it    *)
(*   ServedEntitledCorrect  pages are served to who was entitled           *)
(*   NotResurrectedCorrect  deleted sessions stay deleted                  *)
(*   SetupFixedCorrect      a set-up session stays as it was opened        *)
(*   ImplementsSessionLifeCorrect  the table of sessions changes as        *)
(*                          SessionLife does: one lemma per kind of step   *)
(***************************************************************************)
EXTENDS Sessions, TLAPS

--------------------------------------------------------------------------------
(* The inductive invariant. *)

\* A token in the table has been drawn.
DrawnCovers == \A t \in Tokens : t \notin drawn => sessions[t] = Nil

\* The request has read the session of its cookie, which has kept its purpose if
\* it is still there.
ReadSession(r) ==
    /\ req[r].user \in Users
    /\ sessions[req[r].tok] # Nil => sessions[req[r].tok].purpose = req[r].purpose

\* What a request has in hand at each of its statements.
HandOK(r) ==
    /\ req[r].tok \in drawn \cup {Nil}
    /\ pc[r] \in {"get", "getUser", "purge", "touch", "serve", "logout", "dropOld"}
          => req[r].tok # Nil
    /\ pc[r] \in {"getUser", "touch", "serve", "dropOld"} => ReadSession(r)
    /\ pc[r] \in {"touch", "serve"} => req[r].purpose = "auth"
    /\ pc[r] = "serve" => req[r].op = "page" /\ req[r].allowed
    /\ pc[r] # "idle" => req[r].form \in Users
    /\ pc[r] = "getByEmail" => req[r].op # "elevate"
    /\ pc[r] = "create" /\ req[r].op = "elevate" => req[r].user \in Users

\* A page request that holds an authenticated session has seen it live, and one
\* that holds a fit account has seen it so.
WitnessOK(r) ==
    req[r].op = "page" =>
        /\ pc[r] \in {"getUser", "touch", "serve"} /\ req[r].purpose = "auth"
              => req[r].tok \in sawLive[r]
        /\ pc[r] \in {"touch", "serve"} /\ req[r].allowed => req[r].user \in sawFit[r]

RequestInv ==
    TypeOK /\ DrawnCovers /\ \A r \in Requests : HandOK(r) /\ WitnessOK(r)

--------------------------------------------------------------------------------
(* The parts of a step. *)

\* What a request sees of the tables is added to what it has seen.
LEMMA WatchAdds ==
    ASSUME TypeOK, Watch
    PROVE  /\ sawLive' \in [Requests -> SUBSET Tokens]
           /\ sawFit' \in [Requests -> SUBSET Users]
           /\ \A q \in Requests : pc'[q] # "idle" /\ req'[q].op = "page" =>
                 /\ {req'[q].tok} \cap Live' \subseteq sawLive'[q] /\ Fit' \subseteq sawFit'[q]
                 /\ pc[q] # "idle" => sawLive[q] \subseteq sawLive'[q] /\ sawFit[q] \subseteq sawFit'[q]
<1>1. Live' \subseteq Tokens /\ Fit' \subseteq Users
  BY DEF Live, Fit
<1>2. sawLive \in [Requests -> SUBSET Tokens] /\ sawFit \in [Requests -> SUBSET Users]
  BY DEF TypeOK
<1> QED
  BY <1>1, <1>2 DEF Watch, Seen

\* Where a request goes after LoadSession.
LEMMA HandlerIs ==
    ASSUME NEW r \in Requests, NEW attached \in BOOLEAN
    PROVE  /\ Handler(r, attached) \in {"serve", "logout", "getByEmail", "dropOld", "idle"}
           /\ Handler(r, attached) = "serve" => req[r].op = "page" /\ attached /\ LetsIn(r)
           /\ Handler(r, attached) = "logout" => req[r].tok # Nil
           /\ Handler(r, attached) = "getByEmail" => req[r].op \in {"login", "enrol"}
           /\ Handler(r, attached) = "dropOld" => req[r].op = "elevate" /\ attached
  BY DEF Handler

\* The rows of the tokens drawn so far are deleted or slide; they are not written
\* anew, and those for set-up do not slide.
RowsKept ==
    /\ drawn \subseteq drawn'
    /\ \A t \in drawn : sessions'[t] # Nil =>
          /\ sessions[t] # Nil
          /\ sessions'[t].purpose = sessions[t].purpose
          /\ sessions[t].purpose = "setup" => sessions'[t] = sessions[t]

\* A request that takes no step keeps what it has, whatever the others do.
LEMMA BystanderKept ==
    ASSUME RequestInv, RowsKept, Watch, NEW q \in Requests,
           pc'[q] = pc[q], req'[q] = req[q]
    PROVE  HandOK(q)' /\ WitnessOK(q)'
<1>1. HandOK(q) /\ WitnessOK(q) /\ req[q].tok \in drawn \cup {Nil}
  BY DEF RequestInv, HandOK
<1>2. HandOK(q)'
  BY <1>1 DEF HandOK, ReadSession, RowsKept
<1>3. WitnessOK(q)'
  BY <1>1, WatchAdds DEF WitnessOK, RequestInv
<1> QED
  BY <1>2, <1>3

--------------------------------------------------------------------------------
(* The tables. *)

\* What the environment does, all of it outside the requests.
Outside == EditUser \/ DeleteByUser \/ PurgeExpired \/ Tick

\* Only OpenSession writes a row, under a token that was never drawn.
LEMMA RowsStep == RequestInv /\ [Next]_vars => RowsKept
<1> SUFFICES ASSUME RequestInv, [Next]_vars PROVE RowsKept
  OBVIOUS
<1>1. /\ sessions \in [Tokens -> Row \cup {Nil}] /\ drawn \subseteq Tokens
      /\ \A t \in Tokens : t \notin drawn => sessions[t] = Nil
  BY DEF RequestInv, TypeOK, DrawnCovers
<1>2. CASE sessions' = sessions /\ drawn' = drawn
  BY <1>2 DEF RowsKept
<1>3. ASSUME NEW r \in Requests, Purge(r) \/ Logout(r) \/ DropOld(r)
      PROVE  RowsKept
  BY <1>1, <1>3 DEF Purge, Logout, DropOld, Delete, RowsKept
<1>4. ASSUME NEW r \in Requests, Touch(r)
      PROVE  RowsKept
  <2>1. ReadSession(r) /\ req[r].purpose = "auth"
    BY <1>4 DEF RequestInv, HandOK, Touch
  <2>2. sessions' = [sessions EXCEPT ![req[r].tok] = Touched(r)] /\ drawn' = drawn
    BY <1>4 DEF Touch
  <2>3. CASE sessions[req[r].tok] = Nil
    BY <1>1, <2>2, <2>3 DEF Touched, RowsKept
  <2>4. CASE sessions[req[r].tok] # Nil
    <3>1. sessions[req[r].tok].purpose = "auth"
      BY <2>1, <2>4 DEF ReadSession
    <3>2. \A t \in drawn : t # req[r].tok => sessions'[t] = sessions[t]
      BY <1>1, <2>2
    <3>3. ASSUME NEW t \in drawn, t = req[r].tok
          PROVE  sessions'[t].purpose = "auth"
      <4>1. sessions[t] \in Row
        BY <1>1, <2>4, <3>3
      <4>2. sessions'[t] = [sessions[t] EXCEPT !.exp = req[r].at + SessionTTL]
        BY <1>1, <2>2, <2>4, <3>3 DEF Touched
      <4> QED
        BY <3>1, <3>3, <4>1, <4>2 DEF Row
    <3> QED
      BY <2>2, <2>4, <3>1, <3>2, <3>3 DEF RowsKept
  <2> QED
    BY <2>3, <2>4
<1>5. ASSUME NEW r \in Requests, Create(r)
      PROVE  RowsKept
  BY <1>1, <1>5 DEF Create, InsertSession, RowsKept
<1>6. CASE DeleteByUser \/ PurgeExpired
  BY <1>1, <1>6 DEF DeleteByUser, PurgeExpired, RowsKept
<1>7. CASE UNCHANGED vars
  BY <1>2, <1>7 DEF vars
<1>8. CASE EditUser \/ Tick
  BY <1>2, <1>8 DEF EditUser, Tick
<1>9. ASSUME NEW r \in Requests,
             \/ Arrive(r) \/ Get(r) \/ GetUser(r) \/ Serve(r) \/ GetByEmail(r)
             \/ FailedCall(r)
      PROVE  RowsKept
  BY <1>2, <1>9 DEF Arrive, Get, GetUser, Serve, GetByEmail, FailedCall
<1> QED
  BY <1>3, <1>4, <1>5, <1>6, <1>7, <1>8, <1>9 DEF Next, Step

\* A row that is written, or slides, belongs to a token that has been drawn.
LEMMA TablesKept ==
    ASSUME RequestInv, Next
    PROVE  sessions' \in [Tokens -> Row \cup {Nil}] /\ drawn' \subseteq Tokens /\ DrawnCovers'
<1>1. /\ sessions \in [Tokens -> Row \cup {Nil}] /\ drawn \subseteq Tokens
      /\ \A t \in Tokens : t \notin drawn => sessions[t] = Nil
      /\ now \in Nat /\ req \in [Requests -> Request] /\ SessionTTL \in Nat
  BY SessionsAssumption DEF RequestInv, TypeOK, DrawnCovers
<1>2. CASE sessions' = sessions /\ drawn' = drawn
  BY <1>1, <1>2 DEF DrawnCovers
<1>3. ASSUME NEW r \in Requests, Purge(r) \/ Logout(r) \/ DropOld(r)
      PROVE  sessions' \in [Tokens -> Row \cup {Nil}] /\ drawn' \subseteq Tokens /\ DrawnCovers'
  BY <1>1, <1>3 DEF Purge, Logout, DropOld, Delete, DrawnCovers
<1>4. ASSUME NEW r \in Requests, Touch(r)
      PROVE  sessions' \in [Tokens -> Row \cup {Nil}] /\ drawn' \subseteq Tokens /\ DrawnCovers'
  <2>1. sessions' = [sessions EXCEPT ![req[r].tok] = Touched(r)] /\ drawn' = drawn
    BY <1>4 DEF Touch
  <2>2. req[r].at + SessionTTL \in Nat /\ req[r].tok \in Tokens \cup {Nil}
    BY <1>1 DEF Request
  <2>3. Touched(r) \in Row \cup {Nil} \/ req[r].tok \notin Tokens
    BY <1>1, <2>2 DEF Touched, Row
  <2>4. sessions[req[r].tok] = Nil => Touched(r) = Nil
    BY DEF Touched
  <2> QED
    BY <1>1, <2>1, <2>3, <2>4 DEF DrawnCovers
<1>5. ASSUME NEW r \in Requests, Create(r)
      PROVE  sessions' \in [Tokens -> Row \cup {Nil}] /\ drawn' \subseteq Tokens /\ DrawnCovers'
  <2>1. CASE UNCHANGED <<sessions, drawn>>
    BY <1>2, <2>1
  <2>2. ASSUME NEW t \in Tokens \ drawn, NEW row \in Row,
               sessions' = [sessions EXCEPT ![t] = row], drawn' = drawn \cup {t}
        PROVE  sessions' \in [Tokens -> Row \cup {Nil}] /\ drawn' \subseteq Tokens /\ DrawnCovers'
    BY <1>1, <2>2 DEF DrawnCovers
  <2>3. [user |-> IF req[r].op = "elevate" THEN req[r].user ELSE req[r].form,
         purpose |-> IF req[r].op = "enrol" THEN "setup" ELSE "auth",
         exp |-> now + SessionTTL] \in Row
    <3>1. req[r].form \in Users /\ (req[r].op = "elevate" => req[r].user \in Users)
      BY <1>5 DEF RequestInv, HandOK, Create
    <3>2. now + SessionTTL \in Nat
      BY <1>1
    <3> QED
      BY <3>1, <3>2 DEF Row
  <2> QED
    BY <1>5, <2>1, <2>2, <2>3 DEF Create, InsertSession
<1>6. CASE DeleteByUser \/ PurgeExpired
  BY <1>1, <1>6 DEF DeleteByUser, PurgeExpired, DrawnCovers
<1>7. CASE EditUser \/ Tick
  BY <1>2, <1>7 DEF EditUser, Tick
<1>8. ASSUME NEW r \in Requests,
             \/ Arrive(r) \/ Get(r) \/ GetUser(r) \/ Serve(r) \/ GetByEmail(r)
             \/ FailedCall(r)
      PROVE  sessions' \in [Tokens -> Row \cup {Nil}] /\ drawn' \subseteq Tokens /\ DrawnCovers'
  BY <1>2, <1>8 DEF Arrive, Get, GetUser, Serve, GetByEmail, FailedCall
<1> QED
  BY <1>3, <1>4, <1>5, <1>6, <1>7, <1>8 DEF Next, Step

--------------------------------------------------------------------------------
(* The requests. *)

\* The statements of a request leave the other requests alone.
LEMMA OthersUntouched ==
    ASSUME RequestInv, NEW r \in Requests, Arrive(r) \/ Step(r) \/ FailedCall(r),
           NEW q \in Requests, q # r
    PROVE  pc'[q] = pc[q] /\ req'[q] = req[q]
<1>1. pc \in [Requests -> Calls \cup {"idle"}] /\ req \in [Requests -> Request]
  BY DEF RequestInv, TypeOK
<1>2. CASE Arrive(r)
  BY <1>1, <1>2 DEF Arrive, Goto
<1>3. CASE Get(r) \/ GetUser(r) \/ Purge(r) \/ Touch(r)
  BY <1>1, <1>3 DEF Get, GetUser, Purge, Touch, Attached, Anonymous, Goto
<1>4. CASE Serve(r) \/ Logout(r) \/ GetByEmail(r) \/ DropOld(r) \/ Create(r)
  BY <1>1, <1>4 DEF Serve, Logout, GetByEmail, DropOld, Create, Done, Goto
<1>5. CASE FailedCall(r)
  BY <1>1, <1>5 DEF FailedCall, Attached, Anonymous, Done, Goto
<1> QED
  BY <1>2, <1>3, <1>4, <1>5 DEF Step

\* A request that has ended has nothing in hand.
LEMMA EndedOK ==
    ASSUME RequestInv, NEW r \in Requests, Done(r)
    PROVE  HandOK(r)' /\ WitnessOK(r)'
<1>1. pc'[r] = "idle" /\ req'[r] = NoRequest
  BY DEF RequestInv, TypeOK, Done, Goto
<1> QED
  BY <1>1 DEF HandOK, WitnessOK, NoRequest

\* What LoadSession leaves an anonymous request with.
LEMMA AnonymousOK ==
    ASSUME RequestInv, RowsKept, NEW r \in Requests, pc[r] \in {"get", "purge"}, Anonymous(r)
    PROVE  HandOK(r)' /\ WitnessOK(r)'
<1>1. pc'[r] = Handler(r, FALSE) /\ req'[r] = req[r]
  BY DEF RequestInv, TypeOK, Anonymous, Goto
<1>2. HandOK(r) /\ req[r].form \in Users
  BY DEF RequestInv, HandOK
<1>3. /\ pc'[r] \in {"logout", "getByEmail", "idle"}
      /\ pc'[r] = "getByEmail" => req[r].op \in {"login", "enrol"}
      /\ pc'[r] = "logout" => req[r].tok # Nil
  BY <1>1, HandlerIs
<1>4. HandOK(r)'
  BY <1>1, <1>2, <1>3 DEF HandOK, RowsKept
<1>5. WitnessOK(r)'
  BY <1>3 DEF WitnessOK
<1> QED
  BY <1>4, <1>5

LEMMA ArriveOK ==
    ASSUME RequestInv, RowsKept, NEW r \in Requests, Arrive(r)
    PROVE  HandOK(r)' /\ WitnessOK(r)'
<1>1. PICK op \in Serves, tok \in drawn \cup {Nil}, u \in Users :
          /\ req' = [req EXCEPT ![r] = [NoRequest EXCEPT !.op = op, !.tok = tok, !.form = u]]
          /\ \/ tok # Nil /\ Goto(r, "get")
             \/ tok = Nil /\ op \in {"login", "enrol"} /\ Goto(r, "getByEmail")
  BY DEF Arrive
<1>2. req'[r].op = op /\ req'[r].tok = tok /\ req'[r].form = u
  BY <1>1 DEF RequestInv, TypeOK, NoRequest
<1>3. \/ tok # Nil /\ pc'[r] = "get"
      \/ op \in {"login", "enrol"} /\ pc'[r] = "getByEmail"
  BY <1>1 DEF RequestInv, TypeOK, Goto
<1> QED
  BY <1>2, <1>3 DEF HandOK, WitnessOK, RowsKept

\* The session that Get reads is live at that moment if it authenticates.
LEMMA GetOK ==
    ASSUME RequestInv, RowsKept, NEW r \in Requests, Get(r)
    PROVE  HandOK(r)' /\ WitnessOK(r)'
<1> DEFINE row == SelectSession(req[r].tok)
<1>1. /\ HandOK(r) /\ req[r].tok # Nil /\ req[r].form \in Users
      /\ req[r] \in Request /\ pc \in [Requests -> Calls \cup {"idle"}]
      /\ req \in [Requests -> Request] /\ sessions \in [Tokens -> Row \cup {Nil}]
      /\ UNCHANGED <<now, users, sessions, drawn>> /\ Watch /\ TypeOK
  BY DEF RequestInv, HandOK, Get, TypeOK
<1>2. CASE Anonymous(r)
  BY <1>2, AnonymousOK DEF Get
<1>3. CASE Goto(r, "purge") /\ UNCHANGED req
  <2>1. pc'[r] = "purge" /\ req'[r] = req[r]
    BY <1>1, <1>3 DEF Goto
  <2> QED
    BY <1>1, <2>1 DEF HandOK, WitnessOK
<1>4. CASE /\ row # Nil /\ ~Expired(row, now) /\ Goto(r, "getUser")
           /\ req' = [req EXCEPT ![r] = [@ EXCEPT
                         !.user = row.user, !.purpose = row.purpose]]
  <2>1. req[r].tok \in Tokens /\ row \in Row /\ row = sessions[req[r].tok]
    BY <1>1, <1>4 DEF Request, SelectSession
  <2>2. /\ pc'[r] = "getUser" /\ req'[r].tok = req[r].tok /\ req'[r].op = req[r].op
        /\ req'[r].form = req[r].form /\ req'[r].user = row.user
        /\ req'[r].purpose = row.purpose
    BY <1>1, <1>4 DEF Goto, Request
  <2>3. HandOK(r)'
    BY <1>1, <2>1, <2>2 DEF HandOK, ReadSession, Row
  <2>4. ASSUME req'[r].op = "page", req'[r].purpose = "auth"
        PROVE  req'[r].tok \in sawLive'[r]
    <3>1. now \in Nat /\ row.exp \in Nat /\ ~(row.exp <= now)
      BY <1>1, <1>4, <2>1 DEF Row, TypeOK, Expired
    <3>2. row.exp > now /\ row.purpose = "auth" /\ row # Nil
      BY <1>4, <2>2, <2>4, <3>1
    <3>3. sessions'[req'[r].tok] = row /\ now' = now /\ req'[r].tok \in Tokens
      BY <1>1, <2>1, <2>2
    <3>4. req'[r].tok \in Live'
      BY <3>2, <3>3 DEF Live
    <3> QED
      BY <1>1, <2>2, <2>4, <3>4, WatchAdds
  <2>5. WitnessOK(r)'
    BY <2>2, <2>4 DEF WitnessOK
  <2> QED
    BY <2>3, <2>5
<1> QED
  BY <1>2, <1>3, <1>4 DEF Get

\* What LoadSession leaves with a request whose session it attached.
LEMMA AttachedOK ==
    ASSUME RequestInv, RowsKept, NEW r \in Requests, pc[r] \in {"getUser", "touch"},
           Attached(r), req'[r] \in Request, req'[r].op = req[r].op,
           req'[r].tok = req[r].tok, req'[r].form = req[r].form,
           req'[r].user = req[r].user, req'[r].purpose = req[r].purpose,
           pc'[r] = "serve" => req[r].tok \in sawLive'[r] /\ req[r].user \in sawFit'[r]
    PROVE  HandOK(r)' /\ WitnessOK(r)'
<1>1. HandOK(r) /\ ReadSession(r) /\ req[r].tok \in drawn /\ req[r].tok # Nil
  BY DEF RequestInv, HandOK
<1>2. pc'[r] = Handler(r, TRUE)
  BY DEF RequestInv, TypeOK, Attached, Goto
<1>3. /\ pc'[r] \in {"serve", "logout", "getByEmail", "dropOld", "idle"}
      /\ pc'[r] = "serve" => req[r].op = "page" /\ LetsIn(r)
      /\ pc'[r] = "getByEmail" => req[r].op \in {"login", "enrol"}
  BY <1>2, HandlerIs
<1>4. ReadSession(r)'
  BY <1>1 DEF ReadSession, RowsKept
<1>5. HandOK(r)'
  BY <1>1, <1>3, <1>4 DEF HandOK, LetsIn, RowsKept
<1>6. WitnessOK(r)'
  BY <1>3 DEF WitnessOK
<1> QED
  BY <1>5, <1>6

\* The account that GetUser lets by is fit at that moment if its role is allowed.
LEMMA GetUserOK ==
    ASSUME RequestInv, RowsKept, NEW r \in Requests, GetUser(r)
    PROVE  HandOK(r)' /\ WitnessOK(r)'
<1> DEFINE user == SelectUser(req[r].user)
<1>1. /\ HandOK(r) /\ WitnessOK(r) /\ pc[r] = "getUser" /\ req[r].tok # Nil
      /\ req[r].form \in Users /\ req[r].user \in Users /\ ReadSession(r)
      /\ req[r] \in Request /\ pc \in [Requests -> Calls \cup {"idle"}]
      /\ req \in [Requests -> Request] /\ now \in Nat
      /\ users \in [Users -> [active : BOOLEAN, allowed : BOOLEAN]]
      /\ UNCHANGED <<now, users, sessions, drawn>> /\ Watch /\ TypeOK
  <2>1. pc[r] = "getUser" /\ UNCHANGED <<now, users, sessions, drawn>> /\ Watch
    BY DEF GetUser
  <2>2. HandOK(r) /\ WitnessOK(r) /\ TypeOK
    BY DEF RequestInv
  <2>3. req[r].tok # Nil /\ req[r].form \in Users /\ ReadSession(r)
    BY <2>1, <2>2 DEF HandOK
  <2> QED
    BY <2>1, <2>2, <2>3 DEF ReadSession, TypeOK
<1>2. CASE Goto(r, "purge") /\ UNCHANGED req
  <2>1. pc'[r] = "purge" /\ req'[r] = req[r]
    BY <1>1, <1>2 DEF Goto
  <2> QED
    BY <1>1, <2>1 DEF HandOK, WitnessOK
<1>3. CASE /\ user.active
           /\ req' = [req EXCEPT ![r] = [@ EXCEPT !.allowed = user.allowed, !.at = now]]
           /\ \/ req[r].purpose = "auth" /\ Goto(r, "touch")
              \/ req[r].purpose # "auth" /\ Attached(r)
  <2>1. user = users[req[r].user] /\ user.allowed \in BOOLEAN
    BY <1>1 DEF SelectUser
  <2>2. /\ req'[r] \in Request /\ req'[r].op = req[r].op /\ req'[r].tok = req[r].tok
        /\ req'[r].form = req[r].form /\ req'[r].user = req[r].user
        /\ req'[r].purpose = req[r].purpose /\ req'[r].allowed = user.allowed
    BY <1>1, <1>3, <2>1 DEF Request
  <2>3. CASE req[r].purpose = "auth" /\ Goto(r, "touch")
    <3>1. pc'[r] = "touch"
      BY <1>1, <2>3 DEF Goto
    <3>2. HandOK(r)'
      BY <1>1, <2>2, <2>3, <3>1 DEF HandOK, ReadSession
    <3>3. ASSUME req'[r].allowed, req'[r].op = "page"
          PROVE  req'[r].user \in sawFit'[r]
      <4>1. req'[r].user \in Fit'
        BY <1>1, <1>3, <2>1, <2>2, <3>3 DEF Fit
      <4> QED
        BY <1>1, <3>1, <3>3, <4>1, WatchAdds
    <3>4. ASSUME req'[r].op = "page" PROVE req'[r].tok \in sawLive'[r]
      <4>1. req[r].tok \in sawLive[r]
        BY <1>1, <2>2, <2>3, <3>4 DEF WitnessOK
      <4> QED
        BY <1>1, <2>2, <3>1, <3>4, <4>1, WatchAdds
    <3>5. WitnessOK(r)'
      BY <3>3, <3>4 DEF WitnessOK
    <3> QED
      BY <3>2, <3>5
  <2>4. CASE req[r].purpose # "auth" /\ Attached(r)
    <3>1. pc'[r] # "serve"
      BY <1>1, <2>2, <2>4, HandlerIs DEF Attached, Goto, LetsIn
    <3> QED
      BY <1>1, <2>2, <2>4, <3>1, AttachedOK
  <2> QED
    BY <1>3, <2>3, <2>4
<1> QED
  BY <1>2, <1>3 DEF GetUser

\* The request goes on with its session, slid or not.
LEMMA SlidOK ==
    ASSUME RequestInv, RowsKept, NEW r \in Requests, pc[r] = "touch", UNCHANGED req,
           Attached(r), Watch
    PROVE  HandOK(r)' /\ WitnessOK(r)'
<1>1. /\ WitnessOK(r) /\ HandOK(r) /\ req[r].purpose = "auth" /\ TypeOK
      /\ req'[r] = req[r] /\ req'[r] \in Request
  BY DEF RequestInv, HandOK, TypeOK
<1>2. ASSUME pc'[r] = "serve"
      PROVE  req[r].tok \in sawLive'[r] /\ req[r].user \in sawFit'[r]
  <2>1. req[r].op = "page" /\ req[r].allowed
    BY <1>1, <1>2, HandlerIs DEF RequestInv, TypeOK, Attached, Goto, LetsIn
  <2>2. req[r].tok \in sawLive[r] /\ req[r].user \in sawFit[r]
    BY <1>1, <2>1 DEF WitnessOK
  <2> QED
    BY <1>1, <1>2, <2>1, <2>2, WatchAdds
<1> QED
  BY <1>1, <1>2, AttachedOK

\* The handlers of the logins, and Elevate, keep what they need for OpenSession.
LEMMA HandlersOK ==
    ASSUME RequestInv, RowsKept, NEW r \in Requests, UNCHANGED req,
           \/ pc[r] = "getByEmail" /\ Goto(r, "create")
           \/ pc[r] = "dropOld" /\ Goto(r, "create")
           \/ pc[r] = "getUser" /\ Goto(r, "purge")
    PROVE  HandOK(r)' /\ WitnessOK(r)'
<1>1. HandOK(r) /\ req'[r] = req[r] /\ pc'[r] \in {"create", "purge"}
  BY DEF RequestInv, TypeOK, Goto
<1>2. /\ req[r].form \in Users
      /\ pc'[r] = "create" /\ req[r].op = "elevate" => req[r].user \in Users
      /\ pc'[r] = "purge" => req[r].tok # Nil
  BY <1>1 DEF RequestInv, TypeOK, Goto, HandOK, ReadSession
<1>3. HandOK(r)'
  BY <1>1, <1>2 DEF HandOK, RowsKept
<1> QED
  BY <1>1, <1>3 DEF WitnessOK

LEMMA RequestStepOK ==
    ASSUME RequestInv, RowsKept, NEW r \in Requests, Arrive(r) \/ Step(r) \/ FailedCall(r)
    PROVE  HandOK(r)' /\ WitnessOK(r)'
<1>1. CASE Arrive(r)
  BY <1>1, ArriveOK
<1>2. CASE Get(r)
  BY <1>2, GetOK
<1>3. CASE GetUser(r)
  BY <1>3, GetUserOK
<1>4. CASE Purge(r)
  BY <1>4, AnonymousOK DEF Purge
<1>5. CASE Touch(r)
  BY <1>5, SlidOK DEF Touch
<1>6. CASE Serve(r) \/ Logout(r) \/ Create(r)
  BY <1>6, EndedOK DEF Serve, Logout, Create
<1>7. CASE GetByEmail(r) \/ DropOld(r)
  BY <1>7, EndedOK, HandlersOK DEF GetByEmail, DropOld
<1>8. CASE FailedCall(r)
  <2>1. CASE pc[r] \in {"get", "purge"} /\ Anonymous(r)
    BY <2>1, AnonymousOK
  <2>2. CASE pc[r] = "touch" /\ UNCHANGED req /\ Attached(r)
    BY <1>8, <2>2, SlidOK DEF FailedCall
  <2>3. CASE /\ UNCHANGED req
             /\ \/ pc[r] = "dropOld" /\ Goto(r, "create")
                \/ pc[r] = "getUser" /\ Goto(r, "purge")
    BY <2>3, HandlersOK
  <2>4. CASE Done(r)
    BY <2>4, EndedOK
  <2> QED
    BY <1>8, <2>1, <2>2, <2>3, <2>4 DEF FailedCall
<1> QED
  BY <1>1, <1>2, <1>3, <1>4, <1>5, <1>6, <1>7, <1>8 DEF Step

\* A statement finds the slot with a request of its shape and leaves it so.
LEMMA SlotsTyped ==
    ASSUME RequestInv, NEW r \in Requests, Arrive(r) \/ Step(r) \/ FailedCall(r)
    PROVE  /\ pc' \in [Requests -> Calls \cup {"idle"}] /\ req' \in [Requests -> Request]
           /\ UNCHANGED <<now, users, edits>> /\ faults' \in 0..MaxFaults /\ Watch
<1>1. /\ pc \in [Requests -> Calls \cup {"idle"}] /\ req \in [Requests -> Request]
      /\ sessions \in [Tokens -> Row \cup {Nil}] /\ drawn \subseteq Tokens
      /\ faults \in 0..MaxFaults /\ now \in Nat /\ HandOK(r)
      /\ users \in [Users -> [active : BOOLEAN, allowed : BOOLEAN]]
  BY DEF RequestInv, TypeOK
<1>2. NoRequest \in Request
  BY DEF NoRequest, Request
<1>3. ASSUME NEW call \in Calls \cup {"idle"}, Goto(r, call)
      PROVE  pc' \in [Requests -> Calls \cup {"idle"}]
  BY <1>1, <1>3 DEF Goto
<1>4. Handler(r, TRUE) \in Calls \cup {"idle"} /\ Handler(r, FALSE) \in Calls \cup {"idle"}
  BY HandlerIs DEF Calls
<1>5. ASSUME Anonymous(r)
      PROVE  pc' \in [Requests -> Calls \cup {"idle"}] /\ req' \in [Requests -> Request]
  BY <1>1, <1>3, <1>4, <1>5 DEF Anonymous
<1>6. ASSUME Attached(r)
      PROVE  pc' \in [Requests -> Calls \cup {"idle"}]
  BY <1>3, <1>4, <1>6 DEF Attached
<1>7. ASSUME Done(r)
      PROVE  pc' \in [Requests -> Calls \cup {"idle"}] /\ req' \in [Requests -> Request]
  BY <1>1, <1>2, <1>3, <1>7 DEF Done
<1>8. CASE Arrive(r)
  <2>1. PICK op \in Serves, tok \in drawn \cup {Nil}, u \in Users :
            /\ req' = [req EXCEPT ![r] = [NoRequest EXCEPT !.op = op, !.tok = tok, !.form = u]]
            /\ Goto(r, "get") \/ Goto(r, "getByEmail")
    BY <1>8 DEF Arrive
  <2>2. [NoRequest EXCEPT !.op = op, !.tok = tok, !.form = u] \in Request
    BY <1>1, SessionsAssumption DEF NoRequest, Request
  <2>3. req' \in [Requests -> Request]
    BY <1>1, <2>1, <2>2
  <2>4. pc' \in [Requests -> Calls \cup {"idle"}]
    BY <1>3, <2>1 DEF Calls
  <2> QED
    BY <1>1, <1>8, <2>3, <2>4 DEF Arrive
<1>9. CASE Get(r)
  <2> DEFINE row == SelectSession(req[r].tok)
  <2>1. CASE Anonymous(r)
    BY <1>1, <1>5, <1>9, <2>1 DEF Get
  <2>2. CASE Goto(r, "purge") /\ UNCHANGED req
    BY <1>1, <1>3, <1>9, <2>2 DEF Get, Calls
  <2>3. CASE /\ row # Nil /\ Goto(r, "getUser")
             /\ req' = [req EXCEPT ![r] = [@ EXCEPT
                           !.user = row.user, !.purpose = row.purpose]]
    <3>1. req[r].tok \in Tokens
      BY <1>1, <1>9 DEF HandOK, Get
    <3>2. row \in Row
      BY <1>1, <2>3, <3>1 DEF SelectSession
    <3>3. [req[r] EXCEPT !.user = row.user, !.purpose = row.purpose] \in Request
      BY <1>1, <3>2 DEF Request, Row
    <3>4. req' \in [Requests -> Request]
      BY <1>1, <2>3, <3>3
    <3>5. pc' \in [Requests -> Calls \cup {"idle"}]
      BY <1>3, <2>3 DEF Calls
    <3> QED
      BY <1>1, <1>9, <3>4, <3>5 DEF Get
  <2> QED
    BY <1>9, <2>1, <2>2, <2>3 DEF Get
<1>10. CASE GetUser(r)
  <2> DEFINE user == SelectUser(req[r].user)
  <2>1. CASE Goto(r, "purge") /\ UNCHANGED req
    BY <1>1, <1>3, <1>10, <2>1 DEF GetUser, Calls
  <2>2. CASE /\ req' = [req EXCEPT ![r] = [@ EXCEPT !.allowed = user.allowed, !.at = now]]
             /\ Goto(r, "touch") \/ Attached(r)
    <3>1. req[r].user \in Users
      BY <1>1, <1>10 DEF HandOK, ReadSession, GetUser
    <3>2. [req[r] EXCEPT !.allowed = user.allowed, !.at = now] \in Request
      BY <1>1, <3>1 DEF SelectUser, Request
    <3>3. req' \in [Requests -> Request]
      BY <1>1, <2>2, <3>2
    <3>4. pc' \in [Requests -> Calls \cup {"idle"}]
      BY <1>3, <1>6, <2>2 DEF Calls
    <3> QED
      BY <1>1, <1>10, <3>3, <3>4 DEF GetUser
  <2> QED
    BY <1>10, <2>1, <2>2 DEF GetUser
<1>11. CASE Purge(r) \/ Touch(r)
  BY <1>1, <1>5, <1>6, <1>11 DEF Purge, Touch
<1>12. CASE Serve(r) \/ Logout(r) \/ Create(r)
  BY <1>1, <1>7, <1>12 DEF Serve, Logout, Create
<1>13. CASE GetByEmail(r) \/ DropOld(r)
  BY <1>1, <1>3, <1>7, <1>13 DEF GetByEmail, DropOld, Calls
<1>14. CASE FailedCall(r)
  <2>1. faults' \in 0..MaxFaults
    BY <1>1, <1>14, SessionsAssumption DEF FailedCall
  <2>2. pc' \in [Requests -> Calls \cup {"idle"}] /\ req' \in [Requests -> Request]
    BY <1>1, <1>3, <1>5, <1>6, <1>7, <1>14 DEF FailedCall, Calls
  <2> QED
    BY <1>14, <2>1, <2>2 DEF FailedCall
<1> QED
  BY <1>8, <1>9, <1>10, <1>11, <1>12, <1>13, <1>14 DEF Step

--------------------------------------------------------------------------------
(* The invariant holds at the start and is kept. *)

LEMMA InitRequests == Init => RequestInv
<1> SUFFICES ASSUME Init PROVE RequestInv
  OBVIOUS
<1>1. TypeOK
  BY SessionsAssumption DEF Init, TypeOK, NoRequest, Request
<1>2. DrawnCovers
  BY DEF Init, DrawnCovers
<1>3. ASSUME NEW r \in Requests PROVE HandOK(r) /\ WitnessOK(r)
  BY DEF Init, HandOK, WitnessOK, NoRequest
<1> QED
  BY <1>1, <1>2, <1>3 DEF RequestInv

LEMMA NextRequests == RequestInv /\ [Next]_vars => RequestInv'
<1> SUFFICES ASSUME RequestInv, [Next]_vars PROVE RequestInv'
  OBVIOUS
<1>1. RowsKept
  BY RowsStep
<1>2. CASE UNCHANGED vars
  BY <1>2 DEF RequestInv, TypeOK, DrawnCovers, HandOK, ReadSession, WitnessOK, vars, history
<1>3. ASSUME NEW r \in Requests, Arrive(r) \/ Step(r) \/ FailedCall(r)
      PROVE  RequestInv'
  <2>1. sessions' \in [Tokens -> Row \cup {Nil}] /\ drawn' \subseteq Tokens /\ DrawnCovers'
    BY <1>3, TablesKept DEF Next
  <2>2. TypeOK'
    BY <1>3, <2>1, SlotsTyped, WatchAdds DEF RequestInv, TypeOK
  <2>3. ASSUME NEW q \in Requests PROVE HandOK(q)' /\ WitnessOK(q)'
    <3>1. CASE q = r
      BY <1>1, <1>3, <3>1, RequestStepOK
    <3>2. CASE q # r
      BY <1>1, <1>3, <3>2, OthersUntouched, BystanderKept, SlotsTyped
    <3> QED
      BY <3>1, <3>2
  <2> QED
    BY <2>1, <2>2, <2>3 DEF RequestInv
<1>4. CASE Outside
  <2>1. UNCHANGED <<pc, req, faults>> /\ Watch
    BY <1>4 DEF Outside, EditUser, DeleteByUser, PurgeExpired, Tick
  <2>2. sessions' \in [Tokens -> Row \cup {Nil}] /\ drawn' \subseteq Tokens /\ DrawnCovers'
    BY <1>4, TablesKept DEF Next, Outside
  <2>3. now' \in Nat /\ edits' \in 0..MaxEdits
    BY <1>4, SessionsAssumption
       DEF Outside, EditUser, DeleteByUser, PurgeExpired, Tick, RequestInv, TypeOK
  <2>4. users' \in [Users -> [active : BOOLEAN, allowed : BOOLEAN]]
    BY <1>4 DEF Outside, EditUser, DeleteByUser, PurgeExpired, Tick, RequestInv, TypeOK
  <2>5. TypeOK'
    BY <2>1, <2>2, <2>3, <2>4, WatchAdds DEF RequestInv, TypeOK
  <2>6. ASSUME NEW q \in Requests PROVE HandOK(q)' /\ WitnessOK(q)'
    BY <1>1, <2>1, BystanderKept
  <2> QED
    BY <2>2, <2>5, <2>6 DEF RequestInv
<1> QED
  BY <1>2, <1>3, <1>4 DEF Next, Outside

--------------------------------------------------------------------------------
(* The theorems. *)

\* At each statement of LoadSession and of the handlers, a request has in hand a
\* token that was drawn and the session it read, and has seen what it relies on.
THEOREM RequestsKept == Spec => []RequestInv
  BY InitRequests, NextRequests, PTL DEF Spec

\* The tables, the requests and what they have seen have their types.
THEOREM SessionsTypeCorrect == Spec => []TypeOK
<1>1. RequestInv => TypeOK
  BY DEF RequestInv
<1> QED
  BY <1>1, RequestsKept, PTL

\* However many requests, edits of accounts and failed statements there are, the
\* pages behind RequireAuth are served only to who held a live authenticated
\* session and was active with an allowed role while LoadSession ran.
THEOREM ServedEntitledCorrect == Spec => []ServedEntitled
<1>1. RequestInv => ServedEntitled
  <2> SUFFICES ASSUME RequestInv, NEW r \in Requests, pc[r] = "serve"
               PROVE  req[r].tok \in sawLive[r] /\ req[r].user \in sawFit[r]
    BY DEF ServedEntitled
  <2>1. HandOK(r) /\ WitnessOK(r)
    BY DEF RequestInv
  <2> QED
    BY <2>1 DEF HandOK, WitnessOK
<1> QED
  BY <1>1, RequestsKept, PTL

\* No statement of Manager, of its purge or of Elevate writes a row under a token
\* that was drawn before, so that an ended session stays ended.
THEOREM NotResurrectedCorrect == Spec => NotResurrected
<1>1. RequestInv /\ [Next]_vars =>
         [\A t \in drawn : sessions[t] = Nil => sessions'[t] = Nil]_vars
  BY RowsStep DEF RowsKept
<1> QED
  BY <1>1, RequestsKept, PTL DEF Spec, NotResurrected

\* The sessions opened for the set-up of the second factor keep their row, their
\* expiry with it, until they are deleted.
THEOREM SetupFixedCorrect == Spec => SetupFixed
<1>1. RequestInv /\ [Next]_vars =>
         [\A t \in Tokens :
             (sessions[t] # Nil /\ sessions[t].purpose = "setup" /\ sessions'[t] # Nil)
                 => sessions'[t] = sessions[t]]_vars
  BY RowsStep DEF RowsKept, RequestInv, DrawnCovers
<1> QED
  BY <1>1, RequestsKept, PTL DEF Spec, SetupFixed

--------------------------------------------------------------------------------
(* The sessions as their users see them. *)

\* The time a request extends its session from has come.
AtPast == \A r \in Requests : req[r].at <= now

LEMMA InitAtPast == Init => AtPast
  BY DEF Init, AtPast, NoRequest

\* Only GetUser reads the clock.
LEMMA NextAtPast == RequestInv /\ AtPast /\ [Next]_vars => AtPast'
<1> SUFFICES ASSUME RequestInv, AtPast, [Next]_vars PROVE AtPast'
  OBVIOUS
<1>1. /\ now \in Nat /\ req \in [Requests -> Request]
      /\ \A q \in Requests : req[q].at \in Nat /\ req[q].at <= now
  BY DEF RequestInv, TypeOK, AtPast, Request
<1>2. CASE UNCHANGED vars
  BY <1>2 DEF vars, AtPast
<1>3. CASE Outside
  <2>1. req' = req /\ (now' = now \/ now' = now + 1)
    BY <1>3 DEF Outside, EditUser, DeleteByUser, PurgeExpired, Tick
  <2> QED
    BY <1>1, <2>1 DEF AtPast
<1>4. ASSUME NEW r \in Requests, Arrive(r) \/ Step(r) \/ FailedCall(r)
      PROVE  AtPast'
  <2>1. now' = now
    BY <1>4 DEF Step, Arrive, Get, GetUser, Purge, Touch, Serve, Logout, GetByEmail, DropOld, Create,
                FailedCall
  <2>2. \A q \in Requests : q # r => req'[q] = req[q]
    BY <1>4, OthersUntouched
  <2>3. req'[r].at \in {0, now, req[r].at}
    <3>1. CASE Arrive(r)
      BY <1>1, <3>1 DEF Arrive, NoRequest
    <3>2. CASE GetUser(r)
      BY <1>1, <3>2 DEF GetUser, Request
    <3>3. CASE Get(r)
      BY <1>1, <3>3 DEF Get, Anonymous, Request
    <3>4. CASE Purge(r) \/ Touch(r) \/ DropOld(r)
      BY <1>1, <3>4 DEF Purge, Touch, DropOld, Anonymous
    <3>5. CASE GetByEmail(r) \/ Serve(r) \/ Logout(r) \/ Create(r)
      BY <1>1, <3>5 DEF GetByEmail, Serve, Logout, Create, Done, NoRequest
    <3>6. CASE FailedCall(r)
      <4>1. req' = req \/ req' = [req EXCEPT ![r] = NoRequest]
        BY <3>6 DEF FailedCall, Anonymous, Done
      <4> QED
        BY <1>1, <4>1 DEF NoRequest
    <3> QED
      BY <1>4, <3>1, <3>2, <3>3, <3>4, <3>5, <3>6 DEF Step
  <2> QED
    BY <1>1, <2>1, <2>2, <2>3 DEF AtPast
<1> QED
  BY <1>2, <1>3, <1>4 DEF Next, Outside

\* A row as its user sees it.
Holder(row) == IF row = Nil THEN Nil ELSE [user |-> row.user, purpose |-> row.purpose]
Deadline(row) == IF row = Nil THEN 0 ELSE row.exp

\* The table a deployment starts with is one of SessionLife.
LEMMA InitLife == Init => Life!Init
<1> SUFFICES ASSUME Init PROVE Life!Init
  OBVIOUS
<1>1. sessions \in [Tokens -> Row \cup {Nil}] /\ drawn = {t \in Tokens : sessions[t] # Nil}
  BY SessionsAssumption DEF Init
<1>2. \A t \in Tokens : sessions[t] # Nil =>
         sessions[t].user \in Users /\ sessions[t].purpose \in {"setup", "auth"} /\ sessions[t].exp \in Nat
  BY <1>1 DEF Row
<1> QED
  BY <1>1, <1>2 DEF Init, Life!Init

\* A step that changes no row.
LEMMA StillLife ==
    ASSUME sessions' = sessions, drawn' = drawn, now' = now PROVE UNCHANGED Life!lifeVars
  BY DEF Life!lifeVars

\* A step that deletes the rows of S.
LEMMA EndLife ==
    ASSUME RequestInv, NEW S \in SUBSET Tokens, drawn' = drawn, now' = now,
           sessions' = [t \in Tokens |-> IF t \in S THEN Nil ELSE sessions[t]]
    PROVE  Life!End(S)
  BY DEF Life!End

\* Touch extends the session read by the request, from an instant not ahead of the clock.
LEMMA UseLife ==
    ASSUME RequestInv, AtPast, NEW r \in Requests, Touch(r)
    PROVE  Life!Next \/ UNCHANGED Life!lifeVars
<1>1. /\ sessions \in [Tokens -> Row \cup {Nil}] /\ drawn \subseteq Tokens
      /\ now \in Nat /\ req[r] \in Request
  BY DEF RequestInv, TypeOK
<1>2. /\ req[r].tok \in Tokens /\ ReadSession(r) /\ req[r].purpose = "auth"
  BY <1>1 DEF RequestInv, HandOK, Touch
<1>3. PICK t \in Tokens, at \in 0..now : t = req[r].tok /\ at = req[r].at
  <2>1. req[r].at \in Nat /\ req[r].at <= now
    BY <1>1 DEF AtPast, Request
  <2> QED
    BY <1>1, <1>2, <2>1
<1>4. drawn' = drawn /\ now' = now
  BY DEF Touch
<1>5. CASE sessions[t] = Nil
  <2>1. sessions' = sessions
    BY <1>1, <1>3, <1>5 DEF Touch, Touched
  <2> QED
    BY <1>4, <2>1, StillLife
<1>6. CASE sessions[t] # Nil
  <2>1. sessions' = [sessions EXCEPT ![t] = [sessions[t] EXCEPT !.exp = at + SessionTTL]]
    BY <1>3, <1>6 DEF Touch, Touched
  <2>2. PICK row \in Row : row = sessions[t]
    BY <1>1, <1>6
  <2>3. row.user \in Users /\ row.purpose = "auth"
    BY <1>2, <1>3, <1>6, <2>2 DEF ReadSession, Row
  <2>4. PICK next : next = [row EXCEPT !.exp = at + SessionTTL]
    OBVIOUS
  <2>5. next.user = row.user /\ next.purpose = row.purpose /\ next.exp = at + SessionTTL /\ next \in Row
    BY <1>1, <2>2, <2>4, SessionsAssumption DEF Row
  <2>6. next # Nil /\ row # Nil
    BY <2>5, SessionsAssumption
  <2>7. sessions' = [sessions EXCEPT ![t] = next]
    BY <2>1, <2>2, <2>4
  <2>8. Life!Use(t, at)
    BY <1>1, <1>4, <2>2, <2>3, <2>5, <2>6, <2>7 DEF Life!Use
  <2> QED
    BY <2>8 DEF Life!Next
<1> QED
  BY <1>5, <1>6

\* OpenSession opens the session of a fresh token.
LEMMA OpenLife ==
    ASSUME RequestInv, NEW r \in Requests, Create(r)
    PROVE  Life!Next \/ UNCHANGED Life!lifeVars
<1>1. /\ sessions \in [Tokens -> Row \cup {Nil}] /\ now \in Nat
      /\ \A t \in Tokens : t \notin drawn => sessions[t] = Nil
  BY DEF RequestInv, TypeOK, DrawnCovers
<1>2. now' = now
  BY DEF Create
<1>3. CASE UNCHANGED <<sessions, drawn>>
  BY <1>2, <1>3, StillLife
<1>4. ASSUME NEW t \in Tokens \ drawn, NEW u \in Users, NEW p \in {"setup", "auth"},
             sessions' = [sessions EXCEPT ![t] = [user |-> u, purpose |-> p, exp |-> now + SessionTTL]],
             drawn' = drawn \cup {t}
      PROVE  Life!Next
  <2>1. PICK row \in Row : row = [user |-> u, purpose |-> p, exp |-> now + SessionTTL]
    <3>1. now + SessionTTL \in Nat
      BY <1>1, SessionsAssumption
    <3> QED
      BY <3>1 DEF Row
  <2>2. row # Nil /\ row.user = u /\ row.purpose = p /\ row.exp = now + SessionTTL
    BY <2>1, SessionsAssumption
  <2>3. PICK h \in [user : Users, purpose : {"setup", "auth"}] : h = [user |-> u, purpose |-> p]
    OBVIOUS
  <2>4. sessions' = [sessions EXCEPT ![t] = row]
    BY <1>4, <2>1
  <2>5. Life!Open(t, h)
    BY <1>1, <1>2, <1>4, <2>2, <2>3, <2>4 DEF Life!Open
  <2> QED
    BY <2>5 DEF Life!Next
<1>5. req[r].form \in Users /\ (req[r].op = "elevate" => req[r].user \in Users)
  BY DEF RequestInv, HandOK, Create
<1> QED
  BY <1>3, <1>4, <1>5 DEF Create, InsertSession

\* Every step of a request or of the project is one of SessionLife.
LEMMA NextLife == RequestInv /\ AtPast /\ [Next]_vars => Life!Next \/ UNCHANGED Life!lifeVars
<1> SUFFICES ASSUME RequestInv, AtPast, [Next]_vars PROVE Life!Next \/ UNCHANGED Life!lifeVars
  OBVIOUS
<1>1. sessions \in [Tokens -> Row \cup {Nil}]
  BY DEF RequestInv, TypeOK
<1>2. CASE UNCHANGED vars
  BY <1>2, StillLife DEF vars
<1>3. CASE EditUser
  BY <1>3, StillLife DEF EditUser
<1>4. CASE Tick
  <2>1. Life!Tick
    BY <1>4 DEF Tick, Life!Tick
  <2> QED
    BY <2>1 DEF Life!Next
<1>5. CASE DeleteByUser
  <2>1. PICK u \in Users : sessions' = [t \in Tokens |-> IF sessions[t] # Nil /\ sessions[t].user = u
                                                          THEN Nil ELSE sessions[t]]
    BY <1>5 DEF DeleteByUser
  <2>2. PICK S \in SUBSET Tokens : S = {t \in Tokens : sessions[t] # Nil /\ sessions[t].user = u}
    OBVIOUS
  <2>3. sessions' = [t \in Tokens |-> IF t \in S THEN Nil ELSE sessions[t]]
    BY <2>1, <2>2
  <2>4. Life!End(S)
    BY <1>5, <2>3, EndLife DEF DeleteByUser
  <2> QED
    BY <2>4 DEF Life!Next
<1>6. CASE PurgeExpired
  <2>1. PICK S \in SUBSET Tokens : S = {t \in Tokens : sessions[t] # Nil /\ sessions[t].exp < now}
    OBVIOUS
  <2>2. sessions' = [t \in Tokens |-> IF t \in S THEN Nil ELSE sessions[t]]
    BY <1>6, <2>1 DEF PurgeExpired
  <2>3. Life!End(S)
    BY <1>6, <2>2, EndLife DEF PurgeExpired
  <2> QED
    BY <2>3 DEF Life!Next
<1>7. ASSUME NEW r \in Requests, Purge(r) \/ Logout(r) \/ DropOld(r)
      PROVE  Life!Next \/ UNCHANGED Life!lifeVars
  <2>1. sessions' = [sessions EXCEPT ![req[r].tok] = Nil] /\ drawn' = drawn /\ now' = now
    BY <1>7 DEF Purge, Logout, DropOld, Delete
  <2>2. PICK S \in SUBSET Tokens : S = {req[r].tok} \cap Tokens
    OBVIOUS
  <2>3. sessions' = [t \in Tokens |-> IF t \in S THEN Nil ELSE sessions[t]]
    BY <1>1, <2>1, <2>2
  <2>4. Life!End(S)
    BY <2>1, <2>3, EndLife
  <2> QED
    BY <2>4 DEF Life!Next
<1>8. ASSUME NEW r \in Requests, \/ Arrive(r) \/ Get(r) \/ GetUser(r) \/ Serve(r) \/ GetByEmail(r)
                                 \/ FailedCall(r)
      PROVE  UNCHANGED Life!lifeVars
  <2>1. sessions' = sessions /\ drawn' = drawn /\ now' = now
    BY <1>8 DEF Arrive, Get, GetUser, Serve, GetByEmail, FailedCall
  <2> QED
    BY <2>1, StillLife
<1> QED
  BY <1>2, <1>3, <1>4, <1>5, <1>6, <1>7, <1>8, UseLife, OpenLife DEF Next, Step

\* Whatever the requests, the edits and the failed statements, the table of sessions
\* changes as SessionLife does: OpenSession, Touch and the deletions of authx.Manager.
THEOREM ImplementsSessionLifeCorrect == Spec => ImplementsSessionLife
<1>1. Spec => []AtPast
  BY InitAtPast, NextAtPast, RequestsKept, PTL DEF Spec
<1>2. RequestInv /\ AtPast /\ [Next]_vars => [Life!Next]_(Life!lifeVars)
  BY NextLife
<1> QED
  BY <1>1, <1>2, InitLife, RequestsKept, PTL DEF Spec, ImplementsSessionLife, Life!Spec
================================================================================
