------------------------------- MODULE Sessions --------------------------------
(***************************************************************************)
(* authx.Manager over the tables users and sessions: LoadSession in front  *)
(* of every route, then RequireAuth and a page, a login, a logout, or the  *)
(* Elevate of mfax, with many requests in flight.                          *)
(*                                                                         *)
(* pc[slot] is the next statement of the request.  What the middlewares    *)
(* and the handler compute between two statements belongs to the earlier   *)
(* one.  A cookie holds any token drawn so far: tabs, copies and late      *)
(* answers make every former token possible.                               *)
(***************************************************************************)
EXTENDS Integers, FiniteSets

CONSTANTS Users,
          Tokens,       \* session tokens that can be drawn
          Requests,     \* slots: bounds the requests in flight
          Serves,       \* operations received
          Nil,          \* no row, no cookie
          SessionTTL,
          MaxTime,      \* bound of the clock
          MaxFaults,    \* bound of the failed statements
          MaxEdits,     \* bound of the changes the project makes to users
          InitSessions  \* what the table may hold at the start

\* login and enrol are LoginPOST, without a second factor due or, in enrol, with
\* Begin opening the set-up session; elevate is the end of EnablePOST of mfax.
Ops == {"page", "logout", "login", "enrol", "elevate"}
Row == [user : Users, purpose : {"setup", "auth"}, exp : Nat]

ASSUME SessionsAssumption ==
    /\ Serves \subseteq Ops
    /\ SessionTTL \in Nat \ {0}
    /\ MaxTime \in Nat /\ MaxFaults \in Nat /\ MaxEdits \in Nat
    /\ Nil \notin Row /\ Nil \notin Tokens /\ Nil \notin Users
    /\ InitSessions \subseteq [Tokens -> Row \cup {Nil}]

VARIABLES now,        \* the clock
          users,      \* users: active, and has a role the route requires
          sessions,   \* sessions: token -> row
          pc, req,    \* slot -> next statement, what the request has in hand
          drawn,      \* tokens drawn so far
          faults, edits,
          sawLive,    \* history: slot -> tokens live since the request arrived
          sawFit      \* history: slot -> users fit since the request arrived

\* The cookie, the account of the login form, then what LoadSession read: user
\* and purpose of the session, whether the role is allowed, and the time the new
\* expiry is computed from.
Request == [op : Ops \cup {"none"}, tok : Tokens \cup {Nil},
            form : Users \cup {Nil}, user : Users \cup {Nil},
            purpose : {"setup", "auth"}, allowed : BOOLEAN, at : Nat]
NoRequest == [op |-> "none", tok |-> Nil, form |-> Nil, user |-> Nil,
              purpose |-> "auth", allowed |-> FALSE, at |-> 0]
Calls == {"get", "getUser", "purge", "touch", "serve", "logout", "getByEmail",
          "dropOld", "create"}

history == <<sawLive, sawFit>>
vars == <<now, users, sessions, pc, req, drawn, faults, edits, history>>

TypeOK ==
    /\ now \in Nat
    /\ users \in [Users -> [active : BOOLEAN, allowed : BOOLEAN]]
    /\ sessions \in [Tokens -> Row \cup {Nil}]
    /\ pc \in [Requests -> Calls \cup {"idle"}]
    /\ req \in [Requests -> Request]
    /\ drawn \subseteq Tokens
    /\ faults \in 0..MaxFaults /\ edits \in 0..MaxEdits
    /\ sawLive \in [Requests -> SUBSET Tokens]
    /\ sawFit \in [Requests -> SUBSET Users]

Init ==
    /\ now = 0
    /\ users = [u \in Users |-> [active |-> TRUE, allowed |-> TRUE]]
    /\ sessions \in InitSessions
    /\ pc = [r \in Requests |-> "idle"]
    /\ req = [r \in Requests |-> NoRequest]
    /\ drawn = {t \in Tokens : sessions[t] # Nil}
    /\ faults = 0 /\ edits = 0
    /\ sawLive = [r \in Requests |-> {}]
    /\ sawFit = [r \in Requests |-> {}]

Goto(r, call) == pc' = [pc EXCEPT ![r] = call]
Done(r) == Goto(r, "idle") /\ req' = [req EXCEPT ![r] = NoRequest]

Expired(row, at) == row.exp <= at

\* The sessions that authenticate, the users a route lets in, and what every
\* page request in flight has seen of them since it arrived.
Live == {t \in Tokens : /\ sessions[t] # Nil /\ sessions[t].purpose = "auth"
                        /\ sessions[t].exp > now}
Fit == {u \in Users : users[u].active /\ users[u].allowed}
Seen(saw, S, r) ==
    IF pc'[r] = "idle" \/ req'[r].op # "page" THEN {}
    ELSE IF pc[r] = "idle" THEN S ELSE saw[r] \cup S
Watch ==
    /\ sawLive' = [r \in Requests |-> Seen(sawLive, {req'[r].tok} \cap Live', r)]
    /\ sawFit' = [r \in Requests |-> Seen(sawFit, Fit', r)]

--------------------------------------------------------------------------------
(* The reads and the INSERT of authx/sqlstore; Nil is ErrSessionNotFound. *)

SelectSession(tok) == sessions[tok]
\* Accounts are never deleted: ErrUserNotFound is left to FailedCall.
SelectUser(u) == users[u]
InsertSession(tok, row) == sessions' = [sessions EXCEPT ![tok] = row]

--------------------------------------------------------------------------------
(* What follows LoadSession: RequireAuth and the page, or a handler. *)

LetsIn(r) == req'[r].purpose = "auth" /\ req'[r].allowed

Handler(r, attached) ==
    CASE req[r].op = "page" /\ attached /\ LetsIn(r) -> "serve"
      [] req[r].op = "logout" /\ req[r].tok # Nil    -> "logout"
      [] req[r].op \in {"login", "enrol"}            -> "getByEmail"
      [] /\ req[r].op = "elevate" /\ attached
         /\ req'[r].purpose = "setup"                -> "dropOld"
      [] OTHER                                       -> "idle"

Anonymous(r) == UNCHANGED req /\ Goto(r, Handler(r, FALSE))
Attached(r) == Goto(r, Handler(r, TRUE))

\* A request without a cookie goes straight to its handler.
Arrive(r) ==
    /\ pc[r] = "idle"
    /\ \E op \in Serves, tok \in drawn \cup {Nil}, u \in Users :
          /\ req' = [req EXCEPT ![r] = [NoRequest EXCEPT
                        !.op = op, !.tok = tok, !.form = u]]
          /\ \/ tok # Nil /\ Goto(r, "get")
             \/ tok = Nil /\ op \in {"login", "enrol"} /\ Goto(r, "getByEmail")
    /\ UNCHANGED <<now, users, sessions, drawn, faults, edits>>
    /\ Watch

Get(r) ==
    /\ pc[r] = "get"
    /\ LET row == SelectSession(req[r].tok) IN
       \/ row = Nil /\ Anonymous(r)
       \/ row # Nil /\ Expired(row, now) /\ Goto(r, "purge") /\ UNCHANGED req
       \/ /\ row # Nil /\ ~Expired(row, now)
          /\ Goto(r, "getUser")
          /\ req' = [req EXCEPT ![r] = [@ EXCEPT
                        !.user = row.user, !.purpose = row.purpose]]
    /\ UNCHANGED <<now, users, sessions, drawn, faults, edits>>
    /\ Watch

\* Mutant: an inactive account is not turned away.
GetUserAny(r) ==
    /\ pc[r] = "getUser"
    /\ req' = [req EXCEPT ![r] = [@ EXCEPT
                  !.allowed = users[req[r].user].allowed, !.at = now]]
    /\ IF req[r].purpose = "auth" THEN Goto(r, "touch") ELSE Attached(r)
    /\ UNCHANGED <<now, users, sessions, drawn, faults, edits>>
    /\ Watch

\* The account is active, and a session that is not for set-up slides.
GetUser(r) ==
    /\ pc[r] = "getUser"
    /\ LET user == SelectUser(req[r].user) IN
       \/ ~user.active /\ Goto(r, "purge") /\ UNCHANGED req
       \/ /\ user.active
          /\ req' = [req EXCEPT ![r] = [@ EXCEPT
                        !.allowed = user.allowed, !.at = now]]
          /\ \/ req[r].purpose = "auth" /\ Goto(r, "touch")
             \/ req[r].purpose # "auth" /\ Attached(r)
    /\ UNCHANGED <<now, users, sessions, drawn, faults, edits>>
    /\ Watch

Delete(tok) == sessions' = [sessions EXCEPT ![tok] = Nil]

Purge(r) ==
    /\ pc[r] = "purge"
    /\ Delete(req[r].tok)
    /\ Anonymous(r)
    /\ UNCHANGED <<now, users, drawn, faults, edits>>
    /\ Watch

\* Mutants: the expiry moves the wrong way; it is extended from the former one; Touch
\* writes the row it read when there is none.
TouchedBack(r) ==
    IF sessions[req[r].tok] = Nil THEN Nil
    ELSE [sessions[req[r].tok] EXCEPT !.exp = req[r].at - SessionTTL]
TouchedOn(r) ==
    IF sessions[req[r].tok] = Nil THEN Nil
    ELSE [sessions[req[r].tok] EXCEPT !.exp = @ + SessionTTL]
Upserted(r) == [user |-> req[r].user, purpose |-> "auth", exp |-> req[r].at + SessionTTL]
\* Touch is an UPDATE: a row deleted meanwhile stays deleted.
Touched(r) ==
    IF sessions[req[r].tok] = Nil THEN Nil
    ELSE [sessions[req[r].tok] EXCEPT !.exp = req[r].at + SessionTTL]

Touch(r) ==
    /\ pc[r] = "touch"
    /\ sessions' = [sessions EXCEPT ![req[r].tok] = Touched(r)]
    /\ UNCHANGED req
    /\ Attached(r)
    /\ UNCHANGED <<now, users, drawn, faults, edits>>
    /\ Watch

--------------------------------------------------------------------------------
(* The handlers. *)

\* A page of the project, behind RequireAuth.
Serve(r) ==
    /\ pc[r] = "serve"
    /\ Done(r)
    /\ UNCHANGED <<now, users, sessions, drawn, faults, edits>>
    /\ Watch

\* Logout deletes the session of the context, or the token of the cookie.
Logout(r) ==
    /\ pc[r] = "logout"
    /\ Delete(req[r].tok)
    /\ Done(r)
    /\ UNCHANGED <<now, users, drawn, faults, edits>>
    /\ Watch

\* LoginPOST: the account is inactive or the password is wrong, or neither.
GetByEmail(r) ==
    /\ pc[r] = "getByEmail"
    /\ \/ Done(r)
       \/ SelectUser(req[r].form).active /\ Goto(r, "create") /\ UNCHANGED req
    /\ UNCHANGED <<now, users, sessions, drawn, faults, edits>>
    /\ Watch

\* Elevate deletes the session of the context before it opens the next one.
DropOld(r) ==
    /\ pc[r] = "dropOld"
    /\ Delete(req[r].tok)
    /\ Goto(r, "create")
    /\ UNCHANGED <<now, users, req, drawn, faults, edits>>
    /\ Watch

\* OpenSession.  UpdateLastLogin follows; nothing reads what it writes.
Create(r) ==
    /\ pc[r] = "create"
    /\ \/ \E t \in Tokens \ drawn :
             /\ InsertSession(t,
                   [user |-> IF req[r].op = "elevate" THEN req[r].user ELSE req[r].form,
                    purpose |-> IF req[r].op = "enrol" THEN "setup" ELSE "auth",
                    exp |-> now + SessionTTL])
             /\ drawn' = drawn \cup {t}
       \/ Tokens \subseteq drawn /\ UNCHANGED <<sessions, drawn>>
    /\ Done(r)
    /\ UNCHANGED <<now, users, faults, edits>>
    /\ Watch

--------------------------------------------------------------------------------
(* The environment. *)

\* A statement fails.  A session that cannot be read leaves the request
\* anonymous, an account that cannot be read is taken for an inactive one, and
\* the errors of Delete and Touch are ignored.
FailedCall(r) ==
    /\ faults < MaxFaults
    /\ faults' = faults + 1
    /\ \/ pc[r] \in {"get", "purge"} /\ Anonymous(r)
       \/ pc[r] = "getUser" /\ Goto(r, "purge") /\ UNCHANGED req
       \/ pc[r] = "touch" /\ UNCHANGED req /\ Attached(r)
       \/ pc[r] = "dropOld" /\ Goto(r, "create") /\ UNCHANGED req
       \/ pc[r] \in {"getByEmail", "create", "logout"} /\ Done(r)
    /\ UNCHANGED <<now, users, sessions, drawn, edits>>
    /\ Watch

\* The project edits an account: activation and role.
EditUser ==
    /\ edits < MaxEdits
    /\ edits' = edits + 1
    /\ \E u \in Users, active, allowed \in BOOLEAN :
          users' = [users EXCEPT ![u] = [active |-> active, allowed |-> allowed]]
    /\ UNCHANGED <<now, sessions, pc, req, drawn, faults>>
    /\ Watch

\* The project ends every session of an account.
DeleteByUser ==
    /\ \E u \in Users : sessions' =
          [t \in Tokens |-> IF sessions[t] # Nil /\ sessions[t].user = u
                            THEN Nil ELSE sessions[t]]
    /\ UNCHANGED <<now, users, pc, req, drawn, faults, edits>>
    /\ Watch

\* expires_at < now: a second later than Expired.
PurgeExpired ==
    /\ sessions' = [t \in Tokens |-> IF sessions[t] # Nil /\ sessions[t].exp < now
                                     THEN Nil ELSE sessions[t]]
    /\ UNCHANGED <<now, users, pc, req, drawn, faults, edits>>
    /\ Watch

Tick ==
    /\ now < MaxTime
    /\ now' = now + 1
    /\ UNCHANGED <<users, sessions, pc, req, drawn, faults, edits>>
    /\ Watch

Step(r) ==
    \/ Get(r) \/ GetUser(r) \/ Purge(r) \/ Touch(r) \/ Serve(r)
    \/ Logout(r) \/ GetByEmail(r) \/ DropOld(r) \/ Create(r)

Next ==
    \/ \E r \in Requests : Arrive(r) \/ Step(r) \/ FailedCall(r)
    \/ EditUser \/ DeleteByUser \/ PurgeExpired \/ Tick

Spec == Init /\ [][Next]_vars

--------------------------------------------------------------------------------
(* Properties. *)

\* Whoever a page behind RequireAuth is served to held, at some moment of the
\* request, a live authenticated session, and was, at some moment of the
\* request, active with an allowed role, whatever the project and the other
\* requests did between the two reads of LoadSession.
ServedEntitled ==
    \A r \in Requests :
        pc[r] = "serve" => req[r].tok \in sawLive[r] /\ req[r].user \in sawFit[r]

\* Deleted tokens stay deleted, whoever deleted them: no statement of a request
\* in flight, a Touch least of all, brings back a session ended by Logout,
\* DeleteByUser, a purge or Elevate.
NotResurrected ==
    [][\A t \in drawn : sessions[t] = Nil => sessions'[t] = Nil]_vars

\* A session opened for the set-up of the second factor neither slides nor
\* turns into an authenticated one: follows from ImplementsSessionLife below.
SetupFixed ==
    [][\A t \in Tokens :
          (sessions[t] # Nil /\ sessions[t].purpose = "setup" /\ sessions'[t] # Nil)
              => sessions'[t] = sessions[t]]_vars

\* The sessions as their users see them: whose they are and when they end.
Life == INSTANCE SessionLife WITH
    used <- drawn,
    holder <- [t \in Tokens |-> IF sessions[t] = Nil THEN Nil
                                ELSE [user |-> sessions[t].user, purpose |-> sessions[t].purpose]],
    deadline <- [t \in Tokens |-> IF sessions[t] = Nil THEN 0 ELSE sessions[t].exp],
    Holders <- [user : Users, purpose : {"setup", "auth"}],
    Sliding <- [user : Users, purpose : {"auth"}],
    NoOne <- Nil

\* However the statements of concurrent requests interleave, whatever they read before
\* another request or the project changed it and whatever call fails, the table of
\* sessions changes as SessionLife does: OpenSession writes under a fresh token, a Touch
\* moves the expiry of the session its request read to one counted from an instant that
\* is not ahead of the clock, and never restores a session.
ImplementsSessionLife == Life!Spec

================================================================================
