--------------------------------- MODULE Mfax ----------------------------------
(***************************************************************************)
(* The second factor of a login: mfax.Service running over the tables of   *)
(* MfaxStore, with many HTTP requests in flight at once, in one server or  *)
(* in several servers that share the database.                             *)
(*                                                                         *)
(* A request runs in a slot.  pc[slot] names the next statement or manager *)
(* call of its handler; everything a handler computes between two calls is *)
(* part of the action of the earlier call.  A handler reads the clock in   *)
(* the same action as the call next to it.                                 *)
(***************************************************************************)
EXTENDS MfaxStore, FiniteSets

CONSTANTS Requests,       \* slots: bounds the requests in flight
          Serves,         \* slot -> operations it may receive
          SessTokens,     \* session tokens that can be drawn
          EnrollRequired, \* FALSE: WithOptionalEnrollment
          LockoutOn,      \* WithLockout
          RecoveryOn,     \* WithRecoveryCodes
          RecoveryCount,  \* codes in a set
          SerialWrites,   \* TRUE: SQLite, one writer; FALSE: PostgreSQL
          Period,         \* seconds of one TOTP step
          StartTime, MaxTime, \* bounds of the clock
          MaxFaults,      \* bound of the failed store calls
          InitTotp, InitRec, InitSess  \* tables at the start

Ops == {"login", "verifyGet", "verify", "setup", "enable", "disable",
        "regenerate", "confirm"}

SessRow == [user : Users, purpose : {"setup", "auth"}]

\* A submitted code, as the handler can tell it apart: a TOTP code is the
\* secret and the step it was computed from, value Nil is a code that matches
\* nothing.  Two steps of a secret never share their six digits.
Cred == [kind : {"totp", "recovery", "none"},
         value : Secrets \cup RCodes \cup {Nil}, step : Int]
NoCred == [kind |-> "none", value |-> Nil, step |-> 0]

ASSUME MfaxAssumption ==
    /\ Serves \in [Requests -> SUBSET Ops]
    /\ {EnrollRequired, LockoutOn, RecoveryOn, SerialWrites} \subseteq BOOLEAN
    /\ RecoveryCount \in Nat \ {0}
    /\ Period \in Nat \ {0}
    /\ StartTime \in Nat /\ StartTime >= 2 * Period
    /\ MaxTime \in Nat
    /\ MaxFaults \in Nat
    /\ Nil \notin SessTokens /\ Nil \notin SessRow
    /\ InitTotp \in [Users -> TotpRow \cup {Nil}]
    /\ InitRec \in [Users -> SUBSET RCodes]
    /\ InitSess \in [SessTokens -> SessRow \cup {Nil}]

VARIABLES sess,      \* authx sessions: token -> row
          pc,        \* slot -> next call of its handler
          req,       \* slot -> what the handler has in hand
          drawn,     \* every random value drawn so far
          faults,    \* failed calls so far
          accepted,  \* history: the codes accepted so far
          examined,  \* history: challenge -> codes examined under it
          sinceLock, \* history: user -> wrong codes since the last lock or
                     \* reset, counted up to Threshold
          underLock, \* history: user -> codes examined since the last lock,
                     \* while it was in force
          paidBy     \* history: session -> the code it was opened for

tables == <<totp, chs, lockouts, rec, sess>>
history == <<accepted, examined, sinceLock, underLock, paidBy>>
vars == <<now, tables, pc, req, drawn, faults, history>>

Calls == {"enabled", "lockedUntil", "create", "loadChallenge", "dropChallenge",
          "incrAttempts", "consumeGet", "setLastStep", "use", "failUpsert",
          "failRead", "failLock", "reset", "clearChallenge", "openSession",
          "provision", "enableGet", "activate", "elevate", "disableGet",
          "deleteTotp", "deleteRecovery", "replaceDelete", "replaceCommit"}

Request == [op : Ops \cup {"none"}, user : Users \cup {Nil},
            tok : ChTokens \cup {Nil}, sess : SessTokens \cup {Nil},
            purpose : {"setup", "auth"}, cred : Cred,
            secret : Secrets \cup {Nil}, at : Nat, seen : Nat,
            snap : SUBSET RCodes]
NoRequest == [op |-> "none", user |-> Nil, tok |-> Nil, sess |-> Nil,
              purpose |-> "auth", cred |-> NoCred, secret |-> Nil,
              at |-> 0, seen |-> 0, snap |-> {}]

TypeOK ==
    /\ StoreTypeOK
    /\ sess \in [SessTokens -> SessRow \cup {Nil}]
    /\ pc \in [Requests -> Calls \cup {"idle"}]
    /\ req \in [Requests -> Request]
    /\ drawn \subseteq ChTokens \cup SessTokens \cup Secrets \cup RCodes
    /\ faults \in 0..MaxFaults
    /\ accepted \subseteq Cred
    /\ examined \in [ChTokens -> Nat]
    /\ sinceLock \in [Users -> 0..Threshold]
    /\ underLock \in [Users -> Nat]
    /\ paidBy \in [SessTokens -> Cred]

Init ==
    /\ now = StartTime
    /\ totp = InitTotp
    /\ chs = [t \in ChTokens |-> Nil]
    /\ lockouts = [u \in Users |-> Nil]
    /\ rec = InitRec
    /\ sess = InitSess
    /\ pc = [r \in Requests |-> "idle"]
    /\ req = [r \in Requests |-> NoRequest]
    /\ drawn = {t \in SessTokens : InitSess[t] # Nil}
               \cup {InitTotp[u].secret : u \in {v \in Users : InitTotp[v] # Nil}}
               \cup UNION {InitRec[u] : u \in Users}
    /\ faults = 0
    /\ accepted = {}
    /\ examined = [t \in ChTokens |-> 0]
    /\ sinceLock = [u \in Users |-> 0]
    /\ underLock = [u \in Users |-> 0]
    /\ paidBy = [t \in SessTokens |-> NoCred]

Goto(r, call) == pc' = [pc EXCEPT ![r] = call]
Done(r) == Goto(r, "idle") /\ req' = [req EXCEPT ![r] = NoRequest]
Fresh(S) == S \ drawn
CurStep == now \div Period
User(r) == req[r].user

--------------------------------------------------------------------------------
(* Codes a user can submit: what the authenticator shows for a known secret, *)
(* a clock step early or late, a recovery code seen once, or a wrong code.   *)

TotpCodes ==
    [kind : {"totp"}, value : Secrets \cap drawn, step : (CurStep - 1)..(CurStep + 1)]
    \cup {[kind |-> "totp", value |-> Nil, step |-> 0]}
RecoveryCodes ==
    IF ~RecoveryOn THEN {} ELSE
    [kind : {"recovery"}, value : RCodes \cap drawn, step : {0}]
    \cup {[kind |-> "recovery", value |-> Nil, step |-> 0]}

\* A request arrives in an idle slot; call is the first call of its handler.
Receive(r, op, call, request) ==
    /\ pc[r] = "idle"
    /\ op \in Serves[r]
    /\ Goto(r, call)
    /\ req' = [req EXCEPT ![r] = [request EXCEPT !.op = op]]
    /\ UNCHANGED <<now, tables, drawn, faults, history>>

\* The session of the request, loaded before the handler runs.
WithSession(s) ==
    [NoRequest EXCEPT !.sess = s, !.user = sess[s].user, !.purpose = sess[s].purpose]

\* LoginPOST, once the password is right, calls Begin, which calls Enabled.
LoginPOST(r, u) ==
    Receive(r, "login", "enabled", [NoRequest EXCEPT !.user = u])

VerifyGET(r, tok) ==
    /\ tok \in drawn
    /\ Receive(r, "verifyGet", "loadChallenge", [NoRequest EXCEPT !.tok = tok])

VerifyPOST(r, tok, c) ==
    /\ tok \in drawn
    /\ c \in TotpCodes \cup RecoveryCodes
    /\ Receive(r, "verify", "loadChallenge", [NoRequest EXCEPT !.tok = tok, !.cred = c])

SetupGET(r, s) ==
    /\ sess[s] # Nil
    /\ Receive(r, "setup", "enabled", WithSession(s))

EnablePOST(r, s, c) ==
    /\ sess[s] # Nil
    /\ c \in TotpCodes
    /\ Receive(r, "enable", "enableGet", [WithSession(s) EXCEPT !.cred = c])

\* Mounted behind RequireAuth, like the next one.
DisablePOST(r, s, c) ==
    /\ sess[s] # Nil /\ sess[s].purpose = "auth"
    /\ c \in TotpCodes \cup RecoveryCodes
    /\ Receive(r, "disable", "disableGet", [WithSession(s) EXCEPT !.cred = c])

RegenerateRecoveryPOST(r, s, c) ==
    /\ RecoveryOn
    /\ sess[s] # Nil /\ sess[s].purpose = "auth"
    /\ c \in TotpCodes
    /\ Receive(r, "regenerate", "enabled", [WithSession(s) EXCEPT !.cred = c])

\* Confirm and ConfirmRecovery, called by the application itself.
Confirm(r, u, c) ==
    /\ c \in TotpCodes \cup RecoveryCodes
    /\ Receive(r, "confirm", "lockedUntil", [NoRequest EXCEPT !.user = u, !.cred = c])

--------------------------------------------------------------------------------
(* Enabled, and the branches its three callers take on the answer. *)

Enabled(u) == totp[u] # Nil /\ totp[u].enabled

\* Mutant: SetupGET provisions without asking Enabled.
AnswersIgnoredBySetup(r, on) ==
    /\ \/ /\ req[r].op = "setup" /\ Goto(r, "provision") /\ UNCHANGED req
       \/ /\ on /\ req[r].op \in {"login", "regenerate"}
          /\ Goto(r, "lockedUntil") /\ UNCHANGED req
       \/ /\ ~on /\ req[r].op = "login"
          /\ Goto(r, "openSession") /\ UNCHANGED req
       \/ ~on /\ req[r].op = "regenerate" /\ Done(r)
    /\ UNCHANGED <<now, tables, drawn, history>>

EnabledAnswers(r, on) ==
    /\ \/ /\ on /\ req[r].op \in {"login", "regenerate"}
          /\ Goto(r, "lockedUntil") /\ UNCHANGED req
       \/ /\ ~on /\ req[r].op = "login"
          /\ Goto(r, "openSession") /\ UNCHANGED req
       \/ /\ ~on /\ req[r].op = "setup"
          /\ Goto(r, "provision") /\ UNCHANGED req
       \/ on /\ req[r].op = "setup" /\ Done(r)
       \/ ~on /\ req[r].op = "regenerate" /\ Done(r)
    /\ UNCHANGED <<now, tables, drawn, history>>

ReadEnabled(r) ==
    /\ pc[r] = "enabled"
    /\ EnabledAnswers(r, Enabled(User(r)))
    /\ UNCHANGED faults

(* loadChallenge: the cookie names a challenge that may be gone or expired. *)
LoadChallenge(r) ==
    /\ pc[r] = "loadChallenge"
    /\ LET tok == req[r].tok IN
       \/ chs[tok] = Nil /\ Done(r)
       \/ /\ chs[tok] # Nil /\ Expired(tok)
          /\ Goto(r, "dropChallenge") /\ UNCHANGED req
       \/ /\ chs[tok] # Nil /\ ~Expired(tok) /\ req[r].op = "verifyGet"
          /\ Done(r)
       \/ /\ chs[tok] # Nil /\ ~Expired(tok) /\ req[r].op = "verify"
          /\ Goto(r, "lockedUntil")
          /\ req' = [req EXCEPT ![r] = [@ EXCEPT !.user = chs[tok].user]]
    /\ UNCHANGED <<now, tables, drawn, faults, history>>

DropChallenge(r) ==
    /\ pc[r] = "dropChallenge"
    /\ DeleteChallenge(req[r].tok)
    /\ Done(r)
    /\ UNCHANGED <<now, totp, lockouts, rec, sess, drawn, faults, history>>

(* LockedUntil, and the call each of its callers makes next. *)
Check(r) == IF req[r].cred.kind = "recovery" THEN "use" ELSE "consumeGet"

AfterLockCheck(r) ==
    CASE req[r].op = "login"  -> "create"
      [] req[r].op = "verify" -> "incrAttempts"
      [] OTHER                -> Check(r)

\* Mutant: a step-up does not look at the lock.
ReadLockAtLogin(r) ==
    /\ pc[r] = "lockedUntil"
    /\ LET refused == LockoutOn /\ Locked(User(r)) IN
       \/ /\ refused /\ req[r].op = "verify"
          /\ Goto(r, "dropChallenge") /\ UNCHANGED req
       \/ refused /\ req[r].op = "login" /\ Done(r)
       \/ (~refused \/ req[r].op \notin {"login", "verify"})
          /\ Goto(r, AfterLockCheck(r)) /\ UNCHANGED req
    /\ UNCHANGED <<now, tables, drawn, faults, history>>

ReadLock(r) ==
    /\ pc[r] = "lockedUntil"
    /\ LET refused == LockoutOn /\ Locked(User(r)) IN
       \/ /\ refused /\ req[r].op = "verify"
          /\ Goto(r, "dropChallenge") /\ UNCHANGED req
       \/ refused /\ req[r].op # "verify" /\ Done(r)
       \/ ~refused /\ Goto(r, AfterLockCheck(r)) /\ UNCHANGED req
    /\ UNCHANGED <<now, tables, drawn, faults, history>>

\* Begin, after LockedUntil: draw a token and create the challenge.  A draw
\* fails when the tokens of the model are used up, as RandomToken can.
Create(r) ==
    /\ pc[r] = "create"
    /\ \/ \E tok \in Fresh(ChTokens) :
             CreateChallenge(tok, User(r)) /\ drawn' = drawn \cup {tok}
       \/ Fresh(ChTokens) = {} /\ UNCHANGED <<chs, drawn>>
    /\ Done(r)
    /\ UNCHANGED <<now, totp, lockouts, rec, sess, faults, history>>

CountAttempt(r) ==
    /\ pc[r] = "incrAttempts"
    /\ \/ /\ Allowed(req[r].tok)
          /\ IncrAttempts(req[r].tok)
          /\ Goto(r, Check(r))
       \/ /\ ~Allowed(req[r].tok)
          /\ UNCHANGED chs
          /\ Goto(r, "dropChallenge")
    /\ UNCHANGED <<now, totp, lockouts, rec, sess, req, drawn, faults, history>>

--------------------------------------------------------------------------------
(* The code is examined: consumeCode or useRecoveryCode. *)

\* What follows a right code once the failures are reset.
AfterGrant(r) ==
    CASE req[r].op = "verify"     -> "clearChallenge"
      [] req[r].op = "enable"     -> "activate"
      [] req[r].op = "disable"    -> "deleteTotp"
      [] req[r].op = "regenerate" -> "replaceDelete"
      [] OTHER                    -> "idle"
Proceed(r) ==
    \/ req[r].op = "confirm" /\ Done(r)
    \/ req[r].op # "confirm" /\ Goto(r, AfterGrant(r)) /\ UNCHANGED req

Granted(r) ==
    /\ accepted' = accepted \cup {req[r].cred}
    /\ \/ LockoutOn /\ Goto(r, "reset") /\ UNCHANGED req
       \/ ~LockoutOn /\ Proceed(r)
\* Mutant: EnablePOST goes on after a wrong code.
RejectedButEnabled(r) ==
    /\ UNCHANGED accepted
    /\ \/ req[r].op = "enable" /\ Proceed(r)
       \/ req[r].op # "enable" /\ Done(r)
Rejected(r) ==
    /\ UNCHANGED accepted
    /\ \/ LockoutOn /\ Goto(r, "failUpsert") /\ UNCHANGED req
       \/ ~LockoutOn /\ Done(r)

Examines(r) ==
    /\ examined' = IF req[r].op = "verify"
                   THEN [examined EXCEPT ![req[r].tok] = @ + 1] ELSE examined
    /\ underLock' = IF Locked(User(r))
                    THEN [underLock EXCEPT ![User(r)] = @ + 1] ELSE underLock

\* matchTOTPStep and the last_step test, on the row just read.
Matches(u, c) ==
    /\ c.value = totp[u].secret
    /\ c.step \in (CurStep - 1)..(CurStep + 1)
    /\ c.step > totp[u].lastStep

ConsumeGet(r) ==
    /\ pc[r] = "consumeGet"
    /\ LET u == User(r) IN
       \/ totp[u] = Nil /\ Done(r) /\ UNCHANGED <<accepted, examined, underLock>>
       \/ /\ totp[u] # Nil /\ Matches(u, req[r].cred)
          /\ Examines(r) /\ UNCHANGED accepted
          /\ Goto(r, "setLastStep") /\ UNCHANGED req
       \/ totp[u] # Nil /\ ~Matches(u, req[r].cred) /\ Examines(r) /\ Rejected(r)
    /\ UNCHANGED <<now, tables, drawn, faults, sinceLock, paidBy>>

\* Mutant: the answer of SetLastStep is not looked at.
ConsumeStepBlind(r) ==
    /\ pc[r] = "setLastStep"
    /\ LET u == User(r)
           step == req[r].cred.step IN
       /\ \/ Advances(u, step) /\ SetLastStep(u, step)
          \/ ~Advances(u, step) /\ UNCHANGED totp
       /\ Granted(r)
    /\ UNCHANGED <<now, chs, lockouts, rec, sess, drawn, faults, examined, sinceLock, underLock, paidBy>>

ConsumeStep(r) ==
    /\ pc[r] = "setLastStep"
    /\ LET u == User(r)
           step == req[r].cred.step IN
       \/ Advances(u, step) /\ SetLastStep(u, step) /\ Granted(r)
       \/ ~Advances(u, step) /\ UNCHANGED totp /\ Rejected(r)
    /\ UNCHANGED <<now, chs, lockouts, rec, sess, drawn, faults, examined, sinceLock, underLock, paidBy>>

\* A write waits for a Replace that holds the database (SQLite) or the row.
Replacing(u, codes) ==
    \E r \in Requests :
        /\ pc[r] = "replaceCommit"
        /\ SerialWrites \/ (req[r].user = u /\ codes \cap req[r].snap # {})

UseCode(r) ==
    /\ pc[r] = "use"
    /\ LET u == User(r)
           code == req[r].cred.value IN
       /\ ~Replacing(u, {code})
       /\ Examines(r)
       /\ \/ code \in rec[u] /\ Use(u, code) /\ Granted(r)
          \/ code \notin rec[u] /\ UNCHANGED rec /\ Rejected(r)
    /\ UNCHANGED <<now, totp, chs, lockouts, sess, drawn, faults, sinceLock, paidBy>>

--------------------------------------------------------------------------------
(* recordFailure: the three statements of LockoutStore.Fail. *)

FailUpsert(r) ==
    /\ pc[r] = "failUpsert"
    /\ CountFailure(User(r))
    /\ sinceLock' = [sinceLock EXCEPT ![User(r)] =
                        IF @ < Threshold THEN @ + 1 ELSE @]
    /\ req' = [req EXCEPT ![r] = [@ EXCEPT !.at = now]]
    /\ Goto(r, "failRead")
    /\ UNCHANGED <<now, totp, chs, rec, sess, drawn, faults, accepted, examined, underLock, paidBy>>

\* The row is gone when a right code reset it meanwhile: Fail returns an error.
FailRead(r) ==
    /\ pc[r] = "failRead"
    /\ LET row == lockouts[User(r)] IN
       \/ row = Nil /\ Done(r)
       \/ row # Nil /\ row.failures < Threshold /\ Done(r)
       \/ /\ row # Nil /\ row.failures >= Threshold
          /\ Goto(r, "failLock")
          /\ req' = [req EXCEPT ![r] = [@ EXCEPT !.seen = row.lockouts]]
    /\ UNCHANGED <<now, tables, drawn, faults, history>>

FailLock(r) ==
    /\ pc[r] = "failLock"
    /\ LET u == User(r) IN
       \/ /\ LocksNow(u, req[r].seen)
          /\ PlaceLock(u, req[r].at, req[r].seen)
          /\ sinceLock' = [sinceLock EXCEPT ![u] = 0]
          /\ underLock' = [underLock EXCEPT ![u] = 0]
          /\ \/ req[r].op = "verify" /\ Goto(r, "dropChallenge") /\ UNCHANGED req
             \/ req[r].op # "verify" /\ Done(r)
       \/ /\ ~LocksNow(u, req[r].seen)
          /\ UNCHANGED <<lockouts, sinceLock, underLock>>
          /\ Done(r)
    /\ UNCHANGED <<now, totp, chs, rec, sess, drawn, faults, accepted, examined, paidBy>>

ResetFailures(r) ==
    /\ pc[r] = "reset"
    /\ Reset(User(r))
    /\ sinceLock' = [sinceLock EXCEPT ![User(r)] = 0]
    /\ Proceed(r)
    /\ UNCHANGED <<now, totp, chs, rec, sess, drawn, faults, accepted, examined, underLock, paidBy>>

--------------------------------------------------------------------------------
(* What a handler does once its code is accepted. *)

ClearChallenge(r) ==
    /\ pc[r] = "clearChallenge"
    /\ DeleteChallenge(req[r].tok)
    /\ Goto(r, "openSession")
    /\ UNCHANGED <<now, totp, lockouts, rec, sess, req, drawn, faults, history>>

\* Mutant: Begin forgets PurposeSetup.
PurposeAuth(r) == "auth"

\* Manager.OpenSession: from Begin or LoginPOST, VerifyPOST, Elevate.
Purpose(r) ==
    IF req[r].op = "login" /\ EnrollRequired THEN "setup" ELSE "auth"

\* The end of EnablePOST: a set of recovery codes, or a redirection.
FinishEnable(r) ==
    \/ RecoveryOn /\ Goto(r, "replaceDelete") /\ UNCHANGED req
    \/ ~RecoveryOn /\ Done(r)

OpenSession(r) ==
    /\ pc[r] = "openSession"
    /\ \/ \E s \in Fresh(SessTokens) :
             /\ sess' = [sess EXCEPT ![s] =
                            [user |-> User(r), purpose |-> Purpose(r)]]
             /\ drawn' = drawn \cup {s}
             /\ paidBy' = [paidBy EXCEPT ![s] = req[r].cred]
             /\ \/ req[r].op = "enable" /\ FinishEnable(r)
                \/ req[r].op # "enable" /\ Done(r)
       \/ Fresh(SessTokens) = {} /\ UNCHANGED <<sess, drawn, paidBy>> /\ Done(r)
    /\ UNCHANGED <<now, totp, chs, lockouts, rec, faults, accepted, examined, sinceLock, underLock>>

\* Provision: a new secret, not enabled yet.
Provision(r) ==
    /\ pc[r] = "provision"
    /\ \/ \E s \in Fresh(Secrets) :
             SetTotp(User(r), s, FALSE) /\ drawn' = drawn \cup {s}
       \/ Fresh(Secrets) = {} /\ UNCHANGED <<totp, drawn>>
    /\ Done(r)
    /\ UNCHANGED <<now, chs, lockouts, rec, sess, faults, history>>

\* Mutant: the secret read is not kept for Activate.
EnableGetForgets(r) ==
    /\ pc[r] = "enableGet"
    /\ \/ (totp[User(r)] = Nil \/ Enabled(User(r))) /\ Done(r)
       \/ /\ totp[User(r)] # Nil /\ ~Enabled(User(r))
          /\ Goto(r, "lockedUntil") /\ UNCHANGED req
    /\ UNCHANGED <<now, tables, drawn, faults, history>>

EnableGet(r) ==
    /\ pc[r] = "enableGet"
    /\ LET row == totp[User(r)] IN
       \/ (row = Nil \/ Enabled(User(r))) /\ Done(r)
       \/ /\ row # Nil /\ ~row.enabled
          /\ req' = [req EXCEPT ![r] = [@ EXCEPT !.secret = row.secret]]
          /\ Goto(r, "lockedUntil")
    /\ UNCHANGED <<now, tables, drawn, faults, history>>

\* EnablePOST writes the secret it read first, not the one the code matched.
Activate(r) ==
    /\ pc[r] = "activate"
    /\ SetTotp(User(r), req[r].secret, TRUE)
    /\ \/ req[r].purpose = "setup" /\ Goto(r, "elevate") /\ UNCHANGED req
       \/ req[r].purpose # "setup" /\ FinishEnable(r)
    /\ UNCHANGED <<now, chs, lockouts, rec, sess, drawn, faults, history>>

Elevate(r) ==
    /\ pc[r] = "elevate"
    /\ sess' = [sess EXCEPT ![req[r].sess] = Nil]
    /\ Goto(r, "openSession")
    /\ UNCHANGED <<now, totp, chs, lockouts, rec, req, drawn, faults, history>>

DisableGet(r) ==
    /\ pc[r] = "disableGet"
    /\ \/ ~Enabled(User(r)) /\ Done(r)
       \/ Enabled(User(r)) /\ Goto(r, "lockedUntil") /\ UNCHANGED req
    /\ UNCHANGED <<now, tables, drawn, faults, history>>

\* Mutant: the recovery codes are forgotten.
RemoveTotpOnly(r) ==
    /\ pc[r] = "deleteTotp"
    /\ DeleteTotp(User(r))
    /\ Done(r)
    /\ UNCHANGED <<now, chs, lockouts, rec, sess, drawn, faults, history>>

RemoveTotp(r) ==
    /\ pc[r] = "deleteTotp"
    /\ DeleteTotp(User(r))
    /\ \/ RecoveryOn /\ Goto(r, "deleteRecovery") /\ UNCHANGED req
       \/ ~RecoveryOn /\ Done(r)
    /\ UNCHANGED <<now, chs, lockouts, rec, sess, drawn, faults, history>>

RemoveRecovery(r) ==
    /\ pc[r] = "deleteRecovery"
    /\ ~(SerialWrites /\ Replacing(User(r), {}))
    /\ DeleteRecovery(User(r))
    /\ Done(r)
    /\ UNCHANGED <<now, totp, chs, lockouts, sess, drawn, faults, history>>

\* RecoveryStore.Replace.  Under READ COMMITTED the DELETE takes the rows it
\* sees when it starts; rows another Replace commits later stay.
ReplaceDelete(r) ==
    /\ pc[r] = "replaceDelete"
    /\ ~(SerialWrites /\ Replacing(User(r), {}))
    /\ req' = [req EXCEPT ![r] = [@ EXCEPT !.snap = rec[User(r)]]]
    /\ Goto(r, "replaceCommit")
    /\ UNCHANGED <<now, tables, drawn, faults, history>>

ReplaceCommit(r) ==
    /\ pc[r] = "replaceCommit"
    /\ \/ \E codes \in SUBSET Fresh(RCodes) :
             /\ Cardinality(codes) = RecoveryCount
             /\ CommitReplace(User(r), req[r].snap, codes)
             /\ drawn' = drawn \cup codes
       \/ /\ Cardinality(Fresh(RCodes)) < RecoveryCount
          /\ UNCHANGED <<rec, drawn>>
    /\ Done(r)
    /\ UNCHANGED <<now, totp, chs, lockouts, sess, faults, history>>

--------------------------------------------------------------------------------
(* The environment. *)

\* A store call fails, or the server stops: the request ends where it is, and
\* an open transaction is rolled back.
Abort(r) ==
    /\ pc[r] # "idle"
    /\ faults < MaxFaults
    /\ faults' = faults + 1
    /\ Done(r)
    /\ UNCHANGED <<now, tables, drawn, history>>

\* A store call fails where the code ignores the error: Enabled answers FALSE,
\* the deletions "_ = s.chs.Delete" and "_ = m.sessions.Delete" are skipped.
IgnoredError(r) ==
    /\ faults < MaxFaults
    /\ faults' = faults + 1
    /\ \/ pc[r] = "enabled" /\ EnabledAnswers(r, FALSE)
       \/ /\ pc[r] \in {"clearChallenge", "elevate"}
          /\ Goto(r, "openSession") /\ UNCHANGED req
          /\ UNCHANGED <<now, tables, drawn, history>>
       \/ /\ pc[r] = "dropChallenge"
          /\ Done(r)
          /\ UNCHANGED <<now, tables, drawn, history>>

Tick ==
    /\ now < MaxTime
    /\ now' = now + 1
    /\ UNCHANGED <<tables, pc, req, drawn, faults, history>>

Purge ==
    /\ PurgeExpired
    /\ UNCHANGED <<now, totp, lockouts, rec, sess, pc, req, drawn, faults, history>>

Arrive(r) ==
    \/ \E u \in Users : LoginPOST(r, u)
    \/ \E tok \in ChTokens : VerifyGET(r, tok)
    \/ \E tok \in ChTokens, c \in TotpCodes \cup RecoveryCodes : VerifyPOST(r, tok, c)
    \/ \E s \in SessTokens : SetupGET(r, s)
    \/ \E s \in SessTokens, c \in TotpCodes : EnablePOST(r, s, c)
    \/ \E s \in SessTokens, c \in TotpCodes \cup RecoveryCodes : DisablePOST(r, s, c)
    \/ \E s \in SessTokens, c \in TotpCodes : RegenerateRecoveryPOST(r, s, c)
    \/ \E u \in Users, c \in TotpCodes \cup RecoveryCodes : Confirm(r, u, c)

Step(r) ==
    \/ ReadEnabled(r)
    \/ LoadChallenge(r)
    \/ DropChallenge(r)
    \/ ReadLock(r)
    \/ Create(r)
    \/ CountAttempt(r)
    \/ ConsumeGet(r)
    \/ ConsumeStep(r)
    \/ UseCode(r)
    \/ FailUpsert(r)
    \/ FailRead(r)
    \/ FailLock(r)
    \/ ResetFailures(r)
    \/ ClearChallenge(r)
    \/ OpenSession(r)
    \/ Provision(r)
    \/ EnableGet(r)
    \/ Activate(r)
    \/ Elevate(r)
    \/ DisableGet(r)
    \/ RemoveTotp(r)
    \/ RemoveRecovery(r)
    \/ ReplaceDelete(r)
    \/ ReplaceCommit(r)

Next ==
    \/ \E r \in Requests : Arrive(r) \/ Step(r) \/ Abort(r) \/ IgnoredError(r)
    \/ Tick
    \/ Purge

Spec == Init /\ [][Next]_vars

\* A request that was received runs to its end.  Nothing obliges a user to send
\* one, the clock to reach its bound, or a project to purge.
FairSpec == Spec /\ \A r \in Requests : WF_vars(Step(r))

--------------------------------------------------------------------------------
(* Properties. *)

\* However the requests of a challenge interleave, and even once it is deleted,
\* VerifyPOST examines at most MaxAttempts codes under one challenge.
AttemptsCapped == \A tok \in ChTokens : examined[tok] <= MaxAttempts

\* The step of r in which its code is taken: the handler goes on as after a right
\* code, or the code is written off.
Takes(r) ==
    /\ pc[r] \in {"setLastStep", "use"} /\ pc'[r] # pc[r]
    /\ \/ pc'[r] \notin {"idle", "failUpsert"}
       \/ totp' # totp
       \/ rec' # rec

\* A code, TOTP or recovery, is accepted once, whatever the handlers that race
\* for it (consumeCode, useRecoveryCode).
NoReplay == [][\A r \in Requests : Takes(r) => req[r].cred \notin accepted]_vars

\* Where enrolment is required, every authenticated session opened here was
\* paid for by an accepted code, and no code paid for two of them.
SessionsPaid ==
    /\ EnrollRequired =>
         \A s \in SessTokens :
            (sess[s] # Nil /\ InitSess[s] = Nil /\ sess[s].purpose = "auth")
               => paidBy[s] \in accepted
    /\ \A s, t \in SessTokens : s # t /\ paidBy[s] = paidBy[t] => paidBy[s] = NoCred

Failures(u) == IF lockouts[u] = Nil THEN 0 ELSE lockouts[u].failures

\* When the wrong codes of an account reach the threshold and no call failed, a
\* request is on its way to place the lock and no other request can make it
\* miss: the conditional UPDATE of Fail will find the tier it read.
LockNotMissed ==
    faults = 0 =>
        \A u \in Users :
            Failures(u) >= Threshold =>
                \E r \in Requests :
                    /\ User(r) = u
                    /\ \/ pc[r] = "failRead"
                       \/ pc[r] = "failLock" /\ req[r].seen = lockouts[u].lockouts

\* Requests of u between the first statement of Fail and its last.
Failing(u) == {r \in Requests : User(r) = u /\ pc[r] \in {"failRead", "failLock"}}

\* A Fail cut between its statements delays the lock by the next wrong code and
\* no more: beyond the codes still being counted, an account exceeds the
\* threshold by one wrong code per failed call at most.
LockDelayBounded ==
    \A u \in Users : Failures(u) < Threshold + faults + Cardinality(Failing(u))

\* The lock is read before the code is examined and not again: while a lock is
\* in force, no more codes are examined than there were requests in flight, the
\* one that placed it aside, when it was placed.
FewUnderLock == \A u \in Users : underLock[u] < Cardinality(Requests)

\* The step places a lock on u.
Locks(u) ==
    /\ lockouts[u] # Nil /\ lockouts'[u] # Nil
    /\ lockouts'[u].lockouts > lockouts[u].lockouts

\* Concurrent failures lock once: each lock takes Threshold wrong codes of its
\* own since the previous lock or the last right code.
LockEarned == [][\A u \in Users : Locks(u) => sinceLock[u] = Threshold]_vars

\* The n-th lock since the last right code lasts LockDuration(n - 1), though the
\* number of locks was read in an earlier statement than the one that places it.
LockTiered ==
    [][\A u \in Users : Locks(u) =>
          lockouts'[u].until = lockouts'[u].windowStart + LockDuration(lockouts[u].lockouts)]_vars

\* A user never has more valid recovery codes than one set: a new set
\* invalidates the former.
OneRecoverySet == \A u \in Users : Cardinality(rec[u]) <= RecoveryCount

\* Only DisablePOST takes an active secret away: no GET of the set-up page and
\* no confirmation replaces or deactivates it.
ActiveKept ==
    [][\A u \in Users :
          (Enabled(u) /\ totp'[u] # Nil) =>
              totp'[u].enabled /\ totp'[u].secret = totp[u].secret]_vars

\* A secret becomes active only once one of its codes was accepted.
EnabledConfirmed ==
    \A u \in Users :
        (Enabled(u) /\ InitTotp[u] = Nil) =>
            \E c \in accepted : c.kind = "totp" /\ c.value = totp[u].secret

\* The recovery codes go with the secret: with no secret, and no DisablePOST
\* between its two deletions, no recovery code is left.
RecoveryGoneWithSecret ==
    \A u \in Users :
        totp[u] = Nil /\ rec[u] # {} =>
            \E r \in Requests : User(r) = u /\ pc[r] = "deleteRecovery"

\* Begin opens a session without a second factor only to an account whose TOTP
\* is not active when Enabled reads it.
SecondFactorAsked ==
    [][\A r \in Requests :
          (req[r].op = "login" /\ pc[r] = "enabled" /\ pc'[r] = "openSession")
              => ~Enabled(User(r))]_vars

\* The lock follows: an account whose wrong codes are being counted does not stay
\* at the threshold, unless one more call fails.
ThresholdLeadsToLock ==
    \A u \in Users, f \in 0..MaxFaults :
        /\ Failures(u) >= Threshold /\ faults = f
        /\ \E r \in Requests : User(r) = u /\ pc[r] = "failRead"
        ~> Failures(u) < Threshold \/ faults > f

================================================================================
