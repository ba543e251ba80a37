-------------------------- MODULE MfaxRefinementProofs --------------------------
(***************************************************************************)
(* Where enrolment is required and no secret is deleted while a request    *)
(* goes by it, a login takes its steps as SecondFactor does, for any       *)
(* number of requests, accounts, challenges and codes, and any number of   *)
(* failed calls.                                                           *)
(*                                                                         *)
(* StartsAsFactor maps the initial state.  For a step, FactorSteps reduces *)
(* the actions to those that judge a code, open a session or give up;      *)
(* the others stutter (QuietStutters).                                     *)
(***************************************************************************)
EXTENDS MfaxRefinement, MfaxReplayProofs

USE DEF StoreTypeOK

\* Where the handler of r stands: the calls on the way to a session are those of
\* VerifyPOST and of the first EnablePOST, and a code was matched in a step of the
\* clock.
WayOK(r) ==
    /\ pc[r] = "clearChallenge" => req[r].op = "verify"
    /\ pc[r] = "elevate" => req[r].op = "enable" /\ req[r].purpose = "setup"
    /\ pc[r] = "openSession" =>
          \/ req[r].op \in {"login", "verify"}
          \/ req[r].op = "enable" /\ req[r].purpose = "setup"
    /\ req[r].cred.kind = "none" => req[r].cred = NoCred
    /\ req[r].cred.kind = "recovery" => req[r].cred.step = 0
    /\ pc[r] = "setLastStep" => req[r].cred.step \in Steps

\* The session of EnablePOST keeps the purpose it was read with, until it goes.
OwnSession(r) ==
    req[r].op = "enable" =>
        /\ req[r].sess \in SessTokens \cap drawn
        /\ sess[req[r].sess] # Nil => sess[req[r].sess].purpose = req[r].purpose

WayInv ==
    /\ \A r \in Requests : WayOK(r) /\ OwnSession(r)
    /\ \A s \in SessTokens \ drawn : sess[s] = Nil /\ InitSess[s] = Nil
    /\ now \in StartTime..MaxTime
    /\ accepted \subseteq RightCodes

\* All that is known of a reachable state.
LoginInv == TypeInv /\ CapInv /\ ReplayInv /\ PaidInv /\ WayInv

--------------------------------------------------------------------------------
(* The steps. *)

\* Sessions are only deleted.
SessionsKept == \A s \in SessTokens : sess'[s] \in {sess[s], Nil}

\* r moves on its way without a code being judged or a session being opened.
Quiet(r) ==
    /\ OwnSlot(r)
    /\ UNCHANGED <<now, accepted, examined, paidBy>>
    /\ drawn \subseteq drawn' /\ SessionsKept
    /\ \A s \in SessTokens : sess'[s] = sess[s] \/ (pc[r] = "elevate" /\ s = req[r].sess)
    /\ "setLastStep" \notin {pc[r], pc'[r]}
    /\ Owes(r)' = Owes(r) /\ (Owes(r) => req'[r].cred = req[r].cred)
    /\ WayOK(r)' /\ OwnSession(r)'

\* What is quiet of r whatever its handler does.
LEMMA SameSession ==
  ASSUME WayInv, NEW r \in Requests, drawn \subseteq drawn', SessionsKept,
         req'[r].op = "enable" =>
            req[r].op = "enable" /\ req'[r].sess = req[r].sess /\ req'[r].purpose = req[r].purpose
  PROVE  OwnSession(r)'
  BY DEF WayInv, OwnSession, SessionsKept

\* The handlers are quiet but for the calls that judge a code, open a session or
\* give up.
LEMMA FactorSteps ==
  ASSUME TypeInv, WayInv, NEW r \in Requests,
         Arrive(r) \/ Step(r) \/ Abort(r) \/ IgnoredError(r)
  PROVE  Quiet(r) \/ ConsumeGet(r) \/ ConsumeStep(r) \/ UseCode(r) \/ OpenSession(r) \/ Abort(r)
  <1>0. OwnSlot(r) /\ WayOK(r) /\ OwnSession(r)
    BY StepIsOwn DEF WayInv
  <1>a. /\ NoRequest.op = "none" /\ NoRequest.cred = NoCred
        /\ NoCred.kind = "none" /\ NoCred.step = 0
    BY DEF NoRequest, NoCred
  <1> USE DEF Quiet, WayOK, Owes, Done, Goto, SessionsKept, tables, history, TypeInv, TypeOK
  <1>1. CASE Arrive(r)
    <2>1. \A c \in TotpCodes \cup RecoveryCodes :
             c.kind # "none" /\ (c.kind = "recovery" => c.step = 0)
      BY DEF TotpCodes, RecoveryCodes
    <2>2. OwnSession(r)'
      BY <1>1, ArriveBrings DEF OwnSession, WayInv
    <2> QED
      BY <1>0, <1>a, <1>1, <2>1, <2>2, ArriveBrings
  <1>2. CASE IgnoredError(r) \/ ReadEnabled(r)
    BY <1>0, <1>a, <1>2, SameSession DEF IgnoredError, ReadEnabled, EnabledAnswers
  <1>3. CASE LoadChallenge(r)
    BY <1>0, <1>a, <1>3, SameSession DEF LoadChallenge, Request
  <1>4. CASE ReadLock(r)
    BY <1>0, <1>a, <1>4, SameSession DEF ReadLock, AfterLockCheck, Check
  <1>5. CASE DropChallenge(r) \/ Create(r) \/ CountAttempt(r)
    BY <1>0, <1>a, <1>5, SameSession DEF DropChallenge, Create, CountAttempt, Check
  <1>6. CASE FailUpsert(r)
    BY <1>0, <1>6, SameSession DEF FailUpsert, Request
  <1>7. CASE FailRead(r)
    BY <1>0, <1>a, <1>7, SameSession DEF FailRead, Request
  <1>8. CASE FailLock(r)
    BY <1>0, <1>a, <1>8, SameSession DEF FailLock
  <1>9. CASE ResetFailures(r)
    BY <1>0, <1>a, <1>9, SameSession DEF ResetFailures, Proceed, AfterGrant
  <1>10. CASE ClearChallenge(r) \/ DisableGet(r)
    BY <1>0, <1>a, <1>10, SameSession DEF ClearChallenge, DisableGet
  <1>11. CASE Elevate(r)
    BY <1>0, <1>a, <1>11, SameSession DEF Elevate
  <1>12. CASE Provision(r) \/ RemoveTotp(r) \/ RemoveRecovery(r) \/ ReplaceCommit(r)
    BY <1>0, <1>a, <1>12, SameSession DEF Provision, RemoveTotp, RemoveRecovery, ReplaceCommit
  <1>13. CASE EnableGet(r)
    BY <1>0, <1>a, <1>13, SameSession DEF EnableGet, Request
  <1>14. CASE Activate(r)
    BY <1>0, <1>a, <1>14, SameSession DEF Activate, FinishEnable, ReqOK
  <1>15. CASE ReplaceDelete(r)
    BY <1>0, <1>15, SameSession DEF ReplaceDelete, Request
  <1> QED
    BY <1>1, <1>2, <1>3, <1>4, <1>5, <1>6, <1>7, <1>8, <1>9, <1>10, <1>11, <1>12, <1>13,
       <1>14, <1>15 DEF Step

--------------------------------------------------------------------------------
(* The invariant. *)

\* What the step of r leaves to show: the others are where they were.
LEMMA WayKept ==
  ASSUME WayInv, NEW r \in Requests, OwnSlot(r), drawn \subseteq drawn',
         \A s \in SessTokens \cap drawn : sess'[s] \in {sess[s], Nil},
         WayOK(r)', OwnSession(r)'
  PROVE  \A q \in Requests : WayOK(q)' /\ OwnSession(q)'
  <1> SUFFICES ASSUME NEW q \in Requests, q # r PROVE WayOK(q)' /\ OwnSession(q)'
    OBVIOUS
  <1>1. pc'[q] = pc[q] /\ req'[q] = req[q] /\ WayOK(q) /\ OwnSession(q)
    BY DEF OwnSlot, WayInv
  <1>2. WayOK(q)'
    BY <1>1 DEF WayOK
  <1>3. OwnSession(q)'
    BY <1>1 DEF OwnSession
  <1> QED
    BY <1>2, <1>3

LEMMA QuietKeeps ==
  ASSUME WayInv, NEW r \in Requests, Quiet(r)
  PROVE  WayInv'
  <1>1. \A q \in Requests : WayOK(q)' /\ OwnSession(q)'
    BY WayKept DEF Quiet, SessionsKept
  <1> QED
    BY <1>1 DEF Quiet, SessionsKept, WayInv

\* The instants of two steps of the clock are in the order of the steps.
LEMMA StepsOrdered ==
  ASSUME NEW a \in Nat, NEW b \in Nat, a <= b
  PROVE  a \div Period <= b \div Period
  <1>1. Period \in Nat \ {0}
    BY MfaxAssumption
  <1> QED
    BY <1>1, Z3

\* A code that is matched is of a step of the clock.
LEMMA MatchedSteps ==
  ASSUME WayInv, NEW c, c.step \in (CurStep - 1)..(CurStep + 1)
  PROVE  c.step \in Steps
  <1>1. /\ StartTime \in Nat /\ MaxTime \in Nat /\ now \in Nat
        /\ StartTime <= now /\ now <= MaxTime
    BY MfaxAssumption DEF WayInv
  <1>2. StartTime \div Period <= CurStep /\ CurStep <= MaxTime \div Period
    BY <1>1, StepsOrdered DEF CurStep
  <1>3. CurStep \in Int /\ StartTime \div Period \in Int /\ MaxTime \div Period \in Int
    BY <1>1, MfaxAssumption DEF CurStep
  <1> QED
    BY <1>2, <1>3 DEF Steps

\* A code that is accepted is one of RightCodes.
LEMMA AcceptedRight ==
  ASSUME TypeInv, ReplayInv, WayInv, NEW r \in Requests,
         ConsumeStep(r) \/ (UseCode(r) /\ req[r].cred.value \in rec[User(r)])
  PROVE  req[r].cred \in RightCodes
  <1> DEFINE c == req[r].cred
  <1>0. c \in Cred /\ CodeReady(r) /\ WayOK(r) /\ User(r) \in Users
    BY RequestFacts DEF TypeInv, TypeOK, ReqOK, ReplayInv, WayInv, ConsumeStep, UseCode
  <1>1. CASE ConsumeStep(r)
    <2>1. c.kind # "recovery" /\ c.value \in Secrets /\ c.step \in Steps
      BY <1>0, <1>1 DEF ConsumeStep, CodeReady, WayOK
    <2>2. c.kind # "none"
      BY <1>0, <2>1, StoreAssumption DEF WayOK, NoCred
    <2> QED
      BY <1>0, <2>1, <2>2 DEF Cred, RightCodes
  <1>2. CASE UseCode(r) /\ c.value \in rec[User(r)]
    <2>1. c.kind = "recovery" /\ c.step = 0 /\ c.value \in RCodes
      BY <1>0, <1>2 DEF UseCode, CodeReady, WayOK, TypeInv, TypeOK
    <2> QED
      BY <1>0, <2>1 DEF Cred, RightCodes
  <1> QED
    BY <1>1, <1>2

\* A request whose code is judged.
LEMMA JudgedKeeps ==
  ASSUME TypeInv, ReplayInv, WayInv, NEW r \in Requests, OwnSlot(r),
         ConsumeGet(r) \/ ConsumeStep(r) \/ UseCode(r)
  PROVE  WayInv'
  <1>0. WayOK(r) /\ UNCHANGED <<now, drawn, sess>>
    BY DEF WayInv, ConsumeGet, ConsumeStep, UseCode, tables
  <1>1. WayOK(r)' /\ req'[r] \in {req[r], NoRequest}
    <2>1. CASE ConsumeGet(r)
      BY <1>0, <2>1, MatchedSteps
      DEF ConsumeGet, Matches, Rejected, Done, Goto, WayOK, NoRequest, NoCred, TypeInv, TypeOK
    <2>2. CASE ConsumeStep(r) \/ UseCode(r)
      BY <1>0, <2>2
      DEF ConsumeStep, UseCode, Granted, Rejected, Proceed, AfterGrant, Done, Goto, WayOK,
          NoRequest, NoCred, TypeInv, TypeOK
    <2> QED
      BY <2>1, <2>2
  <1>2. OwnSession(r)'
    BY <1>0, <1>1 DEF OwnSession, WayInv, NoRequest
  <1>3. \A q \in Requests : WayOK(q)' /\ OwnSession(q)'
    BY <1>0, <1>1, <1>2, WayKept
  <1>4. accepted' \subseteq RightCodes
    <2>1. accepted' \in {accepted, accepted \cup {req[r].cred}}
      BY DEF ConsumeGet, ConsumeStep, UseCode, Granted, Rejected
    <2>2. accepted' = accepted
          \/ ConsumeStep(r) \/ (UseCode(r) /\ req[r].cred.value \in rec[User(r)])
      BY DEF ConsumeGet, UseCode, Rejected
    <2> QED
      BY <2>1, <2>2, AcceptedRight DEF WayInv
  <1> QED
    BY <1>0, <1>3, <1>4 DEF WayInv

LEMMA OpenKeepsWay ==
  ASSUME TypeInv, WayInv, NEW r \in Requests, OwnSlot(r), OpenSession(r)
  PROVE  WayInv'
  <1>0. UNCHANGED <<now, accepted>> /\ drawn \subseteq drawn' /\ WayOK(r) /\ OwnSession(r)
    BY DEF WayInv, OpenSession
  <1>1. WayOK(r)' /\ req'[r] \in {req[r], NoRequest}
    BY <1>0
    DEF OpenSession, FinishEnable, Done, Goto, WayOK, NoRequest, NoCred, TypeInv, TypeOK
  <1>2. /\ \A s \in SessTokens \cap drawn : sess'[s] = sess[s]
        /\ \A s \in SessTokens \ drawn' : sess'[s] = sess[s]
    BY DEF OpenSession, Fresh, TypeInv, TypeOK
  <1>3. OwnSession(r)'
    BY <1>0, <1>1, <1>2 DEF OwnSession, NoRequest
  <1>4. \A q \in Requests : WayOK(q)' /\ OwnSession(q)'
    BY <1>0, <1>1, <1>2, <1>3, WayKept
  <1> QED
    BY <1>0, <1>2, <1>4 DEF WayInv

LEMMA AbortKeeps ==
  ASSUME TypeInv, WayInv, NEW r \in Requests, OwnSlot(r), Abort(r)
  PROVE  WayInv'
  <1>0. UNCHANGED <<now, sess, drawn, accepted>> /\ pc'[r] = "idle" /\ req'[r] = NoRequest
    BY DEF Abort, Done, Goto, tables, history, TypeInv, TypeOK
  <1>1. WayOK(r)' /\ OwnSession(r)'
    BY <1>0 DEF WayOK, OwnSession, NoRequest, NoCred
  <1>2. \A q \in Requests : WayOK(q)' /\ OwnSession(q)'
    BY <1>0, <1>1, WayKept
  <1> QED
    BY <1>0, <1>2 DEF WayInv

LEMMA WayStep ==
  ASSUME TypeInv, ReplayInv, WayInv, [Next]_vars
  PROVE  WayInv'
  <1>1. CASE Tick \/ Purge \/ UNCHANGED vars
    <2>1. UNCHANGED <<sess, pc, req, drawn, accepted>>
      BY <1>1 DEF Tick, Purge, vars, tables, history
    <2>2. now' \in StartTime..MaxTime
      BY <1>1, MfaxAssumption DEF Tick, Purge, vars, WayInv, TypeInv, TypeOK
    <2> QED
      BY <2>1, <2>2 DEF WayInv, WayOK, OwnSession
  <1>2. ASSUME NEW r \in Requests, Arrive(r) \/ Step(r) \/ Abort(r) \/ IgnoredError(r)
        PROVE  WayInv'
    <2>1. OwnSlot(r)
      BY <1>2, StepIsOwn
    <2> QED
      BY <1>2, <2>1, FactorSteps, QuietKeeps, JudgedKeeps, OpenKeepsWay, AbortKeeps
  <1> QED
    BY <1>1, <1>2 DEF Next

LEMMA InitWay == StartTime <= MaxTime /\ Init => WayInv
  BY MfaxAssumption DEF Init, WayInv, WayOK, OwnSession, NoRequest, NoCred

--------------------------------------------------------------------------------
(* The mapping. *)

\* r has a code without a verdict under tok.
Waits(r, tok) == pc[r] = "setLastStep" /\ req[r].op = "verify" /\ req[r].tok = tok

\* The verdicts follow the codes examined and the requests without a verdict.
LEMMA VerdictsMove ==
  ASSUME IsFiniteSet(Requests), TypeInv, TypeInv', NEW r \in Requests, OwnSlot(r),
         NEW tok \in ChTokens
  PROVE  /\ Verdicts[tok] \in Int /\ Verdicts'[tok] \in Int
         /\ Verdicts[tok] <= examined[tok]
         /\ Waits(r, tok) => Verdicts[tok] < examined[tok]
         /\ (Waits(r, tok) <=> Waits(r, tok)') =>
               Verdicts'[tok] = Verdicts[tok] + examined'[tok] - examined[tok]
         /\ Waits(r, tok) /\ ~Waits(r, tok)' =>
               Verdicts'[tok] = Verdicts[tok] + examined'[tok] - examined[tok] + 1
         /\ ~Waits(r, tok) /\ Waits(r, tok)' =>
               Verdicts'[tok] = Verdicts[tok] + examined'[tok] - examined[tok] - 1
  <1> DEFINE S == Undecided(tok)
             T == Undecided(tok)'
  <1>1. /\ T \ {r} = S \ {r}
        /\ r \in S <=> Waits(r, tok)
        /\ r \in T <=> Waits(r, tok)'
    BY DEF Undecided, Waits, OwnSlot
  <1>2. IsFiniteSet(S)
    BY FS_Subset DEF Undecided
  <1>3. /\ Verdicts[tok] = examined[tok] - Cardinality(S)
        /\ Verdicts'[tok] = examined'[tok] - Cardinality(T)
        /\ examined[tok] \in Nat /\ examined'[tok] \in Nat
    BY DEF Verdicts, TypeInv, TypeOK
  <1> HIDE DEF S, T
  <1> QED
    BY <1>1, <1>2, <1>3, OneMoves

\* No verdict is given where nothing is examined and nobody was waiting for one, or
\* where the request that examined a code now waits for its verdict.
LEMMA NoVerdict ==
  ASSUME IsFiniteSet(Requests), TypeInv, TypeInv', NEW r \in Requests, OwnSlot(r),
         \A tok \in ChTokens :
            \/ (Waits(r, tok) <=> Waits(r, tok)') /\ examined'[tok] = examined[tok]
            \/ ~Waits(r, tok) /\ Waits(r, tok)' /\ examined'[tok] = examined[tok] + 1
  PROVE  Verdicts' = Verdicts
  <1>1. \A tok \in ChTokens : Verdicts'[tok] = Verdicts[tok]
    <2> TAKE tok \in ChTokens
    <2>1. examined[tok] \in Nat
      BY DEF TypeInv, TypeOK
    <2> QED
      BY <2>1, VerdictsMove
  <1> HIDE DEF Waits
  <1> QED
    BY <1>1 DEF Verdicts

\* A verdict is given to the code of r, the one it waited for or the one it examined.
LEMMA VerdictGiven ==
  ASSUME IsFiniteSet(Requests), TypeInv, TypeInv', CapInv', NEW r \in Requests, OwnSlot(r),
         NEW ch \in ChTokens, pc'[r] # "setLastStep",
         \/ Waits(r, ch) /\ examined' = examined
         \/ pc[r] # "setLastStep" /\ examined' = [examined EXCEPT ![ch] = @ + 1]
  PROVE  Factor!Judge(ch)
  <1>0. examined \in [ChTokens -> Nat] /\ examined' \in [ChTokens -> Nat] /\ MaxAttempts \in Nat
    BY StoreAssumption DEF TypeInv, TypeOK
  <1>1. \A tok \in ChTokens :
           /\ ~Waits(r, tok)'
           /\ Waits(r, tok) => tok = ch /\ examined' = examined
    BY DEF Waits
  <1>2. \A tok \in ChTokens :
           Verdicts'[tok] = IF tok = ch THEN Verdicts[tok] + 1 ELSE Verdicts[tok]
    <2> TAKE tok \in ChTokens
    <2> QED
      BY <1>0, <1>1, VerdictsMove
  <1>3. Verdicts[ch] < examined'[ch]
    BY <1>0, VerdictsMove
  <1>4. examined'[ch] <= MaxAttempts
    <2>1. Spent(ch)' <= MaxAttempts
      BY DEF CapInv
    <2>2. Cardinality(Armed(ch)') \in Nat
      BY FS_Subset, FS_CardinalityType DEF Armed
    <2> QED
      BY <1>0, <2>1, <2>2 DEF Spent
  <1>5. Verdicts[ch] < MaxAttempts
    <2>1. Verdicts[ch] \in Int
      BY VerdictsMove
    <2> QED
      BY <1>0, <1>3, <1>4, <2>1
  <1>6. Verdicts' = [Verdicts EXCEPT ![ch] = @ + 1]
    BY <1>2 DEF Verdicts
  <1> QED
    BY <1>5, <1>6 DEF Factor!Judge

\* A code is owed by one request.
LEMMA OwedMoves ==
  ASSUME PaidInv, NEW r \in Requests, OwnSlot(r), WayOK(r)
  PROVE  /\ Owes(r) => req[r].cred \in Owed /\ req[r].cred \in accepted
         /\ Owes(r) /\ ~Owes(r)' => Owed' = Owed \ {req[r].cred}
         /\ ~Owes(r) /\ ~Owes(r)' => Owed' = Owed
         /\ Owes(r) /\ Owes(r)' /\ req'[r].cred = req[r].cred => Owed' = Owed
         /\ ~Owes(r) /\ Owes(r)' => Owed' = Owed \cup {req'[r].cred}
  <1>1. \A q \in Requests : Owes(q) => Paying(q)
    BY DEF Owes, Paying
  <1>2. Owes(r) => /\ req[r].cred \in accepted
                   /\ \A q \in Requests : Owes(q) /\ req[q].cred = req[r].cred => q = r
    BY <1>1 DEF PaidInv
  <1>3. \A q \in Requests \ {r} : Owes(q)' = Owes(q) /\ req'[q] = req[q]
    BY DEF OwnSlot, Owes
  <1> QED
    BY <1>2, <1>3 DEF Owed

\* A quiet step is a stutter.
LEMMA QuietStutters ==
  ASSUME IsFiniteSet(Requests), TypeInv, TypeInv', PaidInv, WayInv, NEW r \in Requests, Quiet(r)
  PROVE  UNCHANGED Factor!fvars
  <1>0. OwnSlot(r) /\ WayOK(r) /\ OwnSession(r) /\ UNCHANGED <<accepted, examined, paidBy>>
    BY DEF Quiet, WayInv
  <1>1. Verdicts' = Verdicts
    BY <1>0, NoVerdict DEF Quiet, Waits
  <1>2. Owed' = Owed
    BY <1>0, OwedMoves DEF Quiet
  <1>3. \A s \in SessTokens : OpenedFor(s)' = OpenedFor(s)
    <2> TAKE s \in SessTokens
    <2>1. CASE sess'[s] = sess[s]
      BY <1>0, <2>1 DEF OpenedFor
    <2>2. CASE pc[r] = "elevate" /\ s = req[r].sess
      <3>1. sess[s] = Nil \/ sess[s].purpose = "setup"
        BY <1>0, <2>2 DEF WayOK, OwnSession
      <3>2. sess'[s] = sess[s] \/ sess'[s] = Nil
        BY DEF Quiet, SessionsKept
      <3> QED
        BY <1>0, <3>1, <3>2 DEF OpenedFor
    <2> QED
      BY <2>1, <2>2 DEF Quiet
  <1> QED
    BY <1>0, <1>1, <1>2, <1>3 DEF Factor!fvars, Opened

\* A code that does not match is refused; one that matches waits for its verdict.
LEMMA GetMaps ==
  ASSUME IsFiniteSet(Requests), LoginInv, LoginInv', NEW r \in Requests, OwnSlot(r), ConsumeGet(r)
  PROVE  [Factor!Next]_(Factor!fvars)
  <1> USE DEF LoginInv
  <1>0. /\ pc[r] = "consumeGet" /\ WayOK(r) /\ UNCHANGED <<sess, paidBy, accepted>>
        /\ req'[r] \in {req[r], NoRequest} /\ pc'[r] \in {"idle", "failUpsert", "setLastStep"}
    BY DEF ConsumeGet, Rejected, Done, Goto, tables, WayInv, TypeInv, TypeOK
  <1>1. Opened' = Opened /\ Owed' = Owed
    <2>1. ~Owes(r) /\ ~Owes(r)'
      BY <1>0 DEF Owes
    <2> QED
      BY <1>0, <2>1, OwedMoves DEF Opened, OpenedFor
  <1>2. examined \in [ChTokens -> Nat]
    BY DEF TypeInv, TypeOK
  <1>3. CASE pc'[r] = "idle" /\ examined' = examined
    BY <1>0, <1>1, <1>3, NoVerdict DEF Waits, Factor!fvars
  <1>4. CASE pc'[r] = "setLastStep" /\ req'[r] = req[r] /\ Examines(r)
    <2>1. \A tok \in ChTokens :
             \/ ~Waits(r, tok) /\ ~Waits(r, tok)' /\ examined'[tok] = examined[tok]
             \/ ~Waits(r, tok) /\ Waits(r, tok)' /\ examined'[tok] = examined[tok] + 1
      BY <1>0, <1>2, <1>4 DEF Waits, Examines
    <2> QED
      BY <1>0, <1>1, <2>1, NoVerdict DEF Factor!fvars
  <1>5. CASE pc'[r] # "setLastStep" /\ Examines(r)
    <2>1. CASE req[r].op = "verify"
      <3>1. req[r].tok \in ChTokens
        BY <2>1 DEF CapInv
      <3>2. Factor!Judge(req[r].tok)
        BY <1>0, <1>5, <2>1, <3>1, VerdictGiven DEF Examines
      <3> QED
        BY <1>0, <1>1, <3>1, <3>2 DEF Factor!Next, Factor!Refuse
    <2>2. CASE req[r].op # "verify"
      BY <1>0, <1>1, <1>5, <2>2, NoVerdict DEF Waits, Examines, Factor!fvars
    <2> QED
      BY <2>1, <2>2
  <1>6. \/ pc'[r] = "idle" /\ examined' = examined
        \/ pc'[r] = "setLastStep" /\ req'[r] = req[r] /\ Examines(r)
        \/ pc'[r] # "setLastStep" /\ Examines(r)
    BY DEF ConsumeGet, Rejected, Done, Goto, TypeInv, TypeOK
  <1> QED
    BY <1>3, <1>4, <1>5, <1>6

\* The answer to VerifyPOST is the verdict of its challenge.
LEMMA AnswerMaps ==
  ASSUME IsFiniteSet(Requests), LoginInv, LoginInv', NEW r \in Requests, OwnSlot(r),
         ConsumeStep(r) \/ UseCode(r)
  PROVE  Factor!Next \/ UNCHANGED Factor!fvars
  <1> DEFINE c == req[r].cred
             ch == req[r].tok
  <1> USE DEF LoginInv
  <1>0. /\ WayOK(r) /\ UNCHANGED <<sess, paidBy>> /\ Opened' = Opened
        /\ pc[r] \in {"setLastStep", "use"} /\ ~Owes(r)
    BY DEF ConsumeStep, UseCode, WayInv, Opened, OpenedFor, Owes
  <1>1. /\ req'[r] \in {req[r], NoRequest} /\ pc'[r] # "setLastStep"
    BY Answered DEF ConsumeStep, UseCode, ReplayInv
  <1>2. CASE req[r].op = "verify"
    <2>1. ch \in ChTokens
      BY <1>2 DEF CapInv
    <2>2. \/ Waits(r, ch) /\ examined' = examined
          \/ pc[r] # "setLastStep" /\ examined' = [examined EXCEPT ![ch] = @ + 1]
      BY <1>2 DEF Waits, ConsumeStep, UseCode, Examines
    <2>3. Factor!Judge(ch)
      BY <1>1, <2>1, <2>2, VerdictGiven
    <2>4. CASE Rejected(r)
      <3>1. accepted' = accepted /\ ~Owes(r)'
        BY <2>4 DEF Rejected, Done, Goto, Owes, NoRequest, TypeInv, TypeOK
      <3>2. Owed' = Owed
        BY <1>0, <3>1, OwedMoves
      <3> QED
        BY <1>0, <2>1, <2>3, <3>1, <3>2 DEF Factor!Next, Factor!Refuse
    <2>5. CASE Granted(r) /\ c \notin accepted
      <3>1. accepted' = accepted \cup {c} /\ Owes(r)' /\ req'[r] = req[r]
        BY <1>2, <2>5 DEF Granted, Proceed, AfterGrant, Goto, Owes, TypeInv, TypeOK
      <3>2. Owed' = Owed \cup {c}
        BY <1>0, <3>1, OwedMoves
      <3>3. c \in RightCodes
        BY <2>5, <3>1 DEF WayInv
      <3> QED
        BY <1>0, <2>1, <2>3, <2>5, <3>1, <3>2, <3>3 DEF Factor!Next, Factor!Accept
    <2> QED
      BY <2>4, <2>5, AcceptedOnce
  <1>3. CASE req[r].op # "verify"
    <2>1. examined' = examined
      BY <1>3 DEF ConsumeStep, UseCode, Examines
    <2>2. Verdicts' = Verdicts
      BY <1>1, <1>3, <2>1, NoVerdict DEF Waits, NoRequest
    <2>3. CASE Rejected(r)
      <3>1. accepted' = accepted /\ ~Owes(r)'
        BY <2>3 DEF Rejected, Done, Goto, Owes, NoRequest, TypeInv, TypeOK
      <3>2. Owed' = Owed
        BY <1>0, <3>1, OwedMoves
      <3> QED
        BY <1>0, <2>2, <3>1, <3>2 DEF Factor!fvars
    <2>4. CASE Granted(r) /\ c \notin accepted
      <3>1. accepted' = accepted \cup {c} /\ (Owes(r)' => req'[r].cred = c)
        BY <1>1, <2>4 DEF Granted, Owes, NoRequest
      <3>2. Owed' \in {Owed, Owed \cup {c}}
        BY <1>0, <3>1, OwedMoves
      <3>3. c \in RightCodes
        BY <2>4, <3>1 DEF WayInv
      <3> QED
        BY <1>0, <2>2, <2>4, <3>1, <3>2, <3>3 DEF Factor!Next, Factor!AcceptElsewhere
    <2> QED
      BY <2>3, <2>4, AcceptedOnce
  <1> QED
    BY <1>2, <1>3

\* Where enrolment is required, only the session of an accepted code is authenticated.
LEMMA OpenMaps ==
  ASSUME EnrollRequired, IsFiniteSet(Requests), LoginInv, LoginInv', NEW r \in Requests,
         OwnSlot(r), OpenSession(r)
  PROVE  Factor!Next \/ UNCHANGED Factor!fvars
  <1> DEFINE c == req[r].cred
  <1> USE DEF LoginInv
  <1>0. /\ pc[r] = "openSession" /\ WayOK(r) /\ UNCHANGED <<examined, accepted>>
        /\ pc'[r] \in {"idle", "replaceDelete"}
    BY DEF OpenSession, FinishEnable, Done, Goto, WayInv, TypeInv, TypeOK
  <1>1. Verdicts' = Verdicts /\ ~Owes(r)'
    BY <1>0, NoVerdict DEF Waits, Owes
  <1>2. req[r].op = "login" \/ Owes(r)
    BY <1>0 DEF WayOK, Owes
  <1>3. CASE UNCHANGED <<sess, paidBy>>
    <2>1. Opened' = Opened
      BY <1>3 DEF Opened, OpenedFor
    <2>2. CASE Owes(r)
      <3>1. c \in Owed /\ Owed' = Owed \ {c} /\ c \in RightCodes
        BY <1>0, <1>1, <2>2, OwedMoves DEF WayInv
      <3> QED
        BY <1>0, <1>1, <2>1, <3>1 DEF Factor!Next, Factor!Forget
    <2>3. CASE ~Owes(r)
      BY <1>0, <1>1, <2>1, <2>3, OwedMoves DEF Factor!fvars
    <2> QED
      BY <2>2, <2>3
  <1>4. ASSUME NEW s \in SessTokens, s \notin drawn,
               sess' = [sess EXCEPT ![s] = [user |-> User(r), purpose |-> Purpose(r)]],
               paidBy' = [paidBy EXCEPT ![s] = c]
        PROVE  Factor!Next \/ UNCHANGED Factor!fvars
    <2>1. sess[s] = Nil /\ InitSess[s] = Nil /\ OpenedFor(s) = NoCred
      BY <1>4 DEF WayInv, OpenedFor
    <2>2. \A t \in SessTokens \ {s} : OpenedFor(t)' = OpenedFor(t)
      BY <1>4 DEF OpenedFor, TypeInv, TypeOK
    <2>3. /\ sess'[s] # Nil /\ sess'[s].purpose = Purpose(r) /\ paidBy'[s] = c
      <3>1. sess'[s] = [user |-> User(r), purpose |-> Purpose(r)] /\ paidBy'[s] = c
        BY <1>4 DEF TypeInv, TypeOK
      <3>2. sess'[s] \in SessRow
        BY <1>0, <3>1 DEF SessRow, Purpose, TypeInv, ReqOK
      <3> QED
        BY <3>1, <3>2, MfaxAssumption
    <2>4. CASE req[r].op = "login"
      <3>1. OpenedFor(s)' = NoCred
        BY <2>3, <2>4 DEF OpenedFor, Purpose
      <3>2. Opened' = Opened
        BY <2>1, <2>2, <3>1 DEF Opened
      <3>3. Owed' = Owed
        BY <1>0, <1>1, <2>4, OwedMoves DEF Owes
      <3> QED
        BY <1>0, <1>1, <3>2, <3>3 DEF Factor!fvars
    <2>5. CASE req[r].op # "login"
      <3>1. /\ c \in Owed /\ Owed' = Owed \ {c} /\ c \in RightCodes /\ c # NoCred
        BY <1>0, <1>1, <1>2, <2>5, OwedMoves DEF WayInv, PaidInv
      <3>2. OpenedFor(s)' = c
        BY <2>1, <2>3, <2>5, <3>1 DEF OpenedFor, Purpose
      <3>3. Opened[s] = NoCred /\ Opened' = [Opened EXCEPT ![s] = c]
        BY <2>1, <2>2, <3>2 DEF Opened
      <3> QED
        BY <1>0, <1>1, <3>1, <3>3 DEF Factor!Next, Factor!Open
    <2> QED
      BY <2>4, <2>5
  <1> QED
    BY <1>3, <1>4 DEF OpenSession, Fresh

\* A request that gives up has its verdict, or loses the session of its code.
LEMMA AbortMaps ==
  ASSUME IsFiniteSet(Requests), LoginInv, LoginInv', NEW r \in Requests, OwnSlot(r), Abort(r)
  PROVE  Factor!Next \/ UNCHANGED Factor!fvars
  <1> DEFINE c == req[r].cred
             ch == req[r].tok
  <1> USE DEF LoginInv
  <1>0. /\ UNCHANGED <<sess, paidBy, examined, accepted>> /\ WayOK(r)
        /\ pc'[r] = "idle"
    BY DEF Abort, Done, Goto, tables, history, WayInv, TypeInv, TypeOK
  <1>1. Opened' = Opened /\ ~Owes(r)'
    BY <1>0 DEF Opened, OpenedFor, Owes
  <1>2. CASE pc[r] = "setLastStep" /\ req[r].op = "verify"
    <2>1. ch \in ChTokens /\ Waits(r, ch)
      BY <1>2 DEF CapInv, Waits
    <2>2. Factor!Judge(ch)
      BY <1>0, <2>1, VerdictGiven
    <2>3. Owed' = Owed
      BY <1>0, <1>1, <1>2, OwedMoves DEF Owes
    <2> QED
      BY <1>0, <1>1, <2>1, <2>2, <2>3 DEF Factor!Next, Factor!Refuse
  <1>3. CASE ~(pc[r] = "setLastStep" /\ req[r].op = "verify")
    <2>1. Verdicts' = Verdicts
      BY <1>0, <1>3, NoVerdict DEF Waits
    <2>2. CASE Owes(r)
      <3>1. c \in Owed /\ Owed' = Owed \ {c} /\ c \in RightCodes
        BY <1>0, <1>1, <2>2, OwedMoves DEF WayInv
      <3> QED
        BY <1>0, <1>1, <2>1, <3>1 DEF Factor!Next, Factor!Forget
    <2>3. CASE ~Owes(r)
      BY <1>0, <1>1, <2>1, <2>3, OwedMoves DEF Factor!fvars
    <2> QED
      BY <2>2, <2>3
  <1> QED
    BY <1>2, <1>3

\* The initial state is the one of SecondFactor.
LEMMA StartsAsFactor == Init => Factor!Init
  <1> SUFFICES ASSUME Init PROVE Factor!Init
    OBVIOUS
  <1>1. \A tok \in ChTokens : examined[tok] - Cardinality(Undecided(tok)) = 0
    <2> TAKE tok \in ChTokens
    <2>1. Undecided(tok) = {} /\ examined[tok] = 0
      BY DEF Init, Undecided
    <2> QED
      BY <2>1, FS_EmptySet
  <1>2. Verdicts = [tok \in ChTokens |-> 0]
    BY <1>1 DEF Verdicts
  <1>3. Owed = {}
    BY DEF Init, Owed, Owes
  <1>4. Opened = [s \in SessTokens |-> NoCred]
    BY DEF Init, Opened, OpenedFor
  <1> QED
    BY <1>2, <1>3, <1>4 DEF Init, Factor!Init

LEMMA StepMaps ==
  ASSUME EnrollRequired, IsFiniteSet(Requests), LoginInv, LoginInv', [Next]_vars
  PROVE  [Factor!Next]_(Factor!fvars)
  <1>1. CASE Tick \/ Purge \/ UNCHANGED vars
    <2>1. UNCHANGED <<sess, pc, req, accepted, examined, paidBy>>
      BY <1>1 DEF Tick, Purge, vars, tables, history
    <2> QED
      BY <2>1 DEF Factor!fvars, Verdicts, Undecided, Owed, Owes, Opened, OpenedFor
  <1>2. ASSUME NEW r \in Requests, Arrive(r) \/ Step(r) \/ Abort(r) \/ IgnoredError(r)
        PROVE  [Factor!Next]_(Factor!fvars)
    <2>1. OwnSlot(r)
      BY <1>2, StepIsOwn DEF LoginInv
    <2>2. Quiet(r) \/ ConsumeGet(r) \/ ConsumeStep(r) \/ UseCode(r) \/ OpenSession(r) \/ Abort(r)
      BY <1>2, FactorSteps DEF LoginInv
    <2>3. CASE Quiet(r)
      BY <2>3, QuietStutters DEF LoginInv
    <2> QED
      BY <2>1, <2>2, <2>3, GetMaps, AnswerMaps, OpenMaps, AbortMaps
  <1> QED
    BY <1>1, <1>2 DEF Next

\* Where enrolment is required, no secret is deleted while a request goes by it and the
\* secrets and recovery codes at the start are distinct, Mfax implements SecondFactor: a bounded
\* number of codes is judged per challenge, a code is accepted once, and an accepted
\* code and nothing else opens one session (VerifyPOST, consumeCode,
\* useRecoveryCode, EnablePOST, OpenSession).
THEOREM SecondFactorImplemented ==
  ASSUME EnrollRequired, DistinctAtStart, IsFiniteSet(Requests), StartTime <= MaxTime
  PROVE  Spec /\ RemovedAlone => ImplementsSecondFactor
  <1>1. Init => LoginInv /\ Factor!Init
    BY InitTypeInv, InitCap, InitReplay, InitPaid, InitWay, StartsAsFactor DEF LoginInv
  <1>2. LoginInv /\ [Next]_vars /\ [RemovesAlone]_vars => LoginInv'
    BY TypeInductive, CapStep, ReplayStep, PaidStep, WayStep DEF LoginInv
  <1>3. LoginInv /\ LoginInv' /\ [Next]_vars => [Factor!Next]_(Factor!fvars)
    BY StepMaps
  <1> QED
    BY <1>1, <1>2, <1>3, PTL
    DEF Spec, RemovedAlone, ImplementsSecondFactor, Factor!Spec

================================================================================
