------------------------------ MODULE MfaxProofs -------------------------------
(***************************************************************************)
(* What holds of Mfax for any number of requests, accounts and codes.      *)
(*                                                                         *)
(*   LockDurationDoubles   a lock lasts twice the one before, up to the cap*)
(*   LockDurationCapped    never longer than the cap, which it reaches     *)
(*   TypeCorrect           []TypeOK, with ReqOK as strengthening           *)
(*   LockEarnedCorrect     a lock takes Threshold wrong codes of its own   *)
(*   LockTieredCorrect     a lock lasts what its tier says                 *)
(*   LockNotMissedCorrect  an account at the threshold has a request that  *)
(*                         can lock it, while no store call has failed     *)
(*   LockDelayCorrect      a Fail cut short delays the lock by one code    *)
(*   FewUnderLockCorrect   codes examined while a lock is in force         *)
(*   AttemptsCappedCorrect codes examined under one challenge              *)
(*   OneRecoverySetCorrect recovery codes of an account, with one writer   *)
(*                                                                         *)
(* Every preservation proof has one step per action: StepType and          *)
(* ArriveType follow the disjuncts of Step and Arrive; for the lock,       *)
(* OtherSteps reduces the actions to the four statements of LockoutStore.  *)
(***************************************************************************)
EXTENDS Mfax, InductionLemmas, FiniteSetTheorems, TLAPS

--------------------------------------------------------------------------------
(* Types. *)

\* What a handler has in hand at the call it is about to make: an account once
\* the challenge is read, the secret it read at the start of EnablePOST, and a
\* challenge token while it loads one.
ReqOK ==
    \A r \in Requests :
        /\ pc[r] \notin {"idle", "loadChallenge", "dropChallenge"} => User(r) \in Users
        /\ (req[r].op = "enable" /\ pc[r] \notin {"idle", "enableGet"})
              => req[r].secret \in Secrets
        /\ pc[r] = "activate" => req[r].op = "enable"
        /\ pc[r] = "loadChallenge" => req[r].tok \in ChTokens

\* The inductive invariant behind TypeOK.
TypeInv == TypeOK /\ ReqOK

\* The tables a deployment may start with are of their types.
LEMMA InitTypeInv == Init => TypeInv
  BY StoreAssumption, MfaxAssumption, PolicyAssumption
  DEF Init, TypeInv, TypeOK, StoreTypeOK, ReqOK, NoRequest, NoCred, Request, Cred,
      TotpRow, ChRow, LockRow, SessRow, Calls, Ops, User

--------------------------------------------------------------------------------
(* The length of a lock. *)

\* Doubled is what its definition says, and a number.
LEMMA DoubledIs ==
  /\ Doubled \in [Nat -> Nat] /\ Doubled[0] = Duration
  /\ \A n \in Nat :
        Doubled[n + 1] = IF Doubled[n] < MaxDuration THEN 2 * Doubled[n] ELSE Doubled[n]
  <1>1. PICK step : step = [p \in Nat \X Nat |-> IF p[1] < MaxDuration THEN 2 * p[1] ELSE p[1]]
    OBVIOUS
  <1>2. step \in [Nat \X Nat -> Nat]
        /\ \A d, n \in Nat : step[<<d, n>>] = IF d < MaxDuration THEN 2 * d ELSE d
    BY <1>1, PolicyAssumption
  <1>3. PICK f \in [Nat -> Nat] :
           f[0] = Duration /\ \A n \in Nat : f[n + 1] = step[<<f[n], n + 1>>]
    <2>1. step \in [Nat \X Nat -> Nat]
      BY <1>2
    <2>2. Duration \in Nat
      BY PolicyAssumption
    <2>3. \E f \in [Nat -> Nat] : Recurs(f, Duration, step)
      BY <2>1, <2>2, Recursion
    <2> QED
      BY <2>3 DEF Recurs
  <1>4. \A n \in Nat : n # 0 => n - 1 \in Nat /\ (n - 1) + 1 = n
    OBVIOUS
  <1>5. f = [n \in Nat |-> IF n = 0 THEN Duration
                           ELSE IF f[n - 1] < MaxDuration THEN 2 * f[n - 1] ELSE f[n - 1]]
    <2>1. ASSUME NEW n \in Nat, n # 0
          PROVE  f[n] = IF f[n - 1] < MaxDuration THEN 2 * f[n - 1] ELSE f[n - 1]
      <3>1. n - 1 \in Nat /\ (n - 1) + 1 = n /\ f[n - 1] \in Nat
        BY <2>1
      <3> QED
        BY <1>2, <1>3, <3>1
    <2> QED
      BY <1>3, <2>1
  <1>6. Doubled = [n \in Nat |-> IF n = 0 THEN Duration
                           ELSE IF Doubled[n - 1] < MaxDuration THEN 2 * Doubled[n - 1] ELSE Doubled[n - 1]]
    BY <1>5 DEF Doubled
  <1>7. Doubled[0] = Duration
    BY <1>6
  <1>8. ASSUME NEW n \in Nat
        PROVE  Doubled[n + 1] = IF Doubled[n] < MaxDuration THEN 2 * Doubled[n] ELSE Doubled[n]
    <2>1. n + 1 \in Nat /\ n + 1 # 0 /\ (n + 1) - 1 = n
      OBVIOUS
    <2> QED
      BY <1>6, <2>1
  <1>9. ASSUME NEW n \in Nat PROVE Doubled[n] \in Nat
    <2> DEFINE T == {i \in Nat : Doubled[i] \in Nat}
    <2>1. 0 \in T
      BY <1>7, PolicyAssumption
    <2>2. \A i \in Nat : i \in T => i + 1 \in T
      BY <1>8
    <2> HIDE DEF T
    <2>3. n \in T
      BY <2>1, <2>2, Induction
    <2> QED
      BY <2>3 DEF T
  <1>10. Doubled = [n \in Nat |-> Doubled[n]]
    BY <1>6
  <1> QED
    BY <1>7, <1>8, <1>9, <1>10

Least(a, b) == IF a <= b THEN a ELSE b

\* Each lock of a series lasts twice as long as the one before, from Duration up, until
\* the cap is reached, and there they stay (LockoutPolicy.LockDuration).
THEOREM LockDurationDoubles ==
  /\ LockDuration(0) = Duration
  /\ \A n \in Nat : LockDuration(n + 1) = Least(2 * LockDuration(n), MaxDuration)
  <1>0. Duration \in Nat \ {0} /\ MaxDuration \in Nat /\ Duration <= MaxDuration
    BY PolicyAssumption
  <1>1. ASSUME NEW n \in Nat
        PROVE  LockDuration(n + 1) = Least(2 * LockDuration(n), MaxDuration)
    <2>1. Doubled[n] \in Nat
          /\ Doubled[n + 1] = IF Doubled[n] < MaxDuration THEN 2 * Doubled[n] ELSE Doubled[n]
      BY DoubledIs
    <2> QED
      BY <1>0, <2>1 DEF LockDuration, Least
  <1> QED
    BY <1>0, <1>1, DoubledIs DEF LockDuration

\* A lock never lasts longer than MaxDuration nor shorter than the locks before it, and
\* a series of locks reaches the cap.
THEOREM LockDurationCapped ==
  /\ \A n \in Nat : LockDuration(n) \in Duration..MaxDuration
  /\ \A n \in Nat : LockDuration(n) <= LockDuration(n + 1)
  /\ \A n \in Nat : n >= MaxDuration => LockDuration(n) = MaxDuration
  <1>0. Duration \in Nat \ {0} /\ MaxDuration \in Nat /\ Duration <= MaxDuration
    BY PolicyAssumption
  <1>1. ASSUME NEW n \in Nat
        PROVE  LockDuration(n) \in Duration..MaxDuration
               /\ (LockDuration(n) = MaxDuration \/ LockDuration(n) > n)
    <2> DEFINE T == {i \in Nat : /\ LockDuration(i) \in Duration..MaxDuration
                                 /\ LockDuration(i) = MaxDuration \/ LockDuration(i) > i}
    <2>1. 0 \in T
      BY <1>0, LockDurationDoubles
    <2>2. ASSUME NEW i \in Nat, i \in T PROVE i + 1 \in T
      <3>1. LockDuration(i + 1) = Least(2 * LockDuration(i), MaxDuration)
        BY LockDurationDoubles
      <3>2. PICK d \in Duration..MaxDuration : d = LockDuration(i) /\ (d = MaxDuration \/ d > i)
        BY <2>2
      <3>3. Least(2 * d, MaxDuration) \in Duration..MaxDuration
            /\ (Least(2 * d, MaxDuration) = MaxDuration \/ Least(2 * d, MaxDuration) > i + 1)
        BY <1>0, <3>2 DEF Least
      <3> QED
        BY <3>1, <3>2, <3>3
    <2> HIDE DEF T
    <2>3. n \in T
      BY <2>1, <2>2, Induction
    <2> QED
      BY <2>3 DEF T
  <1>2. ASSUME NEW n \in Nat PROVE LockDuration(n) <= LockDuration(n + 1)
    <2>1. PICK d \in Duration..MaxDuration : d = LockDuration(n)
      BY <1>1
    <2>2. LockDuration(n + 1) = Least(2 * d, MaxDuration)
      BY <2>1, LockDurationDoubles
    <2> QED
      BY <1>0, <2>1, <2>2 DEF Least
  <1>3. ASSUME NEW n \in Nat, n >= MaxDuration PROVE LockDuration(n) = MaxDuration
    BY <1>0, <1>1, <1>3
  <1> QED
    BY <1>1, <1>2, <1>3

\* LockDuration answers a duration whatever the number of locks.
LEMMA LockDurationType == \A n \in Nat : LockDuration(n) \in Nat
  <1>1. \A d \in Duration..MaxDuration : d \in Nat
    BY PolicyAssumption
  <1> QED
    BY <1>1, LockDurationCapped

--------------------------------------------------------------------------------
(* The types of what a step writes. *)

USE DEF StoreTypeOK

\* The types of the fields of a request.
LEMMA RequestFacts ==
  ASSUME NEW q \in Request
  PROVE  /\ q.user \in Users \cup {Nil} /\ q.tok \in ChTokens \cup {Nil}
         /\ q.sess \in SessTokens \cup {Nil} /\ q.cred \in Cred
         /\ q.secret \in Secrets \cup {Nil} /\ q.at \in Nat /\ q.seen \in Nat
         /\ q.snap \in SUBSET RCodes /\ q.cred.step \in Int
  BY DEF Request, Cred

\* Counting up in a table of counters leaves a table of counters.
LEMMA CounterType ==
  ASSUME NEW S, NEW f \in [S -> Nat], NEW x
  PROVE  [f EXCEPT ![x] = @ + 1] \in [S -> Nat]
  <1>1. CASE x \in S
    <2>1. f[x] \in Nat /\ f[x] + 1 \in Nat
      BY <1>1
    <2> QED
      BY <2>1
  <1>2. CASE x \notin S
    <2>1. [f EXCEPT ![x] = @ + 1] = f
      BY <1>2
    <2> QED
      BY <2>1
  <1> QED
    BY <1>1, <1>2

\* The first statement of Fail writes a row of the table: it counts one more
\* wrong code, or the first one of a window, and keeps the tier of the next lock.
LEMMA CountedType ==
  ASSUME now \in Nat, NEW row \in LockRow \cup {Nil}
  PROVE  /\ Counted(row) \in LockRow
         /\ \/ Counted(row).failures = 1
            \/ row # Nil /\ Counted(row).failures = row.failures + 1
         /\ row # Nil => Counted(row).lockouts = row.lockouts
  <1>1. CASE row = Nil
    BY <1>1 DEF Counted, LockRow
  <1>2. CASE row # Nil
    <2>1. row \in LockRow
      BY <1>2
    <2> QED
      BY <1>2, <2>1 DEF Counted, LockRow
  <1> QED
    BY <1>1, <1>2

\* An arriving request that has what its first call needs keeps the types.
LEMMA ReceiveType ==
  ASSUME TypeInv, NEW r \in Requests, NEW op \in Ops, NEW call \in Calls,
         NEW q \in Request, Receive(r, op, call, q),
         call \notin {"loadChallenge"} => q.user \in Users,
         call = "loadChallenge" => q.tok \in ChTokens,
         call # "activate", op = "enable" => call = "enableGet"
  PROVE  TypeInv'
  BY DEF Receive, TypeInv, TypeOK, ReqOK, User, Goto, tables, history, Request

\* Each of the 24 calls of the handlers keeps the types.
LEMMA StepType ==
  ASSUME TypeInv, NEW r \in Requests, Step(r)
  PROVE  TypeInv'
  <1> USE DEF TypeInv, TypeOK, Goto, User, ReqOK, tables, history
  <1>0. NoRequest \in Request /\ NoRequest.op = "none"
    BY DEF NoRequest, Request, NoCred, Cred, Ops
  <1>1. CASE ReadEnabled(r)
    BY <1>0, <1>1 DEF ReadEnabled, EnabledAnswers, Done, Calls
  <1>2. CASE LoadChallenge(r)
    <2> DEFINE tok == req[r].tok
               q == [req[r] EXCEPT !.user = chs[tok].user]
    <2>1. req[r] \in Request /\ tok \in ChTokens
      BY <1>2 DEF LoadChallenge
    <2>2. CASE req' = [req EXCEPT ![r] = q] /\ Goto(r, "lockedUntil")
               /\ chs[tok] # Nil /\ req[r].op = "verify"
      <3>1. chs[tok].user \in Users
        BY <2>1, <2>2 DEF ChRow
      <3>2. q \in Request /\ q.user = chs[tok].user /\ q.op = "verify"
        BY <2>1, <2>2, <3>1 DEF Request
      <3> QED
        BY <1>2, <2>2, <3>1, <3>2 DEF LoadChallenge, Calls
    <2>3. CASE Done(r) \/ (Goto(r, "dropChallenge") /\ UNCHANGED req)
      BY <1>0, <1>2, <2>3 DEF LoadChallenge, Done, Calls
    <2> QED
      BY <1>2, <2>2, <2>3 DEF LoadChallenge
  <1>3. CASE DropChallenge(r)
    BY <1>0, <1>3 DEF DropChallenge, DeleteChallenge, Done, Calls
  <1>4. CASE ReadLock(r)
    BY <1>0, <1>4 DEF ReadLock, AfterLockCheck, Check, Done, Calls
  <1>5. CASE Create(r)
    BY <1>0, <1>5, StoreAssumption DEF Create, CreateChallenge, Fresh, Done, Calls, ChRow
  <1>6. CASE CountAttempt(r)
    BY <1>0, <1>6 DEF CountAttempt, Allowed, IncrAttempts, Check, Calls, ChRow
  <1>7. CASE ConsumeGet(r)
    <2>1. pc[r] = "consumeGet" /\ User(r) \in Users
      BY <1>7 DEF ConsumeGet
    <2>2. \/ UNCHANGED <<examined, underLock>>
          \/ Examines(r)
      BY <1>7 DEF ConsumeGet
    <2>3. examined' \in [ChTokens -> Nat] /\ underLock' \in [Users -> Nat]
      BY <2>2, CounterType DEF Examines
    <2> QED
      BY <1>0, <1>7, <2>1, <2>3 DEF ConsumeGet, Rejected, Done, Calls
  <1>8. CASE ConsumeStep(r)
    <2>1. req[r] \in Request /\ req[r].cred \in Cred /\ req[r].cred.step \in Int
      BY RequestFacts
    <2>2. totp' \in [Users -> TotpRow \cup {Nil}]
      BY <1>8, <2>1 DEF ConsumeStep, Advances, SetLastStep, TotpRow
    <2> QED
      BY <1>0, <1>8, <2>1, <2>2 DEF ConsumeStep, Granted, Rejected, Proceed, AfterGrant, Done, Calls
  <1>9. CASE UseCode(r)
    <2>1. req[r] \in Request /\ req[r].cred \in Cred
      BY RequestFacts
    <2>2. rec' \in [Users -> SUBSET RCodes]
      BY <1>9 DEF UseCode, Use
    <2>3. /\ Examines(r)
          /\ accepted' = accepted \/ accepted' = accepted \cup {req[r].cred}
      BY <1>9 DEF UseCode, Granted, Rejected
    <2>4. /\ \/ Done(r)
             \/ /\ \/ Goto(r, "failUpsert")
                   \/ Goto(r, "reset")
                   \/ Goto(r, AfterGrant(r))
                /\ UNCHANGED req
          /\ UNCHANGED <<now, totp, chs, lockouts, sess, drawn, faults, sinceLock, paidBy>>
          /\ pc[r] = "use"
      BY <1>9 DEF UseCode, Granted, Rejected, Proceed
    <2>5. examined' \in [ChTokens -> Nat] /\ underLock' \in [Users -> Nat]
      BY <2>3, CounterType DEF Examines
    <2>6. accepted' \subseteq Cred
      BY <2>1, <2>3
    <2>7. pc' \in [Requests -> Calls \cup {"idle"}] /\ req' \in [Requests -> Request]
      BY <1>0, <2>4 DEF AfterGrant, Done, Calls
    <2>8. ReqOK'
      BY <1>0, <2>4 DEF AfterGrant, Done
    <2> QED
      BY <2>2, <2>4, <2>5, <2>6, <2>7, <2>8
  <1>10. CASE FailUpsert(r)
    <2> DEFINE u == User(r)
               q == [req[r] EXCEPT !.at = now]
    <2>1. u \in Users /\ req[r] \in Request /\ now \in Nat
      BY <1>10 DEF FailUpsert
    <2>2. lockouts' \in [Users -> LockRow \cup {Nil}]
      <3>1. Counted(lockouts[u]) \in LockRow
        BY <2>1, CountedType
      <3> QED
        BY <1>10, <2>1, <3>1 DEF FailUpsert, CountFailure
    <2>3. sinceLock' \in [Users -> 0..Threshold]
      BY <1>10, PolicyAssumption DEF FailUpsert
    <2>4. q \in Request /\ q.op = req[r].op /\ q.user = u /\ q.secret = req[r].secret
      BY <2>1 DEF Request
    <2>5. req' = [req EXCEPT ![r] = q]
      BY <1>10 DEF FailUpsert
    <2> QED
      BY <1>10, <2>1, <2>2, <2>3, <2>4, <2>5 DEF FailUpsert, Calls
  <1>11. CASE FailRead(r)
    <2> DEFINE u == User(r)
               q == [req[r] EXCEPT !.seen = lockouts[u].lockouts]
    <2>1. u \in Users /\ req[r] \in Request
      BY <1>11 DEF FailRead
    <2>2. CASE req' = [req EXCEPT ![r] = q] /\ Goto(r, "failLock") /\ lockouts[u] # Nil
      <3>1. lockouts[u].lockouts \in Nat
        BY <2>1, <2>2 DEF LockRow
      <3>2. q \in Request /\ q.op = req[r].op /\ q.user = u /\ q.secret = req[r].secret
        BY <2>1, <3>1 DEF Request
      <3> QED
        BY <1>11, <2>1, <2>2, <3>2 DEF FailRead, Calls
    <2>3. CASE Done(r)
      BY <1>0, <1>11, <2>3 DEF FailRead, Done
    <2> QED
      BY <1>11, <2>2, <2>3 DEF FailRead
  <1>12. CASE FailLock(r)
    <2>1. req[r].at \in Nat /\ LockDuration(req[r].seen) \in Nat
      BY RequestFacts, LockDurationType
    <2>2. lockouts' \in [Users -> LockRow \cup {Nil}]
      BY <1>12, <2>1 DEF FailLock, LocksNow, PlaceLock, LockRow
    <2>3. sinceLock' \in [Users -> 0..Threshold] /\ underLock' \in [Users -> Nat]
      BY <1>12, PolicyAssumption DEF FailLock
    <2> QED
      BY <1>0, <1>12, <2>2, <2>3 DEF FailLock, Done, Calls
  <1>13. CASE ResetFailures(r)
    BY <1>0, <1>13, PolicyAssumption DEF ResetFailures, Reset, Proceed, AfterGrant, Done, Calls
  <1>14. CASE ClearChallenge(r)
    BY <1>0, <1>14 DEF ClearChallenge, DeleteChallenge, Calls
  <1>15. CASE OpenSession(r)
    <2>1. User(r) \in Users /\ req[r].cred \in Cred
      BY <1>15, RequestFacts DEF OpenSession
    <2>2. sess' \in [SessTokens -> SessRow \cup {Nil}]
      BY <1>15, <2>1 DEF OpenSession, Fresh, Purpose, SessRow
    <2>3. paidBy' \in [SessTokens -> Cred]
      BY <1>15, <2>1 DEF OpenSession
    <2> QED
      BY <1>0, <1>15, <2>2, <2>3 DEF OpenSession, FinishEnable, Fresh, Done, Calls
  <1>16. CASE Provision(r)
    <2>1. User(r) \in Users
      BY <1>16 DEF Provision
    <2>2. \A s \in Secrets : SetTotp(User(r), s, FALSE)
                              => totp' \in [Users -> TotpRow \cup {Nil}]
      BY <2>1 DEF SetTotp, TotpRow
    <2>3. totp' \in [Users -> TotpRow \cup {Nil}]
      BY <1>16, <2>2 DEF Provision, Fresh
    <2> QED
      BY <1>0, <1>16, <2>3 DEF Provision, Fresh, Done, Calls
  <1>17. CASE EnableGet(r)
    <2> DEFINE u == User(r)
               q == [req[r] EXCEPT !.secret = totp[u].secret]
    <2>1. u \in Users /\ req[r] \in Request
      BY <1>17 DEF EnableGet
    <2>2. CASE req' = [req EXCEPT ![r] = q] /\ Goto(r, "lockedUntil") /\ totp[u] # Nil
      <3>1. totp[u].secret \in Secrets
        BY <2>1, <2>2 DEF TotpRow
      <3>2. q \in Request /\ q.op = req[r].op /\ q.user = u /\ q.secret \in Secrets
        BY <2>1, <3>1 DEF Request
      <3> QED
        BY <1>17, <2>1, <2>2, <3>2 DEF EnableGet, Calls
    <2>3. CASE Done(r)
      BY <1>0, <1>17, <2>3 DEF EnableGet, Done
    <2> QED
      BY <1>17, <2>2, <2>3 DEF EnableGet
  <1>18. CASE Activate(r)
    BY <1>0, <1>18, StoreAssumption DEF Activate, SetTotp, FinishEnable, Done, Calls, TotpRow
  <1>19. CASE Elevate(r)
    BY <1>0, <1>19 DEF Elevate, Calls
  <1>20. CASE DisableGet(r)
    BY <1>0, <1>20 DEF DisableGet, Done, Calls
  <1>21. CASE RemoveTotp(r)
    BY <1>0, <1>21 DEF RemoveTotp, DeleteTotp, Done, Calls
  <1>22. CASE RemoveRecovery(r)
    BY <1>0, <1>22 DEF RemoveRecovery, DeleteRecovery, Done, Calls
  <1>23. CASE ReplaceDelete(r)
    <2> DEFINE u == User(r)
               q == [req[r] EXCEPT !.snap = rec[u]]
    <2>1. u \in Users /\ req[r] \in Request /\ rec[u] \in SUBSET RCodes
      BY <1>23 DEF ReplaceDelete
    <2>2. q \in Request /\ q.op = req[r].op /\ q.user = u /\ q.secret = req[r].secret
      BY <2>1 DEF Request
    <2>3. req' = [req EXCEPT ![r] = q]
      BY <1>23 DEF ReplaceDelete
    <2> QED
      BY <1>23, <2>1, <2>2, <2>3 DEF ReplaceDelete, Calls
  <1>24. CASE ReplaceCommit(r)
    BY <1>0, <1>24 DEF ReplaceCommit, CommitReplace, Fresh, Done, Calls
  <1> QED
    BY <1>1, <1>2, <1>3, <1>4, <1>5, <1>6, <1>7, <1>8, <1>9, <1>10, <1>11, <1>12,
       <1>13, <1>14, <1>15, <1>16, <1>17, <1>18, <1>19, <1>20, <1>21, <1>22, <1>23,
       <1>24 DEF Step

\* What a user can submit is a code.
LEMMA CodesType == TypeInv => TotpCodes \cup RecoveryCodes \subseteq Cred
  <1> SUFFICES ASSUME TypeInv PROVE TotpCodes \cup RecoveryCodes \subseteq Cred
    OBVIOUS
  <1>1. CurStep \in Int
    BY MfaxAssumption DEF TypeInv, TypeOK, CurStep
  <1>2. TotpCodes \subseteq Cred
    BY <1>1 DEF TotpCodes, Cred
  <1>3. RecoveryCodes \subseteq Cred
    BY DEF RecoveryCodes, Cred
  <1> QED
    BY <1>2, <1>3

\* A request with a session has an account.
LEMMA SessionType ==
  ASSUME TypeInv, NEW s \in SessTokens, sess[s] # Nil
  PROVE  /\ WithSession(s) \in Request /\ WithSession(s).user \in Users
         /\ \A c \in Cred : LET q == [WithSession(s) EXCEPT !.cred = c]
                            IN  q \in Request /\ q.user \in Users
  <1>1. sess[s].user \in Users /\ sess[s].purpose \in {"setup", "auth"}
    BY DEF TypeInv, TypeOK, SessRow
  <1>0. NoRequest \in Request
    BY DEF NoRequest, Request, NoCred, Cred, Ops
  <1>2. WithSession(s) \in Request /\ WithSession(s).user \in Users
    BY <1>0, <1>1 DEF WithSession, Request
  <1>3. ASSUME NEW c \in Cred
        PROVE  LET q == [WithSession(s) EXCEPT !.cred = c]
               IN  q \in Request /\ q.user \in Users
    BY <1>2 DEF Request
  <1> QED
    BY <1>2, <1>3

\* Each of the eight kinds of request arrives with the right types.
LEMMA ArriveType ==
  ASSUME TypeInv, NEW r \in Requests, Arrive(r)
  PROVE  TypeInv'
  <1>0. TotpCodes \cup RecoveryCodes \subseteq Cred /\ NoRequest \in Request
    BY CodesType DEF NoRequest, Request, NoCred, Cred, Ops
  <1>1. ASSUME NEW u \in Users, LoginPOST(r, u)
        PROVE  TypeInv'
    <2> DEFINE q == [NoRequest EXCEPT !.user = u]
    <2>1. q \in Request /\ q.user = u
      BY <1>0 DEF Request
    <2>2. Receive(r, "login", "enabled", q)
      BY <1>1 DEF LoginPOST
    <2> HIDE DEF q
    <2> QED
      BY <2>1, <2>2, ReceiveType DEF Calls, Ops
  <1>2. ASSUME NEW tok \in ChTokens, VerifyGET(r, tok)
        PROVE  TypeInv'
    <2> DEFINE q == [NoRequest EXCEPT !.tok = tok]
    <2>1. q \in Request /\ q.tok = tok
      BY <1>0 DEF Request
    <2>2. Receive(r, "verifyGet", "loadChallenge", q)
      BY <1>2 DEF VerifyGET
    <2> HIDE DEF q
    <2> QED
      BY <2>1, <2>2, ReceiveType DEF Calls, Ops
  <1>3. ASSUME NEW tok \in ChTokens, NEW c \in Cred, VerifyPOST(r, tok, c)
        PROVE  TypeInv'
    <2> DEFINE q == [NoRequest EXCEPT !.tok = tok, !.cred = c]
    <2>1. q \in Request /\ q.tok = tok
      BY <1>0 DEF Request
    <2>2. Receive(r, "verify", "loadChallenge", q)
      BY <1>3 DEF VerifyPOST
    <2> HIDE DEF q
    <2> QED
      BY <2>1, <2>2, ReceiveType DEF Calls, Ops
  <1>4. ASSUME NEW s \in SessTokens, SetupGET(r, s)
        PROVE  TypeInv'
    BY <1>4, SessionType, ReceiveType DEF SetupGET, Calls, Ops
  <1>5. ASSUME NEW s \in SessTokens, NEW c \in Cred,
               EnablePOST(r, s, c) \/ DisablePOST(r, s, c) \/ RegenerateRecoveryPOST(r, s, c)
        PROVE  TypeInv'
    <2> DEFINE q == [WithSession(s) EXCEPT !.cred = c]
    <2>1. q \in Request /\ q.user \in Users
      BY <1>5, SessionType DEF EnablePOST, DisablePOST, RegenerateRecoveryPOST
    <2> HIDE DEF q
    <2>2. \/ Receive(r, "enable", "enableGet", q)
          \/ Receive(r, "disable", "disableGet", q)
          \/ Receive(r, "regenerate", "enabled", q)
      BY <1>5 DEF EnablePOST, DisablePOST, RegenerateRecoveryPOST, q
    <2> QED
      BY <2>1, <2>2, ReceiveType DEF Calls, Ops
  <1>6. ASSUME NEW u \in Users, NEW c \in Cred, Confirm(r, u, c)
        PROVE  TypeInv'
    <2> DEFINE q == [NoRequest EXCEPT !.user = u, !.cred = c]
    <2>1. q \in Request /\ q.user = u
      BY <1>0 DEF Request
    <2>2. Receive(r, "confirm", "lockedUntil", q)
      BY <1>6 DEF Confirm
    <2> HIDE DEF q
    <2> QED
      BY <2>1, <2>2, ReceiveType DEF Calls, Ops
  <1> QED
    BY <1>0, <1>1, <1>2, <1>3, <1>4, <1>5, <1>6 DEF Arrive

\* The types are inductive, whatever call fails or is ignored.
LEMMA TypeInductive == TypeInv /\ [Next]_vars => TypeInv'
  <1> SUFFICES ASSUME TypeInv, [Next]_vars PROVE TypeInv'
    OBVIOUS
  <1>0. NoRequest \in Request /\ NoRequest.op = "none"
    BY DEF NoRequest, Request, NoCred, Cred, Ops
  <1>1. ASSUME NEW r \in Requests, Arrive(r) PROVE TypeInv'
    BY <1>1, ArriveType
  <1>2. ASSUME NEW r \in Requests, Step(r) PROVE TypeInv'
    BY <1>2, StepType
  <1>3. ASSUME NEW r \in Requests, Abort(r) PROVE TypeInv'
    BY <1>0, <1>3, MfaxAssumption
    DEF Abort, Done, Goto, TypeInv, TypeOK, ReqOK, User, tables, history
  <1>4. ASSUME NEW r \in Requests, IgnoredError(r) PROVE TypeInv'
    BY <1>0, <1>4, MfaxAssumption
    DEF IgnoredError, EnabledAnswers, Done, Goto, TypeInv, TypeOK, ReqOK, User,
        Calls, tables, history
  <1>5. CASE Tick
    BY <1>5 DEF Tick, TypeInv, TypeOK, ReqOK, User, tables, history
  <1>6. CASE Purge
    BY <1>6 DEF Purge, PurgeExpired, TypeInv, TypeOK, ReqOK, User, tables, history
  <1>7. CASE UNCHANGED vars
    BY <1>7 DEF vars, TypeInv, TypeOK, ReqOK, User, tables, history
  <1> QED
    BY <1>1, <1>2, <1>3, <1>4, <1>5, <1>6, <1>7 DEF Next

\* Every table, every request in flight and every history variable keeps its
\* type: no handler follows a missing row or writes one that is not of its table.
THEOREM TypeCorrect == Spec => []TypeOK
  <1>1. TypeInv => TypeOK
    BY DEF TypeInv
  <1> QED
    BY <1>1, InitTypeInv, TypeInductive, PTL DEF Spec

--------------------------------------------------------------------------------
(* The lock. *)

\* A handler touches its own slot only.
OwnSlot(r) == \A w \in Requests \ {r} : pc'[w] = pc[w] /\ req'[w] = req[w]

\* r leaves the lockouts alone, and is not in the middle of Fail.
NotFailing(r) ==
    /\ OwnSlot(r)
    /\ faults' \in {faults, faults + 1}
    /\ pc[r] \notin {"failUpsert", "failRead", "failLock", "reset"}
    /\ UNCHANGED <<lockouts, sinceLock>>

\* Only the four statements on mfa_lockouts change a lock or its history.
LEMMA OtherSteps ==
  ASSUME TypeInv, NEW r \in Requests,
         Arrive(r) \/ Step(r) \/ Abort(r) \/ IgnoredError(r)
  PROVE  NotFailing(r) \/ Abort(r) \/ FailUpsert(r) \/ FailRead(r) \/ FailLock(r)
         \/ ResetFailures(r)
  <1> USE DEF NotFailing, OwnSlot, Done, Goto, tables, history, TypeInv, TypeOK
  <1>1. CASE Arrive(r)
    BY <1>1 DEF Arrive, LoginPOST, VerifyGET, VerifyPOST, SetupGET, EnablePOST,
                DisablePOST, RegenerateRecoveryPOST, Confirm, Receive
  <1>2. CASE IgnoredError(r)
    BY <1>2 DEF IgnoredError, EnabledAnswers
  <1>3. CASE ReadEnabled(r) \/ LoadChallenge(r) \/ DropChallenge(r) \/ ReadLock(r)
    BY <1>3 DEF ReadEnabled, EnabledAnswers, LoadChallenge, DropChallenge, ReadLock
  <1>4. CASE Create(r) \/ CountAttempt(r)
    BY <1>4 DEF Create, CountAttempt
  <1>5. CASE ConsumeGet(r) \/ ConsumeStep(r) \/ UseCode(r)
    BY <1>5 DEF ConsumeGet, ConsumeStep, UseCode, Granted, Rejected, Proceed
  <1>6. CASE ClearChallenge(r) \/ OpenSession(r) \/ Provision(r)
    BY <1>6 DEF ClearChallenge, OpenSession, FinishEnable, Provision
  <1>7. CASE EnableGet(r) \/ Activate(r) \/ Elevate(r)
    BY <1>7 DEF EnableGet, Activate, FinishEnable, Elevate
  <1>8. CASE DisableGet(r) \/ RemoveTotp(r) \/ RemoveRecovery(r)
    BY <1>8 DEF DisableGet, RemoveTotp, RemoveRecovery
  <1>9. CASE ReplaceDelete(r) \/ ReplaceCommit(r)
    BY <1>9 DEF ReplaceDelete, ReplaceCommit
  <1> QED
    BY <1>1, <1>2, <1>3, <1>4, <1>5, <1>6, <1>7, <1>8, <1>9 DEF Step

\* The wrong codes counted since the last lock cover those of the row.
CountCovered ==
    \A u \in Users :
        IF Failures(u) < Threshold THEN Failures(u) <= sinceLock[u]
                                   ELSE sinceLock[u] = Threshold

\* No step of Fail or Reset, in any order, leaves the row ahead of the history.
LEMMA CountCoveredStep ==
  ASSUME TypeInv, CountCovered, [Next]_vars
  PROVE  CountCovered'
  <1> USE PolicyAssumption DEF CountCovered, Failures
  <1>1. ASSUME NEW r \in Requests, FailUpsert(r) PROVE CountCovered'
    <2>1. \A u \in Users : lockouts[u] # Nil => lockouts[u] \in LockRow
      BY DEF TypeInv, TypeOK
    <2>2. \A u \in Users : sinceLock[u] \in 0..Threshold
      BY DEF TypeInv, TypeOK
    <2>3. ASSUME NEW u \in Users, u # User(r)
          PROVE  lockouts'[u] = lockouts[u] /\ sinceLock'[u] = sinceLock[u]
      BY <1>1, <2>3 DEF FailUpsert, CountFailure, TypeInv, TypeOK
    <2>4. /\ User(r) \in Users
          /\ lockouts'[User(r)] = Counted(lockouts[User(r)])
          /\ sinceLock'[User(r)] = IF sinceLock[User(r)] < Threshold
                                   THEN sinceLock[User(r)] + 1 ELSE sinceLock[User(r)]
      BY <1>1 DEF FailUpsert, CountFailure, TypeInv, TypeOK, ReqOK
    <2>5. /\ Counted(lockouts[User(r)]) # Nil
          /\ \/ Counted(lockouts[User(r)]).failures = 1
             \/ /\ lockouts[User(r)] # Nil
                /\ Counted(lockouts[User(r)]).failures = lockouts[User(r)].failures + 1
      BY <2>1, <2>4, CountedType, StoreAssumption DEF TypeInv, TypeOK
    <2>6. lockouts[User(r)] # Nil => lockouts[User(r)].failures \in Nat
      BY <2>1, <2>4 DEF LockRow
    <2> QED
      BY <2>2, <2>3, <2>4, <2>5, <2>6
  <1>2. ASSUME NEW r \in Requests, FailLock(r) PROVE CountCovered'
    BY <1>2, StoreAssumption
    DEF FailLock, LocksNow, PlaceLock, LockRow, TypeInv, TypeOK, ReqOK
  <1>3. ASSUME NEW r \in Requests, ResetFailures(r) PROVE CountCovered'
    BY <1>3 DEF ResetFailures, Reset, TypeInv, TypeOK
  <1>4. ASSUME UNCHANGED <<lockouts, sinceLock>> PROVE CountCovered'
    BY <1>4
  <1>5. ASSUME NEW r \in Requests, FailRead(r) \/ Abort(r) \/ NotFailing(r)
        PROVE  UNCHANGED <<lockouts, sinceLock>>
    BY <1>5 DEF FailRead, Abort, NotFailing, tables, history
  <1>6. Tick \/ Purge \/ UNCHANGED vars => UNCHANGED <<lockouts, sinceLock>>
    BY DEF Tick, Purge, vars, tables, history
  <1> QED
    BY <1>1, <1>2, <1>3, <1>4, <1>5, <1>6, OtherSteps DEF Next

\* Only the last statement of Fail places a lock.
LEMMA LockPlaced ==
  ASSUME TypeInv, [Next]_vars, NEW u \in Users, Locks(u)
  PROVE  \E r \in Requests : FailLock(r) /\ User(r) = u /\ LocksNow(u, req[r].seen)
  <1>0. lockouts[u] \in LockRow /\ lockouts[u].lockouts \in Nat
    BY DEF Locks, TypeInv, TypeOK, LockRow
  <1>1. lockouts'[u] # Nil /\ lockouts'[u].lockouts > lockouts[u].lockouts
        /\ lockouts'[u] # lockouts[u]
    BY <1>0 DEF Locks
  <1>2. PICK r \in Requests : FailUpsert(r) \/ FailLock(r) \/ ResetFailures(r)
    <2>1. UNCHANGED lockouts => FALSE
      BY <1>1
    <2>2. ~Tick /\ ~Purge /\ ~UNCHANGED vars
      BY <2>1 DEF Tick, Purge, vars, tables, history
    <2>3. PICK r \in Requests : Arrive(r) \/ Step(r) \/ Abort(r) \/ IgnoredError(r)
      BY <2>2 DEF Next
    <2>4. ~FailRead(r) /\ ~Abort(r) /\ ~NotFailing(r)
      BY <2>1 DEF FailRead, Abort, NotFailing, tables, history
    <2> QED
      BY <2>3, <2>4, OtherSteps
  <1>3. ~FailUpsert(r)
    <2> SUFFICES ASSUME FailUpsert(r) PROVE FALSE
      OBVIOUS
    <2>1. u = User(r) => lockouts'[u] = Counted(lockouts[u])
      BY DEF FailUpsert, CountFailure, TypeInv, TypeOK
    <2>2. u # User(r) => lockouts'[u] = lockouts[u]
      BY DEF FailUpsert, CountFailure, TypeInv, TypeOK
    <2>3. Counted(lockouts[u]).lockouts = lockouts[u].lockouts
      BY <1>0, CountedType, StoreAssumption DEF TypeInv, TypeOK
    <2> QED
      BY <1>0, <1>1, <2>1, <2>2, <2>3
  <1>4. ~ResetFailures(r)
    BY <1>1 DEF ResetFailures, Reset, TypeInv, TypeOK
  <1>5. User(r) = u /\ LocksNow(u, req[r].seen)
    BY <1>1, <1>2, <1>3, <1>4 DEF FailLock, PlaceLock, TypeInv, TypeOK
  <1> QED
    BY <1>2, <1>3, <1>4, <1>5

\* Every lock takes Threshold wrong codes of its own: whatever the order in
\* which the statements of concurrent failures and resets run, two of them never
\* share the wrong codes of one lock (the conditional UPDATE of Fail).
THEOREM LockEarnedCorrect == Spec => LockEarned
  <1>1. Init => CountCovered
    BY PolicyAssumption DEF Init, CountCovered, Failures
  <1>2. TypeInv /\ CountCovered /\ [Next]_vars => CountCovered'
    BY CountCoveredStep
  <1>3. ASSUME TypeInv, CountCovered, [Next]_vars
        PROVE  [\A u \in Users : Locks(u) => sinceLock[u] = Threshold]_vars
    <2> SUFFICES ASSUME NEW u \in Users, Locks(u) PROVE sinceLock[u] = Threshold
      OBVIOUS
    <2>1. lockouts[u] # Nil /\ lockouts[u] \in LockRow /\ lockouts[u].failures >= Threshold
      BY <1>3, LockPlaced DEF LocksNow, TypeInv, TypeOK
    <2> QED
      BY <1>3, <2>1, PolicyAssumption DEF CountCovered, Failures, LockRow
  <1> QED
    BY <1>1, <1>2, <1>3, InitTypeInv, TypeInductive, PTL DEF Spec, LockEarned

\* However late the UPDATE of Fail runs, the lock it places is of the tier that
\* follows the locks served: LockDuration of their number, which the statement
\* before it read, and not of a number that a reset or another lock has changed.
THEOREM LockTieredCorrect == Spec => LockTiered
  <1>1. ASSUME TypeInv, [Next]_vars, NEW u \in Users, Locks(u)
        PROVE  lockouts'[u].until = lockouts'[u].windowStart + LockDuration(lockouts[u].lockouts)
    <2>1. PICK r \in Requests : FailLock(r) /\ User(r) = u /\ LocksNow(u, req[r].seen)
      BY <1>1, LockPlaced
    <2>2. PlaceLock(u, req[r].at, req[r].seen) /\ lockouts[u].lockouts = req[r].seen
      BY <2>1 DEF FailLock, LocksNow
    <2> QED
      BY <1>1, <2>2 DEF PlaceLock, TypeInv, TypeOK
  <1>2. TypeInv /\ [Next]_vars =>
           [\A u \in Users : Locks(u) =>
               lockouts'[u].until
                  = lockouts'[u].windowStart + LockDuration(lockouts[u].lockouts)]_vars
    BY <1>1
  <1> QED
    BY <1>2, InitTypeInv, TypeInductive, PTL DEF Spec, LockTiered

\* A request is on its way to place the lock of u, and can.
Placing(r, u) ==
    /\ User(r) = u
    /\ \/ pc[r] = "failRead"
       \/ pc[r] = "failLock" /\ req[r].seen = lockouts[u].lockouts

\* A step of another request does not stop one that is placing a lock, as long
\* as the row of the user stays.
LEMMA PlacingKept ==
  ASSUME NEW r \in Requests, NEW w \in Requests, w # r, OwnSlot(r), NEW u \in Users,
         lockouts'[u].lockouts = lockouts[u].lockouts, Placing(w, u)
  PROVE  Placing(w, u)'
  BY DEF OwnSlot, Placing, User

\* LockNotMissed is inductive on top of the types: a wrong code puts its own
\* request on the way, a lock or a reset takes the count down, and a request that
\* fails to lock found the count down already.
LEMMA LockNotMissedStep ==
  ASSUME TypeInv, LockNotMissed, [Next]_vars
  PROVE  LockNotMissed'
  <1> USE DEF Placing, Failures
  <1>0. SUFFICES ASSUME faults' = 0, NEW u \in Users, Failures(u)' >= Threshold
                 PROVE  \E w \in Requests : Placing(w, u)'
    BY DEF LockNotMissed, User
  <1>1. CASE Tick \/ Purge \/ UNCHANGED vars
    <2>1. UNCHANGED <<lockouts, pc, req, faults>>
      BY <1>1 DEF Tick, Purge, vars, tables, history
    <2> QED
      BY <1>0, <2>1 DEF LockNotMissed, User
  <1>2. ASSUME NEW r \in Requests, Arrive(r) \/ Step(r) \/ Abort(r) \/ IgnoredError(r)
        PROVE  \E w \in Requests : Placing(w, u)'
    <2>0. NotFailing(r) \/ FailUpsert(r) \/ FailRead(r) \/ FailLock(r) \/ ResetFailures(r)
             => faults = 0
      BY <1>0 DEF NotFailing, FailUpsert, FailRead, FailLock, ResetFailures, TypeInv, TypeOK
    <2>1. CASE NotFailing(r)
      <3>1. PICK w \in Requests : Placing(w, u)
        BY <1>0, <2>0, <2>1 DEF LockNotMissed, NotFailing
      <3>2. w # r
        BY <2>1, <3>1 DEF NotFailing
      <3> QED
        BY <2>1, <3>1, <3>2, PlacingKept DEF NotFailing
    <2>2. CASE Abort(r)
      BY <1>0, <2>2 DEF Abort, TypeInv, TypeOK
    <2>3. CASE FailUpsert(r)
      <3>1. OwnSlot(r) /\ pc[r] = "failUpsert" /\ pc'[r] = "failRead" /\ User(r)' = User(r)
        BY <2>3 DEF FailUpsert, OwnSlot, Goto, User, TypeInv, TypeOK, Request
      <3>2. CASE u = User(r)
        BY <3>1, <3>2
      <3>3. CASE u # User(r)
        <4>1. lockouts'[u] = lockouts[u]
          BY <2>3, <3>3 DEF FailUpsert, CountFailure, TypeInv, TypeOK
        <4>2. PICK w \in Requests : Placing(w, u)
          BY <1>0, <2>0, <2>3, <4>1 DEF LockNotMissed
        <4> QED
          BY <3>1, <4>1, <4>2, PlacingKept
      <3> QED
        BY <3>2, <3>3
    <2>4. CASE FailRead(r)
      <3>1. OwnSlot(r) /\ pc[r] = "failRead" /\ UNCHANGED lockouts
        BY <2>4 DEF FailRead, OwnSlot, Done, Goto, tables, TypeInv, TypeOK
      <3>2. PICK w \in Requests : Placing(w, u)
        BY <1>0, <2>0, <2>4, <3>1 DEF LockNotMissed
      <3>3. CASE w # r
        BY <3>1, <3>2, <3>3, PlacingKept
      <3>4. CASE w = r
        <4>1. User(r) = u /\ lockouts[u] # Nil /\ lockouts[u].failures >= Threshold
          BY <1>0, <3>1, <3>2, <3>4, PolicyAssumption
        <4>2. /\ pc'[r] = "failLock"
              /\ req'[r] = [req[r] EXCEPT !.seen = lockouts[u].lockouts]
          BY <2>4, <4>1, PolicyAssumption DEF FailRead, Goto, Done, TypeInv, TypeOK, LockRow
        <4> QED
          BY <3>1, <4>1, <4>2 DEF User, TypeInv, TypeOK, Request
      <3> QED
        BY <3>3, <3>4
    <2>5. CASE FailLock(r)
      <3>1. OwnSlot(r) /\ pc[r] = "failLock" /\ User(r) \in Users
        BY <2>5 DEF FailLock, OwnSlot, Done, Goto, TypeInv, TypeOK, ReqOK
      <3>2. lockouts'[u] = lockouts[u]
        BY <1>0, <2>5, <3>1, PolicyAssumption DEF FailLock, PlaceLock, TypeInv, TypeOK
      <3>3. PICK w \in Requests : Placing(w, u)
        BY <1>0, <2>0, <2>5, <3>2 DEF LockNotMissed
      <3>4. w # r
        <4>1. SUFFICES ASSUME w = r PROVE FALSE
          OBVIOUS
        <4>2. u = User(r) /\ LocksNow(u, req[r].seen)
          BY <1>0, <3>1, <3>2, <3>3, <4>1, PolicyAssumption DEF LocksNow
        <4>3. lockouts'[u].failures = 0 /\ lockouts'[u] # Nil
          BY <2>5, <3>1, <4>2, <3>2 DEF FailLock, PlaceLock, LocksNow, TypeInv, TypeOK
        <4> QED
          BY <1>0, <4>3, PolicyAssumption
      <3> QED
        BY <3>1, <3>2, <3>3, <3>4, PlacingKept
    <2>6. CASE ResetFailures(r)
      <3>1. OwnSlot(r) /\ pc[r] = "reset" /\ User(r) \in Users
        BY <2>6 DEF ResetFailures, Proceed, OwnSlot, Done, Goto, TypeInv, TypeOK, ReqOK
      <3>2. lockouts'[u] = lockouts[u]
        BY <1>0, <2>6, <3>1, PolicyAssumption DEF ResetFailures, Reset, TypeInv, TypeOK
      <3>3. PICK w \in Requests : Placing(w, u)
        BY <1>0, <2>0, <2>6, <3>2 DEF LockNotMissed
      <3> QED
        BY <3>1, <3>2, <3>3, PlacingKept
    <2> QED
      BY <1>2, <2>1, <2>2, <2>3, <2>4, <2>5, <2>6, OtherSteps
  <1> QED
    BY <1>1, <1>2 DEF Next

\* As long as no store call fails, an account at the threshold has a request
\* about to lock it, whatever the number of requests and of accounts: no reset,
\* failure or lock of another request makes the conditional UPDATE of Fail miss.
THEOREM LockNotMissedCorrect == Spec => []LockNotMissed
  <1>1. Init => LockNotMissed
    BY PolicyAssumption DEF Init, LockNotMissed, Failures
  <1>2. TypeInv /\ LockNotMissed /\ [Next]_vars => LockNotMissed'
    BY LockNotMissedStep
  <1> QED
    BY <1>1, <1>2, InitTypeInv, TypeInductive, PTL DEF Spec

--------------------------------------------------------------------------------
(* Counting requests: a step moves one, so a count changes by one at most. *)

\* Two sets that differ by one element at most.
LEMMA OneMoves ==
  ASSUME NEW S, NEW T, NEW r, IsFiniteSet(S), T \ {r} = S \ {r}
  PROVE  /\ IsFiniteSet(T)
         /\ Cardinality(S) \in Nat /\ Cardinality(T) \in Nat
         /\ r \in S /\ r \notin T => Cardinality(T) = Cardinality(S) - 1
         /\ r \notin S /\ r \in T => Cardinality(T) = Cardinality(S) + 1
         /\ (r \in S <=> r \in T) => Cardinality(T) = Cardinality(S)
         /\ r \in S => Cardinality(S) >= 1
         /\ r \in T => Cardinality(T) >= 1
  <1> DEFINE R == S \ {r}
  <1>1. /\ IsFiniteSet(R)
        /\ Cardinality(R) = IF r \in S THEN Cardinality(S) - 1 ELSE Cardinality(S)
    BY FS_RemoveElement
  <1>2. /\ IsFiniteSet(R \cup {r})
        /\ Cardinality(R \cup {r}) = IF r \in R THEN Cardinality(R) ELSE Cardinality(R) + 1
    BY <1>1, FS_AddElement
  <1>3. r \notin R /\ T = IF r \in T THEN R \cup {r} ELSE R
    OBVIOUS
  <1>4. Cardinality(S) \in Nat /\ Cardinality(R) \in Nat
    BY <1>1, FS_CardinalityType
  <1> HIDE DEF R
  <1>5. CASE r \in T
    <2>1. T = R \cup {r}
      BY <1>3, <1>5
    <2> QED
      BY <1>1, <1>2, <1>3, <1>4, <1>5, <2>1
  <1>6. CASE r \notin T
    <2>1. T = R
      BY <1>3, <1>6
    <2> QED
      BY <1>1, <1>4, <1>6, <2>1
  <1> QED
    BY <1>5, <1>6

\* The sets of requests that are counted change by the request that moves.
LEMMA StepIsOwn ==
  ASSUME TypeInv, NEW r \in Requests,
         Arrive(r) \/ Step(r) \/ Abort(r) \/ IgnoredError(r)
  PROVE  OwnSlot(r)
  <1>1. Abort(r) \/ FailUpsert(r) \/ FailRead(r) \/ FailLock(r) \/ ResetFailures(r) => OwnSlot(r)
    BY DEF Abort, FailUpsert, FailRead, FailLock, ResetFailures, Proceed, Done, Goto, OwnSlot,
           TypeInv, TypeOK
  <1> QED
    BY <1>1, OtherSteps DEF NotFailing

\* What every request brings when it arrives.
LEMMA ReceiveBrings ==
  ASSUME TypeInv, NEW r \in Requests, NEW op \in Ops, NEW call \in Calls, NEW q \in Request,
         Receive(r, op, call, q)
  PROVE  /\ OwnSlot(r) /\ pc[r] = "idle" /\ pc'[r] = call /\ op \in Serves[r]
         /\ req'[r].op = op /\ req'[r].tok = q.tok
         /\ req'[r].secret = q.secret /\ req'[r].cred = q.cred
         /\ req'[r].sess = q.sess /\ req'[r].purpose = q.purpose
         /\ UNCHANGED <<now, tables, drawn, faults, history>>
  BY DEF Receive, Goto, OwnSlot, TypeInv, TypeOK, Request

\* A request starts with a statement before the lock check, or with that check, and
\* only VerifyPOST names a challenge of its own: one that has been drawn.  A login
\* brings no code, the others one that a user can submit, of the authenticator where
\* the handler takes no other.  EnablePOST has a session.
LEMMA ArriveBrings ==
  ASSUME TypeInv, NEW r \in Requests, Arrive(r)
  PROVE  /\ OwnSlot(r) /\ pc[r] = "idle"
         /\ pc'[r] \in {"enabled", "loadChallenge", "enableGet", "disableGet", "lockedUntil"}
         /\ req'[r].op \in Serves[r] /\ req'[r].op \in Ops /\ req'[r].secret = Nil
         /\ req'[r].op = "verify" =>
               req'[r].tok \in ChTokens \cap drawn /\ pc'[r] = "loadChallenge"
         /\ req'[r].op = "login" => req'[r].cred = NoCred
         /\ req'[r].cred \in TotpCodes \cup RecoveryCodes \cup {NoCred}
         /\ req'[r].op \in {"enable", "regenerate"} => req'[r].cred.kind = "totp"
         /\ req'[r].op = "enable" =>
               /\ pc'[r] = "enableGet"
               /\ req'[r].sess \in SessTokens /\ sess[req'[r].sess] # Nil
               /\ req'[r].purpose = sess[req'[r].sess].purpose
         /\ UNCHANGED <<now, tables, drawn, faults, history>>
  <1>0. TotpCodes \cup RecoveryCodes \subseteq Cred /\ NoRequest \in Request
    BY CodesType DEF NoRequest, Request, NoCred, Cred, Ops
  <1> DEFINE Brings(op, call) ==
        /\ OwnSlot(r) /\ pc[r] = "idle" /\ pc'[r] = call
        /\ op \in Serves[r] /\ req'[r].op = op /\ req'[r].secret = Nil
        /\ req'[r].cred \in TotpCodes \cup RecoveryCodes \cup {NoCred}
        /\ UNCHANGED <<now, tables, drawn, faults, history>>
  <1>1. ASSUME NEW u \in Users, LoginPOST(r, u)
        PROVE  Brings("login", "enabled") /\ req'[r].cred = NoCred
    <2> DEFINE q == [NoRequest EXCEPT !.user = u]
    <2>1. q \in Request /\ q.secret = Nil /\ q.cred = NoCred
      BY <1>0 DEF Request, NoRequest
    <2>2. Receive(r, "login", "enabled", q)
      BY <1>1 DEF LoginPOST
    <2> HIDE DEF q
    <2> QED
      BY <2>1, <2>2, ReceiveBrings DEF Calls, Ops
  <1>2. ASSUME NEW tok \in ChTokens, VerifyGET(r, tok) PROVE Brings("verifyGet", "loadChallenge")
    <2> DEFINE q == [NoRequest EXCEPT !.tok = tok]
    <2>1. q \in Request /\ q.secret = Nil /\ q.cred = NoCred
      BY <1>0 DEF Request, NoRequest
    <2>2. Receive(r, "verifyGet", "loadChallenge", q)
      BY <1>2 DEF VerifyGET
    <2> HIDE DEF q
    <2> QED
      BY <2>1, <2>2, ReceiveBrings DEF Calls, Ops
  <1>3. ASSUME NEW tok \in ChTokens, NEW c \in TotpCodes \cup RecoveryCodes, VerifyPOST(r, tok, c)
        PROVE  Brings("verify", "loadChallenge") /\ req'[r].tok = tok /\ tok \in drawn
    <2> DEFINE q == [NoRequest EXCEPT !.tok = tok, !.cred = c]
    <2>1. q \in Request /\ q.tok = tok /\ q.secret = Nil /\ q.cred = c
      BY <1>0 DEF Request, NoRequest
    <2>2. Receive(r, "verify", "loadChallenge", q) /\ tok \in drawn
      BY <1>3 DEF VerifyPOST
    <2> HIDE DEF q
    <2> QED
      BY <2>1, <2>2, ReceiveBrings DEF Calls, Ops
  <1>4. ASSUME NEW s \in SessTokens, SetupGET(r, s) PROVE Brings("setup", "enabled")
    <2>1. /\ WithSession(s) \in Request /\ WithSession(s).secret = Nil
          /\ WithSession(s).cred = NoCred
      BY <1>4, SessionType DEF SetupGET, WithSession, NoRequest
    <2>2. Receive(r, "setup", "enabled", WithSession(s))
      BY <1>4 DEF SetupGET
    <2> QED
      BY <2>1, <2>2, ReceiveBrings DEF Calls, Ops
  <1>5. ASSUME NEW s \in SessTokens, NEW c \in TotpCodes \cup RecoveryCodes,
               EnablePOST(r, s, c) \/ DisablePOST(r, s, c) \/ RegenerateRecoveryPOST(r, s, c)
        PROVE  \/ /\ Brings("enable", "enableGet") /\ req'[r].sess = s
                  /\ sess[s] # Nil /\ req'[r].purpose = sess[s].purpose
                  /\ req'[r].cred.kind = "totp"
               \/ Brings("disable", "disableGet")
               \/ Brings("regenerate", "enabled") /\ req'[r].cred.kind = "totp"
    <2> DEFINE q == [WithSession(s) EXCEPT !.cred = c]
    <2>1. /\ q \in Request /\ q.secret = Nil /\ q.cred = c
          /\ q.sess = s /\ q.purpose = sess[s].purpose /\ sess[s] # Nil
      BY <1>0, <1>5, SessionType
      DEF EnablePOST, DisablePOST, RegenerateRecoveryPOST, WithSession, NoRequest
    <2> HIDE DEF q
    <2>2. \/ Receive(r, "enable", "enableGet", q) /\ c.kind = "totp"
          \/ Receive(r, "disable", "disableGet", q)
          \/ Receive(r, "regenerate", "enabled", q) /\ c.kind = "totp"
      BY <1>5 DEF EnablePOST, DisablePOST, RegenerateRecoveryPOST, TotpCodes, q
    <2> QED
      BY <2>1, <2>2, ReceiveBrings DEF Calls, Ops
  <1>6. ASSUME NEW u \in Users, NEW c \in TotpCodes \cup RecoveryCodes, Confirm(r, u, c)
        PROVE  Brings("confirm", "lockedUntil")
    <2> DEFINE q == [NoRequest EXCEPT !.user = u, !.cred = c]
    <2>1. q \in Request /\ q.secret = Nil /\ q.cred = c
      BY <1>0 DEF Request, NoRequest
    <2>2. Receive(r, "confirm", "lockedUntil", q)
      BY <1>6 DEF Confirm
    <2> HIDE DEF q
    <2> QED
      BY <2>1, <2>2, ReceiveBrings DEF Calls, Ops
  <1> QED
    BY <1>0, <1>1, <1>2, <1>3, <1>4, <1>5, <1>6 DEF Arrive, Ops

\* A slot runs an operation that it serves, only DisablePOST comes to delete a secret
\* and only SetupGET to write a new one.
ServedInv ==
    \A r \in Requests :
        /\ req[r].op \in Serves[r] \cup {"none"}
        /\ pc[r] = "deleteTotp" => req[r].op = "disable"
        /\ pc[r] = "provision" => req[r].op = "setup"

LEMMA ServedStep ==
  ASSUME TypeInv, ServedInv, [Next]_vars
  PROVE  ServedInv'
  <1> DEFINE Served(r) == /\ req'[r].op \in {req[r].op, "none"} \cup Serves[r]
                          /\ pc'[r] = "deleteTotp" => req'[r].op = "disable"
                          /\ pc'[r] = "provision" => req'[r].op = "setup"
  <1>1. ASSUME NEW r \in Requests, OwnSlot(r), Served(r)
        PROVE  ServedInv'
    BY <1>1 DEF ServedInv, OwnSlot
  <1>a. NoRequest.op = "none"
    BY DEF NoRequest
  <1>2. ASSUME NEW r \in Requests, Arrive(r) PROVE Served(r)
    BY <1>2, ArriveBrings
  <1> HIDE DEF Served
  <1>3. ASSUME NEW r \in Requests, Abort(r) \/ IgnoredError(r) PROVE Served(r)
    BY <1>3, <1>a
    DEF Abort, IgnoredError, EnabledAnswers, Done, Goto, Served, ServedInv, TypeInv, TypeOK
  <1>4. ASSUME NEW r \in Requests, Step(r) PROVE Served(r)
    <2> USE <1>a DEF Served, ServedInv, Done, Goto, TypeInv, TypeOK, Request
    <2>1. CASE ConsumeStep(r) \/ UseCode(r) \/ ResetFailures(r)
      <3>1. /\ AfterGrant(r) # "provision"
            /\ AfterGrant(r) = "deleteTotp" => req[r].op = "disable"
        BY DEF AfterGrant
      <3> QED
        BY <2>1, <3>1 DEF ConsumeStep, UseCode, ResetFailures, Granted, Rejected, Proceed
    <2>2. CASE ReadEnabled(r) \/ LoadChallenge(r) \/ DropChallenge(r) \/ ReadLock(r)
               \/ Create(r) \/ CountAttempt(r) \/ ConsumeGet(r)
      BY <2>2 DEF ReadEnabled, EnabledAnswers, LoadChallenge, DropChallenge, ReadLock,
                  AfterLockCheck, Check, Create, CountAttempt, ConsumeGet, Rejected
    <2>3. CASE FailUpsert(r) \/ FailRead(r) \/ EnableGet(r)
      BY <2>3 DEF FailUpsert, FailRead, EnableGet
    <2>4. CASE FailLock(r) \/ ClearChallenge(r) \/ OpenSession(r) \/ Provision(r) \/ Activate(r)
      BY <2>4 DEF FailLock, ClearChallenge, OpenSession, FinishEnable, Provision, Activate
    <2>5. CASE Elevate(r) \/ DisableGet(r) \/ RemoveTotp(r) \/ RemoveRecovery(r)
               \/ ReplaceDelete(r) \/ ReplaceCommit(r)
      BY <2>5 DEF Elevate, DisableGet, RemoveTotp, RemoveRecovery, ReplaceDelete, ReplaceCommit
    <2> QED
      BY <1>4, <2>1, <2>2, <2>3, <2>4, <2>5 DEF Step
  <1>5. CASE Tick \/ Purge \/ UNCHANGED vars
    BY <1>5 DEF Tick, Purge, vars, ServedInv
  <1>6. ASSUME NEW r \in Requests, Arrive(r) \/ Step(r) \/ Abort(r) \/ IgnoredError(r)
        PROVE  ServedInv'
    BY <1>1, <1>2, <1>3, <1>4, <1>6, StepIsOwn
  <1> QED
    BY <1>5, <1>6 DEF Next

LEMMA InitServed == Init => ServedInv
  BY DEF Init, ServedInv, NoRequest

\* The step deletes the secret of u.
Removes(u) == totp[u] # Nil /\ totp'[u] = Nil

\* Only a DisablePOST of the account does.
LEMMA RemovedByDisable ==
  ASSUME TypeInv, ServedInv, [Next]_vars, NEW u \in Users, Removes(u)
  PROVE  \E r \in Requests :
            /\ RemoveTotp(r) /\ User(r) = u
            /\ req[r].op = "disable" /\ "disable" \in Serves[r]
  <1>1. PICK r \in Requests : Arrive(r) \/ Step(r) \/ Abort(r) \/ IgnoredError(r)
    BY DEF Next, Tick, Purge, vars, tables, Removes
  <1>2. totp' # totp
    BY DEF Removes
  <1>3. ~Arrive(r) /\ ~Abort(r) /\ ~IgnoredError(r)
    BY <1>2, ArriveBrings DEF Abort, IgnoredError, EnabledAnswers, tables
  <1>4. ConsumeStep(r) \/ Provision(r) \/ Activate(r) \/ RemoveTotp(r)
    BY <1>1, <1>2, <1>3
    DEF Step, ReadEnabled, EnabledAnswers, LoadChallenge, DropChallenge, ReadLock, Create,
        CountAttempt, ConsumeGet, UseCode, FailUpsert, FailRead, FailLock, ResetFailures,
        ClearChallenge, OpenSession, EnableGet, Elevate, DisableGet, RemoveRecovery,
        ReplaceDelete, ReplaceCommit, tables
  <1>5. User(r) \in Users
    BY <1>4 DEF ConsumeStep, Provision, Activate, RemoveTotp, TypeInv, ReqOK
  <1>6. ~ConsumeStep(r)
    BY <1>2, <1>5, RequestFacts, StoreAssumption
    DEF ConsumeStep, Advances, SetLastStep, Removes, TypeInv, TypeOK, TotpRow
  <1>7. ASSUME NEW k \in Secrets, NEW on \in BOOLEAN, SetTotp(User(r), k, on)
        PROVE  FALSE
    BY <1>5, <1>7, StoreAssumption DEF SetTotp, Removes, TypeInv, TypeOK, TotpRow
  <1>8. ~Provision(r) /\ ~Activate(r)
    BY <1>2, <1>7 DEF Provision, Fresh, Activate, TypeInv, ReqOK
  <1>9. RemoveTotp(r) /\ pc[r] = "deleteTotp" /\ User(r) = u
    BY <1>4, <1>5, <1>6, <1>8 DEF RemoveTotp, DeleteTotp, Removes, TypeInv, TypeOK
  <1> QED
    BY <1>9 DEF ServedInv

--------------------------------------------------------------------------------
(* The lock. *)

\* The requests of u that will place its lock if it is at the threshold.
PlacingSet(u) == {r \in Requests : Placing(r, u)}

\* Only these let an account at the threshold count more wrong codes.
DelayInv == \A u \in Users : Failures(u) < Threshold + faults + Cardinality(PlacingSet(u))

LEMMA DelayStep ==
  ASSUME IsFiniteSet(Requests), TypeInv, DelayInv, [Next]_vars
  PROVE  DelayInv'
  <1>0. \A u : IsFiniteSet(PlacingSet(u)) /\ Cardinality(PlacingSet(u)) \in Nat
    BY FS_Subset, FS_CardinalityType DEF PlacingSet
  <1>a. \A u : Cardinality(PlacingSet(u)') \in Nat
    BY FS_Subset, FS_CardinalityType DEF PlacingSet
  <1>b. /\ faults \in Nat /\ faults' \in Nat /\ Threshold \in Nat \ {0}
        /\ \A u \in Users : lockouts[u] \in LockRow \cup {Nil} /\ Failures(u) \in Nat
    BY TypeInductive, PolicyAssumption, MfaxAssumption DEF TypeInv, TypeOK, LockRow, Failures
  <1> SUFFICES ASSUME NEW u \in Users
               PROVE  Failures(u)' < Threshold + faults' + Cardinality(PlacingSet(u)')
    BY DEF DelayInv
  <1>c. Failures(u) < Threshold + faults + Cardinality(PlacingSet(u))
    BY DEF DelayInv
  <1>d. Failures(u)' < Threshold =>
           Failures(u)' < Threshold + faults' + Cardinality(PlacingSet(u)')
    <2>1. Failures(u)' \in Nat
      BY TypeInductive DEF TypeInv, TypeOK, LockRow, Failures
    <2> QED
      BY <1>a, <1>b, <2>1
  <1>1. CASE Tick \/ Purge \/ UNCHANGED vars
    <2>1. UNCHANGED <<lockouts, pc, req, faults>>
      BY <1>1 DEF Tick, Purge, vars, tables, history
    <2>2. PlacingSet(u)' = PlacingSet(u) /\ Failures(u)' = Failures(u)
      BY <2>1 DEF PlacingSet, Placing, User, Failures
    <2> QED
      BY <1>c, <2>1, <2>2
  <1>2. ASSUME NEW r \in Requests, Arrive(r) \/ Step(r) \/ Abort(r) \/ IgnoredError(r)
        PROVE  Failures(u)' < Threshold + faults' + Cardinality(PlacingSet(u)')
    <2>0. OwnSlot(r)
      BY <1>2, StepIsOwn
    <2>a. ASSUME lockouts'[u].lockouts = lockouts[u].lockouts
          PROVE  PlacingSet(u)' \ {r} = PlacingSet(u) \ {r}
      BY <2>0, <2>a DEF OwnSlot, PlacingSet, Placing, User
    <2>1. CASE NotFailing(r) \/ Abort(r)
      <3>1. lockouts' = lockouts
        BY <2>1 DEF NotFailing, Abort, tables
      <3>2. /\ PlacingSet(u)' \ {r} = PlacingSet(u) \ {r}
            /\ Failures(u)' = Failures(u)
        BY <2>a, <3>1 DEF Failures
      <3>3. r \in PlacingSet(u) => faults' = faults + 1
        BY <2>1 DEF NotFailing, Abort, PlacingSet, Placing
      <3>4. faults' \in {faults, faults + 1}
        BY <2>1 DEF NotFailing, Abort
      <3> QED
        BY <1>0, <1>b, <1>c, <3>2, <3>3, <3>4, OneMoves
    <2>2. CASE FailUpsert(r)
      <3>1. /\ pc[r] = "failUpsert" /\ pc'[r] = "failRead" /\ User(r)' = User(r)
            /\ faults' = faults /\ lockouts' = [lockouts EXCEPT ![User(r)] = Counted(lockouts[User(r)])]
        BY <2>2 DEF FailUpsert, Goto, CountFailure, User, TypeInv, TypeOK, Request
      <3>2. CASE u = User(r)
        <4>1. r \notin PlacingSet(u) /\ r \in PlacingSet(u)'
          BY <3>1, <3>2 DEF PlacingSet, Placing
        <4>2. /\ \/ Failures(u)' = 1 \/ Failures(u)' = Failures(u) + 1
              /\ lockouts[u] # Nil => lockouts'[u].lockouts = lockouts[u].lockouts
          <5>1. lockouts'[u] = Counted(lockouts[u])
            BY <3>1, <3>2 DEF TypeInv, TypeOK
          <5> QED
            BY <1>b, <5>1, CountedType, StoreAssumption DEF Failures, TypeInv, TypeOK
        <4>3. CASE Failures(u)' = 1
          <5>1. Cardinality(PlacingSet(u)') >= 1
            <6>1. IsFiniteSet(PlacingSet(u)')
              BY FS_Subset DEF PlacingSet
            <6> QED
              BY <1>a, <4>1, <6>1, FS_EmptySet
          <5> QED
            BY <1>a, <1>b, <4>3, <5>1
        <4>4. CASE Failures(u)' = Failures(u) + 1 /\ lockouts[u] # Nil
          <5>1. Cardinality(PlacingSet(u)') = Cardinality(PlacingSet(u)) + 1
            BY <1>0, <2>a, <4>1, <4>2, <4>4, OneMoves
          <5> QED
            BY <1>0, <1>b, <1>c, <3>1, <4>4, <5>1
        <4>5. CASE lockouts[u] = Nil /\ Failures(u)' = Failures(u) + 1
          BY <1>b, <4>3, <4>5 DEF Failures
        <4> QED
          BY <4>2, <4>3, <4>4, <4>5
      <3>3. CASE u # User(r)
        <4>1. lockouts'[u] = lockouts[u]
          BY <3>1, <3>3 DEF TypeInv, TypeOK
        <4>2. r \notin PlacingSet(u) /\ r \notin PlacingSet(u)' /\ Failures(u)' = Failures(u)
          BY <3>1, <3>3, <4>1 DEF PlacingSet, Placing, Failures
        <4> QED
          BY <1>0, <1>c, <2>a, <3>1, <4>1, <4>2, OneMoves
      <3> QED
        BY <3>2, <3>3
    <2>3. CASE FailRead(r)
      <3>1. lockouts' = lockouts /\ faults' = faults /\ pc[r] = "failRead" /\ Failures(u)' = Failures(u)
        BY <2>3 DEF FailRead, tables, Failures
      <3>2. CASE r \in PlacingSet(u) /\ Failures(u) >= Threshold
        <4>1. User(r) = u /\ lockouts[u] # Nil /\ lockouts[u].failures >= Threshold
          BY <1>b, <3>2 DEF PlacingSet, Placing, Failures
        <4>2. /\ pc'[r] = "failLock"
              /\ req'[r] = [req[r] EXCEPT !.seen = lockouts[u].lockouts]
          BY <1>b, <2>3, <4>1 DEF FailRead, Goto, Done, TypeInv, TypeOK, LockRow
        <4>3. r \in PlacingSet(u)'
          BY <3>1, <4>1, <4>2 DEF PlacingSet, Placing, User, TypeInv, TypeOK, Request
        <4> QED
          BY <1>0, <1>c, <2>a, <3>1, <3>2, <4>3, OneMoves
      <3>3. CASE r \notin PlacingSet(u)
        <4>1. PlacingSet(u)' \ {r} = PlacingSet(u) \ {r}
          BY <2>a, <3>1
        <4>2. Cardinality(PlacingSet(u)') >= Cardinality(PlacingSet(u))
          BY <1>0, <3>3, <4>1, OneMoves
        <4> QED
          BY <1>0, <1>a, <1>b, <1>c, <3>1, <4>2
      <3>4. CASE Failures(u) < Threshold
        BY <1>d, <3>1, <3>4
      <3> QED
        BY <1>b, <3>2, <3>3, <3>4
    <2>4. CASE FailLock(r)
      <3>0. pc[r] = "failLock" /\ faults' = faults /\ User(r) \in Users
        BY <2>4 DEF FailLock, TypeInv, ReqOK
      <3>1. CASE PlaceLock(User(r), req[r].at, req[r].seen) /\ LocksNow(User(r), req[r].seen)
        <4>1. CASE u = User(r)
          <5>1. Failures(u)' = 0
            BY <3>1, <4>1 DEF PlaceLock, Failures, TypeInv, TypeOK
          <5> QED
            BY <1>b, <1>d, <5>1
        <4>2. CASE u # User(r)
          <5>1. lockouts'[u] = lockouts[u] /\ r \notin PlacingSet(u) /\ Failures(u)' = Failures(u)
            BY <3>1, <4>2 DEF PlaceLock, PlacingSet, Placing, Failures, TypeInv, TypeOK
          <5> QED
            BY <1>0, <1>b, <1>c, <2>a, <3>0, <5>1, OneMoves
        <4> QED
          BY <4>1, <4>2
      <3>2. CASE ~LocksNow(User(r), req[r].seen) /\ UNCHANGED lockouts
        <4>1. Failures(u)' = Failures(u)
          BY <3>2 DEF Failures
        <4>2. r \in PlacingSet(u) => Failures(u) < Threshold
          BY <1>b, <3>0, <3>2 DEF PlacingSet, Placing, LocksNow, Failures, LockRow
        <4>3. CASE r \notin PlacingSet(u)
          BY <1>0, <1>b, <1>c, <2>a, <3>0, <3>2, <4>1, <4>3, OneMoves
        <4> QED
          BY <1>d, <4>1, <4>2, <4>3
      <3> QED
        BY <2>4, <3>1, <3>2 DEF FailLock
    <2>5. CASE ResetFailures(r)
      <3>0. /\ pc[r] = "reset" /\ faults' = faults /\ User(r) \in Users
            /\ lockouts' = [lockouts EXCEPT ![User(r)] = Nil]
        BY <2>5 DEF ResetFailures, Reset, TypeInv, ReqOK
      <3>1. CASE u = User(r)
        <4>1. Failures(u)' = 0
          BY <3>0, <3>1 DEF Failures, TypeInv, TypeOK
        <4> QED
          BY <1>b, <1>d, <4>1
      <3>2. CASE u # User(r)
        <4>1. lockouts'[u] = lockouts[u] /\ r \notin PlacingSet(u) /\ Failures(u)' = Failures(u)
          BY <3>0, <3>2 DEF PlacingSet, Placing, Failures, TypeInv, TypeOK
        <4> QED
          BY <1>0, <1>b, <1>c, <2>a, <3>0, <4>1, OneMoves
      <3> QED
        BY <3>1, <3>2
    <2> QED
      BY <1>2, <2>1, <2>2, <2>3, <2>4, <2>5, OtherSteps
  <1> QED
    BY <1>1, <1>2 DEF Next

\* Whatever the number of concurrent wrong codes and wherever their Fail is cut
\* short, an account passes the threshold by no more than the failed calls and the
\* requests that are still in Fail: the next wrong code places the lock.
THEOREM LockDelayCorrect ==
  ASSUME IsFiniteSet(Requests)
  PROVE  Spec => []LockDelayBounded
  <1>1. Init => DelayInv
    <2> SUFFICES ASSUME Init, NEW u \in Users
                 PROVE  Failures(u) < Threshold + faults + Cardinality(PlacingSet(u))
      BY DEF DelayInv
    <2>1. Cardinality(PlacingSet(u)) \in Nat
      BY FS_Subset, FS_CardinalityType DEF PlacingSet
    <2> QED
      BY <2>1, PolicyAssumption DEF Init, Failures
  <1>2. TypeInv /\ DelayInv /\ [Next]_vars => DelayInv'
    BY DelayStep
  <1>3. TypeInv /\ DelayInv => LockDelayBounded
    <2> SUFFICES ASSUME TypeInv, DelayInv, NEW u \in Users
                 PROVE  Failures(u) < Threshold + faults + Cardinality(Failing(u))
      BY DEF LockDelayBounded
    <2>1. /\ PlacingSet(u) \subseteq Failing(u) /\ IsFiniteSet(Failing(u))
          /\ Cardinality(Failing(u)) \in Nat /\ Cardinality(PlacingSet(u)) \in Nat
      BY FS_Subset, FS_CardinalityType DEF PlacingSet, Placing, Failing
    <2>2. Cardinality(PlacingSet(u)) <= Cardinality(Failing(u))
      BY <2>1, FS_Subset
    <2>3. Failures(u) \in Nat /\ faults \in Nat /\ Threshold \in Nat
      BY PolicyAssumption, MfaxAssumption DEF TypeInv, TypeOK, LockRow, Failures
    <2> QED
      BY <2>1, <2>2, <2>3 DEF DelayInv
  <1> QED
    BY <1>1, <1>2, <1>3, InitTypeInv, TypeInductive, PTL DEF Spec

--------------------------------------------------------------------------------
(* The examinations. *)

\* The calls of a handler that has passed the lock and not examined its code yet.
Looking == {"incrAttempts", "consumeGet", "use"}

\* r examines no code, is not about to examine one and creates no challenge.
Elsewhere(r) ==
    /\ OwnSlot(r)
    /\ pc'[r] \notin Looking
    /\ UNCHANGED examined
    /\ FailLock(r) \/ UNCHANGED underLock
    /\ \A tok \in ChTokens : chs'[tok] \in {chs[tok], Nil}
    /\ drawn \subseteq drawn'
    /\ req'[r].op = "verify" =>
          \/ req[r].op = "verify" /\ req'[r].tok = req[r].tok
          \/ req'[r].tok \in ChTokens \cap drawn

\* Only the lock check, the attempt counter and the examinations bring a request
\* to a code, and only Begin creates a challenge.
LEMMA ExamSteps ==
  ASSUME TypeInv, NEW r \in Requests,
         Arrive(r) \/ Step(r) \/ Abort(r) \/ IgnoredError(r)
  PROVE  \/ Elsewhere(r) \/ Create(r) \/ ReadLock(r)
         \/ CountAttempt(r) \/ ConsumeGet(r) \/ UseCode(r)
  <1> USE DEF Elsewhere, Looking, OwnSlot, Done, Goto, tables, history, TypeInv, TypeOK,
              NoRequest, Request
  <1>1. CASE Arrive(r)
    BY <1>1, ArriveBrings
  <1>2. CASE IgnoredError(r) \/ Abort(r)
    BY <1>2 DEF IgnoredError, EnabledAnswers, Abort
  <1>3. CASE ReadEnabled(r)
    BY <1>3 DEF ReadEnabled, EnabledAnswers
  <1>4. CASE LoadChallenge(r) \/ DropChallenge(r)
    BY <1>4 DEF LoadChallenge, DropChallenge, DeleteChallenge
  <1>5. CASE ConsumeStep(r)
    <2>1. \/ Done(r)
          \/ UNCHANGED req /\ (Goto(r, "failUpsert") \/ Goto(r, "reset") \/ Goto(r, AfterGrant(r)))
      BY <1>5 DEF ConsumeStep, Granted, Rejected, Proceed
    <2>2. AfterGrant(r) \notin Looking
      BY DEF AfterGrant
    <2> QED
      BY <1>5, <2>1, <2>2 DEF ConsumeStep
  <1>6. CASE FailUpsert(r) \/ FailRead(r) \/ FailLock(r)
    BY <1>6 DEF FailUpsert, FailRead, FailLock
  <1>a. CASE ResetFailures(r)
    <2>1. AfterGrant(r) \notin Looking
      BY DEF AfterGrant
    <2> QED
      BY <1>a, <2>1 DEF ResetFailures, Proceed
  <1>7. CASE ClearChallenge(r) \/ Elevate(r)
    BY <1>7 DEF ClearChallenge, DeleteChallenge, Elevate
  <1>b. CASE OpenSession(r) \/ Activate(r) \/ Provision(r)
    <2>1. \/ Done(r)
          \/ UNCHANGED req /\ (Goto(r, "replaceDelete") \/ Goto(r, "elevate"))
      BY <1>b DEF OpenSession, Activate, FinishEnable, Provision
    <2>2. UNCHANGED <<examined, underLock, chs>> /\ drawn \subseteq drawn'
      BY <1>b DEF OpenSession, Activate, Provision
    <2> QED
      BY <2>1, <2>2
  <1>8. CASE EnableGet(r)
    BY <1>8 DEF EnableGet
  <1>9. CASE DisableGet(r) \/ RemoveTotp(r) \/ RemoveRecovery(r)
    BY <1>9 DEF DisableGet, RemoveTotp, RemoveRecovery
  <1>10. CASE ReplaceDelete(r) \/ ReplaceCommit(r)
    BY <1>10 DEF ReplaceDelete, ReplaceCommit
  <1> QED
    BY <1>1, <1>2, <1>3, <1>4, <1>5, <1>6, <1>7, <1>8, <1>9, <1>10, <1>a, <1>b DEF Step

--------------------------------------------------------------------------------
(* Under a lock. *)

\* A lock that is in force was so before the step, unless the step places it.
LEMMA LockedKept ==
  ASSUME TypeInv, [Next]_vars, NEW u \in Users, Locked(u)',
         \A r \in Requests : ~(FailLock(r) /\ User(r) = u)
  PROVE  Locked(u)
  <1>0. /\ now \in Nat /\ now' \in Nat /\ now' >= now
        /\ lockouts[u] \in LockRow \cup {Nil} /\ lockouts'[u] \in LockRow /\ lockouts'[u].until > now'
        /\ lockouts'[u].until \in Nat
    <2>1. TypeInv'
      BY TypeInductive
    <2>2. now' >= now
      <3>1. ASSUME NEW r \in Requests, Arrive(r) \/ Step(r) \/ Abort(r) \/ IgnoredError(r)
            PROVE  now' = now
        BY <3>1 DEF Arrive, LoginPOST, VerifyGET, VerifyPOST, SetupGET, EnablePOST,
             DisablePOST, RegenerateRecoveryPOST, Confirm, Receive, Step, Abort, IgnoredError,
             ReadEnabled, EnabledAnswers, LoadChallenge, DropChallenge, ReadLock, Create,
             CountAttempt, ConsumeGet, ConsumeStep, UseCode, FailUpsert, FailRead, FailLock,
             ResetFailures, ClearChallenge, OpenSession, Provision, EnableGet, Activate,
             Elevate, DisableGet, RemoveTotp, RemoveRecovery, ReplaceDelete, ReplaceCommit
      <3> QED
        BY <3>1 DEF Next, Tick, Purge, vars, TypeInv, TypeOK
    <2> QED
      BY <2>1, <2>2 DEF Locked, TypeInv, TypeOK, LockRow
  <1>1. CASE lockouts'[u] = lockouts[u]
    BY <1>0, <1>1 DEF Locked, LockRow
  <1>2. CASE lockouts'[u] # lockouts[u]
    <2>1. PICK r \in Requests : Arrive(r) \/ Step(r) \/ Abort(r) \/ IgnoredError(r)
      BY <1>2 DEF Next, Tick, Purge, vars, tables
    <2>2. FailUpsert(r) \/ FailLock(r) \/ ResetFailures(r)
      BY <1>2, <2>1, OtherSteps DEF NotFailing, Abort, FailRead, tables
    <2>3. u = User(r)
      BY <1>2, <2>2 DEF FailUpsert, FailLock, ResetFailures, CountFailure, PlaceLock, Reset,
                        TypeInv, TypeOK
    <2>4. ~ResetFailures(r)
      BY <1>0, <2>3, StoreAssumption DEF ResetFailures, Reset, TypeInv, TypeOK
    <2>5. lockouts'[u] = Counted(lockouts[u])
      BY <2>2, <2>3, <2>4 DEF FailUpsert, CountFailure, TypeInv, TypeOK
    <2>6. lockouts[u] # Nil /\ lockouts'[u].until = lockouts[u].until
      BY <1>0, <2>5 DEF Counted, LockRow
    <2> QED
      BY <1>0, <2>6 DEF Locked, LockRow
  <1> QED
    BY <1>1, <1>2

\* The requests of u that may still examine a code without another look at the lock.
Past(u) == {r \in Requests : User(r) = u /\ pc[r] \in Looking}

\* While a lock is in force its requests past the check only get fewer, and each
\* examines one code.
UnderInv ==
    /\ \A u \in Users :
          /\ lockouts[u] # Nil => LockoutOn
          /\ underLock[u] < Cardinality(Requests)
          /\ Locked(u) => underLock[u] + Cardinality(Past(u)) < Cardinality(Requests)
    /\ \A r \in Requests : pc[r] \in {"failUpsert", "failRead", "failLock"} => LockoutOn

\* At most one request moves past the lock, or leaves.
LEMMA PastStep ==
  ASSUME IsFiniteSet(Requests), NEW r \in Requests, OwnSlot(r), NEW u
  PROVE  /\ IsFiniteSet(Past(u)) /\ Past(u)' \ {r} = Past(u) \ {r}
         /\ Cardinality(Past(u)) \in Nat /\ Cardinality(Past(u)') \in Nat
  <1>1. Past(u)' \ {r} = Past(u) \ {r}
    BY DEF OwnSlot, Past, User
  <1>2. IsFiniteSet(Past(u)) /\ IsFiniteSet(Past(u)')
    BY FS_Subset DEF Past
  <1> QED
    BY <1>1, <1>2, FS_CardinalityType

\* Where the lock is off, nobody counts wrong codes.
LEMMA LockOffStep ==
  ASSUME TypeInv, UnderInv, [Next]_vars
  PROVE  /\ \A u \in Users : lockouts'[u] # Nil => LockoutOn
         /\ \A r \in Requests : pc'[r] \in {"failUpsert", "failRead", "failLock"} => LockoutOn
  <1>1. CASE Tick \/ Purge \/ UNCHANGED vars
    BY <1>1 DEF Tick, Purge, vars, tables, UnderInv
  <1>2. ASSUME NEW r \in Requests, Arrive(r) \/ Step(r) \/ Abort(r) \/ IgnoredError(r), ~LockoutOn
        PROVE  /\ lockouts' = lockouts \/ ResetFailures(r)
               /\ pc'[r] \notin {"failUpsert", "failRead", "failLock"}
    <2>1. pc[r] \notin {"failUpsert", "failRead", "failLock"}
      BY <1>2 DEF UnderInv
    <2>2. lockouts' = lockouts \/ ResetFailures(r)
      BY <1>2, <2>1, OtherSteps
      DEF NotFailing, Abort, FailUpsert, FailRead, FailLock, tables
    <2>3. CASE pc'[r] \in {"failUpsert", "failRead", "failLock"}
      <3> USE DEF Done, Goto, TypeInv, TypeOK
      <3>1. ~Arrive(r)
        BY <2>3, ArriveBrings
      <3>2. ~(IgnoredError(r) \/ Abort(r) \/ ReadEnabled(r) \/ LoadChallenge(r) \/ DropChallenge(r))
        BY <2>3 DEF IgnoredError, EnabledAnswers, Abort, ReadEnabled, LoadChallenge, DropChallenge
      <3>3. ~(ReadLock(r) \/ Create(r) \/ CountAttempt(r))
        BY <2>3 DEF ReadLock, AfterLockCheck, Check, Create, CountAttempt
      <3>4. ~(ConsumeGet(r) \/ ConsumeStep(r) \/ UseCode(r) \/ ResetFailures(r))
        <4>1. AfterGrant(r) \notin {"failUpsert", "failRead", "failLock"}
          BY DEF AfterGrant
        <4> QED
          BY <1>2, <2>3, <4>1
          DEF ConsumeGet, ConsumeStep, UseCode, Granted, Rejected, Proceed, ResetFailures
      <3>5. ~(FailUpsert(r) \/ FailRead(r) \/ FailLock(r))
        BY <2>1 DEF FailUpsert, FailRead, FailLock
      <3>6. ~(ClearChallenge(r) \/ OpenSession(r) \/ Provision(r) \/ EnableGet(r))
        BY <2>3 DEF ClearChallenge, OpenSession, FinishEnable, Provision, EnableGet
      <3>7. ~(Activate(r) \/ Elevate(r) \/ DisableGet(r) \/ RemoveTotp(r) \/ RemoveRecovery(r)
              \/ ReplaceDelete(r) \/ ReplaceCommit(r))
        BY <2>3 DEF Activate, FinishEnable, Elevate, DisableGet, RemoveTotp, RemoveRecovery,
                    ReplaceDelete, ReplaceCommit
      <3> QED
        BY <1>2, <3>1, <3>2, <3>3, <3>4, <3>5, <3>6, <3>7 DEF Step
    <2> QED
      BY <2>2, <2>3
  <1>3. ASSUME NEW r \in Requests, Arrive(r) \/ Step(r) \/ Abort(r) \/ IgnoredError(r), ~LockoutOn
        PROVE  /\ \A u \in Users : lockouts'[u] = Nil
               /\ \A q \in Requests : pc'[q] \notin {"failUpsert", "failRead", "failLock"}
    <2>1. \A u \in Users : lockouts[u] = Nil
      BY <1>3 DEF UnderInv
    <2>2. \A q \in Requests : pc[q] \notin {"failUpsert", "failRead", "failLock"}
      BY <1>3 DEF UnderInv
    <2>3. OwnSlot(r)
      BY <1>3, StepIsOwn
    <2> QED
      BY <1>2, <1>3, <2>1, <2>2, <2>3 DEF OwnSlot, ResetFailures, Reset, TypeInv, TypeOK
  <1> QED
    BY <1>1, <1>3 DEF Next

\* The lock that FailLock places finds all the other requests past the check, at
\* worst; after that none gets past it.
LEMMA UnderStep ==
  ASSUME IsFiniteSet(Requests), TypeInv, UnderInv, [Next]_vars
  PROVE  UnderInv'
  <1>0. Cardinality(Requests) \in Nat /\ underLock \in [Users -> Nat]
    BY FS_CardinalityType DEF TypeInv, TypeOK
  <1> SUFFICES ASSUME NEW u \in Users
               PROVE  /\ underLock'[u] < Cardinality(Requests)
                      /\ Locked(u)' => underLock'[u] + Cardinality(Past(u)') < Cardinality(Requests)
    BY LockOffStep DEF UnderInv
  <1>a. /\ underLock[u] < Cardinality(Requests)
        /\ Locked(u) => underLock[u] + Cardinality(Past(u)) < Cardinality(Requests)
        /\ Locked(u) => LockoutOn
    BY DEF UnderInv, Locked
  <1>1. CASE Tick \/ Purge \/ UNCHANGED vars
    <2>1. /\ underLock' = underLock /\ Past(u)' = Past(u)
          /\ \A r \in Requests : ~(FailLock(r) /\ User(r) = u) \/ lockouts' = lockouts
      BY <1>1 DEF Tick, Purge, vars, tables, history, Past, User
    <2>2. Locked(u)' => Locked(u)
      <3>1. lockouts' = lockouts /\ (now' = now \/ now' = now + 1) /\ now \in Nat
        BY <1>1 DEF Tick, Purge, vars, tables, TypeInv, TypeOK
      <3> QED
        BY <3>1 DEF Locked, TypeInv, TypeOK, LockRow
    <2> QED
      BY <1>a, <2>1, <2>2
  <1>2. ASSUME NEW r \in Requests, Arrive(r) \/ Step(r) \/ Abort(r) \/ IgnoredError(r)
        PROVE  /\ underLock'[u] < Cardinality(Requests)
               /\ Locked(u)' => underLock'[u] + Cardinality(Past(u)') < Cardinality(Requests)
    <2>0. OwnSlot(r)
      BY <1>2, StepIsOwn
    <2>a. /\ IsFiniteSet(Past(u)) /\ Past(u)' \ {r} = Past(u) \ {r}
          /\ Cardinality(Past(u)) \in Nat /\ Cardinality(Past(u)') \in Nat
      BY <2>0, PastStep
    <2>b. ASSUME ~(FailLock(r) /\ User(r) = u), Locked(u)'
          PROVE  Locked(u)
      <3>1. ASSUME NEW q \in Requests, FailLock(q), User(q) = u PROVE FALSE
        <4>1. pc[q] = "failLock" /\ pc'[q] # "failLock"
          BY <3>1 DEF FailLock, Done, Goto, TypeInv, TypeOK
        <4>2. q = r
          BY <2>0, <4>1 DEF OwnSlot
        <4> QED
          BY <2>b, <3>1, <4>2
      <3> QED
        BY <2>b, <3>1, LockedKept
    <2>1. CASE Elsewhere(r) /\ UNCHANGED underLock /\ ~(FailLock(r) /\ User(r) = u)
      <3>0. r \notin Past(u)'
        BY <2>1 DEF Elsewhere, Past
      <3>1. Cardinality(Past(u)') <= Cardinality(Past(u))
        BY <2>a, <3>0, OneMoves
      <3> QED
        BY <1>0, <1>a, <2>1, <2>a, <2>b, <3>1
    <2>2. CASE FailLock(r)
      <3>1. pc[r] = "failLock" /\ r \notin Past(u)'
        BY <2>2 DEF FailLock, Done, Goto, Past, Looking, TypeInv, TypeOK
      <3>2. CASE UNCHANGED <<lockouts, underLock>>
        <4>1. Locked(u)' => Locked(u)
          BY <2>2, <3>2 DEF FailLock, Locked
        <4>2. Cardinality(Past(u)') <= Cardinality(Past(u))
          BY <2>a, <3>1, OneMoves
        <4> QED
          BY <1>0, <1>a, <2>a, <3>2, <4>1, <4>2
      <3>3. CASE underLock' = [underLock EXCEPT ![User(r)] = 0]
        <4>1. CASE u = User(r)
          <5>1. underLock'[u] = 0
            BY <1>0, <3>3, <4>1
          <5>2. /\ Past(u)' \subseteq Requests \ {r}
                /\ IsFiniteSet(Requests \ {r})
                /\ Cardinality(Requests \ {r}) = Cardinality(Requests) - 1
            BY <3>1, FS_RemoveElement DEF Past
          <5>3. Cardinality(Past(u)') <= Cardinality(Requests \ {r})
            BY <5>2, FS_Subset
          <5> QED
            BY <1>0, <2>a, <5>1, <5>2, <5>3
        <4>2. CASE u # User(r)
          <5>1. underLock'[u] = underLock[u]
            BY <1>0, <3>3, <4>2
          <5>2. Cardinality(Past(u)') <= Cardinality(Past(u))
            BY <2>a, <3>1, OneMoves
          <5> QED
            BY <1>0, <1>a, <2>a, <2>b, <4>2, <5>1, <5>2
        <4> QED
          BY <4>1, <4>2
      <3> QED
        BY <2>2, <3>2, <3>3 DEF FailLock
    <2>3. CASE Create(r)
      <3>1. UNCHANGED underLock /\ r \notin Past(u)' /\ pc[r] = "create" /\ ~FailLock(r)
        BY <2>3 DEF Create, FailLock, Done, Goto, Past, Looking, TypeInv, TypeOK, history
      <3>2. Cardinality(Past(u)') <= Cardinality(Past(u))
        BY <2>a, <3>1, OneMoves
      <3> QED
        BY <1>0, <1>a, <2>a, <2>b, <3>1, <3>2
    <2>4. CASE ReadLock(r)
      <3>1. /\ UNCHANGED <<underLock, lockouts, now>> /\ pc[r] = "lockedUntil" /\ ~FailLock(r)
        BY <2>4 DEF ReadLock, FailLock, history, tables
      <3>2. r \notin Past(u) /\ (r \in Past(u)' => ~(LockoutOn /\ Locked(u)))
        BY <2>4, <3>1 DEF ReadLock, Past, Looking, Done, Goto, User, TypeInv, TypeOK
      <3>3. Locked(u)' => r \notin Past(u)'
        BY <1>a, <2>b, <3>1, <3>2
      <3>4. Locked(u)' => Cardinality(Past(u)') <= Cardinality(Past(u))
        BY <2>a, <3>2, <3>3, OneMoves
      <3> QED
        BY <1>0, <1>a, <2>a, <2>b, <3>1, <3>4
    <2>5. CASE CountAttempt(r)
      <3>1. /\ UNCHANGED underLock /\ pc[r] = "incrAttempts" /\ ~FailLock(r)
            /\ r \in Past(u)' => r \in Past(u)
        BY <2>5 DEF CountAttempt, FailLock, history, Past, Looking, User
      <3>2. Cardinality(Past(u)') <= Cardinality(Past(u))
        BY <2>a, <3>1, OneMoves
      <3> QED
        BY <1>0, <1>a, <2>a, <2>b, <3>1, <3>2
    <2>6. CASE ConsumeGet(r) \/ UseCode(r)
      <3>1. /\ UNCHANGED underLock \/ Examines(r)
            /\ pc[r] \in Looking /\ ~FailLock(r) /\ r \notin Past(u)'
        <4>1. UNCHANGED underLock \/ Examines(r)
          BY <2>6 DEF ConsumeGet, UseCode
        <4>2. pc[r] \in {"consumeGet", "use"}
          BY <2>6 DEF ConsumeGet, UseCode
        <4>3. pc'[r] \notin Looking
          <5>1. AfterGrant(r) \notin Looking
            BY DEF AfterGrant, Looking
          <5> QED
            BY <2>6, <5>1 DEF ConsumeGet, UseCode, Granted, Rejected, Proceed, Done, Goto,
                              Looking, TypeInv, TypeOK
        <4> QED
          BY <4>1, <4>2, <4>3 DEF Looking, FailLock, Past
      <3>2. \/ underLock'[u] = underLock[u]
            \/ underLock'[u] = underLock[u] + 1 /\ Locked(u) /\ User(r) = u
        BY <1>0, <3>1 DEF Examines
      <3>3. /\ Cardinality(Past(u)') <= Cardinality(Past(u))
            /\ User(r) = u => Cardinality(Past(u)') = Cardinality(Past(u)) - 1
        <4>1. User(r) = u => r \in Past(u)
          BY <3>1 DEF Past
        <4> QED
          BY <2>a, <3>1, <4>1, OneMoves
      <3> QED
        BY <1>0, <1>a, <2>a, <2>b, <3>1, <3>2, <3>3
    <2> QED
      BY <1>2, <2>1, <2>2, <2>3, <2>4, <2>5, <2>6, ExamSteps DEF Elsewhere
  <1> QED
    BY <1>1, <1>2 DEF Next

\* However many requests are in flight, at most all but the one that placed it
\* examine a code while a lock is in force: none passes the check of the lock
\* twice, and none passes it after the lock.
THEOREM FewUnderLockCorrect ==
  ASSUME IsFiniteSet(Requests), Requests # {}
  PROVE  Spec => []FewUnderLock
  <1>1. Init => UnderInv
    <2>1. Cardinality(Requests) \in Nat /\ Cardinality(Requests) # 0
      BY FS_CardinalityType, FS_EmptySet
    <2> QED
      BY <2>1 DEF Init, UnderInv, Locked
  <1>2. TypeInv /\ UnderInv /\ [Next]_vars => UnderInv'
    BY UnderStep
  <1>3. UnderInv => FewUnderLock
    BY DEF UnderInv, FewUnderLock
  <1> QED
    BY <1>1, <1>2, <1>3, InitTypeInv, TypeInductive, PTL DEF Spec

--------------------------------------------------------------------------------
(* The cap on attempts. *)

\* The requests of a challenge that were allowed to examine a code and have not.
Armed(tok) ==
    {r \in Requests : /\ req[r].op = "verify" /\ req[r].tok = tok
                      /\ pc[r] \in {"consumeGet", "use"}}

Spent(tok) == examined[tok] + Cardinality(Armed(tok))

\* The attempts counted on a challenge cover the codes examined under it and those
\* about to be; once it is gone none is allowed any more.
CapInv ==
    /\ \A r \in Requests : req[r].op = "verify" => req[r].tok \in ChTokens \cap drawn
    /\ \A tok \in ChTokens :
          /\ Spent(tok) <= MaxAttempts
          /\ chs[tok] # Nil => Spent(tok) <= chs[tok].attempts /\ chs[tok].attempts <= MaxAttempts
          /\ tok \notin drawn => chs[tok] = Nil /\ examined[tok] = 0

\* What a step may do to the set of armed requests.
LEMMA ArmedStep ==
  ASSUME IsFiniteSet(Requests), NEW r \in Requests, OwnSlot(r), NEW tok
  PROVE  /\ IsFiniteSet(Armed(tok)) /\ Armed(tok)' \ {r} = Armed(tok) \ {r}
         /\ Cardinality(Armed(tok)) \in Nat /\ Cardinality(Armed(tok)') \in Nat
  <1>1. Armed(tok)' \ {r} = Armed(tok) \ {r}
    BY DEF OwnSlot, Armed
  <1>2. IsFiniteSet(Armed(tok)) /\ IsFiniteSet(Armed(tok)')
    BY FS_Subset DEF Armed
  <1> QED
    BY <1>1, <1>2, FS_CardinalityType

\* The request of a challenge has a token that was drawn.
LEMMA TokenStep ==
  ASSUME TypeInv, CapInv, NEW r \in Requests,
         Arrive(r) \/ Step(r) \/ Abort(r) \/ IgnoredError(r)
  PROVE  /\ drawn \subseteq drawn'
         /\ \A q \in Requests : req'[q].op = "verify" => req'[q].tok \in ChTokens \cap drawn
  <1>0. OwnSlot(r) /\ \A q \in Requests : req[q].op = "verify" => req[q].tok \in ChTokens \cap drawn
    BY StepIsOwn DEF CapInv
  <1>1. CASE Elsewhere(r)
    BY <1>0, <1>1 DEF Elsewhere, OwnSlot
  <1>2. CASE Create(r) \/ ReadLock(r) \/ CountAttempt(r) \/ ConsumeGet(r) \/ UseCode(r)
    <2>1. req'[r] = req[r] \/ req'[r] = NoRequest
      BY <1>2 DEF Create, ReadLock, CountAttempt, ConsumeGet, UseCode, Granted, Rejected, Proceed,
                  Done, TypeInv, TypeOK
    <2>2. drawn \subseteq drawn'
      BY <1>2 DEF Create, ReadLock, CountAttempt, ConsumeGet, UseCode
    <2> QED
      BY <1>0, <2>1, <2>2 DEF OwnSlot, NoRequest
  <1> QED
    BY <1>1, <1>2, ExamSteps

\* An attempt is counted before its request is armed, in the same UPDATE that tests
\* the cap, and a token is drawn for one challenge.
LEMMA CapStep ==
  ASSUME IsFiniteSet(Requests), TypeInv, CapInv, [Next]_vars
  PROVE  CapInv'
  <1>0. /\ MaxAttempts \in Nat \ {0} /\ examined \in [ChTokens -> Nat]
        /\ chs \in [ChTokens -> ChRow \cup {Nil}]
    BY StoreAssumption DEF TypeInv, TypeOK
  <1>1. CASE Tick \/ Purge \/ UNCHANGED vars
    <2>1. /\ UNCHANGED <<pc, req, drawn, examined>>
          /\ \A tok \in ChTokens : chs'[tok] \in {chs[tok], Nil}
      BY <1>1 DEF Tick, Purge, PurgeExpired, vars, tables, history
    <2>2. \A tok : Spent(tok)' = Spent(tok)
      BY <2>1 DEF Spent, Armed
    <2> QED
      BY <2>1, <2>2 DEF CapInv
  <1>2. ASSUME NEW r \in Requests, Arrive(r) \/ Step(r) \/ Abort(r) \/ IgnoredError(r)
        PROVE  CapInv'
    <2>0. /\ OwnSlot(r) /\ drawn \subseteq drawn'
          /\ \A q \in Requests : req'[q].op = "verify" => req'[q].tok \in ChTokens \cap drawn'
      BY <1>2, StepIsOwn, TokenStep
    <2> SUFFICES ASSUME NEW tok \in ChTokens
                 PROVE  /\ Spent(tok)' <= MaxAttempts
                        /\ chs'[tok] # Nil => /\ Spent(tok)' <= chs'[tok].attempts
                                              /\ chs'[tok].attempts <= MaxAttempts
                        /\ tok \notin drawn' => chs'[tok] = Nil /\ examined'[tok] = 0
      BY <2>0 DEF CapInv
    <2>a. /\ IsFiniteSet(Armed(tok)) /\ Armed(tok)' \ {r} = Armed(tok) \ {r}
          /\ Cardinality(Armed(tok)) \in Nat /\ Cardinality(Armed(tok)') \in Nat
      BY <2>0, ArmedStep
    <2>b. /\ Spent(tok) <= MaxAttempts
          /\ chs[tok] # Nil => Spent(tok) <= chs[tok].attempts /\ chs[tok].attempts <= MaxAttempts
          /\ tok \notin drawn => chs[tok] = Nil /\ examined[tok] = 0
          /\ examined[tok] \in Nat /\ Spent(tok) \in Nat
          /\ chs[tok] # Nil => chs[tok] \in ChRow /\ chs[tok].attempts \in Nat
      BY <1>0, <2>a DEF CapInv, Spent, ChRow
    <2>c. tok \notin drawn => r \notin Armed(tok)
      BY DEF Armed, CapInv
    <2>1. CASE Elsewhere(r)
      <3>1. examined' = examined /\ r \notin Armed(tok)' /\ chs'[tok] \in {chs[tok], Nil}
        BY <2>1 DEF Elsewhere, Armed, Looking
      <3>2. Cardinality(Armed(tok)') <= Cardinality(Armed(tok))
        BY <2>a, <3>1, OneMoves
      <3>3. Spent(tok)' <= Spent(tok) /\ Spent(tok)' \in Nat
        BY <2>a, <2>b, <3>1, <3>2 DEF Spent
      <3> QED
        BY <1>0, <2>0, <2>b, <3>1, <3>3
    <2>2. CASE Create(r)
      <3>1. examined' = examined /\ r \notin Armed(tok)' /\ r \notin Armed(tok)
        BY <2>2 DEF Create, Done, Goto, Armed, TypeInv, TypeOK, history
      <3>2. Cardinality(Armed(tok)') = Cardinality(Armed(tok)) /\ Spent(tok)' = Spent(tok)
        BY <2>a, <3>1, OneMoves DEF Spent
      <3>3. CASE chs'[tok] = chs[tok]
        BY <2>0, <2>b, <3>1, <3>2, <3>3
      <3>4. CASE chs'[tok] # chs[tok]
        <4>1. tok \in ChTokens \ drawn /\ tok \in drawn' /\ chs'[tok].attempts = 0
          BY <1>0, <2>2, <3>4 DEF Create, Fresh, CreateChallenge
        <4>2. Armed(tok) = {} /\ Spent(tok) = 0
          <5>1. Armed(tok) = {}
            BY <4>1 DEF Armed, CapInv
          <5> QED
            BY <2>b, <4>1, <5>1, FS_EmptySet DEF Spent
        <4> QED
          BY <1>0, <3>2, <4>1, <4>2
      <3> QED
        BY <3>3, <3>4
    <2>3. CASE ReadLock(r)
      <3>1. UNCHANGED <<examined, chs, drawn>> /\ pc[r] = "lockedUntil"
        BY <2>3 DEF ReadLock, tables, history
      <3>2. r \notin Armed(tok) /\ r \notin Armed(tok)'
        BY <2>3, <3>1 DEF ReadLock, AfterLockCheck, Done, Goto, Armed, NoRequest, TypeInv, TypeOK
      <3>3. Spent(tok)' = Spent(tok)
        BY <2>a, <3>1, <3>2, OneMoves DEF Spent
      <3> QED
        BY <2>b, <3>1, <3>3
    <2>4. CASE CountAttempt(r)
      <3>1. UNCHANGED <<examined, drawn, req>> /\ pc[r] = "incrAttempts" /\ r \notin Armed(tok)
        BY <2>4 DEF CountAttempt, history, Armed
      <3>2. CASE /\ Allowed(req[r].tok) /\ req[r].tok = tok
                 /\ chs' = [chs EXCEPT ![tok].attempts = @ + 1]
        <4>1. chs[tok] # Nil /\ chs[tok].attempts < MaxAttempts
          BY <3>2 DEF Allowed
        <4>2. chs'[tok].attempts = chs[tok].attempts + 1
          BY <1>0, <2>b, <3>2, <4>1 DEF ChRow
        <4>3. Cardinality(Armed(tok)') <= Cardinality(Armed(tok)) + 1
          BY <2>a, <3>1, OneMoves
        <4>4. Spent(tok)' <= Spent(tok) + 1 /\ Spent(tok)' \in Nat
          BY <2>a, <2>b, <3>1, <4>3 DEF Spent
        <4> QED
          BY <1>0, <2>b, <3>1, <4>1, <4>2, <4>4
      <3>3. CASE req[r].tok # tok \/ ~Allowed(req[r].tok)
        <4>1. chs'[tok] = chs[tok]
          BY <1>0, <2>4, <3>3 DEF CountAttempt, IncrAttempts
        <4>2. r \notin Armed(tok)'
          BY <2>4, <3>1, <3>3 DEF CountAttempt, Goto, Armed, TypeInv, TypeOK
        <4>3. Spent(tok)' = Spent(tok)
          BY <2>a, <3>1, <4>2, OneMoves DEF Spent
        <4> QED
          BY <2>b, <3>1, <4>1, <4>3
      <3> QED
        BY <2>4, <3>2, <3>3 DEF CountAttempt, IncrAttempts
    <2>5. CASE ConsumeGet(r) \/ UseCode(r)
      <3>1. UNCHANGED <<chs, drawn>> /\ (UNCHANGED examined \/ Examines(r))
        BY <2>5 DEF ConsumeGet, UseCode, tables
      <3>2. pc[r] \in {"consumeGet", "use"} /\ r \notin Armed(tok)'
        <4>1. AfterGrant(r) \notin {"consumeGet", "use"}
          BY DEF AfterGrant
        <4> QED
          BY <2>5, <4>1 DEF ConsumeGet, UseCode, Granted, Rejected, Proceed, Done, Goto, Armed,
                            TypeInv, TypeOK
      <3>3. \/ examined'[tok] = examined[tok]
            \/ examined'[tok] = examined[tok] + 1 /\ r \in Armed(tok)
        BY <1>0, <3>1, <3>2 DEF Examines, Armed
      <3>4. /\ Cardinality(Armed(tok)') <= Cardinality(Armed(tok))
            /\ r \in Armed(tok) => Cardinality(Armed(tok)') = Cardinality(Armed(tok)) - 1
        BY <2>a, <3>2, OneMoves
      <3>5. Spent(tok)' <= Spent(tok) /\ Spent(tok)' \in Nat
        BY <2>a, <2>b, <3>3, <3>4 DEF Spent
      <3>6. tok \notin drawn => examined'[tok] = 0
        BY <2>b, <2>c, <3>3
      <3> QED
        BY <1>0, <2>b, <3>1, <3>5, <3>6
    <2> QED
      BY <1>2, <2>1, <2>2, <2>3, <2>4, <2>5, ExamSteps
  <1> QED
    BY <1>1, <1>2 DEF Next

LEMMA InitCap == Init => CapInv
  <1> SUFFICES ASSUME Init PROVE CapInv
    OBVIOUS
  <1>1. \A tok : Armed(tok) = {}
    BY DEF Init, Armed
  <1>2. \A tok \in ChTokens : Spent(tok) = 0
    <2>1. \A tok \in ChTokens : Cardinality(Armed(tok)) = 0 /\ examined[tok] = 0
      BY <1>1, FS_EmptySet DEF Init
    <2> QED
      BY <2>1 DEF Spent
  <1> QED
    BY <1>2, StoreAssumption DEF Init, CapInv, NoRequest

\* Under one challenge at most MaxAttempts codes are examined, whatever the number
\* of requests that race for the last attempt and whatever deletes the challenge.
THEOREM AttemptsCappedCorrect ==
  ASSUME IsFiniteSet(Requests)
  PROVE  Spec => []AttemptsCapped
  <1>1. Init => CapInv
    BY InitCap
  <1>2. TypeInv /\ CapInv /\ [Next]_vars => CapInv'
    BY CapStep
  <1>3. TypeInv /\ CapInv => AttemptsCapped
    <2> SUFFICES ASSUME TypeInv, CapInv, NEW tok \in ChTokens PROVE examined[tok] <= MaxAttempts
      BY DEF AttemptsCapped
    <2>1. Cardinality(Armed(tok)) \in Nat
      BY FS_Subset, FS_CardinalityType DEF Armed
    <2>2. examined[tok] \in Nat /\ MaxAttempts \in Nat /\ Spent(tok) <= MaxAttempts
      BY StoreAssumption DEF CapInv, TypeInv, TypeOK
    <2> QED
      BY <2>1, <2>2 DEF Spent
  <1> QED
    BY <1>1, <1>2, <1>3, InitTypeInv, TypeInductive, PTL DEF Spec

--------------------------------------------------------------------------------
(* The recovery codes. *)

\* r is not in the transaction of Replace and leaves the codes alone.
NoReplace(r) ==
    /\ OwnSlot(r)
    /\ "replaceCommit" \notin {pc[r], pc'[r]}
    /\ UNCHANGED rec

LEMMA ReplaceSteps ==
  ASSUME TypeInv, NEW r \in Requests,
         Arrive(r) \/ Step(r) \/ Abort(r) \/ IgnoredError(r)
  PROVE  NoReplace(r) \/ Abort(r) \/ UseCode(r) \/ RemoveRecovery(r)
         \/ ReplaceDelete(r) \/ ReplaceCommit(r)
  <1>0. OwnSlot(r)
    BY StepIsOwn
  <1> USE DEF NoReplace, Done, Goto, tables, TypeInv, TypeOK
  <1>1. CASE Arrive(r)
    BY <1>0, <1>1, ArriveBrings
  <1>2. CASE IgnoredError(r) \/ ReadEnabled(r)
    BY <1>0, <1>2 DEF IgnoredError, ReadEnabled, EnabledAnswers
  <1>3. CASE LoadChallenge(r) \/ DropChallenge(r) \/ ReadLock(r)
    BY <1>0, <1>3 DEF LoadChallenge, DropChallenge, ReadLock, AfterLockCheck, Check
  <1>4. CASE Create(r) \/ CountAttempt(r) \/ ConsumeGet(r)
    BY <1>0, <1>4 DEF Create, CountAttempt, Check, ConsumeGet, Rejected
  <1>5. CASE ConsumeStep(r) \/ ResetFailures(r)
    <2>1. AfterGrant(r) # "replaceCommit"
      BY DEF AfterGrant
    <2> QED
      BY <1>0, <1>5, <2>1 DEF ConsumeStep, ResetFailures, Granted, Rejected, Proceed
  <1>6. CASE FailUpsert(r) \/ FailRead(r) \/ FailLock(r)
    BY <1>0, <1>6 DEF FailUpsert, FailRead, FailLock
  <1>7. CASE ClearChallenge(r) \/ OpenSession(r) \/ Provision(r) \/ EnableGet(r)
    BY <1>0, <1>7 DEF ClearChallenge, OpenSession, FinishEnable, Provision, EnableGet
  <1>8. CASE Activate(r) \/ Elevate(r) \/ DisableGet(r) \/ RemoveTotp(r)
    BY <1>0, <1>8 DEF Activate, FinishEnable, Elevate, DisableGet, RemoveTotp
  <1> QED
    BY <1>1, <1>2, <1>3, <1>4, <1>5, <1>6, <1>7, <1>8 DEF Step

\* With one writer, the transaction of Replace has seen the codes it replaces, and is
\* alone.
ReplaceInv ==
    /\ \A u \in Users : Cardinality(rec[u]) <= RecoveryCount
    /\ \A r \in Requests : pc[r] = "replaceCommit" =>
          /\ req[r].snap = rec[User(r)]
          /\ \A q \in Requests : pc[q] = "replaceCommit" => q = r

LEMMA ReplaceStep ==
  ASSUME IsFiniteSet(RCodes), SerialWrites, TypeInv, ReplaceInv, [Next]_vars
  PROVE  ReplaceInv'
  <1>0. rec \in [Users -> SUBSET RCodes] /\ \A u \in Users : IsFiniteSet(rec[u])
    BY FS_Subset DEF TypeInv, TypeOK
  <1>1. CASE Tick \/ Purge \/ UNCHANGED vars
    BY <1>1 DEF Tick, Purge, vars, tables, ReplaceInv, User
  <1>2. ASSUME NEW r \in Requests, Arrive(r) \/ Step(r) \/ Abort(r) \/ IgnoredError(r)
        PROVE  ReplaceInv'
    <2>0. OwnSlot(r)
      BY <1>2, StepIsOwn
    <2>a. ASSUME UNCHANGED rec, pc'[r] # "replaceCommit" PROVE ReplaceInv'
      BY <2>0, <2>a DEF ReplaceInv, OwnSlot, User
    <2>b. ASSUME \A q \in Requests : pc[q] # "replaceCommit", pc'[r] # "replaceCommit"
          PROVE  \A q \in Requests : pc'[q] # "replaceCommit"
      BY <2>0, <2>b DEF OwnSlot
    <2>1. CASE NoReplace(r) \/ Abort(r)
      BY <2>1, <2>a DEF NoReplace, Abort, Done, Goto, tables, TypeInv, TypeOK
    <2>2. CASE UseCode(r)
      <3>1. \A q \in Requests : pc[q] # "replaceCommit"
        BY <2>2 DEF UseCode, Replacing
      <3>2. pc'[r] # "replaceCommit"
        <4>1. AfterGrant(r) # "replaceCommit"
          BY DEF AfterGrant
        <4> QED
          BY <2>2, <4>1 DEF UseCode, Granted, Rejected, Proceed, Done, Goto, TypeInv, TypeOK
      <3>3. \A u \in Users : rec'[u] \subseteq rec[u]
        BY <1>0, <2>2 DEF UseCode, Use
      <3>4. \A u \in Users : Cardinality(rec'[u]) <= RecoveryCount
        <4> TAKE u \in Users
        <4>1. /\ Cardinality(rec'[u]) <= Cardinality(rec[u])
              /\ Cardinality(rec'[u]) \in Nat /\ Cardinality(rec[u]) \in Nat
          BY <1>0, <3>3, FS_Subset, FS_CardinalityType
        <4> QED
          BY <4>1, MfaxAssumption DEF ReplaceInv
      <3> QED
        BY <2>b, <3>1, <3>2, <3>4 DEF ReplaceInv
    <2>3. CASE RemoveRecovery(r)
      <3>1. \A q \in Requests : pc[q] # "replaceCommit"
        BY <2>3 DEF RemoveRecovery, Replacing
      <3>2. pc'[r] # "replaceCommit"
        BY <2>3 DEF RemoveRecovery, Done, Goto, TypeInv, TypeOK
      <3>3. \A u \in Users : rec'[u] = rec[u] \/ rec'[u] = {}
        BY <1>0, <2>3 DEF RemoveRecovery, DeleteRecovery
      <3>4. \A u \in Users : Cardinality(rec'[u]) <= RecoveryCount
        <4> TAKE u \in Users
        <4>1. Cardinality(rec[u]) <= RecoveryCount /\ 0 <= RecoveryCount
          BY MfaxAssumption DEF ReplaceInv
        <4>2. CASE rec'[u] = rec[u]
          BY <4>1, <4>2
        <4>3. CASE rec'[u] = {}
          BY <4>1, <4>3, FS_EmptySet
        <4> QED
          BY <3>3, <4>2, <4>3
      <3> QED
        BY <2>b, <3>1, <3>2, <3>4 DEF ReplaceInv
    <2>4. CASE ReplaceDelete(r)
      <3>1. \A q \in Requests : pc[q] # "replaceCommit"
        BY <2>4 DEF ReplaceDelete, Replacing
      <3>2. UNCHANGED rec /\ req'[r].snap = rec[User(r)] /\ User(r)' = User(r)
        BY <2>4 DEF ReplaceDelete, tables, User, TypeInv, TypeOK, Request
      <3> QED
        BY <2>0, <3>1, <3>2 DEF ReplaceInv, OwnSlot, User
    <2>5. CASE ReplaceCommit(r)
      <3>1. /\ pc[r] = "replaceCommit" /\ pc'[r] # "replaceCommit"
            /\ User(r) \in Users /\ req[r].snap = rec[User(r)]
            /\ \A q \in Requests : pc[q] = "replaceCommit" => q = r
        BY <2>5 DEF ReplaceCommit, Done, Goto, ReplaceInv, TypeInv, TypeOK, ReqOK
      <3>2. CASE UNCHANGED rec
        BY <2>a, <3>1, <3>2
      <3>3. ASSUME NEW codes, Cardinality(codes) = RecoveryCount,
                   CommitReplace(User(r), req[r].snap, codes)
            PROVE  ReplaceInv'
        <4>1. \A u \in Users : rec'[u] = IF u = User(r) THEN codes ELSE rec[u]
          BY <1>0, <3>1, <3>3 DEF CommitReplace
        <4>2. \A u \in Users : Cardinality(rec'[u]) <= RecoveryCount
          BY <3>3, <4>1, MfaxAssumption DEF ReplaceInv
        <4>3. \A q \in Requests : pc'[q] # "replaceCommit"
          BY <2>0, <3>1 DEF OwnSlot
        <4> QED
          BY <4>2, <4>3 DEF ReplaceInv
      <3> QED
        BY <2>5, <3>2, <3>3 DEF ReplaceCommit
    <2> QED
      BY <1>2, <2>1, <2>2, <2>3, <2>4, <2>5, ReplaceSteps
  <1> QED
    BY <1>1, <1>2 DEF Next

\* With one writer at a time, as SQLite has, an account never has more valid
\* recovery codes than one set, however regenerations, enrolments, removals and
\* uses of codes overlap (RecoveryStore.Replace).
THEOREM OneRecoverySetCorrect ==
  ASSUME SerialWrites, IsFiniteSet(RCodes),
         \A u \in Users : Cardinality(InitRec[u]) <= RecoveryCount
  PROVE  Spec => []OneRecoverySet
  <1>1. Init => ReplaceInv
    BY DEF Init, ReplaceInv
  <1>2. TypeInv /\ ReplaceInv /\ [Next]_vars => ReplaceInv'
    BY ReplaceStep
  <1>3. ReplaceInv => OneRecoverySet
    BY DEF ReplaceInv, OneRecoverySet
  <1> QED
    BY <1>1, <1>2, <1>3, InitTypeInv, TypeInductive, PTL DEF Spec
================================================================================
