--------------------------- MODULE MfaxReplayProofs ----------------------------
(***************************************************************************)
(* For any number of requests, accounts, set-ups and sets of recovery      *)
(* codes, where no second factor is removed under the hands of another     *)
(* request:                                                                *)
(*                                                                         *)
(*   NoReplayCorrect      a code is accepted once                          *)
(*   SessionsPaidCorrect  and opens one session                            *)
(*   RecoveryGoneCorrect  no recovery code outlives the secret             *)
(*                                                                         *)
(* and where no page writes a secret while another confirms one:           *)
(*                                                                         *)
(*   EnabledConfirmedCorrect  an active secret had one of its codes        *)
(*                            accepted                                     *)
(*   ActiveKeptCorrect        and no set-up takes an active secret away    *)
(*                                                                         *)
(* Each condition is stated beside its theorem, with a lemma that shows    *)
(* where it is met.  Runs race_replay and race_active show what happens    *)
(* without two of them.                                                    *)
(*                                                                         *)
(* last_step belongs to the account and not to the secret, so the proof    *)
(* follows whose each secret is (Held): a secret that an enrolment still   *)
(* has in hand, or a code that was matched, may outlive the row.           *)
(***************************************************************************)
EXTENDS MfaxProofs

USE DEF StoreTypeOK

\* EnablePOST has read the secret it is to activate.
Confirming(r) ==
    /\ req[r].op = "enable"
    /\ pc[r] \in {"lockedUntil", "consumeGet", "setLastStep", "reset", "activate"}

\* No secret is deleted while a request goes by it, to write off the code that
\* matched it or to activate it.
RemovesAlone ==
    \A u \in Users : Removes(u) =>
        \A r \in Requests : User(r) = u => pc[r] # "setLastStep" /\ ~Confirming(r)
RemovedAlone == [][RemovesAlone]_vars

\* The secrets and the recovery codes of two accounts differ at the start.
DistinctAtStart ==
    \A u, v \in Users : u # v =>
        /\ InitTotp[u] # Nil /\ InitTotp[v] # Nil => InitTotp[u].secret # InitTotp[v].secret
        /\ InitRec[u] \cap InitRec[v] = {}

\* u has, or may still get back, the secret k.
Held(k, u) ==
    \/ totp[u] # Nil /\ totp[u].secret = k
    \/ \E r \in Requests :
          /\ User(r) = u
          /\ \/ Confirming(r) /\ req[r].secret = k
             \/ pc[r] = "setLastStep" /\ req[r].cred.value = k

\* What a request is about to do with its code.
CodeReady(r) ==
    /\ req[r].op = "enable" =>
          req[r].cred.kind # "recovery" /\ pc[r] \notin {"incrAttempts", "disableGet"}
    /\ pc[r] = "use" => req[r].cred.kind = "recovery"
    /\ pc[r] \in {"consumeGet", "setLastStep"} => req[r].cred.kind # "recovery"
    /\ pc[r] = "setLastStep" => req[r].cred.value \in Secrets \cap drawn

\* A secret is drawn once, for one account.
OneOwner ==
    \A k \in Secrets, u \in Users : Held(k, u) =>
        k \in drawn /\ \A v \in Users : Held(k, v) => v = u

\* last_step is past every accepted code of the secrets of the account.
StepsBehind ==
    \A c \in accepted, u \in Users :
        c.kind # "recovery" /\ c.value \in Secrets /\ Held(c.value, u) =>
            totp[u] # Nil /\ c.step <= totp[u].lastStep

\* A recovery code belongs to one account and is gone once accepted.
CodesGone ==
    /\ \A u \in Users : rec[u] \subseteq drawn
    /\ \A u, v \in Users : u # v => rec[u] \cap rec[v] = {}
    /\ \A c \in accepted :
          c.value \in drawn /\ (c.kind = "recovery" => \A u \in Users : c.value \notin rec[u])

ReplayInv == (\A r \in Requests : CodeReady(r)) /\ OneOwner /\ StepsBehind /\ CodesGone

--------------------------------------------------------------------------------
(* The steps. *)

\* r neither examines a code nor writes a secret or recovery codes, and is not
\* about to write a code off.
Plain(r) ==
    /\ OwnSlot(r)
    /\ UNCHANGED <<totp, rec, accepted>>
    /\ drawn \subseteq drawn'
    /\ pc'[r] # "setLastStep"
    /\ Confirming(r)' =>
          Confirming(r) /\ req'[r].secret = req[r].secret /\ User(r)' = User(r)
    /\ req'[r].op = "enable" =>
          req'[r].cred.kind # "recovery" /\ pc'[r] \notin {"incrAttempts", "disableGet"}
    /\ pc'[r] = "use" => req'[r].cred.kind = "recovery"
    /\ pc'[r] = "consumeGet" => req'[r].cred.kind # "recovery"

\* The handlers keep to Plain but for the calls that judge a code and those that
\* write secrets and recovery codes.
LEMMA ReplaySteps ==
  ASSUME TypeInv, ReplayInv, NEW r \in Requests,
         Arrive(r) \/ Step(r) \/ Abort(r) \/ IgnoredError(r)
  PROVE  \/ Plain(r) \/ ConsumeGet(r) \/ ConsumeStep(r) \/ UseCode(r)
         \/ Provision(r) \/ EnableGet(r) \/ Activate(r)
         \/ RemoveTotp(r) \/ RemoveRecovery(r) \/ ReplaceCommit(r)
  <1>0. OwnSlot(r) /\ CodeReady(r)
    BY StepIsOwn DEF ReplayInv
  <1> USE DEF Plain, Done, Goto, tables, history, TypeInv, TypeOK, CodeReady, Confirming, User
  <1>1. CASE Arrive(r)
    BY <1>0, <1>1, ArriveBrings
  <1>a. NoRequest.op = "none"
    BY DEF NoRequest
  <1>2. CASE IgnoredError(r) \/ ReadEnabled(r) \/ Abort(r)
    BY <1>0, <1>a, <1>2 DEF IgnoredError, ReadEnabled, EnabledAnswers, Abort
  <1>3. CASE LoadChallenge(r)
    BY <1>0, <1>a, <1>3 DEF LoadChallenge, Request
  <1>4. CASE ReadLock(r)
    BY <1>0, <1>a, <1>4 DEF ReadLock, AfterLockCheck, Check
  <1>5. CASE DropChallenge(r) \/ Create(r)
    BY <1>0, <1>a, <1>5 DEF DropChallenge, Create
  <1>6. CASE CountAttempt(r)
    BY <1>0, <1>a, <1>6 DEF CountAttempt, Check
  <1>7. CASE FailUpsert(r)
    BY <1>0, <1>7 DEF FailUpsert, Request
  <1>8. CASE FailRead(r)
    BY <1>0, <1>a, <1>8 DEF FailRead, Request
  <1>9. CASE FailLock(r)
    BY <1>0, <1>a, <1>9 DEF FailLock
  <1>10. CASE ResetFailures(r)
    BY <1>0, <1>a, <1>10 DEF ResetFailures, Proceed, AfterGrant
  <1>11. CASE ClearChallenge(r) \/ Elevate(r) \/ DisableGet(r)
    BY <1>0, <1>a, <1>11 DEF ClearChallenge, Elevate, DisableGet
  <1>12. CASE OpenSession(r)
    BY <1>0, <1>a, <1>12 DEF OpenSession, FinishEnable
  <1>13. CASE ReplaceDelete(r)
    BY <1>0, <1>13 DEF ReplaceDelete, Request
  <1> QED
    BY <1>1, <1>2, <1>3, <1>4, <1>5, <1>6, <1>7, <1>8, <1>9, <1>10, <1>11, <1>12, <1>13
    DEF Step

\* Nothing but Provision gives an account a secret it did not hold.
HeldKept == \A k \in Secrets, u \in Users : Held(k, u)' => Held(k, u)

LEMMA PlainHeld ==
  ASSUME NEW r \in Requests, Plain(r), TypeInv
  PROVE  HeldKept
  BY DEF Plain, OwnSlot, HeldKept, Held, Confirming, User

\* Where no account gains a secret, no step is lost and no code is accepted.
LEMMA SecretsKept ==
  ASSUME ReplayInv, HeldKept, drawn \subseteq drawn', accepted' = accepted,
         \A u \in Users : totp[u] # Nil =>
             totp'[u] # Nil /\ totp'[u].lastStep = totp[u].lastStep
  PROVE  OneOwner' /\ StepsBehind'
  <1>1. OneOwner'
    BY DEF ReplayInv, OneOwner, HeldKept
  <1>2. StepsBehind'
    BY DEF ReplayInv, StepsBehind, HeldKept
  <1> QED
    BY <1>1, <1>2

\* Where recovery codes are only removed and no code is accepted.
LEMMA CodesKept ==
  ASSUME ReplayInv, drawn \subseteq drawn', accepted' = accepted,
         \A u \in Users : rec'[u] \subseteq rec[u]
  PROVE  CodesGone'
  BY DEF ReplayInv, CodesGone

\* What the other requests are about to do does not change.
LEMMA OthersReady ==
  ASSUME ReplayInv, NEW r \in Requests, OwnSlot(r), drawn \subseteq drawn', CodeReady(r)'
  PROVE  \A q \in Requests : CodeReady(q)'
  <1> SUFFICES ASSUME NEW q \in Requests, q # r PROVE CodeReady(q)'
    OBVIOUS
  <1>1. CodeReady(q) /\ pc'[q] = pc[q] /\ req'[q] = req[q]
    BY DEF ReplayInv, OwnSlot
  <1> QED
    BY <1>1 DEF CodeReady

\* A code is matched against the secret of its account, which is thus its owner.
LEMMA ConsumeGetReplay ==
  ASSUME TypeInv, ReplayInv, NEW r \in Requests, OwnSlot(r), ConsumeGet(r)
  PROVE  ReplayInv'
  <1>0. /\ pc[r] = "consumeGet" /\ User(r) \in Users /\ CodeReady(r)
        /\ UNCHANGED <<totp, rec, drawn, accepted>>
    BY DEF ConsumeGet, Rejected, tables, TypeInv, ReqOK, ReplayInv
  <1>1. \/ pc'[r] \in {"idle", "failUpsert"} /\ req'[r] \in {req[r], NoRequest}
        \/ /\ pc'[r] = "setLastStep" /\ req'[r] = req[r]
           /\ totp[User(r)] # Nil /\ req[r].cred.value = totp[User(r)].secret
    BY DEF ConsumeGet, Rejected, Matches, Done, Goto, TypeInv, TypeOK
  <1>2. HeldKept
    <2> SUFFICES ASSUME NEW k \in Secrets, NEW u \in Users, Held(k, u)' PROVE Held(k, u)
      BY DEF HeldKept
    <2> QED
      BY <1>0, <1>1 DEF Held, Confirming, User, OwnSlot, NoRequest
  <1>3. CodeReady(r)'
    <2>1. CASE pc'[r] \in {"idle", "failUpsert"}
      BY <1>0, <1>1, <2>1 DEF CodeReady, NoRequest
    <2>2. CASE pc'[r] = "setLastStep"
      <3>1. req[r].cred.value \in Secrets /\ Held(req[r].cred.value, User(r))
        BY <1>0, <1>1, <2>2 DEF Held, TypeInv, TypeOK, TotpRow
      <3>2. req[r].cred.value \in drawn
        BY <1>0, <3>1 DEF ReplayInv, OneOwner
      <3> QED
        BY <1>0, <1>1, <2>2, <3>1, <3>2 DEF CodeReady
    <2> QED
      BY <1>1, <2>1, <2>2
  <1> QED
    BY <1>0, <1>2, <1>3, SecretsKept, CodesKept, OthersReady DEF ReplayInv

\* What a handler does with the answer on a code.
LEMMA Answered ==
  ASSUME TypeInv, NEW r \in Requests, CodeReady(r), Granted(r) \/ Rejected(r)
  PROVE  /\ pc'[r] \notin {"consumeGet", "setLastStep", "use", "incrAttempts", "disableGet"}
         /\ req'[r] \in {req[r], NoRequest}
         /\ CodeReady(r)'
  <1>1. AfterGrant(r) \notin {"consumeGet", "setLastStep", "use", "incrAttempts", "disableGet"}
    BY DEF AfterGrant, CodeReady
  <1>2. /\ pc'[r] \notin {"consumeGet", "setLastStep", "use", "incrAttempts", "disableGet"}
        /\ req'[r] \in {req[r], NoRequest}
    BY <1>1 DEF Granted, Rejected, Proceed, Done, Goto, TypeInv, TypeOK
  <1> QED
    BY <1>1, <1>2 DEF CodeReady, NoRequest

\* The step that accepts a TOTP code moves last_step of the only account that can
\* present it again.
LEMMA ConsumeStepReplay ==
  ASSUME TypeInv, ReplayInv, NEW r \in Requests, OwnSlot(r), ConsumeStep(r)
  PROVE  ReplayInv'
  <1> DEFINE u == User(r)
             cred == req[r].cred
  <1>0. /\ pc[r] = "setLastStep" /\ u \in Users /\ CodeReady(r)
        /\ UNCHANGED <<rec, drawn>> /\ cred.kind # "recovery"
        /\ cred.value \in Secrets \cap drawn /\ cred.step \in Int
    BY RequestFacts DEF ConsumeStep, TypeInv, TypeOK, ReqOK, ReplayInv, CodeReady
  <1>1. /\ pc'[r] # "setLastStep" /\ req'[r] \in {req[r], NoRequest} /\ CodeReady(r)'
    BY <1>0, Answered DEF ConsumeStep
  <1>2. \A v \in Users : totp[v] # Nil =>
           totp'[v] # Nil /\ totp'[v].secret = totp[v].secret
    <2>1. totp' = totp \/ totp' = [totp EXCEPT ![u].lastStep = cred.step]
      BY DEF ConsumeStep, SetLastStep
    <2>2. \A v \in Users : totp[v] # Nil =>
             totp'[v] \in TotpRow /\ totp'[v].secret = totp[v].secret
      BY <1>0, <2>1 DEF TypeInv, TypeOK, TotpRow
    <2> QED
      BY <2>2, StoreAssumption
  <1>3. \A v \in Users : totp[v] = Nil => totp'[v] = Nil
    BY <1>0 DEF ConsumeStep, SetLastStep, Advances, TypeInv, TypeOK
  <1>4. HeldKept
    <2> SUFFICES ASSUME NEW k \in Secrets, NEW v \in Users, Held(k, v)' PROVE Held(k, v)
      BY DEF HeldKept
    <2> QED
      BY <1>0, <1>1, <1>2, <1>3 DEF Held, Confirming, User, OwnSlot, NoRequest
  <1>5. CASE Advances(u, cred.step) /\ SetLastStep(u, cred.step) /\ Granted(r)
    <2>1. accepted' = accepted \cup {cred}
      BY <1>5 DEF Granted
    <2>2. \A v \in Users : totp[v] # Nil => totp'[v].lastStep >= totp[v].lastStep
      BY <1>0, <1>5 DEF Advances, SetLastStep, TypeInv, TypeOK, TotpRow
    <2>3. totp'[u] # Nil /\ totp'[u].lastStep = cred.step
      BY <1>0, <1>2, <1>5 DEF Advances, SetLastStep, TypeInv, TypeOK, TotpRow
    <2>4. StepsBehind'
      <3> SUFFICES ASSUME NEW c \in accepted', NEW v \in Users,
                          c.kind # "recovery", c.value \in Secrets, Held(c.value, v)'
                   PROVE  totp'[v] # Nil /\ c.step <= totp'[v].lastStep
        BY DEF StepsBehind
      <3>1. Held(c.value, v)
        BY <1>4 DEF HeldKept
      <3>2. CASE c = cred
        <4>1. Held(c.value, u)
          BY <1>0, <3>2 DEF Held
        <4>2. v = u
          BY <1>0, <3>1, <4>1 DEF ReplayInv, OneOwner
        <4> QED
          BY <1>0, <2>3, <3>2, <4>2
      <3>3. CASE c \in accepted
        <4>1. totp[v] # Nil /\ c.step <= totp[v].lastStep
          BY <3>1, <3>3 DEF ReplayInv, StepsBehind
        <4>2. c.step \in Int /\ totp[v].lastStep \in Int /\ totp'[v].lastStep \in Int
          <5>1. c \in Cred /\ totp[v] \in TotpRow
            BY <3>3, <4>1 DEF TypeInv, TypeOK
          <5>2. totp'[v].lastStep = totp[v].lastStep \/ totp'[v].lastStep = cred.step
            BY <1>0, <1>5, <4>1, <5>1 DEF SetLastStep, TypeInv, TypeOK, TotpRow
          <5> QED
            BY <1>0, <5>1, <5>2 DEF Cred, TotpRow
        <4> QED
          BY <1>2, <2>2, <4>1, <4>2
      <3> QED
        BY <2>1, <3>2, <3>3
    <2>5. CodesGone'
      BY <1>0, <2>1 DEF ReplayInv, CodesGone
    <2>6. OneOwner'
      BY <1>0, <1>4 DEF ReplayInv, OneOwner, HeldKept
    <2> QED
      BY <1>0, <1>1, <2>4, <2>5, <2>6, OthersReady DEF ReplayInv
  <1>6. CASE UNCHANGED totp /\ Rejected(r)
    <2>1. accepted' = accepted
      BY <1>6 DEF Rejected
    <2> QED
      BY <1>0, <1>1, <1>4, <1>6, <2>1, SecretsKept, CodesKept, OthersReady DEF ReplayInv
  <1> QED
    BY <1>5, <1>6 DEF ConsumeStep

\* A recovery code goes in the statement that finds it.
LEMMA UseCodeReplay ==
  ASSUME TypeInv, ReplayInv, NEW r \in Requests, OwnSlot(r), UseCode(r)
  PROVE  ReplayInv'
  <1> DEFINE u == User(r)
             cred == req[r].cred
  <1>0. /\ pc[r] = "use" /\ u \in Users /\ CodeReady(r)
        /\ UNCHANGED <<totp, drawn>> /\ cred.kind = "recovery"
    BY DEF UseCode, TypeInv, ReqOK, ReplayInv, CodeReady
  <1>1. /\ pc'[r] # "setLastStep" /\ req'[r] \in {req[r], NoRequest} /\ CodeReady(r)'
    BY <1>0, Answered DEF UseCode
  <1>2. HeldKept
    <2> SUFFICES ASSUME NEW k \in Secrets, NEW v \in Users, Held(k, v)' PROVE Held(k, v)
      BY DEF HeldKept
    <2> QED
      BY <1>0, <1>1 DEF CodeReady, Held, Confirming, User, OwnSlot, NoRequest
  <1>3. CASE cred.value \in rec[u] /\ Use(u, cred.value) /\ Granted(r)
    <2>1. accepted' = accepted \cup {cred}
      BY <1>3 DEF Granted
    <2>2. \A v \in Users : rec'[v] = IF v = u THEN rec[u] \ {cred.value} ELSE rec[v]
      BY <1>0, <1>3 DEF Use, TypeInv, TypeOK
    <2>3. CodesGone'
      BY <1>0, <1>3, <2>1, <2>2 DEF ReplayInv, CodesGone
    <2>4. OneOwner'
      BY <1>0, <1>2 DEF ReplayInv, OneOwner, HeldKept
    <2>5. StepsBehind'
      BY <1>0, <1>2, <2>1 DEF ReplayInv, StepsBehind, HeldKept
    <2> QED
      BY <1>0, <1>1, <2>3, <2>4, <2>5, OthersReady DEF ReplayInv
  <1>4. CASE UNCHANGED rec /\ Rejected(r)
    <2>1. accepted' = accepted
      BY <1>4 DEF Rejected
    <2> QED
      BY <1>0, <1>1, <1>2, <1>4, <2>1, SecretsKept, CodesKept, OthersReady DEF ReplayInv
  <1> QED
    BY <1>3, <1>4 DEF UseCode

\* A drawn secret was held by nobody, and none of its codes was accepted.
LEMMA ProvisionReplay ==
  ASSUME TypeInv, ReplayInv, NEW r \in Requests, OwnSlot(r), Provision(r)
  PROVE  ReplayInv'
  <1>0. /\ pc[r] = "provision" /\ User(r) \in Users
        /\ pc'[r] = "idle" /\ req'[r] = NoRequest
        /\ UNCHANGED <<rec, accepted>> /\ drawn \subseteq drawn'
    BY DEF Provision, Done, Goto, history, TypeInv, TypeOK, ReqOK
  <1>1. CodeReady(r)'
    BY <1>0 DEF CodeReady, NoRequest
  <1>2. CodesGone'
    BY <1>0, CodesKept
  <1>3. CASE UNCHANGED totp
    <2>1. HeldKept
      <3> SUFFICES ASSUME NEW k \in Secrets, NEW v \in Users, Held(k, v)' PROVE Held(k, v)
        BY DEF HeldKept
      <3> QED
        BY <1>0, <1>3 DEF Held, Confirming, User, OwnSlot, NoRequest
    <2> QED
      BY <1>0, <1>1, <1>3, <2>1, SecretsKept, CodesKept, OthersReady DEF ReplayInv
  <1>4. ASSUME NEW s \in Secrets \ drawn, SetTotp(User(r), s, FALSE), drawn' = drawn \cup {s}
        PROVE  ReplayInv'
    <2>1. \A k \in Secrets, v \in Users : Held(k, v)' => Held(k, v) \/ (k = s /\ v = User(r))
      BY <1>0, <1>4 DEF Held, Confirming, User, OwnSlot, NoRequest, SetTotp, TypeInv, TypeOK
    <2>2. \A v \in Users : ~Held(s, v)
      BY <1>4 DEF ReplayInv, OneOwner
    <2>3. OneOwner'
      BY <1>4, <2>1, <2>2 DEF ReplayInv, OneOwner
    <2>4. \A v \in Users : totp[v] # Nil =>
             totp'[v] # Nil /\ totp'[v].lastStep = totp[v].lastStep
      <3>1. \A v \in Users : totp'[v] # totp[v] =>
               totp'[v] \in TotpRow /\ (totp[v] # Nil => totp'[v].lastStep = totp[v].lastStep)
        BY <1>0, <1>4 DEF SetTotp, TypeInv, TypeOK, TotpRow
      <3> QED
        BY <3>1, StoreAssumption
    <2>5. StepsBehind'
      <3> SUFFICES ASSUME NEW c \in accepted, NEW v \in Users,
                          c.kind # "recovery", c.value \in Secrets, Held(c.value, v)'
                   PROVE  totp'[v] # Nil /\ c.step <= totp'[v].lastStep
        BY <1>0 DEF StepsBehind
      <3>1. c.value # s
        BY <1>4 DEF ReplayInv, CodesGone
      <3> QED
        BY <2>1, <2>4, <3>1 DEF ReplayInv, StepsBehind
    <2> QED
      BY <1>0, <1>1, <1>2, <2>3, <2>5, OthersReady DEF ReplayInv
  <1> QED
    BY <1>3, <1>4 DEF Provision, Fresh

\* EnablePOST reads the secret of its account, and writes that secret back.
LEMMA EnableReplay ==
  ASSUME TypeInv, ReplayInv, NEW r \in Requests, OwnSlot(r), EnableGet(r) \/ Activate(r)
  PROVE  ReplayInv'
  <1>0. /\ pc[r] \in {"enableGet", "activate"} /\ User(r) \in Users /\ CodeReady(r)
        /\ UNCHANGED <<rec, accepted, drawn>>
        /\ pc'[r] \in {"idle", "lockedUntil", "elevate", "replaceDelete"}
    BY DEF EnableGet, Activate, FinishEnable, Done, Goto, tables, history, TypeInv, TypeOK, ReqOK,
           ReplayInv
  <1>1. CASE EnableGet(r)
    <2>1. /\ UNCHANGED totp
          /\ \/ req'[r] = NoRequest
             \/ /\ req'[r].secret = totp[User(r)].secret /\ totp[User(r)] # Nil
                /\ req'[r].op = req[r].op /\ req'[r].cred = req[r].cred
                /\ User(r)' = User(r)
      BY <1>1 DEF EnableGet, Done, tables, User, TypeInv, TypeOK, Request
    <2>2. HeldKept
      <3> SUFFICES ASSUME NEW k \in Secrets, NEW v \in Users, Held(k, v)' PROVE Held(k, v)
        BY DEF HeldKept
      <3> QED
        BY <1>0, <2>1 DEF Held, Confirming, User, OwnSlot, NoRequest
    <2>3. CodeReady(r)'
      BY <1>0, <2>1 DEF CodeReady, NoRequest
    <2> QED
      BY <1>0, <2>1, <2>2, <2>3, SecretsKept, CodesKept, OthersReady DEF ReplayInv
  <1>2. CASE Activate(r)
    <2>1. /\ pc[r] = "activate" /\ req[r].op = "enable" /\ req[r].secret \in Secrets
          /\ req'[r] \in {req[r], NoRequest}
          /\ SetTotp(User(r), req[r].secret, TRUE)
      BY <1>2 DEF Activate, FinishEnable, Done, TypeInv, TypeOK, ReqOK
    <2>2. \A v \in Users : totp'[v] # totp[v] =>
             /\ v = User(r) /\ totp'[v] \in TotpRow /\ totp'[v].secret = req[r].secret
             /\ totp[v] # Nil => totp'[v].lastStep = totp[v].lastStep
      BY <1>0, <2>1 DEF SetTotp, TypeInv, TypeOK, TotpRow
    <2>3. HeldKept
      <3> SUFFICES ASSUME NEW k \in Secrets, NEW v \in Users, Held(k, v)' PROVE Held(k, v)
        BY DEF HeldKept
      <3> QED
        BY <1>0, <2>1, <2>2 DEF Held, Confirming, User, OwnSlot, NoRequest
    <2>4. CodeReady(r)'
      BY <1>0, <2>1 DEF CodeReady, NoRequest
    <2>5. \A v \in Users : totp[v] # Nil =>
             totp'[v] # Nil /\ totp'[v].lastStep = totp[v].lastStep
      BY <2>2, StoreAssumption
    <2> QED
      BY <1>0, <2>3, <2>4, <2>5, SecretsKept, CodesKept, OthersReady DEF ReplayInv
  <1> QED
    BY <1>1, <1>2

\* Recovery codes are deleted, or replaced by codes that were never drawn.
LEMMA ReplaceReplay ==
  ASSUME TypeInv, ReplayInv, NEW r \in Requests, OwnSlot(r), RemoveRecovery(r) \/ ReplaceCommit(r)
  PROVE  ReplayInv'
  <1>0. /\ User(r) \in Users /\ UNCHANGED <<totp, accepted>> /\ drawn \subseteq drawn'
        /\ pc'[r] = "idle" /\ req'[r] = NoRequest
    BY DEF RemoveRecovery, ReplaceCommit, Done, Goto, history, TypeInv, TypeOK, ReqOK
  <1>1. CodeReady(r)'
    BY <1>0 DEF CodeReady, NoRequest
  <1>2. HeldKept
    <2> SUFFICES ASSUME NEW k \in Secrets, NEW v \in Users, Held(k, v)' PROVE Held(k, v)
      BY DEF HeldKept
    <2> QED
      BY <1>0 DEF Held, Confirming, User, OwnSlot, NoRequest
  <1>3. CodesGone'
    <2>1. CASE RemoveRecovery(r) \/ UNCHANGED rec
      <3>1. \A u \in Users : rec'[u] \subseteq rec[u]
        BY <1>0, <2>1 DEF RemoveRecovery, DeleteRecovery, TypeInv, TypeOK
      <3> QED
        BY <1>0, <3>1, CodesKept
    <2>2. ASSUME NEW codes, codes \cap drawn = {}, drawn' = drawn \cup codes,
                 CommitReplace(User(r), req[r].snap, codes)
          PROVE  CodesGone'
      <3>1. \A u \in Users :
               /\ u = User(r) => rec'[u] \subseteq rec[u] \cup codes
               /\ u # User(r) => rec'[u] = rec[u]
        BY <1>0, <2>2 DEF CommitReplace, TypeInv, TypeOK
      <3> QED
        BY <1>0, <2>2, <3>1 DEF ReplayInv, CodesGone
    <2> QED
      BY <2>1, <2>2 DEF ReplaceCommit, Fresh
  <1> QED
    BY <1>0, <1>1, <1>2, <1>3, SecretsKept, OthersReady DEF ReplayInv

\* A secret is deleted when no request of its account goes by it: nobody holds it
\* any more.
LEMMA RemoveReplay ==
  ASSUME TypeInv, ReplayInv, NEW r \in Requests, OwnSlot(r), RemoveTotp(r), RemovesAlone
  PROVE  ReplayInv'
  <1> PICK u \in Users : u = User(r)
    BY DEF RemoveTotp, TypeInv, ReqOK
  <1>0. /\ pc[r] = "deleteTotp"
        /\ UNCHANGED <<rec, drawn, accepted>>
        /\ pc'[r] \in {"idle", "deleteRecovery"} /\ req'[r] \in {req[r], NoRequest}
        /\ totp' = [totp EXCEPT ![u] = Nil]
    BY DEF RemoveTotp, DeleteTotp, Done, Goto, history, TypeInv, TypeOK
  <1>1. CodeReady(r)'
    BY <1>0 DEF CodeReady, ReplayInv, NoRequest
  <1>2. \A v \in Users : totp'[v] = IF v = u THEN Nil ELSE totp[v]
    BY <1>0 DEF TypeInv, TypeOK
  <1>3. HeldKept
    <2> SUFFICES ASSUME NEW k \in Secrets, NEW v \in Users, Held(k, v)' PROVE Held(k, v)
      BY DEF HeldKept
    <2> QED
      BY <1>0, <1>2 DEF Held, Confirming, User, OwnSlot, NoRequest
  <1>4. OneOwner'
    BY <1>0, <1>3 DEF ReplayInv, OneOwner, HeldKept
  <1>5. ASSUME totp[u] # Nil, NEW k \in Secrets PROVE ~Held(k, u)'
    <2>1. \A q \in Requests : User(q) = u => pc[q] # "setLastStep" /\ ~Confirming(q)
      BY <1>0, <1>2, <1>5 DEF RemovesAlone, Removes
    <2>2. ASSUME NEW q \in Requests, User(q)' = u
          PROVE  pc'[q] # "setLastStep" /\ ~Confirming(q)'
      BY <1>0, <2>1, <2>2 DEF OwnSlot, Confirming, User
    <2>3. totp'[u] = Nil
      BY <1>0, <1>2
    <2> QED
      BY <2>2, <2>3 DEF Held
  <1>6. StepsBehind'
    <2> SUFFICES ASSUME NEW c \in accepted, NEW v \in Users,
                        c.kind # "recovery", c.value \in Secrets, Held(c.value, v)'
                 PROVE  totp'[v] # Nil /\ c.step <= totp'[v].lastStep
      BY <1>0 DEF StepsBehind
    <2>1. totp[v] # Nil /\ c.step <= totp[v].lastStep
      BY <1>3 DEF HeldKept, ReplayInv, StepsBehind
    <2>2. v # u
      BY <1>5, <2>1
    <2> QED
      BY <1>2, <2>1, <2>2
  <1> QED
    BY <1>0, <1>1, <1>4, <1>6, CodesKept, OthersReady DEF ReplayInv

LEMMA PlainReplay ==
  ASSUME TypeInv, ReplayInv, NEW r \in Requests, Plain(r)
  PROVE  ReplayInv'
  <1>1. CodeReady(r)'
    BY DEF Plain, CodeReady
  <1>2. OwnSlot(r) /\ UNCHANGED <<totp, rec, accepted>> /\ drawn \subseteq drawn'
    BY DEF Plain
  <1> QED
    BY <1>1, <1>2, PlainHeld, SecretsKept, CodesKept, OthersReady DEF ReplayInv

LEMMA ReplayStep ==
  ASSUME TypeInv, ReplayInv, [Next]_vars, [RemovesAlone]_vars
  PROVE  ReplayInv'
  <1>1. CASE Tick \/ Purge \/ UNCHANGED vars
    <2>1. UNCHANGED <<totp, rec, pc, req, drawn, accepted>>
      BY <1>1 DEF Tick, Purge, vars, tables, history
    <2> QED
      BY <2>1 
      DEF ReplayInv, CodeReady, OneOwner, StepsBehind, CodesGone, Held, Confirming, User
  <1>2. ASSUME NEW r \in Requests, Arrive(r) \/ Step(r) \/ Abort(r) \/ IgnoredError(r)
        PROVE  ReplayInv'
    <2>1. OwnSlot(r)
      BY <1>2, StepIsOwn
    <2>2. CASE RemoveTotp(r)
      <3>1. UNCHANGED vars => UNCHANGED totp
        BY DEF vars, tables
      <3>2. RemovesAlone
        BY <3>1 DEF RemovesAlone, Removes
      <3> QED
        BY <2>1, <2>2, <3>2, RemoveReplay
    <2> QED
      BY <1>2, <2>1, <2>2, ReplaySteps, PlainReplay, ConsumeGetReplay, ConsumeStepReplay,
         UseCodeReplay, ProvisionReplay, EnableReplay, ReplaceReplay
  <1> QED
    BY <1>1, <1>2 DEF Next

\* A code that is accepted is a code, and was not accepted before.
LEMMA AcceptedOnce ==
  ASSUME TypeInv, ReplayInv, NEW r \in Requests, ConsumeStep(r) \/ UseCode(r)
  PROVE  \/ Rejected(r) /\ UNCHANGED <<totp, rec>>
         \/ Granted(r) /\ req[r].cred \notin accepted /\ req[r].cred # NoCred
  <1>0. pc[r] \in {"setLastStep", "use"} /\ CodeReady(r) /\ User(r) \in Users
    BY DEF ConsumeStep, UseCode, ReplayInv, TypeInv, ReqOK
  <1>1. CASE ConsumeStep(r)
    <2>1. UNCHANGED rec /\ pc[r] = "setLastStep"
      BY <1>1 DEF ConsumeStep
    <2>2. CASE Advances(User(r), req[r].cred.step) /\ Granted(r)
      <3>1. /\ req[r].cred.kind # "recovery" /\ req[r].cred.value \in Secrets
            /\ Held(req[r].cred.value, User(r))
        BY <1>0, <2>1 DEF CodeReady, Held
      <3>2. totp[User(r)] # Nil /\ totp[User(r)].lastStep < req[r].cred.step
        BY <2>2 DEF Advances
      <3>3. req[r].cred.step \in Int /\ totp[User(r)].lastStep \in Int
        BY <1>0, <3>2, RequestFacts DEF TypeInv, TypeOK, TotpRow
      <3>4. req[r].cred \notin accepted
        BY <1>0, <3>1, <3>2, <3>3 DEF ReplayInv, StepsBehind
      <3> QED
        BY <2>2, <3>1, <3>4, StoreAssumption DEF NoCred
    <2> QED
      BY <1>1, <2>1, <2>2 DEF ConsumeStep
  <1>2. CASE UseCode(r)
    <2>1. UNCHANGED totp /\ pc[r] = "use" /\ req[r].cred.kind = "recovery"
      BY <1>0, <1>2 DEF UseCode, CodeReady
    <2>2. CASE req[r].cred.value \in rec[User(r)] /\ Granted(r)
      <3>1. req[r].cred \notin accepted
        BY <1>0, <2>1, <2>2 DEF ReplayInv, CodesGone
      <3> QED
        BY <2>1, <2>2, <3>1 DEF NoCred
    <2> QED
      BY <1>2, <2>1, <2>2 DEF UseCode
  <1> QED
    BY <1>1, <1>2

LEMMA InitReplay ==
  ASSUME DistinctAtStart, Init
  PROVE  ReplayInv
  <1>1. \A r \in Requests : pc[r] = "idle" /\ req[r] = NoRequest /\ CodeReady(r)
    BY DEF Init, CodeReady, NoRequest
  <1>2. \A k \in Secrets, u \in Users : Held(k, u) => InitTotp[u] # Nil /\ InitTotp[u].secret = k
    BY <1>1 DEF Init, Held, Confirming, NoRequest
  <1>3. OneOwner
    BY <1>2 DEF Init, OneOwner, DistinctAtStart
  <1> QED
    BY <1>1, <1>3 DEF Init, ReplayInv, StepsBehind, CodesGone, DistinctAtStart

\* A code, TOTP or recovery, is accepted once whatever the requests that race for
\* it, where no secret is deleted while a request goes by it and the secrets and
\* recovery codes at the start are distinct (consumeCode, useRecoveryCode).
THEOREM NoReplayCorrect ==
  ASSUME DistinctAtStart
  PROVE  Spec /\ RemovedAlone => NoReplay
  <1>1. Init => ReplayInv
    BY InitReplay
  <1>2. TypeInv /\ ReplayInv /\ [Next]_vars /\ [RemovesAlone]_vars => ReplayInv'
    BY ReplayStep
  <1>3. TypeInv /\ ReplayInv /\ [Next]_vars =>
           [\A r \in Requests : Takes(r) => req[r].cred \notin accepted]_vars
    <2> SUFFICES ASSUME TypeInv, ReplayInv, Next, NEW r \in Requests, Takes(r)
                 PROVE  req[r].cred \notin accepted
      OBVIOUS
    <2>0. pc[r] \in {"setLastStep", "use"} /\ pc'[r] # pc[r] /\ CodeReady(r) /\ User(r) \in Users
      BY DEF Takes, ReplayInv, TypeInv, ReqOK
    <2>1. PICK q \in Requests : Arrive(q) \/ Step(q) \/ Abort(q) \/ IgnoredError(q)
      BY <2>0 DEF Next, Tick, Purge
    <2>2. Arrive(r) \/ Step(r) \/ Abort(r) \/ IgnoredError(r)
      <3>1. OwnSlot(q)
        BY <2>1, StepIsOwn
      <3>2. q = r
        BY <2>0, <3>1 DEF OwnSlot
      <3> QED
        BY <2>1, <3>2
    <2>3. ~Abort(r) /\ ~IgnoredError(r) /\ ~Arrive(r)
      <3>1. ~Abort(r)
        BY <2>0 DEF Abort, Done, Goto, tables, Takes, TypeInv, TypeOK
      <3>2. ~IgnoredError(r)
        BY <2>0 DEF IgnoredError
      <3>3. ~Arrive(r)
        BY <2>0, ArriveBrings
      <3> QED
        BY <3>1, <3>2, <3>3
    <2>4. ConsumeStep(r) \/ UseCode(r)
      BY <2>0, <2>2, <2>3
      DEF Step, ReadEnabled, LoadChallenge, DropChallenge, ReadLock, Create, CountAttempt,
          ConsumeGet, FailUpsert, FailRead, FailLock, ResetFailures, ClearChallenge, OpenSession,
          Provision, EnableGet, Activate, Elevate, DisableGet, RemoveTotp, RemoveRecovery,
          ReplaceDelete, ReplaceCommit
    <2>5. ~(Rejected(r) /\ UNCHANGED <<totp, rec>>)
      BY DEF Takes, Rejected, Done, Goto, TypeInv, TypeOK
    <2> QED
      BY <2>4, <2>5, AcceptedOnce
  <1> QED
    BY <1>1, <1>2, <1>3, InitTypeInv, TypeInductive, PTL
    DEF Spec, NoReplay, RemovedAlone

\* The condition is met, among others, where no DisablePOST is served.
LEMMA NothingRemoved ==
  ASSUME \A r \in Requests : "disable" \notin Serves[r]
  PROVE  Spec => RemovedAlone
  <1>1. TypeInv /\ ServedInv /\ [Next]_vars => [RemovesAlone]_vars
    BY RemovedByDisable DEF RemovesAlone
  <1> QED
    BY <1>1, InitTypeInv, TypeInductive, InitServed, ServedStep, PTL DEF Spec, RemovedAlone

--------------------------------------------------------------------------------
(* The sessions. *)

\* r goes on after an accepted code, towards the session it may open with it.
Paying(r) ==
    /\ req[r].op # "login"
    /\ pc[r] \in {"reset", "clearChallenge", "activate", "elevate", "openSession"}

\* Each accepted code pays for the session of one request, open or still to come.
PaidInv ==
    /\ NoCred \notin accepted
    /\ \A s \in SessTokens : paidBy[s] \in accepted \cup {NoCred}
    /\ \A r \in Requests :
          /\ req[r].op = "login" => req[r].cred = NoCred
          /\ Paying(r) =>
                /\ req[r].cred \in accepted
                /\ \A q \in Requests : Paying(q) /\ req[q].cred = req[r].cred => q = r
                /\ \A s \in SessTokens : paidBy[s] # req[r].cred
    /\ SessionsPaid

\* r neither has a code accepted nor opens a session.
PaysNothing(r) ==
    /\ OwnSlot(r)
    /\ UNCHANGED <<accepted, paidBy>>
    /\ \A s \in SessTokens : sess'[s] \in {sess[s], Nil}
    /\ req'[r].op = "login" => req'[r].cred = NoCred
    /\ Paying(r)' => Paying(r) /\ req'[r].cred = req[r].cred

\* Only a right code puts a request on the way to a session, and only OpenSession
\* opens one.
LEMMA PaidSteps ==
  ASSUME TypeInv, PaidInv, NEW r \in Requests,
         Arrive(r) \/ Step(r) \/ Abort(r) \/ IgnoredError(r)
  PROVE  PaysNothing(r) \/ ConsumeStep(r) \/ UseCode(r) \/ OpenSession(r)
  <1>0. OwnSlot(r) /\ (req[r].op = "login" => req[r].cred = NoCred)
    BY StepIsOwn DEF PaidInv
  <1> USE DEF PaysNothing, Paying, Done, Goto, tables, history, TypeInv, TypeOK
  <1>a. NoRequest.op = "none"
    BY DEF NoRequest
  <1>1. CASE Arrive(r)
    BY <1>0, <1>1, ArriveBrings
  <1>2. CASE IgnoredError(r) \/ ReadEnabled(r) \/ Abort(r)
    BY <1>0, <1>a, <1>2 DEF IgnoredError, ReadEnabled, EnabledAnswers, Abort
  <1>3. CASE LoadChallenge(r)
    BY <1>0, <1>a, <1>3 DEF LoadChallenge, Request
  <1>4. CASE ReadLock(r)
    BY <1>0, <1>a, <1>4 DEF ReadLock, AfterLockCheck, Check
  <1>5. CASE DropChallenge(r) \/ Create(r) \/ CountAttempt(r)
    BY <1>0, <1>a, <1>5 DEF DropChallenge, Create, CountAttempt, Check
  <1>6. CASE ConsumeGet(r)
    BY <1>0, <1>a, <1>6 DEF ConsumeGet, Rejected
  <1>7. CASE FailUpsert(r)
    BY <1>0, <1>7 DEF FailUpsert, Request
  <1>8. CASE FailRead(r)
    BY <1>0, <1>a, <1>8 DEF FailRead, Request
  <1>9. CASE FailLock(r)
    BY <1>0, <1>a, <1>9 DEF FailLock
  <1>10. CASE ResetFailures(r)
    BY <1>0, <1>a, <1>10 DEF ResetFailures, Proceed
  <1>11. CASE ClearChallenge(r) \/ Elevate(r) \/ DisableGet(r)
    BY <1>0, <1>a, <1>11 DEF ClearChallenge, Elevate, DisableGet
  <1>12. CASE Provision(r) \/ RemoveTotp(r) \/ RemoveRecovery(r) \/ ReplaceCommit(r)
    BY <1>0, <1>a, <1>12 DEF Provision, RemoveTotp, RemoveRecovery, ReplaceCommit
  <1>13. CASE EnableGet(r)
    BY <1>0, <1>a, <1>13 DEF EnableGet, Request
  <1>14. CASE Activate(r)
    BY <1>0, <1>a, <1>14 DEF Activate, FinishEnable
  <1>15. CASE ReplaceDelete(r)
    BY <1>0, <1>15 DEF ReplaceDelete, Request
  <1> QED
    BY <1>1, <1>2, <1>3, <1>4, <1>5, <1>6, <1>7, <1>8, <1>9, <1>10, <1>11, <1>12, <1>13,
       <1>14, <1>15 DEF Step

LEMMA PaysNothingKeeps ==
  ASSUME PaidInv, NEW r \in Requests, PaysNothing(r)
  PROVE  PaidInv'
  <1>1. \A q \in Requests :
           /\ req'[q].op = "login" => req'[q].cred = NoCred
           /\ Paying(q)' => Paying(q) /\ req'[q].cred = req[q].cred
    BY DEF PaysNothing, OwnSlot, Paying, PaidInv
  <1>2. SessionsPaid'
    BY DEF PaysNothing, PaidInv, SessionsPaid
  <1> QED
    BY <1>1, <1>2 DEF PaysNothing, PaidInv

\* A code that is accepted for the first time has paid for nothing.
LEMMA GrantKeeps ==
  ASSUME TypeInv, ReplayInv, PaidInv, NEW r \in Requests, ConsumeStep(r) \/ UseCode(r)
  PROVE  PaidInv'
  <1>0. /\ OwnSlot(r) /\ UNCHANGED <<sess, paidBy>> /\ CodeReady(r)
    BY StepIsOwn DEF ConsumeStep, UseCode, Step, ReplayInv
  <1>1. CASE Rejected(r)
    <2>1. PaysNothing(r)
      BY <1>0, <1>1
      DEF PaysNothing, Paying, PaidInv, Rejected, Done, Goto, NoRequest, TypeInv, TypeOK
    <2> QED
      BY <2>1, PaysNothingKeeps
  <1>2. CASE Granted(r) /\ req[r].cred \notin accepted /\ req[r].cred # NoCred
    <2>1. accepted' = accepted \cup {req[r].cred} /\ req'[r] \in {req[r], NoRequest}
      BY <1>2 DEF Granted, Proceed, Done, TypeInv, TypeOK
    <2>2. \A q \in Requests \ {r} : Paying(q)' = Paying(q) /\ req'[q] = req[q]
      BY <1>0 DEF OwnSlot, Paying
    <2>3. Paying(r)' => req'[r] = req[r]
      BY <1>2 DEF Paying, Done, Granted, Proceed, Goto, TypeInv, TypeOK
    <2>4. req'[r].op = "login" => req'[r].cred = NoCred
      BY <2>1 DEF PaidInv, NoRequest
    <2>5. SessionsPaid'
      BY <1>0, <2>1 DEF PaidInv, SessionsPaid
    <2> QED
      BY <1>0, <1>2, <2>1, <2>2, <2>3, <2>4, <2>5 DEF PaidInv
  <1> QED
    BY <1>1, <1>2, AcceptedOnce

\* A session is opened for the code of the request, which then pays no more.
LEMMA OpenKeeps ==
  ASSUME TypeInv, PaidInv, NEW r \in Requests, OpenSession(r)
  PROVE  PaidInv'
  <1>0. /\ OwnSlot(r) /\ UNCHANGED accepted /\ pc[r] = "openSession"
    BY StepIsOwn DEF OpenSession, Step
  <1>1. ~Paying(r)' /\ (req'[r].op = "login" => req'[r].cred = NoCred)
    BY DEF OpenSession, FinishEnable, Done, Goto, Paying, PaidInv, NoRequest, TypeInv, TypeOK
  <1>2. CASE UNCHANGED <<sess, paidBy>>
    <2>1. PaysNothing(r)
      BY <1>0, <1>1, <1>2 DEF PaysNothing
    <2> QED
      BY <2>1, PaysNothingKeeps
  <1>3. ASSUME NEW s \in SessTokens,
               sess' = [sess EXCEPT ![s] = [user |-> User(r), purpose |-> Purpose(r)]],
               paidBy' = [paidBy EXCEPT ![s] = req[r].cred]
        PROVE  PaidInv'
    <2>1. \A t \in SessTokens :
             /\ paidBy'[t] = IF t = s THEN req[r].cred ELSE paidBy[t]
             /\ t # s => sess'[t] = sess[t]
             /\ t = s => sess'[t].purpose = Purpose(r)
      BY <1>3 DEF TypeInv, TypeOK
    <2>2. \A q \in Requests \ {r} : Paying(q)' = Paying(q) /\ req'[q] = req[q]
      BY <1>0 DEF OwnSlot, Paying
    <2>3. CASE req[r].op = "login"
      <3>1. req[r].cred = NoCred /\ (EnrollRequired => Purpose(r) = "setup")
        BY <2>3 DEF PaidInv, Purpose
      <3>2. SessionsPaid'
        BY <1>0, <2>1, <3>1 DEF PaidInv, SessionsPaid
      <3> QED
        BY <1>0, <1>1, <2>1, <2>2, <3>1, <3>2 DEF PaidInv
    <2>4. CASE req[r].op # "login"
      <3>1. Paying(r)
        BY <1>0, <2>4 DEF Paying
      <3>2. /\ req[r].cred \in accepted
            /\ \A q \in Requests : Paying(q) /\ req[q].cred = req[r].cred => q = r
            /\ \A t \in SessTokens : paidBy[t] # req[r].cred
        BY <3>1 DEF PaidInv
      <3>3. SessionsPaid'
        BY <1>0, <2>1, <3>2 DEF PaidInv, SessionsPaid
      <3> QED
        BY <1>0, <1>1, <2>1, <2>2, <3>2, <3>3 DEF PaidInv
    <2> QED
      BY <2>3, <2>4
  <1> QED
    BY <1>2, <1>3 DEF OpenSession, Fresh

LEMMA PaidStep ==
  ASSUME TypeInv, ReplayInv, PaidInv, [Next]_vars
  PROVE  PaidInv'
  <1>1. CASE Tick \/ Purge \/ UNCHANGED vars
    BY <1>1 DEF Tick, Purge, vars, tables, history, PaidInv, Paying, SessionsPaid
  <1>2. ASSUME NEW r \in Requests, Arrive(r) \/ Step(r) \/ Abort(r) \/ IgnoredError(r)
        PROVE  PaidInv'
    BY <1>2, PaidSteps, PaysNothingKeeps, GrantKeeps, OpenKeeps
  <1> QED
    BY <1>1, <1>2 DEF Next

LEMMA InitPaid == Init => PaidInv
  BY DEF Init, PaidInv, Paying, SessionsPaid, NoRequest

\* Where enrolment is required, an authenticated session is opened for an accepted
\* code, and a code opens one session, whatever the logins and set-ups that overlap
\* (Begin, VerifyPOST, EnablePOST, Elevate).
THEOREM SessionsPaidCorrect ==
  ASSUME DistinctAtStart
  PROVE  Spec /\ RemovedAlone => []SessionsPaid
  <1>1. Init => ReplayInv /\ PaidInv
    BY InitReplay, InitPaid
  <1>2. TypeInv /\ ReplayInv /\ PaidInv /\ [Next]_vars /\ [RemovesAlone]_vars
           => ReplayInv' /\ PaidInv'
    BY ReplayStep, PaidStep
  <1>3. PaidInv => SessionsPaid
    BY DEF PaidInv
  <1> QED
    BY <1>1, <1>2, <1>3, InitTypeInv, TypeInductive, PTL DEF Spec, RemovedAlone

--------------------------------------------------------------------------------
(* Enrolment. *)

\* No account has a set-up page about to write a secret and a confirmation that has
\* read one, at once.
SetUpApart ==
    \A r, q \in Requests : pc[r] = "provision" /\ Confirming(q) => User(r) # User(q)

\* What EnablePOST has in hand: a code of the authenticator, of the secret it is to
\* activate once it matched, and accepted once the handler goes on.
CodeOfSecret(r) ==
    req[r].op = "enable" =>
        /\ req[r].cred.kind = "totp" /\ pc[r] \notin {"incrAttempts", "disableGet", "use"}
        /\ pc[r] \in {"setLastStep", "reset", "activate"} => req[r].cred.value = req[r].secret
        /\ pc[r] \in {"reset", "activate"} => req[r].cred \in accepted

\* The confirmations of an account are all about the secret of its row.
SecretAgreed ==
    \A r \in Requests : Confirming(r) =>
        /\ totp[User(r)] # Nil => totp[User(r)].secret = req[r].secret
        /\ \A q \in Requests :
              Confirming(q) /\ User(q) = User(r) => req[q].secret = req[r].secret

EnrolInv == (\A r \in Requests : CodeOfSecret(r)) /\ SecretAgreed /\ EnabledConfirmed

\* r writes no secret and reads none to activate it.
Idles(r) ==
    /\ OwnSlot(r)
    /\ UNCHANGED totp /\ accepted \subseteq accepted'
    /\ Confirming(r)' =>
          Confirming(r) /\ req'[r].secret = req[r].secret /\ User(r)' = User(r)
    /\ CodeOfSecret(r)'

\* The handlers do but for five statements on the table of secrets.
LEMMA EnrolSteps ==
  ASSUME TypeInv, EnrolInv, NEW r \in Requests,
         Arrive(r) \/ Step(r) \/ Abort(r) \/ IgnoredError(r)
  PROVE  \/ Idles(r) \/ ConsumeStep(r) \/ EnableGet(r) \/ Provision(r) \/ Activate(r)
         \/ RemoveTotp(r)
  <1>0. OwnSlot(r) /\ CodeOfSecret(r)
    BY StepIsOwn DEF EnrolInv
  <1> USE DEF Idles, Done, Goto, tables, history, TypeInv, TypeOK, CodeOfSecret, Confirming, User
  <1>a. NoRequest.op = "none"
    BY DEF NoRequest
  <1>1. CASE Arrive(r)
    BY <1>0, <1>1, ArriveBrings
  <1>2. CASE IgnoredError(r) \/ ReadEnabled(r) \/ Abort(r)
    BY <1>0, <1>a, <1>2 DEF IgnoredError, ReadEnabled, EnabledAnswers, Abort
  <1>3. CASE LoadChallenge(r)
    BY <1>0, <1>a, <1>3 DEF LoadChallenge, Request
  <1>4. CASE ReadLock(r)
    BY <1>0, <1>a, <1>4 DEF ReadLock, AfterLockCheck, Check
  <1>5. CASE DropChallenge(r) \/ Create(r) \/ CountAttempt(r)
    BY <1>0, <1>a, <1>5 DEF DropChallenge, Create, CountAttempt
  <1>6. CASE ConsumeGet(r)
    <2>1. Confirming(r) /\ totp[User(r)] # Nil => totp[User(r)].secret = req[r].secret
      BY DEF EnrolInv, SecretAgreed
    <2> QED
      BY <1>0, <1>a, <1>6, <2>1 DEF ConsumeGet, Matches, Rejected
  <1>7. CASE UseCode(r)
    BY <1>0, <1>a, <1>7 DEF UseCode, Granted, Rejected, Proceed
  <1>8. CASE FailUpsert(r)
    BY <1>0, <1>8 DEF FailUpsert, Request
  <1>9. CASE FailRead(r)
    BY <1>0, <1>a, <1>9 DEF FailRead, Request
  <1>10. CASE FailLock(r)
    BY <1>0, <1>a, <1>10 DEF FailLock
  <1>11. CASE ResetFailures(r)
    BY <1>0, <1>a, <1>11 DEF ResetFailures, Proceed, AfterGrant
  <1>12. CASE ClearChallenge(r) \/ Elevate(r) \/ DisableGet(r)
    BY <1>0, <1>a, <1>12 DEF ClearChallenge, Elevate, DisableGet
  <1>13. CASE OpenSession(r)
    BY <1>0, <1>a, <1>13 DEF OpenSession, FinishEnable
  <1>14. CASE RemoveRecovery(r) \/ ReplaceCommit(r)
    BY <1>0, <1>a, <1>14 DEF RemoveRecovery, ReplaceCommit
  <1>15. CASE ReplaceDelete(r)
    BY <1>0, <1>15 DEF ReplaceDelete, Request
  <1> QED
    BY <1>1, <1>2, <1>3, <1>4, <1>5, <1>6, <1>7, <1>8, <1>9, <1>10, <1>11, <1>12, <1>13,
       <1>14, <1>15 DEF Step

\* What a step writes to the table of secrets.
LEMMA SecretWritten ==
  ASSUME TypeInv, NEW r \in Requests,
         ConsumeStep(r) \/ EnableGet(r) \/ Provision(r) \/ Activate(r) \/ RemoveTotp(r)
  PROVE  /\ User(r) \in Users
         /\ \A u \in Users : u # User(r) => totp'[u] = totp[u]
         /\ EnableGet(r) => totp' = totp
         /\ ConsumeStep(r) =>
               \/ totp'[User(r)] = totp[User(r)]
               \/ /\ totp[User(r)] # Nil /\ totp'[User(r)] # Nil
                  /\ totp'[User(r)].secret = totp[User(r)].secret
                  /\ totp'[User(r)].enabled = totp[User(r)].enabled
         /\ Provision(r) =>
               totp'[User(r)] = totp[User(r)] \/ totp'[User(r)].enabled = FALSE
         /\ Activate(r) =>
               /\ totp'[User(r)] # Nil /\ totp'[User(r)].secret = req[r].secret
               /\ totp'[User(r)].enabled = TRUE
         /\ RemoveTotp(r) => totp'[User(r)] = Nil
  <1>0. User(r) \in Users
    BY DEF ConsumeStep, EnableGet, Provision, Activate, RemoveTotp, TypeInv, ReqOK
  <1>1. ASSUME NEW k, NEW on, SetTotp(User(r), k, on)
        PROVE  /\ \A u \in Users : u # User(r) => totp'[u] = totp[u]
               /\ totp'[User(r)].secret = k /\ totp'[User(r)].enabled = on
               /\ k \in Secrets /\ on \in BOOLEAN => totp'[User(r)] # Nil
    BY <1>0, <1>1, StoreAssumption DEF SetTotp, TypeInv, TypeOK, TotpRow
  <1>2. CASE ConsumeStep(r)
    BY <1>0, <1>2, RequestFacts, StoreAssumption
    DEF ConsumeStep, Advances, SetLastStep, EnableGet, Provision, Activate, RemoveTotp,
        TypeInv, TypeOK, TotpRow
  <1>3. CASE EnableGet(r)
    BY <1>0, <1>3 DEF ConsumeStep, EnableGet, Provision, Activate, RemoveTotp, tables
  <1>4. CASE Provision(r)
    BY <1>0, <1>1, <1>4 DEF ConsumeStep, EnableGet, Provision, Activate, RemoveTotp
  <1>5. CASE Activate(r)
    BY <1>0, <1>1, <1>5 DEF ConsumeStep, EnableGet, Provision, Activate, RemoveTotp, TypeInv, ReqOK
  <1>6. CASE RemoveTotp(r)
    BY <1>0, <1>6 DEF ConsumeStep, EnableGet, Provision, Activate, RemoveTotp, DeleteTotp,
                      TypeInv, TypeOK
  <1> QED
    BY <1>0, <1>2, <1>3, <1>4, <1>5, <1>6

\* What r has in hand after one of these statements.
LEMMA CodeAfter ==
  ASSUME TypeInv, EnrolInv, NEW r \in Requests,
         ConsumeStep(r) \/ EnableGet(r) \/ Provision(r) \/ Activate(r) \/ RemoveTotp(r)
  PROVE  /\ OwnSlot(r) /\ accepted \subseteq accepted' /\ CodeOfSecret(r)'
         /\ Confirming(r)' =>
               /\ ConsumeStep(r) \/ EnableGet(r)
               /\ User(r)' = User(r)
               /\ ConsumeStep(r) => Confirming(r) /\ req'[r].secret = req[r].secret
               /\ EnableGet(r) => totp[User(r)] # Nil /\ req'[r].secret = totp[User(r)].secret
  <1>0. OwnSlot(r) /\ CodeOfSecret(r)
    BY StepIsOwn DEF EnrolInv, Step
  <1>a. NoRequest.op = "none"
    BY DEF NoRequest
  <1> USE DEF Done, Goto, history, TypeInv, TypeOK, CodeOfSecret, Confirming, User
  <1>1. CASE ConsumeStep(r)
    BY <1>0, <1>a, <1>1
    DEF ConsumeStep, Granted, Rejected, Proceed, AfterGrant, EnableGet
  <1>2. CASE EnableGet(r)
    BY <1>0, <1>a, <1>2 DEF EnableGet, ConsumeStep, Request
  <1>3. CASE Provision(r) \/ Activate(r) \/ RemoveTotp(r)
    BY <1>0, <1>a, <1>3 DEF Provision, Activate, FinishEnable, RemoveTotp
  <1> QED
    BY <1>1, <1>2, <1>3

\* A secret is active once one of its codes was accepted, if the row keeps the secret
\* that the confirmation read.
LEMMA EnrolStep ==
  ASSUME TypeInv, EnrolInv, SetUpApart, [Next]_vars
  PROVE  EnrolInv'
  <1>1. CASE Tick \/ Purge \/ UNCHANGED vars
    <2>1. UNCHANGED <<totp, pc, req, accepted>>
      BY <1>1 DEF Tick, Purge, vars, tables, history
    <2> QED
      BY <2>1 DEF EnrolInv, CodeOfSecret, SecretAgreed, EnabledConfirmed, Enabled, Confirming, User
  <1>2. ASSUME NEW r \in Requests, OwnSlot(r), accepted \subseteq accepted', CodeOfSecret(r)',
               SecretAgreed', EnabledConfirmed'
        PROVE  EnrolInv'
    <2>1. \A q \in Requests \ {r} : CodeOfSecret(q)'
      BY <1>2 DEF EnrolInv, CodeOfSecret, OwnSlot
    <2> QED
      BY <1>2, <2>1 DEF EnrolInv
  <1>3. ASSUME NEW r \in Requests, Idles(r)
        PROVE  EnrolInv'
    <2>1. \A q \in Requests : Confirming(q)' =>
             Confirming(q) /\ req'[q].secret = req[q].secret /\ User(q)' = User(q)
      BY <1>3 DEF Idles, OwnSlot, Confirming, User
    <2>2. SecretAgreed'
      BY <1>3, <2>1 DEF EnrolInv, SecretAgreed, Idles
    <2>3. EnabledConfirmed'
      BY <1>3 DEF EnrolInv, EnabledConfirmed, Enabled, Idles
    <2> QED
      BY <1>2, <1>3, <2>2, <2>3 DEF Idles
  <1>4. ASSUME NEW r \in Requests,
               ConsumeStep(r) \/ EnableGet(r) \/ Provision(r) \/ Activate(r) \/ RemoveTotp(r)
        PROVE  EnrolInv'
    <2>0. OwnSlot(r) /\ accepted \subseteq accepted' /\ CodeOfSecret(r)' /\ User(r) \in Users
      BY <1>4, CodeAfter, SecretWritten
    <2>1. \A q \in Requests \ {r} :
             /\ Confirming(q)' = Confirming(q) /\ User(q)' = User(q)
             /\ req'[q].secret = req[q].secret
      BY <2>0 DEF OwnSlot, Confirming, User
    <2>2. SecretAgreed'
      <3>1. CASE ConsumeStep(r)
        <4>1. \A q \in Requests : Confirming(q)' =>
                 Confirming(q) /\ req'[q].secret = req[q].secret /\ User(q)' = User(q)
          BY <2>1, <3>1, CodeAfter
        <4>2. \A q \in Requests : Confirming(q) /\ totp'[User(q)] # Nil =>
                 totp[User(q)] # Nil /\ totp'[User(q)].secret = totp[User(q)].secret
          <5>1. \A q \in Requests : Confirming(q) => User(q) \in Users
            BY DEF Confirming, TypeInv, ReqOK
          <5> QED
            BY <3>1, <5>1, SecretWritten
        <4> QED
          BY <4>1, <4>2 DEF EnrolInv, SecretAgreed
      <3>2. CASE EnableGet(r)
        <4>1. UNCHANGED totp
          BY <3>2, SecretWritten
        <4>2. Confirming(r)' =>
                 /\ User(r)' = User(r) /\ totp[User(r)] # Nil
                 /\ req'[r].secret = totp[User(r)].secret
          BY <3>2, CodeAfter
        <4> QED
          BY <2>1, <4>1, <4>2 DEF EnrolInv, SecretAgreed
      <3>3. CASE Provision(r) \/ Activate(r) \/ RemoveTotp(r)
        <4>1. ~Confirming(r)'
          BY <3>3, CodeAfter DEF Provision, Activate, RemoveTotp, ConsumeStep, EnableGet
        <4>2. ASSUME NEW q \in Requests, Confirming(q), totp'[User(q)] # Nil
              PROVE  totp'[User(q)].secret = req[q].secret
          <5>1. /\ User(q) \in Users
                /\ totp[User(q)] # Nil => totp[User(q)].secret = req[q].secret
            BY <4>2 DEF EnrolInv, SecretAgreed, Confirming, TypeInv, ReqOK
          <5>2. CASE User(q) # User(r)
            BY <3>3, <4>2, <5>1, <5>2, SecretWritten
          <5>3. CASE User(q) = User(r)
            <6>1. ~Provision(r) /\ ~RemoveTotp(r)
              BY <3>3, <4>2, <5>3, SecretWritten DEF SetUpApart, Provision
            <6>2. Activate(r) /\ totp'[User(r)].secret = req[r].secret /\ Confirming(r)
              BY <3>3, <6>1, SecretWritten DEF Activate, Confirming, TypeInv, ReqOK
            <6> QED
              BY <4>2, <5>3, <6>2 DEF EnrolInv, SecretAgreed
          <5> QED
            BY <5>2, <5>3
        <4>3. \A q \in Requests : Confirming(q)' => q # r /\ Confirming(q)
          BY <2>1, <4>1
        <4> QED
          BY <2>1, <4>2, <4>3 DEF EnrolInv, SecretAgreed
      <3> QED
        BY <1>4, <3>1, <3>2, <3>3
    <2>3. EnabledConfirmed'
      <3>1. CASE ConsumeStep(r) \/ EnableGet(r) \/ Provision(r) \/ RemoveTotp(r)
        <4>1. \A u \in Users : Enabled(u)' =>
                 Enabled(u) /\ totp'[u].secret = totp[u].secret
          BY <2>0, <3>1, SecretWritten DEF Enabled
        <4> QED
          BY <2>0, <4>1 DEF EnrolInv, EnabledConfirmed
      <3>2. CASE Activate(r)
        <4>1. req[r].cred \in accepted /\ req[r].cred.kind = "totp"
              /\ req[r].cred.value = req[r].secret
          BY <3>2 DEF Activate, EnrolInv, CodeOfSecret, TypeInv, ReqOK
        <4>2. totp'[User(r)].secret = req[r].secret
              /\ \A u \in Users : u # User(r) => totp'[u] = totp[u]
          BY <3>2, SecretWritten
        <4> QED
          BY <2>0, <4>1, <4>2 DEF EnrolInv, EnabledConfirmed, Enabled
      <3> QED
        BY <1>4, <3>1, <3>2
    <2> QED
      BY <1>2, <2>0, <2>2, <2>3
  <1> QED
    BY <1>1, <1>3, <1>4, EnrolSteps DEF Next

LEMMA InitEnrol == Init => EnrolInv
  BY DEF Init, EnrolInv, CodeOfSecret, SecretAgreed, EnabledConfirmed, Enabled, Confirming, NoRequest

\* A secret that was set up here is active only once one of its codes was accepted,
\* whatever the confirmations and removals that overlap, where a set-up page writes no
\* secret while EnablePOST confirms one (SetupGET, EnablePOST).
THEOREM EnabledConfirmedCorrect == Spec /\ []SetUpApart => []EnabledConfirmed
  <1>1. TypeInv /\ EnrolInv /\ SetUpApart /\ [Next]_vars => EnrolInv'
    BY EnrolStep
  <1>2. EnrolInv => EnabledConfirmed
    BY DEF EnrolInv
  <1> QED
    BY <1>1, <1>2, InitEnrol, InitTypeInv, TypeInductive, PTL DEF Spec

\* SetupGET is told of the account when it asks: an error of the store, which Enabled
\* answers FALSE to, does not reach it.
AnswerHeard == \A r \in Requests : pc[r] = "enabled" /\ req[r].op = "setup" => ~IgnoredError(r)
EnabledHeard == [][AnswerHeard]_vars

\* SetupGET is about to write a secret to an account that has no active one.
SetUpDue == \A r \in Requests : pc[r] = "provision" => User(r) \in Users /\ ~Enabled(User(r))

\* The step into provision is the one that read Enabled.
LEMMA SetUpStarts ==
  ASSUME TypeInv, NEW r \in Requests, pc'[r] = "provision",
         Arrive(r) \/ Step(r) \/ Abort(r) \/ IgnoredError(r)
  PROVE  /\ pc[r] = "enabled" /\ req[r].op = "setup"
         /\ User(r)' = User(r) /\ User(r) \in Users
         /\ UNCHANGED totp
         /\ IgnoredError(r) \/ ~Enabled(User(r))
  <1> USE DEF Done, Goto, TypeInv, TypeOK, User
  <1>1. ~Arrive(r) /\ ~Abort(r)
    BY ArriveBrings DEF Abort
  <1>2. pc[r] = "enabled" => User(r) \in Users
    BY DEF ReqOK
  <1>3. CASE ReadEnabled(r) \/ IgnoredError(r)
    BY <1>2, <1>3 DEF ReadEnabled, IgnoredError, EnabledAnswers, tables
  <1>4. AfterGrant(r) # "provision"
    BY DEF AfterGrant
  <1>5. ~(ConsumeStep(r) \/ UseCode(r) \/ ResetFailures(r))
    BY <1>4 DEF ConsumeStep, UseCode, ResetFailures, Granted, Rejected, Proceed
  <1>6. ~(LoadChallenge(r) \/ DropChallenge(r) \/ ReadLock(r) \/ Create(r) \/ CountAttempt(r)
          \/ ConsumeGet(r) \/ FailUpsert(r) \/ FailRead(r) \/ FailLock(r))
    BY DEF LoadChallenge, DropChallenge, ReadLock, AfterLockCheck, Check, Create, CountAttempt,
           ConsumeGet, Rejected, FailUpsert, FailRead, FailLock
  <1>7. ~(ClearChallenge(r) \/ OpenSession(r) \/ Provision(r) \/ EnableGet(r) \/ Activate(r)
          \/ Elevate(r) \/ DisableGet(r) \/ RemoveTotp(r) \/ RemoveRecovery(r)
          \/ ReplaceDelete(r) \/ ReplaceCommit(r))
    BY DEF ClearChallenge, OpenSession, FinishEnable, Provision, EnableGet, Activate, Elevate,
           DisableGet, RemoveTotp, RemoveRecovery, ReplaceDelete, ReplaceCommit
  <1> QED
    BY <1>1, <1>3, <1>5, <1>6, <1>7 DEF Step

\* No step but an activation makes an account active, and none that overlaps a set-up
\* page of the account.
LEMMA SetUpDueStep ==
  ASSUME TypeInv, EnrolInv, SetUpApart, SetUpDue, [Next]_vars, [AnswerHeard]_vars
  PROVE  SetUpDue'
  <1>1. CASE Tick \/ Purge \/ UNCHANGED vars
    BY <1>1 DEF Tick, Purge, vars, tables, SetUpDue, Enabled, User
  <1>2. ASSUME NEW r \in Requests, Arrive(r) \/ Step(r) \/ Abort(r) \/ IgnoredError(r),
               NEW q \in Requests, pc'[q] = "provision"
        PROVE  User(q)' \in Users /\ ~Enabled(User(q))'
    <2>0. OwnSlot(r)
      BY <1>2, StepIsOwn
    <2>1. CASE q = r
      <3>1. ~IgnoredError(r)
        <4>1. pc[r] = "enabled" /\ req[r].op = "setup"
          BY <1>2, <2>1, SetUpStarts
        <4>2. pc' # pc
          BY <1>2, <2>1, <4>1
        <4> QED
          BY <4>1, <4>2 DEF AnswerHeard, vars
      <3> QED
        BY <1>2, <2>1, <3>1, SetUpStarts DEF Enabled
    <2>2. CASE q # r
      <3>1. pc[q] = "provision" /\ User(q)' = User(q) /\ User(q) \in Users /\ ~Enabled(User(q))
        BY <1>2, <2>0, <2>2 DEF OwnSlot, User, SetUpDue
      <3>2. CASE Idles(r)
        BY <3>1, <3>2 DEF Idles, Enabled
      <3>3. CASE ConsumeStep(r) \/ EnableGet(r) \/ Provision(r) \/ RemoveTotp(r)
        <4>1. \A u \in Users : Enabled(u)' => Enabled(u)
          BY <3>3, SecretWritten DEF Enabled
        <4> QED
          BY <3>1, <4>1 DEF Enabled
      <3>4. CASE Activate(r)
        <4>1. User(q) # User(r)
          BY <3>1, <3>4 DEF SetUpApart, Activate, Confirming, TypeInv, ReqOK
        <4>2. totp'[User(q)] = totp[User(q)]
          BY <3>1, <3>4, <4>1, SecretWritten
        <4> QED
          BY <3>1, <4>2 DEF Enabled
      <3> QED
        BY <1>2, <3>2, <3>3, <3>4, EnrolSteps
    <2> QED
      BY <2>1, <2>2
  <1> QED
    BY <1>1, <1>2 DEF Next, SetUpDue

\* Only DisablePOST takes an active secret away, where a set-up page reads the account
\* and writes no secret while EnablePOST confirms one (SetupGET, EnablePOST).
THEOREM ActiveKeptCorrect == Spec /\ []SetUpApart /\ EnabledHeard => ActiveKept
  <1> DEFINE Kept == \A u \in Users : Enabled(u) /\ totp'[u] # Nil =>
                        totp'[u].enabled /\ totp'[u].secret = totp[u].secret
  <1>1. TypeInv /\ EnrolInv /\ SetUpDue /\ [Next]_vars => [Kept]_vars
    <2> SUFFICES ASSUME TypeInv, EnrolInv, SetUpDue, Next, NEW u \in Users,
                        Enabled(u), totp'[u] # Nil
                 PROVE  totp'[u].enabled /\ totp'[u].secret = totp[u].secret
      OBVIOUS
    <2>1. CASE UNCHANGED totp
      BY <2>1 DEF Enabled
    <2>2. ASSUME NEW r \in Requests, ~UNCHANGED totp,
                 ConsumeStep(r) \/ Provision(r) \/ Activate(r) \/ RemoveTotp(r)
          PROVE  totp'[u].enabled /\ totp'[u].secret = totp[u].secret
      <3>1. CASE u # User(r)
        BY <2>2, <3>1, SecretWritten DEF Enabled
      <3>2. CASE u = User(r)
        <4>1. ~RemoveTotp(r)
          BY <3>2, SecretWritten
        <4>2. CASE ConsumeStep(r)
          BY <3>2, <4>2, SecretWritten DEF Enabled
        <4>3. ~Provision(r)
          BY <3>2 DEF SetUpDue, Provision
        <4>4. CASE Activate(r)
          <5>1. Confirming(r)
            BY <4>4 DEF Activate, Confirming, TypeInv, ReqOK
          <5>2. totp[User(r)].secret = req[r].secret
            BY <3>2, <5>1 DEF EnrolInv, SecretAgreed, Enabled
          <5> QED
            BY <3>2, <4>4, <5>2, SecretWritten
        <4> QED
          BY <2>2, <4>1, <4>2, <4>3, <4>4
      <3> QED
        BY <3>1, <3>2
    <2>3. CASE Tick \/ Purge
      BY <2>1, <2>3 DEF Tick, Purge, tables
    <2>4. ASSUME NEW r \in Requests, Arrive(r) \/ Step(r) \/ Abort(r) \/ IgnoredError(r)
          PROVE  totp'[u].enabled /\ totp'[u].secret = totp[u].secret
      BY <2>1, <2>2, <2>4, EnrolSteps, SecretWritten DEF Idles
    <2> QED
      BY <2>3, <2>4 DEF Next
  <1>2. Init => SetUpDue
    BY DEF Init, SetUpDue
  <1> QED
    BY <1>1, <1>2, EnrolStep, InitEnrol, SetUpDueStep, InitTypeInv, TypeInductive, PTL
    DEF Spec, ActiveKept, EnabledHeard

\* No two set-ups overlap, among others, where one slot serves both pages.
LEMMA OnePageAtATime ==
  ASSUME \A r, q \in Requests : "setup" \in Serves[r] /\ "enable" \in Serves[q] => r = q
  PROVE  Spec => []SetUpApart
  <1>1. ServedInv => SetUpApart
    BY DEF ServedInv, SetUpApart, Confirming
  <1> QED
    BY <1>1, InitTypeInv, TypeInductive, InitServed, ServedStep, PTL DEF Spec

--------------------------------------------------------------------------------
(* The recovery codes and the secret. *)

\* A code of the secret was accepted, and r goes on to give the account a new set of
\* recovery codes.
Renewing(r) ==
    \/ /\ req[r].op = "enable"
       /\ pc[r] \in {"elevate", "openSession", "replaceDelete", "replaceCommit"}
    \/ req[r].op = "regenerate" /\ pc[r] \in {"reset", "replaceDelete", "replaceCommit"}

\* No secret is deleted while a request of its account renews the recovery codes.
RenewsAlone ==
    \A u \in Users : Removes(u) => \A r \in Requests : User(r) = u => ~Renewing(r)
RenewedAlone == [][RenewsAlone]_vars

\* A DisablePOST that deleted the secret deletes the codes too: no error and no crash
\* in between.
DeletesWhole == \A r \in Requests : pc[r] = "deleteRecovery" => ~Abort(r)
DeletedWhole == [][DeletesWhole]_vars

\* The codes are renewed by the handlers that had a code of the authenticator accepted.
RenewReady(r) ==
    /\ pc[r] \in {"replaceDelete", "replaceCommit"} => req[r].op \in {"enable", "regenerate"}
    /\ req[r].op = "regenerate" => req[r].cred.kind # "recovery"
    /\ pc[r] = "use" => req[r].cred.kind = "recovery"
    /\ pc[r] = "clearChallenge" => req[r].op = "verify"

RenewInv ==
    /\ \A r \in Requests : RenewReady(r) /\ (Renewing(r) => totp[User(r)] # Nil)
    /\ RecoveryGoneWithSecret

\* A renewal starts with the acceptance of a code, or with an activation.
LEMMA RenewSteps ==
  ASSUME TypeInv, RenewInv, NEW r \in Requests,
         Arrive(r) \/ Step(r) \/ Abort(r) \/ IgnoredError(r)
  PROVE  /\ RenewReady(r)'
         /\ Renewing(r)' =>
               /\ User(r)' = User(r)
               /\ Renewing(r) \/ totp[User(r)] # Nil \/ totp'[User(r)] # Nil
  <1>0. OwnSlot(r) /\ RenewReady(r)
    BY StepIsOwn DEF RenewInv
  <1>a. NoRequest.op = "none"
    BY DEF NoRequest
  <1> USE DEF Done, Goto, TypeInv, TypeOK, RenewReady, Renewing, User
  <1>1. CASE Arrive(r)
    BY <1>0, <1>1, ArriveBrings
  <1>2. CASE IgnoredError(r) \/ ReadEnabled(r) \/ Abort(r)
    BY <1>0, <1>a, <1>2 DEF IgnoredError, ReadEnabled, EnabledAnswers, Abort
  <1>3. CASE LoadChallenge(r)
    BY <1>0, <1>a, <1>3 DEF LoadChallenge, Request
  <1>4. CASE ReadLock(r) \/ CountAttempt(r)
    BY <1>0, <1>a, <1>4 DEF ReadLock, CountAttempt, AfterLockCheck, Check
  <1>5. CASE DropChallenge(r) \/ Create(r) \/ ConsumeGet(r)
    BY <1>0, <1>a, <1>5 DEF DropChallenge, Create, ConsumeGet, Rejected
  <1>6. CASE ConsumeStep(r)
    BY <1>0, <1>a, <1>6 DEF ConsumeStep, Advances, Granted, Rejected, Proceed, AfterGrant
  <1>7. CASE UseCode(r)
    BY <1>0, <1>a, <1>7 DEF UseCode, Granted, Rejected, Proceed, AfterGrant
  <1>8. CASE FailUpsert(r) \/ FailRead(r)
    BY <1>0, <1>a, <1>8 DEF FailUpsert, FailRead, Request
  <1>9. CASE FailLock(r)
    BY <1>0, <1>a, <1>9 DEF FailLock
  <1>10. CASE ResetFailures(r)
    BY <1>0, <1>a, <1>10 DEF ResetFailures, Proceed, AfterGrant
  <1>11. CASE ClearChallenge(r) \/ Elevate(r) \/ DisableGet(r)
    BY <1>0, <1>a, <1>11 DEF ClearChallenge, Elevate, DisableGet
  <1>12. CASE OpenSession(r)
    BY <1>0, <1>a, <1>12 DEF OpenSession, FinishEnable
  <1>13. CASE EnableGet(r) \/ ReplaceDelete(r)
    BY <1>0, <1>a, <1>13 DEF EnableGet, ReplaceDelete, Request
  <1>14. CASE Activate(r)
    <2>1. totp'[User(r)] # Nil
      BY <1>14, SecretWritten
    <2> QED
      BY <1>0, <1>a, <1>14, <2>1 DEF Activate, FinishEnable, ReqOK
  <1>15. CASE Provision(r) \/ RemoveTotp(r) \/ RemoveRecovery(r) \/ ReplaceCommit(r)
    BY <1>0, <1>a, <1>15 DEF Provision, RemoveTotp, RemoveRecovery, ReplaceCommit
  <1> QED
    BY <1>1, <1>2, <1>3, <1>4, <1>5, <1>6, <1>7, <1>8, <1>9, <1>10, <1>11, <1>12, <1>13,
       <1>14, <1>15 DEF Step

\* Only a Replace gives recovery codes, to the account that is being renewed.
LEMMA CodesGiven ==
  ASSUME TypeInv, RenewInv, [Next]_vars, NEW u \in Users, rec[u] = {}, rec'[u] # {}
  PROVE  \E r \in Requests : User(r) = u /\ Renewing(r)
  <1>0. rec \in [Users -> SUBSET RCodes] /\ rec' # rec
    BY DEF TypeInv, TypeOK
  <1>1. PICK r \in Requests : Arrive(r) \/ Step(r) \/ Abort(r) \/ IgnoredError(r)
    BY <1>0 DEF Next, Tick, Purge, vars, tables
  <1>2. UseCode(r) \/ RemoveRecovery(r) \/ ReplaceCommit(r)
    BY <1>0, <1>1, ReplaceSteps DEF NoReplace, Abort, ReplaceDelete, tables
  <1>3. pc[r] = "replaceCommit" /\ User(r) = u
    BY <1>0, <1>2 DEF UseCode, Use, RemoveRecovery, DeleteRecovery, ReplaceCommit, CommitReplace
  <1>4. req[r].op \in {"enable", "regenerate"}
    BY <1>3 DEF RenewInv, RenewReady
  <1> QED
    BY <1>3, <1>4 DEF Renewing

\* A request leaves deleteRecovery with the codes of its account deleted.
LEMMA CodesDeleted ==
  ASSUME TypeInv, [Next]_vars, [DeletesWhole]_vars,
         NEW r \in Requests, pc[r] = "deleteRecovery"
  PROVE  /\ User(r) \in Users
         /\ rec'[User(r)] = {} \/ (pc'[r] = "deleteRecovery" /\ User(r)' = User(r))
  <1>0. User(r) \in Users
    BY DEF TypeInv, ReqOK
  <1>1. CASE Tick \/ Purge \/ UNCHANGED vars
    BY <1>0, <1>1 DEF Tick, Purge, vars, User
  <1>2. ASSUME NEW q \in Requests, Arrive(q) \/ Step(q) \/ Abort(q) \/ IgnoredError(q)
        PROVE  rec'[User(r)] = {} \/ (pc'[r] = "deleteRecovery" /\ User(r)' = User(r))
    <2>1. CASE q # r
      BY <1>2, <2>1, StepIsOwn DEF OwnSlot, User
    <2>2. CASE q = r
      <3>1. ~Arrive(r) /\ ~IgnoredError(r)
        BY ArriveBrings DEF IgnoredError
      <3>2. ~Abort(r)
        <4>1. Abort(r) => pc' # pc
          BY DEF Abort, Done, Goto, TypeInv, TypeOK
        <4> QED
          BY <4>1 DEF DeletesWhole, vars
      <3>3. RemoveRecovery(r)
        BY <1>2, <2>2, <3>1, <3>2
        DEF Step, ReadEnabled, LoadChallenge, DropChallenge, ReadLock, Create, CountAttempt,
            ConsumeGet, ConsumeStep, UseCode, FailUpsert, FailRead, FailLock, ResetFailures,
            ClearChallenge, OpenSession, Provision, EnableGet, Activate, Elevate, DisableGet,
            RemoveTotp, ReplaceDelete, ReplaceCommit
      <3> QED
        BY <1>0, <3>3 DEF RemoveRecovery, DeleteRecovery, TypeInv, TypeOK
    <2> QED
      BY <2>1, <2>2
  <1> QED
    BY <1>0, <1>1, <1>2 DEF Next

LEMMA RenewStep ==
  ASSUME RecoveryOn, TypeInv, ServedInv, RenewInv, [Next]_vars, [RenewsAlone]_vars,
         [DeletesWhole]_vars
  PROVE  RenewInv'
  <1>1. \A u \in Users : Removes(u) => \A r \in Requests : User(r) = u => ~Renewing(r)
    BY DEF RenewsAlone, Removes, vars, tables
  <1>2. ASSUME NEW r \in Requests, Renewing(r) PROVE totp'[User(r)] # Nil
    BY <1>1, <1>2 DEF RenewInv, Renewing, Removes, TypeInv, ReqOK
  <1>3. ASSUME NEW r \in Requests
        PROVE  RenewReady(r)' /\ (Renewing(r) => totp[User(r)] # Nil)'
    <2>1. CASE UNCHANGED <<pc[r], req[r]>>
      <3>1. RenewReady(r)' /\ Renewing(r)' = Renewing(r) /\ User(r)' = User(r)
        BY <2>1 DEF RenewInv, RenewReady, Renewing, User
      <3> QED
        BY <1>2, <3>1
    <2>2. ASSUME Arrive(r) \/ Step(r) \/ Abort(r) \/ IgnoredError(r)
          PROVE  RenewReady(r)' /\ (Renewing(r) => totp[User(r)] # Nil)'
      <3>1. RenewReady(r)' /\ (Renewing(r)' => User(r)' = User(r))
        BY <2>2, RenewSteps
      <3>2. ASSUME Renewing(r)' PROVE totp'[User(r)] # Nil
        <4>1. Renewing(r) \/ totp[User(r)] # Nil \/ totp'[User(r)] # Nil
          BY <2>2, <3>2, RenewSteps
        <4>2. ASSUME totp[User(r)] # Nil, totp'[User(r)] = Nil PROVE FALSE
          <5>1. User(r) \in Users
            BY <3>1, <3>2, TypeInductive DEF Renewing, TypeInv, ReqOK
          <5>2. PICK q \in Requests : RemoveTotp(q) /\ User(q) = User(r)
            BY <4>2, <5>1, RemovedByDisable DEF Removes
          <5>3. q = r
            BY <2>2, <5>2, StepIsOwn DEF OwnSlot, RemoveTotp, Done, Goto, TypeInv, TypeOK
          <5> QED
            BY <3>2, <5>2, <5>3 DEF RemoveTotp, Done, Goto, Renewing, TypeInv, TypeOK
        <4> QED
          BY <1>2, <4>1, <4>2
      <3> QED
        BY <3>1, <3>2
    <2> QED
      BY <2>1, <2>2, StepIsOwn DEF Next, Tick, Purge, vars, OwnSlot
  <1>4. ASSUME NEW u \in Users, totp'[u] = Nil, rec'[u] # {}
        PROVE  \E r \in Requests : User(r)' = u /\ pc'[r] = "deleteRecovery"
    <2>1. CASE totp[u] # Nil
      <3>1. PICK r \in Requests : RemoveTotp(r) /\ User(r) = u
        BY <1>4, <2>1, RemovedByDisable DEF Removes
      <3> QED
        BY <3>1 DEF RemoveTotp, Goto, User, TypeInv, TypeOK
    <2>2. CASE totp[u] = Nil
      <3>1. rec[u] # {}
        <4>1. \A r \in Requests : User(r) = u => ~Renewing(r)
          BY <2>2 DEF RenewInv
        <4> QED
          BY <1>4, <4>1, CodesGiven
      <3>2. PICK r \in Requests : User(r) = u /\ pc[r] = "deleteRecovery"
        BY <2>2, <3>1 DEF RenewInv, RecoveryGoneWithSecret
      <3> QED
        BY <1>4, <3>2, CodesDeleted
    <2> QED
      BY <2>1, <2>2
  <1> QED
    BY <1>3, <1>4 DEF RenewInv, RecoveryGoneWithSecret

\* No recovery code outlives the secret, where no secret is deleted while a request of
\* its account renews the codes and a DisablePOST that deletes it runs to its end
\* (DisablePOST, RegenerateRecoveryPOST, EnablePOST).
THEOREM RecoveryGoneCorrect ==
  ASSUME RecoveryOn, \A u \in Users : InitRec[u] # {} => InitTotp[u] # Nil
  PROVE  Spec /\ RenewedAlone /\ DeletedWhole => []RecoveryGoneWithSecret
  <1>1. Init => RenewInv
    BY DEF Init, RenewInv, RenewReady, Renewing, RecoveryGoneWithSecret, NoRequest
  <1>2. TypeInv /\ ServedInv /\ RenewInv /\ [Next]_vars /\ [RenewsAlone]_vars
           /\ [DeletesWhole]_vars => RenewInv'
    BY RenewStep
  <1>3. RenewInv => RecoveryGoneWithSecret
    BY DEF RenewInv
  <1> QED
    BY <1>1, <1>2, <1>3, InitTypeInv, TypeInductive, InitServed, ServedStep, PTL
    DEF Spec, RenewedAlone, DeletedWhole

\* No removal overlaps a renewal, among others, where one slot serves both.
LEMMA RemovedByRenewer ==
  ASSUME \A r, q \in Requests :
            "disable" \in Serves[r] /\ Serves[q] \cap {"enable", "regenerate"} # {} => r = q
  PROVE  Spec => RenewedAlone
  <1>1. TypeInv /\ ServedInv /\ [Next]_vars => [RenewsAlone]_vars
    <2> SUFFICES ASSUME TypeInv, ServedInv, [Next]_vars, NEW u \in Users, Removes(u),
                        NEW q \in Requests, User(q) = u, Renewing(q)
                 PROVE  FALSE
      BY DEF RenewsAlone
    <2>1. PICK r \in Requests : req[r].op = "disable" /\ "disable" \in Serves[r]
      BY RemovedByDisable
    <2>2. req[q].op \in {"enable", "regenerate"} /\ req[q].op \in Serves[q] \cup {"none"}
      BY DEF Renewing, ServedInv
    <2> QED
      BY <2>1, <2>2
  <1> QED
    BY <1>1, InitTypeInv, TypeInductive, InitServed, ServedStep, PTL DEF Spec, RenewedAlone

\* The answers of the store are heard, and a removal runs to its end, where no store
\* call fails and no handler is cut short.
LEMMA NoCallFails ==
  ASSUME MaxFaults = 0
  PROVE  Spec => EnabledHeard /\ DeletedWhole
  <1>1. TypeInv /\ [Next]_vars => [AnswerHeard]_vars
    BY DEF TypeInv, TypeOK, AnswerHeard, IgnoredError
  <1>2. TypeInv /\ [Next]_vars => [DeletesWhole]_vars
    BY DEF TypeInv, TypeOK, DeletesWhole, Abort
  <1> QED
    BY <1>1, <1>2, InitTypeInv, TypeInductive, PTL DEF Spec, EnabledHeard, DeletedWhole

================================================================================
