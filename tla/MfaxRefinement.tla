---------------------------- MODULE MfaxRefinement -----------------------------
(***************************************************************************)
(* Mfax implements SecondFactor where enrolment is required.  A code that  *)
(* was examined but whose last_step is still to be written has no verdict  *)
(* yet: the request that loses the race for the step gets a refusal, and   *)
(* one that stops there is judged by its stopping.                         *)
(***************************************************************************)
EXTENDS Mfax

\* The requests of a challenge whose code matched, before SetLastStep.
Undecided(tok) ==
    {r \in Requests : /\ pc[r] = "setLastStep"
                      /\ req[r].op = "verify" /\ req[r].tok = tok}

\* r goes on, after an accepted code, towards OpenSession.
Owes(r) ==
    \/ /\ req[r].op = "verify"
       /\ pc[r] \in {"reset", "clearChallenge", "openSession"}
    \/ /\ req[r].op = "enable" /\ req[r].purpose = "setup"
       /\ pc[r] \in {"reset", "activate", "elevate", "openSession"}

\* A session opened for no code, which SecondFactor never opens.
Unpaid == [NoCred EXCEPT !.step = 1]

OpenedFor(s) ==
    IF sess[s] = Nil \/ InitSess[s] # Nil \/ sess[s].purpose = "setup" THEN NoCred
    ELSE IF paidBy[s] = NoCred THEN Unpaid ELSE paidBy[s]

Verdicts == [tok \in ChTokens |-> examined[tok] - Cardinality(Undecided(tok))]
Owed == {req[r].cred : r \in {q \in Requests : Owes(q)}}
Opened == [s \in SessTokens |-> OpenedFor(s)]

\* Steps of the clock, one early and one late included.
Steps == (StartTime \div Period - 1)..(MaxTime \div Period + 1)
RightCodes ==
    [kind : {"totp"}, value : Secrets, step : Steps]
    \cup [kind : {"recovery"}, value : RCodes, step : {0}]

Factor == INSTANCE SecondFactor WITH
    Challenges <- ChTokens,
    Sessions <- SessTokens,
    Codes <- RightCodes,
    None <- NoCred,
    verdicts <- Verdicts,
    spent <- accepted,
    owed <- Owed,
    opened <- Opened

\* However the statements of concurrent requests interleave, and whatever call
\* fails, a login takes its steps as SecondFactor does: VerifyPOST judges at most
\* MaxAttempts codes per challenge, consumeCode and useRecoveryCode accept a code
\* once, and OpenSession runs once for an accepted code and for nothing else.
ImplementsSecondFactor == Factor!Spec
================================================================================
