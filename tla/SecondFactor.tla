----------------------------- MODULE SecondFactor ------------------------------
(***************************************************************************)
(* What a second factor promises to the accounts that have one, without    *)
(* its tables, statements and requests: under one challenge a bounded      *)
(* number of codes is judged, a code is accepted once, an accepted code    *)
(* opens one session, and nothing else opens one.                          *)
(***************************************************************************)
EXTENDS Naturals

CONSTANTS Challenges, MaxAttempts, Codes, Sessions,
          None  \* a session that is not open

VARIABLES verdicts,  \* challenge -> codes judged under it
          spent,     \* the codes accepted so far
          owed,      \* the accepted codes whose session is still to be opened
          opened     \* session -> the code it was opened for

fvars == <<verdicts, spent, owed, opened>>

Init ==
    /\ verdicts = [ch \in Challenges |-> 0]
    /\ spent = {}
    /\ owed = {}
    /\ opened = [s \in Sessions |-> None]

Judge(ch) ==
    /\ verdicts[ch] < MaxAttempts
    /\ verdicts' = [verdicts EXCEPT ![ch] = @ + 1]

Refuse(ch) ==
    /\ Judge(ch)
    /\ UNCHANGED <<spent, owed, opened>>

Accept(ch, c) ==
    /\ Judge(ch)
    /\ c \notin spent
    /\ spent' = spent \cup {c}
    /\ owed' = owed \cup {c}
    /\ UNCHANGED opened

\* A code accepted outside a login: to confirm, enrol, change or remove the
\* second factor.  Only the first enrolment opens a session.
AcceptElsewhere(c) ==
    /\ c \notin spent
    /\ spent' = spent \cup {c}
    /\ owed' \in {owed, owed \cup {c}}
    /\ UNCHANGED <<verdicts, opened>>

Open(s, c) ==
    /\ c \in owed
    /\ opened[s] = None
    /\ opened' = [opened EXCEPT ![s] = c]
    /\ owed' = owed \ {c}
    /\ UNCHANGED <<verdicts, spent>>

\* The code is spent and its session is lost.
Forget(c) ==
    /\ c \in owed
    /\ owed' = owed \ {c}
    /\ UNCHANGED <<verdicts, spent, opened>>

Next ==
    \/ \E ch \in Challenges : Refuse(ch) \/ \E c \in Codes : Accept(ch, c)
    \/ \E c \in Codes : AcceptElsewhere(c) \/ Forget(c)
    \/ \E s \in Sessions, c \in Codes : Open(s, c)

Spec == Init /\ [][Next]_fvars
================================================================================
