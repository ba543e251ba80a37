----------------------------- MODULE SessionLife ------------------------------
(***************************************************************************)
(* What a session promises, whatever requests use it: it is opened once    *)
(* for a holder who does not change, a set-up session ends TTL after it    *)
(* was opened, an authenticated one TTL after a use of it, and a session   *)
(* that has ended never comes back.                                        *)
(***************************************************************************)
EXTENDS Naturals

CONSTANTS Tokens,
          Holders,    \* who a session is for, and what it lets its user do
          Sliding,    \* the holders whose use of the session extends it
          NoOne,      \* a session that is not open
          SessionTTL

VARIABLES now,
          used,      \* the tokens of the sessions opened so far
          holder,    \* token -> whose session it is
          deadline   \* token -> when the session ends by itself

lifeVars == <<now, used, holder, deadline>>

Init ==
    /\ now = 0
    /\ used \subseteq Tokens
    /\ holder \in [Tokens -> Holders \cup {NoOne}]
    /\ \A t \in Tokens \ used : holder[t] = NoOne
    /\ deadline \in [Tokens -> Nat]

Open(t, h) ==
    /\ t \notin used
    /\ used' = used \cup {t}
    /\ holder' = [holder EXCEPT ![t] = h]
    /\ deadline' = [deadline EXCEPT ![t] = now + SessionTTL]
    /\ UNCHANGED now

\* A use that began at some moment of the past, or now.
Use(t, at) ==
    /\ holder[t] \in Sliding
    /\ deadline' = [deadline EXCEPT ![t] = at + SessionTTL]
    /\ UNCHANGED <<now, used, holder>>

End(S) ==
    /\ holder' = [t \in Tokens |-> IF t \in S THEN NoOne ELSE holder[t]]
    /\ deadline' = [t \in Tokens |-> IF t \in S THEN 0 ELSE deadline[t]]
    /\ UNCHANGED <<now, used>>

Tick == now' = now + 1 /\ UNCHANGED <<used, holder, deadline>>

Next ==
    \/ Tick
    \/ \E S \in SUBSET Tokens : End(S)
    \/ \E t \in Tokens :
          \/ \E h \in Holders : Open(t, h)
          \/ \E at \in 0..now : Use(t, at)

Spec == Init /\ [][Next]_lifeVars
================================================================================
