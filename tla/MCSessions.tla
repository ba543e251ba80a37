------------------------------ MODULE MCSessions -------------------------------
(***************************************************************************)
(* One account, requests with any cookie, short-lived sessions.            *)
(***************************************************************************)
EXTENDS Sessions, TLC

CONSTANTS u1, s1, s2, r1, r2

MCOpen(purpose) ==
    [t \in Tokens |-> IF t = s1 THEN [user |-> u1, purpose |-> purpose, exp |-> 2] ELSE Nil]

\* One session is open, authenticated or for the set-up of the second factor.
MCInitSessions == {MCOpen("auth"), MCOpen("setup")}

MCSymmetry == Permutations(Requests)
================================================================================
