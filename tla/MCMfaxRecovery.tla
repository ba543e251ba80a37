---------------------------- MODULE MCMfaxRecovery -----------------------------
(***************************************************************************)
(* Recovery codes of an enrolled account with an open session: sets        *)
(* replaced and codes used, all at once.                                   *)
(***************************************************************************)
EXTENDS Mfax, TLC

CONSTANTS u1, k1, c1, c2, c3, r1, r2, r3, s1

MCInitTotp == [u \in Users |-> [secret |-> k1, enabled |-> TRUE, lastStep |-> 0]]
MCInitRec == [u \in Users |-> {c1}]
MCInitSess == [s \in SessTokens |-> [user |-> u1, purpose |-> "auth"]]

\* Two tabs regenerate while the application asks for a step-up.
MCServes == [r \in Requests |->
    IF r = r3 THEN {"confirm"} ELSE {"regenerate"}]

MCSymmetry == Permutations({c2, c3}) \cup Permutations({r1, r2})
================================================================================
