------------------------------ MODULE MCMfaxLogin ------------------------------
(***************************************************************************)
(* Logins of an enrolled account: challenges, TOTP codes and a recovery    *)
(* code, with store calls that fail.                                       *)
(***************************************************************************)
EXTENDS MfaxRefinement, TLC

CONSTANTS u1, k1, c1, r1, r2, t1, s1, s2

\* u1 has an active TOTP and one recovery code, no session is open.
MCInitTotp == [u \in Users |-> [secret |-> k1, enabled |-> TRUE, lastStep |-> 0]]
MCInitRec == [u \in Users |-> {c1} \cap RCodes]
MCInitSess == [s \in SessTokens |-> Nil]

\* One slot logs in and verifies, the other verifies.
MCServes == [r \in Requests |->
    IF r = r1 THEN {"login", "verify", "verifyGet"} ELSE {"verify"}]

MCSymmetry == Permutations(SessTokens)
================================================================================
