------------------------------ MODULE MCMfaxEnrol ------------------------------
(***************************************************************************)
(* The life of a second factor: set-up, confirmation, recovery codes,      *)
(* removal, set-up again, while the account logs in.                       *)
(***************************************************************************)
EXTENDS Mfax, TLC

CONSTANTS u1, k1, k2, c1, c2, r1, r2, t1, s1, s2

\* The account has no second factor yet; its first login opened a set-up session.
MCInitTotp == [u \in Users |-> Nil]
MCInitRec == [u \in Users |-> {}]
MCInitSess == [s \in SessTokens |->
    IF s = s1 THEN [user |-> u1, purpose |-> "setup"] ELSE Nil]

\* The set-up pages are served one request at a time, in r1; the account logs
\* in, and logs in again, in r2.
MCServes == [r \in Requests |->
    IF r = r1 THEN {"setup", "enable", "disable", "regenerate"}
    ELSE {"login", "verify"}]

MCSymmetry == Permutations(Secrets)
              \cup Permutations(RCodes)
================================================================================
