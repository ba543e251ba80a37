------------------------------ MODULE MCMfaxRaces ------------------------------
(***************************************************************************)
(* Small instances in which the code departs from what its comments say:   *)
(* each configuration checks one property.                                 *)
(***************************************************************************)
EXTENDS Mfax

CONSTANTS u1, k1, k2, r1, r2, r3, s1, s2

MCNoTotp == [u \in Users |-> Nil]
MCActiveTotp == [u \in Users |-> [secret |-> k1, enabled |-> TRUE, lastStep |-> 0]]
MCInitRec == [u \in Users |-> {}]
MCInitSess == [s \in SessTokens |->
    IF s = s1 THEN [user |-> u1, purpose |-> "auth"] ELSE Nil]

\* Tabs on the set-up page.
MCServesSetup == [r \in Requests |-> {"setup", "enable"}]

\* A removal and a new set-up in one tab, a step-up in the other.
MCServesRemoval == [r \in Requests |->
    IF r = r1 THEN {"disable", "setup"} ELSE {"confirm"}]

MCServesLogin == [r \in Requests |-> {"login"}]
================================================================================
