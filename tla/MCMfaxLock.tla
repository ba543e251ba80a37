------------------------------ MODULE MCMfaxLock -------------------------------
(***************************************************************************)
(* Requests racing for the lock of one enrolled account.                   *)
(***************************************************************************)
EXTENDS Mfax

CONSTANTS u1, k1, r1, r2

\* u1 has an active TOTP and no recovery code, no session is open.
MCInitTotp == [u \in Users |-> [secret |-> k1, enabled |-> TRUE, lastStep |-> 0]]
MCInitRec == [u \in Users |-> {}]
MCInitSess == [s \in SessTokens |-> Nil]

\* Every slot runs the step-up check of the application.
MCServes == [r \in Requests |-> {"confirm"}]
================================================================================
