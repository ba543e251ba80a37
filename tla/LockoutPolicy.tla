----------------------------- MODULE LockoutPolicy -----------------------------
(***************************************************************************)
(* mfax.LockoutPolicy: how many wrong codes lock an account and for how    *)
(* long.  Durations are in the unit of the tables, Unix seconds.  The      *)
(* constants are the fields of the policy after lockoutPolicy() replaced   *)
(* the zero values and raised MaxDuration to Duration.                     *)
(***************************************************************************)
EXTENDS Integers

CONSTANTS Threshold,    \* wrong codes in one window that lock the account
          Window,       \* length of the window the first wrong code opens
          Duration,     \* length of the first lock
          MaxDuration   \* cap of the doubled locks

ASSUME PolicyAssumption ==
    /\ Threshold \in Nat \ {0}
    /\ Window \in Nat \ {0}
    /\ Duration \in Nat \ {0}
    /\ MaxDuration \in Nat
    /\ Duration <= MaxDuration

\* The loop of LockDuration: the duration doubles once per lock already served
\* and stops doubling at the first value that reaches MaxDuration.
Doubled[n \in Nat] ==
    IF n = 0 THEN Duration
    ELSE IF Doubled[n - 1] < MaxDuration THEN 2 * Doubled[n - 1]
         ELSE Doubled[n - 1]

\* min(d, MaxDuration): the length of lock number n + 1.
LockDuration(n) ==
    IF Doubled[n] < MaxDuration THEN Doubled[n] ELSE MaxDuration
================================================================================
