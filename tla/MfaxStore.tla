------------------------------- MODULE MfaxStore -------------------------------
(***************************************************************************)
(* The tables of mfax/sqlstore and the statements run on them.  Every      *)
(* statement is atomic in SQLite and in PostgreSQL, so each operator below *)
(* is one step on one table; what a method does in several statements      *)
(* (LockoutStore.Fail, RecoveryStore.Replace) is several operators, and    *)
(* other requests run in between.                                          *)
(*                                                                         *)
(* A missing row is Nil.  Used recovery codes are left out: no statement   *)
(* but Replace and Delete ever touches them again.                         *)
(***************************************************************************)
EXTENDS LockoutPolicy

CONSTANTS Users,         \* accounts
          ChTokens,      \* challenge tokens that can be drawn
          Secrets,       \* TOTP secrets that can be drawn
          RCodes,        \* recovery codes that can be drawn
          Nil,           \* no row, no value
          ChallengeTTL,  \* life of a challenge
          MaxAttempts    \* codes one challenge accepts to examine

TotpRow == [secret : Secrets, enabled : BOOLEAN, lastStep : Int]
ChRow == [user : Users, attempts : Nat, exp : Nat]
LockRow == [failures : Nat, windowStart : Nat, lockouts : Nat, until : Nat]

ASSUME StoreAssumption ==
    /\ ChallengeTTL \in Nat \ {0}
    /\ MaxAttempts \in Nat \ {0}
    /\ Nil \notin TotpRow /\ Nil \notin ChRow /\ Nil \notin LockRow
    /\ Nil \notin Users /\ Nil \notin ChTokens
    /\ Nil \notin Secrets /\ Nil \notin RCodes

VARIABLES now,       \* the clock, in seconds
          totp,      \* mfa_totp: user -> row
          chs,       \* mfa_challenges: token -> row
          lockouts,  \* mfa_lockouts: user -> row
          rec        \* mfa_recovery_codes: user -> codes not used yet

StoreTypeOK ==
    /\ now \in Nat
    /\ totp \in [Users -> TotpRow \cup {Nil}]
    /\ chs \in [ChTokens -> ChRow \cup {Nil}]
    /\ lockouts \in [Users -> LockRow \cup {Nil}]
    /\ rec \in [Users -> SUBSET RCodes]

--------------------------------------------------------------------------------
(* mfa_totp *)

\* Set: an upsert.  On conflict the row keeps its last_step; a new row has 0.
SetTotp(u, secret, enabled) ==
    totp' = [totp EXCEPT ![u] =
                [secret |-> secret, enabled |-> enabled,
                 lastStep |-> IF totp[u] = Nil THEN 0 ELSE totp[u].lastStep]]

\* Mutant: without "AND last_step < ?".
AdvancesAnyStep(u, step) == totp[u] # Nil

\* SetLastStep: the WHERE clause looks at the step and not at the secret.
Advances(u, step) == totp[u] # Nil /\ totp[u].lastStep < step
SetLastStep(u, step) == totp' = [totp EXCEPT ![u].lastStep = step]

DeleteTotp(u) == totp' = [totp EXCEPT ![u] = Nil]

--------------------------------------------------------------------------------
(* mfa_challenges *)

CreateChallenge(tok, u) ==
    chs' = [chs EXCEPT ![tok] =
               [user |-> u, attempts |-> 0, exp |-> now + ChallengeTTL]]

\* Challenge.Expired: !ExpiresAt.After(now).
Expired(tok) == chs[tok].exp <= now

\* Mutant: "attempts <= ?".
AllowedOneMore(tok) == chs[tok] # Nil /\ chs[tok].attempts <= MaxAttempts

\* IncrAttempts: the test and the increment are one UPDATE.
Allowed(tok) == chs[tok] # Nil /\ chs[tok].attempts < MaxAttempts
IncrAttempts(tok) == chs' = [chs EXCEPT ![tok].attempts = @ + 1]

DeleteChallenge(tok) == chs' = [chs EXCEPT ![tok] = Nil]

\* PurgeExpired: expires_at < now, a second later than Expired.
PurgeExpired ==
    chs' = [t \in ChTokens |->
               IF chs[t] # Nil /\ chs[t].exp < now THEN Nil ELSE chs[t]]

--------------------------------------------------------------------------------
(* mfa_lockouts *)

\* LockedUntil: non-zero only while the end of the lock is in the future.
Locked(u) == lockouts[u] # Nil /\ lockouts[u].until > now

\* First statement of Fail: count in the open window, or open a new one when
\* the window has closed (window_start <= now - Window).
Counted(row) ==
    IF row = Nil
    THEN [failures |-> 1, windowStart |-> now, lockouts |-> 0, until |-> 0]
    ELSE IF row.windowStart <= now - Window
    THEN [failures |-> 1, windowStart |-> now,
          lockouts |-> row.lockouts, until |-> row.until]
    ELSE [row EXCEPT !.failures = row.failures + 1]
CountFailure(u) == lockouts' = [lockouts EXCEPT ![u] = Counted(lockouts[u])]

\* Mutants: an UPDATE that tests the exact threshold, one without "failures >= ?",
\* one without "lockouts = ?".
LocksExactly(u, seen) ==
    /\ lockouts[u] # Nil
    /\ lockouts[u].failures = Threshold
    /\ lockouts[u].lockouts = seen
LocksAnyCount(u, seen) == lockouts[u] # Nil /\ lockouts[u].lockouts = seen
LocksAnyTier(u, seen) == lockouts[u] # Nil /\ lockouts[u].failures >= Threshold

\* Last statement of Fail: the conditional UPDATE that places the lock.  at and
\* seen are the clock and the lockouts column as the call read them earlier.
LocksNow(u, seen) ==
    /\ lockouts[u] # Nil
    /\ lockouts[u].failures >= Threshold
    /\ lockouts[u].lockouts = seen

PlaceLock(u, at, seen) ==
    lockouts' = [lockouts EXCEPT ![u] =
        [failures |-> 0, windowStart |-> at, lockouts |-> @.lockouts + 1,
         until |-> at + LockDuration(seen)]]

Reset(u) == lockouts' = [lockouts EXCEPT ![u] = Nil]

--------------------------------------------------------------------------------
(* mfa_recovery_codes *)

Use(u, code) == rec' = [rec EXCEPT ![u] = @ \ {code}]

\* Mutant: the new set is inserted beside the old one.
CommitInsertOnly(u, seen, fresh) == rec' = [rec EXCEPT ![u] = @ \cup fresh]

\* The transaction of Replace removes the rows its DELETE saw and inserts the
\* new ones; both become visible at its commit.
CommitReplace(u, seen, fresh) == rec' = [rec EXCEPT ![u] = (@ \ seen) \cup fresh]

DeleteRecovery(u) == rec' = [rec EXCEPT ![u] = {}]
================================================================================
