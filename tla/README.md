# open-go-base: a TLA+ model of its stateful core

The repository is a Go library of web components. Four keep state that many requests,
tabs or servers change at once, and most of the model is about these: the second
factor (`mfax`), the sessions (`authx`), the CSRF protection (`csrfx`) with the cookies
and redirections of a browser, and the SQL migrations (`internal/sqlmigrate`). Others
read what comes from outside and must make the right thing of it: the format of the
recovery codes, the key of the rate limiter, the language of a page, the text of
`?next=`, the placeholders of a statement. The rest (logging, CORS, configuration)
is sequential, runs at start-up and is left out.

Contents: [inventory](#1-inventory) · [modules](#2-modules-and-code) ·
[abstractions](#3-what-a-step-is-and-what-is-abstracted) · [runs](#4-what-the-runs-check) ·
[departures](#5-where-the-code-departs-from-its-documentation) ·
[proofs](#6-what-is-proved) · [left out](#7-what-is-not-modelled) · [plan](#8-plan)

## 1. Inventory

| Component | State | Operations | Interacts with |
|---|---|---|---|
| `mfax.Service` | none of its own; the challenge cookie | `Begin`, `VerifyGET/POST`, `SetupGET`, `EnablePOST`, `DisablePOST`, `RegenerateRecoveryPOST`, `Confirm`, `ConfirmRecovery`, `Provision` | called by `authx.Handlers.LoginPOST`; calls the four stores, `Manager.OpenSession` and `Elevate` |
| `mfax/sqlstore` | `mfa_totp`, `mfa_challenges`, `mfa_lockouts`, `mfa_recovery_codes` | one or several SQL statements per operation | the database shared by all servers |
| lockout policy | none | `LockDuration`, defaults | `LockoutStore.Fail` |
| recovery code format | none | draw, format, normalise | `GenerateRecoveryCodes`, `useRecoveryCode` |
| `authx.Manager` | none of its own; the session cookie | `LoadSession`, `RequireAuth`, `OpenSession`, `Elevate`, `Logout` | in front of every route; the two stores |
| `authx.Handlers` | none | `LoginGET/POST`, `Logout`, `?next=` | the second factor, the browser |
| `authx/sqlstore` | `users`, `sessions` | statements on both | as above |
| `csrfx.Protector` | none: a cookie and the token in a form | `Middleware`, `Token` | the browser; the session, through `WithSessionBinding` |
| `internal/sqlmigrate` | `schema_migrations` and the schema | `Run` | every server at start-up |
| `ratelimit.Limiter` | the counters of go-chi/httprate | `New`, `ClientIP`, `Middleware` | in front of the routes; trusted proxies, `WithKeyFunc` |
| `i18n` | the languages loaded | `NewFS`, `FromRequest`, `Localizer` | every page |
| `internal/sqldialect`, `appconf` | none | `Rebind`; `Database.Dialect` | every statement of the stores; the driver configured |
| `corsx`, `logx`, the rest of `appconf` | none, or a library's | see section 7 | |

Nothing in the library takes a lock or opens a transaction around a handler: a
handler is a sequence of SQL statements, and only `Replace` and `Run` use a
transaction. What is hard is therefore the order in which the statements of
concurrent requests fall, and what a request still believes of a row another one
has changed:

- **mfax**: the cap on attempts, the single use of a code, the lock after
  `Threshold` failures, the secret under confirmation and the set of recovery codes
  are each read by one statement and relied on by a later one. Correct means: the
  cap holds over all requests of a challenge; a code is accepted once; wrong codes
  lock once per `Threshold` and never fail to lock; an authenticated session costs a
  code; a secret is active only if one of its codes was accepted; one set of
  recovery codes at a time, none without a secret.
- **authx**: `LoadSession` reads the session, then the account, then touches the
  session, while others log out, purge and edit. Correct means: a page is served only
  to who was entitled during the request; what was deleted stays deleted; a set-up
  session stays one.
- **browser and csrfx**: cookies are read when a request leaves and written when an
  answer arrives, tabs overlap, and `LoadSession` sets the cookie again with every answer. Correct
  means: a form is refused only when the cookies changed meanwhile (but for the page that comes with an
  elevated session, section 5); it does not outlive its session; the login ends where the user wanted to go.
- **sqlmigrate**: several servers start together and may stop anywhere. Correct
  means: each file once, in order, recorded exactly when applied, and a complete
  schema in the end.
- **what comes from outside**: people misspell codes, proxies add and drop headers,
  browsers weigh languages, paths hold `?`, `%` and `+`, drivers have several names. Correct
  means: the code shown is the code read, whatever its spelling, and no other one; a
  client is refused for its own requests only, and never gets more than the limit; a page is in
  the best language and says which; the login returns to the page asked for; the tenth
  argument is bound to the tenth placeholder.

The hazards, each with the line where it bites and the properties that watch it, are
listed in `PROJECT.json`.

## 2. Modules and code

| Module | Models | State | Actions |
|---|---|---|---|
| `LockoutPolicy` | `LockoutPolicy.LockDuration` (`mfax/lockout.go`) | – | – |
| `MfaxStore` | the statements of `mfax/sqlstore` | `now`, `totp`, `chs`, `lockouts`, `rec` | none: one operator per statement, which `Mfax` calls |
| `Mfax` | the handlers and operations of `mfax.Service`, with `LoginPOST`, `OpenSession`, `Elevate` of authx as they call each other | the tables, `sess`, `pc` and `req` per request | one per handler's arrival, one per statement |
| `SecondFactor` | what a second factor promises, without tables, statements or requests | codes judged per challenge, codes spent, codes owed a session, sessions opened | `Refuse`, `Accept`, `AcceptElsewhere`, `Open`, `Forget` |
| `MfaxRefinement` | – | – | the mapping of `Mfax` onto `SecondFactor` |
| `Sessions` | `authx.Manager` over `users` and `sessions` | the tables, `pc` and `req` per request | one per statement; the project's edits of accounts; `DeleteByUser`, `PurgeExpired` |
| `SessionLife` | what a session promises, without requests | whose it is, when it ends, which tokens were used | `Open`, `Use`, `End`, `Tick` |
| `Browser` | `csrfx.Protector`, the cookies of `LoadSession`, `OpenSession`, `Elevate` and `Logout`, and `LoginGET/POST`, `RequireAuth`, `VerifyGET/POST`, `SetupGET`, `EnablePOST` as a browser sees them | cookie jar, tabs, requests and answers on their way, open sessions, those for a set-up | the user's, the network's, and one per handler |
| `Migrate` | `sqlmigrate.Run` in several servers | kind of database, `schema_migrations`, effects of the files, `pc` per server | one per statement; `Stop` |
| `MigrationLog` | what `sqlmigrate` promises of a database | the log and the schema | `Apply` |
| `RecoveryFormat` | drawing, formatting, typing, normalising a recovery code | the code shown, the code typed | what a person may do to it |
| `Limiter` | `ratelimit`: the key a request is charged to, behind proxies, and the refusals of one window | configuration, the request on its way, counters | `New`, `Send`, `Forward`, `Serve`, `Refuse` |
| `Language` | `i18n`: the language of `Lang()` and that of the texts | languages loaded, the last Localizer | `NewFS`, `FromRequest` |
| `NextTarget` | the text of `?next=`, percent-encoding included, from `RedirectToLogin` to the last redirect | address, hidden field | one per handler |
| `Placeholders` | `Database.Dialect`, the dialects `Migrate` knows, `Rebind` | driver, dialect, statement | `Configure`, `Migrate`, `Exec` |
| `InductionLemmas` | – | – | induction and recursion over the numbers, for the proofs |
| `MfaxProofs`, `MfaxReplayProofs`, `MfaxRefinementProofs`, `MigrateProofs`, `SessionsProofs`, `BrowserProofs`, `InputsProofs` | – | – | theorems, section 6 |

`Mfax` composes `MfaxStore` and `LockoutPolicy` (EXTENDS). The `MC…` modules
instantiate each component: `MCMfaxLock`, `MCMfaxLogin`, `MCMfaxEnrol` and
`MCMfaxRecovery` give `Mfax` one account in four situations, `MCMfaxRaces` the small
instances of section 5. `MCInputs` runs `RecoveryFormat`, `Limiter`, `Language`,
`NextTarget` and `Placeholders` side by side, one at a time: they share nothing, and the
others stay as they are while one moves.

Names are those of the code: an action is called after the function it stands for
(`VerifyPOST`, `CountAttempt` for its `IncrAttempts`, `FailUpsert`/`FailRead`/`FailLock`
for the three statements of `LockoutStore.Fail`). `PROJECT.json` maps each definition to
its lines. Definitions commented *Mutant* are faulty versions of their neighbour; no
specification uses them, they serve to see that a property notices the fault.

## 3. What a step is and what is abstracted

**A step is one SQL statement**, or one short transaction without a read that another
statement relies on. Go code between two statements belongs to the earlier one:
nobody can see it run. A handler reads the clock next to the call that uses it, in the
same step. `Replace` is cut in two (`ReplaceDelete`, `ReplaceCommit`) because its
`DELETE` and its `INSERT`s straddle other transactions: under SQLite the transaction holds the
only write lock, so writers of recovery codes wait (writers of other tables commute with
it and need not be held back); under PostgreSQL READ COMMITTED the `DELETE` takes the
rows it sees when it starts.

**Requests** live in slots, whose number bounds how many are in flight, not how many
are received. What arrives is anything a user can send: any token, session or code drawn
so far, right, wrong, early or late by one TOTP step.

**Data.** Tokens, secrets, codes and accounts are model values. A TOTP code is its
secret and its step: two steps never share their six digits. A password is right or
wrong. Times are in the unit of the tables (seconds in mfax). In `Sessions` a request may
carry any token drawn so far, which covers every browser; in `Browser` the cookies are
those of one browser, and the server is reduced to the set of open sessions and to which of them are for a set-up. Drawing a value when none is
left is the error path of `RandomToken`, so no bound on draws removes a behaviour of the
code before it is reached.

**Failures.** `Abort` ends a request at any statement, as an error, a panic or the stop of
the server do. `IgnoredError` and `FailedCall` are the failures the code ignores or takes
for an answer: `Enabled` answering false, `_ = Delete`, an account that cannot be read.
A failure of `Remaining` after a recovery code was used is an `Abort` right after `Use`.

**Simplifications.** In `Mfax` accounts stay active; `loadChallenge` reads challenge and account
in one step. In `Migrate` a file is the count of its committed effects, an `ALTER TABLE` fails
on its own effect and `IF NOT EXISTS` does not. In `Browser` the HMAC is a tuple, paths are opaque (one set
of local paths, one of values that are none), requests run in one step, the failure
handler shows the form again as `WithFailureHandler` describes, a tab shows nothing while it waits for an answer, any
page may fail with an error page (`Error`, for a role that is refused or a statement that fails), and `WithRecoveryLanding` is off
(it is in `NextTarget`). What an account is like there is left to chance, answer by answer: `SecondFactor` says what `Begin` may
do (nothing, ask for a code, or ask for a code or a set-up), `Recovery` whether the end of a set-up shows recovery codes. `LoadSession` answers with the cookie of a session that slides, clears
that of a session it does not find and leaves that of a set-up alone (`SessionCookie`); a handler that opens or ends a session overrides it. In `NextTarget` a character is a pair: what it is, and how often it is
percent-encoded; a word that no encoding touches is one character, and `Letters` are the symbols that `url.QueryEscape`
leaves alone. The page of the second factor (`Verify`) may have a query, with no `next` of its own. In `Limiter` one request
travels at a time and httprate counts one window, without its sliding estimate;
`RightmostTrustedRange` and the real-IP strategy of realclientip are as the code uses them.
In `Language` two languages match when they are equal. In `Placeholders` a statement is a
sequence of characters, as its loop reads it; a store's SQL (`Statements`) has no `$`, no digit right after a `?` and fewer than
a hundred markers (`StatementsAssumption`; the longest in the repository has six), and a driver that is named after PostgreSQL
or SQLite answers for it (`DriversAssumption`).

**Fairness.** `Mfax!FairSpec`: `WF(Step(r))` for each slot. A request the server has received
runs in a goroutine of net/http and ends; its statements finish. Nothing is assumed of
users, of the clock or of purges, so no liveness property relies on them. `Migrate!FairSpec`:
`WF(Step(s))`: a server whose statement is not blocked goes on; a blocked one waits, and stops are bounded.

**Deadlock** is checked everywhere but in `Migrate`, where servers do end.
**Symmetry** (interchangeable requests, secrets, codes, tokens, tabs) is used only in runs without liveness.

## 4. What the runs check

Runs that pass:

| Run | Question | Bounds, and why they are enough |
|---|---|---|
| `lock` | `LockNotMissed`, `LockEarned`, `LockTiered`, `LockDelayBounded`, `FewUnderLock`, `ThresholdLeadsToLock`: does a series of wrong codes always lock, once, for the right time, and what still passes? | 2 requests in flight, threshold 2, three instants, one failed call: enough for two requests that reach the threshold together, a reset or a stop between the statements of `Fail`, a window that ends, a code in flight under a lock, and a second lock of the next tier. For any number of requests all but the last are theorems. |
| `login` | `AttemptsCapped`, `SessionsPaid`, `NoReplay`, `ImplementsSecondFactor`: what can two browsers obtain from one challenge, and is it what a second factor promises? | one challenge of 2 attempts, a recovery code, 2 TOTP steps (11 → 12 crosses a step), a challenge that expires, one failed call: one more examination than allowed, one code for two sessions, and a login over an undeleted challenge are all in reach. |
| `enrol` | `TypeOK`, `EnabledConfirmed`, `RecoveryGoneWithSecret`, `ActiveKept`: is the state of a second factor consistent over its whole life? | two secrets and two sets of codes: set up, confirm, remove, set up again. The set-up pages are served one at a time here; section 5 shows what happens otherwise. |
| `recovery` | `OneRecoverySet`, `NoReplay` on SQLite | two tabs regenerate while a code is used; three codes, sets of one, one failed call. |
| `migrate` | `TypeOK`, `AppliedOnce`, `TrackedIsApplied`, `PrefixApplied`, `DoneMeansApplied`, `NothingLeftOut`, `SchemaCompleted`, `ImplementsMigrationLog` | 3 servers, 4 files of which the second alters (as in mfax), any prefix already applied, 2 stops, three kinds of database. `NothingLeftOut` and `SchemaCompleted` say that a blocked statement must wait: with SQLITE_BUSY at once, two servers can both give up. |
| `sessions` | `TypeOK`, `ServedEntitled`, `NotResurrected`, `ImplementsSessionLife`: who is served, and does the table of sessions change as `SessionLife` does? | 2 requests, an open session of either purpose and one to draw, one edit of the account, one failed statement, time past the expiry. A race needs one request that read and one that changes. |
| `browser` | `UndisturbedUsable`, `AcceptedInSession`, `CookieSettles`, `LandsWhereAsked` | 2 tabs, 2 CSRF tokens (two first visits at once, or one before and one after a restart), 2 sessions (a login over another one, or a set-up and the session it is elevated to), one restart, a page beside home and one value of `?next=` that is no local path. With them a late answer clears or sets an older cookie over a newer one, and the page of recovery codes carries the token of the session just replaced. |
| `inputs`: recovery codes | `ReadAsShown`, `MistakeNotForgiven` | alphabet of 3 with two confused letters and one foreign character, 3 symbols in groups of 2, any sequence of respellings and regroupings up to 5 characters, one mistake. |
| `inputs`: limiter | `RefusedForOwn`, `LimitHeld` | 2 clients, one of whose names is also an account, 2 proxies, trusted or not, of either custom, 2 ports, any header of one value, limits 0, 1 and 2: a key of another client and a key per port are in reach. |
| `inputs`: language | `TextInBestLanguage`, `LangNamesText` | 2 languages, each loaded or not, a malformed entry, weights 1, a half and 0, headers of 2 entries, a forced language that exists, does not, or is malformed. |
| `inputs`: target | `TargetKept` | paths of 2 characters with `/`, the word `login` plain and encoded, an encoded `?`, a doubly encoded letter and a control character; queries of 3 with `&`, `=`, `+`, an encoded `&` and the word `next`; a page of the second factor with a query of its own; any number of failures on the way. |
| `inputs`: placeholders | `BoundInOrder` | statements of up to 11 markers (two digits), with text or none before them and digits in the text, a driver of each engine and an unknown one. |

`NothingLeftOut`, `SchemaCompleted` and `ThresholdLeadsToLock` are about progress; the
others are safety. `LockNotMissed` speaks of executions without failed calls; `LockDelayBounded` and
`ThresholdLeadsToLock` say what remains after one: the lock waits for the next wrong code, and one more
failed call is needed to put it off again. `Decodable` (in `TargetKept`) and the
weights of `LangNamesText` mark where the code departs from the plain statement, see section 5.

Runs that end in a violation, one property each, are in the next section.

## 5. Where the code departs from its documentation

With a run that shows it:

- `race_active` (`ActiveKept`, `mfax/handlers.go:184`). `SetupGET` asks `Enabled`, then provisions by
  an upsert that does not test `enabled`. `EnablePOST` in between activates the
  secret; the GET replaces it by one nobody has and the second factor is off.
  README: « un GET ne peut pas écraser un secret en place ».
- `race_replay` (`NoReplay`, `mfax/mfax.go:182`). `SetLastStep` names the account, not the secret.
  A code is matched on the old row; `DisablePOST` deletes it, `SetupGET` writes a new
  one, whose `last_step` is behind: the same code is accepted a second time.
  README: « un code TOTP n'est accepté qu'une fois ».
- `recovery_pg` (`OneRecoverySet`, `mfax/sqlstore/sqlstore.go:288`). At READ COMMITTED two
  concurrent `Replace` leave both sets valid. `recovery.go`: « Replace remplace
  atomiquement … une régénération invalide les anciens ».
- `store_error` (`SecondFactorAsked`, `mfax/mfax.go:188`). `Enabled` takes a failed read for "no
  TOTP"; with `WithOptionalEnrollment` the login then opens a session without a code.
  `mfax.go`: « pas de TOTP et enrôlement facultatif : laisse le login ouvrir la session ».

Met while modelling, contained in the behaviours of the modules, without a run:

- `EnablePOST` activates the secret it read first, though `consumeCode` reads the row again:
  two confirmations around a new set-up activate a secret none of whose codes was accepted.
- A regeneration of recovery codes that ends after `DisablePOST` leaves codes without a secret, and so does a
  `DisablePOST` cut short between its two deletions.
- `Enabled` answers false when the store fails: `SetupGET` then replaces an active secret without any race.
- The lock is read before the code is examined: codes in flight when it is placed are examined
  (`FewUnderLock` bounds them by the requests in flight).
- A right code that resets the failures between the upsert and the `SELECT` of `Fail` makes a
  wrong code end in an internal error, though `Fail` is documented as atomic.
- `LoadSession` purges a session that slid after it was read as expired, and one whose account could not be read;
  `Logout` ignores the failure of `Delete`.
- `Run` is idempotent in one server; of two that start together the second may return an
  error for a file the first has just applied.
- With `WithSessionBinding`, the page of recovery codes that follows an enrolment from a set-up
  session is rendered with the token of the session it has just replaced: its forms are refused.
  `UndisturbedUsable` leaves out this page and no other (`Elevated`), and fails without the exception.
- `LoadSession` sets the cookie of the session of the request again with every answer (`session.go:126`): an
  answer that arrives late puts an older session back over the cookie of a newer login, or over its absence
  after a logout in another tab (the session is ended on the server, unless its deletion failed). A late answer that clears does the same to a newer cookie.
- The set-up page takes no `?next=`: a login that goes through it ends at home.
- `RedirectToLogin` keeps the decoded path: an encoded `?` or `%` does not survive a login
  (`TargetKept` is violated without `Decodable`).
- `Lang()` sorts the forced language, the header and the default as one list, go-i18n reads each by itself:
  with the header `de,fr;q=0.9`, translations for `fr` and the default `en`, the default weighs 1 and `Lang()`
  is `en` while the texts are French; a malformed header also hides a forced language from
  `Lang()` and not from the texts. `LangNamesText` states when the two agree.

## 6. What is proved

Eight modules hold theorems, for any number of requests, accounts, tokens, codes, servers, files,
tabs, proxies, any policy, any paths and queries, any recovery codes and lists of languages. They rest on the named assumptions on the constants (`PolicyAssumption`,
`StoreAssumption`, `MfaxAssumption`, `MigrateAssumption`, `SessionsAssumption`, `BrowserAssumption`,
`NilAssumption`, `LimiterAssumption`, `TargetAssumption`, `FormatAssumption`, `LanguageAssumption`,
`DriversAssumption`, `StatementsAssumption`), which TLC evaluates in
each run, and on those a theorem names itself: that the set of requests is finite where they are
counted, one writer, or a condition on the order of two handlers. Every
invariant and action property that the passing runs check is a theorem, and so are the three refinements.

**Induction over data** (`InductionLemmas`). The provers cannot apply an induction theorem that takes an operator, but
they can cite one about a set: `Smallest` says that a set of numbers has a smallest member (from the library's
well-foundedness of `<`), `Induction` that a set which holds 0, and n + 1 with n, holds every number, and `Recursion`
that a first value and a step define a function (`Recurs`). With these, what `Doubled` and the loop of `Rebind` compute is proved:
`Recursion` shows that a function obeys the recursive definition, so that the one the definition chooses does.

**Lockout policy** (`MfaxProofs`). `LockDurationDoubles`: the first lock lasts `Duration`, each next one twice the one
before or `MaxDuration`, whichever is less. The code stops doubling once it is past the cap and cuts afterwards; by induction
this is the same at every number of locks. `LockDurationCapped`: a lock is never longer than the cap nor shorter than an
earlier one, and a series of locks gets there.

The conditions on order are temporal formulas beside the specification, and each says what must not overlap, no more.
A lemma shows where each is met by the way requests are served alone:

| Condition | Says | Met, among others, where |
|---|---|---|
| `RemovedAlone` | no secret is deleted while a request is about to write off a code it matched, or confirms a secret | `DisablePOST` is not served (`NothingRemoved`) |
| `SetUpApart` | `SetupGET` writes no secret of an account while `EnablePOST` confirms one | one slot serves both pages (`OnePageAtATime`) |
| `RenewedAlone` | no secret is deleted while a request of its account renews the recovery codes | one slot serves removals and renewals (`RemovedByRenewer`) |
| `EnabledHeard` | `SetupGET` is told when the store cannot answer `Enabled` | no store call fails (`NoCallFails`) |
| `DeletedWhole` | a `DisablePOST` that deleted the secret deletes the codes too | no store call fails and nothing is cut short (`NoCallFails`) |

The code guarantees none of them, and without any one of them a property of its theorem fails (section 5).

**Mfax, types and lock** (`MfaxProofs`).

- `TypeCorrect`. `TypeOK` is not inductive: nothing in it says that the account and the secret in a
  request's hands are real ones when a statement uses them. `ReqOK` adds what a handler holds at
  each of its calls; `TypeInv == TypeOK /\ ReqOK` is inductive (`TypeInductive`), by one step per
  statement (`StepType`) and one per arrival (`ArriveType`).
- `LockEarnedCorrect`. The UPDATE of `Fail` tests the failures of the row, while the property is about the
  wrong codes since the last lock: `CountCovered` (failures counted in the row never
  exceed those codes) ties the two. This is why concurrent failures lock once: a lock
  empties the row and the history together, so a second request that read the threshold finds a
  row that no longer has it.
- `LockTieredCorrect`. The UPDATE names the number of locks it read, so that the tier it computes
  is the tier of the row it changes (`LockPlaced`).
- `LockNotMissedCorrect`. The property is inductive on top of `TypeInv`: the statement that brings
  the row to the threshold leaves its request at `failRead`; a lock or a reset takes the
  row away from the threshold; any other change of the number of locks would need a lock.

`OtherSteps` reduces all the other actions, in these proofs, to steps that leave the lockout table and
the four statements alone.

**Mfax, bounds** (`MfaxProofs`). Each counts the requests that may still add to what it
bounds; a step moves one request, so that the count changes by one at most (`OneMoves`).

- `LockDelayCorrect`. `DelayInv`: the failures of a row stay below the threshold, the failed calls
  and the requests that will place the lock, together. A wrong code adds a failure and such a
  request; a failed call takes such a request away.
- `FewUnderLockCorrect`. `UnderInv`: the codes examined since the lock, and the requests that have passed its check and
  still have theirs to examine, are together fewer than the requests. The request that places the lock is not one
  of these, and while the lock is in force nobody joins them.
- `AttemptsCappedCorrect`. `CapInv`: the codes examined under a challenge and the requests that have counted
  their attempt are together no more than the attempts of its row, and no more than `MaxAttempts` once it is
  gone. A token is drawn for one challenge, so that a deleted one does not start over.
- `OneRecoverySetCorrect`, for `SerialWrites` (run `recovery_pg` shows it false otherwise).
  `ReplaceInv`: between its two halves `Replace` is alone and has seen the codes it replaces.

**Mfax, single use** (`MfaxReplayProofs`), under `RemovedAlone` (run `race_replay` shows why), for accounts that share no
secret and no recovery code at the start. Removals at any other moment are included, and so is setting up again after one.

- `NoReplayCorrect`. `last_step` belongs to the account and not to the secret, so the invariant follows
  whose each secret is: `Held(k, u)` when `k` is in the row of `u`, or when an enrolment or a matched code of `u`
  still has it in hand. `OneOwner`: a secret is drawn once and held by one account. `StepsBehind`: `last_step`
  of the account that holds a secret is past every accepted code of it. `CodesGone`: an accepted
  recovery code is in no set, and a drawn one is not drawn again.
- `SessionsPaidCorrect`. `PaidInv`: a request between an accepted code and its session is the only one with
  that code, and no session was opened for it. It needs the single use above: a code that is
  accepted is new, and thus nobody else's.

**Mfax, enrolment** (`MfaxReplayProofs`).

- `EnabledConfirmedCorrect`, under `SetUpApart`. `SecretAgreed`: every confirmation of an account is about the secret of
  its row, and of the same one where the row is gone; `CodeOfSecret` follows the code from the form to the
  activation. Removals may overlap a confirmation: the `UPDATE` of a row that is gone changes nothing.
- `ActiveKeptCorrect`, under `SetUpApart` and `EnabledHeard`. `SetUpDue`: a set-up that is about to write found no active
  secret, and none became active since, because only a confirmation activates one.
- `RecoveryGoneCorrect`, under `RenewedAlone` and `DeletedWhole`, where recovery codes are on and an account that
  starts with codes has a secret. `RenewInv`: whoever is to write codes (`Renewing`) had a code of the authenticator accepted, and
  the account still has its secret; whoever deleted it goes on to delete the codes.

**Mfax, refinement** (`MfaxRefinementProofs`), under the conditions of single use, where enrolment is required and
the requests are finitely many.

- `SecondFactorImplemented`: `Spec => ImplementsSecondFactor`. `StartsAsFactor` maps the initial state, `FactorSteps`
  reduces the 26 kinds of step to those that judge a code (`GetMaps`, `AnswerMaps`), open a session (`OpenMaps`) or give up
  (`AbortMaps`), and the others stutter (`QuietStutters`). The verdicts of a challenge are a difference,
  codes examined less requests that wait for the answer of `SetLastStep`; `VerdictsMove` follows both sides. The bound on verdicts
  comes from `CapInv`, the freshness of an accepted code from `ReplayInv`, the one session per code from `PaidInv`.
  `WayInv` adds where a handler stands: the calls on the way to a session are those of `VerifyPOST` and of the first
  `EnablePOST`, and the session that `Elevate` deletes is still the set-up session it was when the request arrived.

**Migrate** (`MigrateProofs`).

- `LogKept` is the invariant all the others follow from: the schema and its log are those of the first `n`
  migrations for some `n`, what a server read is still recorded, a server at a file has all the files before it
  behind it, a name found free stays free until the commit, two open transactions are about two files.
  From it `MigrateTypeCorrect`, `AppliedOnceCorrect`, `TrackedIsAppliedCorrect`,
  `PrefixAppliedCorrect`, `DoneMeansAppliedCorrect`.
- `LogImplemented`: `Spec => ImplementsMigrationLog`, the refinement that the run checks on a small
  instance. A commit is `Apply`, every other step a stutter.
- `NothingLeftOutCorrect`. `SomeoneFinishes`: as long as files are left, some server that has not
  failed can still reach one of them; a server fails because of another that is ahead of it.

**Sessions** (`SessionsProofs`). `RequestsKept`: at each statement a request has in hand a token that was
drawn and the session it read, whose purpose has not changed, and has seen what it relies on. From it
`SessionsTypeCorrect`, `ServedEntitledCorrect`, `NotResurrectedCorrect` (no statement writes
under a token that was drawn before) and `SetupFixedCorrect`, an action property that no run checks, for it also follows
from the refinement.

`ImplementsSessionLifeCorrect`: the table of sessions refines `SessionLife`. `InitLife` maps the initial tables, `NextLife`
has one step per kind of change: `OpenLife` for `OpenSession`, `UseLife` for `Touch`, `EndLife` for what deletes one row or many;
the other steps stutter. It needs `RequestsKept`, for the row that a `Touch` finds is still authenticated if there is one, and
`AtPast`: a request computes an expiry from a time that has come. `Use` asks for no more than that: the instant is not tied to the request's own reading. `SessionLife` leaves open what the code leaves open: of two requests that
extend a session, the one that read the clock first may write last, and move the expiry back.

**Browser** (`BrowserProofs`). `Outcomes` reduces the handlers to what an answer may be: no token, a form, a
redirection that keeps or gives up what was asked (or an error page), a session that is opened (`Opens`: a login, a set-up that
starts, one that ends), a logout. `Replied` is
that answer as the invariants see it. `BaseInv` (`FormsHeld`) says that cookies were drawn and that a form carries
the proof of what it was rendered for.

- `AcceptedInSessionCorrect`: a right token names the cookie and the session of its form; a token
  that is drawn for the answer was shown in no form, so the cookie is the one the request had.
- `CookieSettlesCorrect`: only the answer to a request without a cookie sets one.
- `LandsWhereAskedCorrect`. `TabTarget` follows the target through the request, the answer and the form of a tab. An
  answer that names a session often sets an old one again, so the property is about the step that opens one: only the
  server's answer to this tab can, for a token that was drawn is not opened again.
- `UndisturbedUsableCorrect`. `TabWorth`: as long as nothing disturbs a tab, its request carries what the cookies of
  the browser are worth; its answer leaves the session cookie alone or sets it to what it is worth already, and brings the token its form
  needs. This is where `SessionCookie` counts: the cookie `LoadSession` sets again, or clears, is the session the form is
  bound to. A form that comes with an elevated session (`Elevated`) is the exception, because the token is computed
  before the session is replaced. For the other tabs (`OtherTabWorth`) a change of the cookies that is worth nothing
  changes nothing: a session that was drawn is not opened again.

**Limiter** (`InputsProofs`). `RefusedForOwnCorrect` and `LimitHeldCorrect`, for any number of proxies on the way.
`KeyIsSender`: the key a request is charged to is that of its client. What `ClientIP` believes was written by a trusted
proxy, and the last hop that is no proxy is the client, whatever came before it (`ClientIsLast`).

**NextTarget** (`InputsProofs`). `TargetKeptCorrect`, for paths and queries of any length and any characters. `TargetInv`: the
address, then the hidden field, carries the target, or is empty where no step would carry it (`Carries`).

- Writing and reading: an escaped text holds no separator and unescaping gives it back (`EscapedOnce`), so `Get` reads
  from an address what `withNext` has appended to it, whether the address has a query or not (`NextRead`). `KeyFound`:
  the first `&next=` is the appended one, because nothing before it ends in the middle of one.
- Reading what was asked for: cut at its first `?`, the target has the path and the query of the address, once its
  path holds none (`TargetRead`).

The proof corrected the property. It excepted only the home and the login page themselves, by their plain addresses; a page
asked for as `/%6Cogin` is also the login page to `RedirectToLogin`, which compares the decoded path, and ends at home. The
run now has such a path.

**RecoveryFormat** (`InputsProofs`). `ReadAsShownCorrect` and `MistakeNotForgivenCorrect`, for any alphabet, any length of code and of
group, and any number of changes in what is typed, with one mistake among them. `FormatInv`: what is typed reads as the code
shown until the mistake, and no longer after it.

- The loops of the code are written by rank: the k-th character read stands at the place with k places that are read up to it
  (`InOrder`), and no induction over the text is needed. `Moved`: places moved without a change of their order keep their ranks.
- `ReadOneMore`: a separator more changes nothing of what is read, any other character changes its length. `ReadExchanged`: one
  character for another changes it unless they are the same letter. `FormatRead`: a dash stands between symbols, whose places
  ascend (`PlacesAscend`), so reading undoes formatting.
- `FormatAssumption` says of the alphabet what the code relies on: it is in small letters and holds no letter that another one is
  mistaken for.

**Language** (`InputsProofs`). `TextInBestLanguageCorrect` and `LangNamesTextCorrect`, for any languages, weights and headers.

- `ParsedSorted`: the list `ParseAcceptLanguage` returns holds the entries that count, each from a place of its own, in the order
  of their weights and places. So its first entry with a translation is the best of the header (`MatchParsed`), and it is the
  only best one (`BestUnique`).
- `SpokenIs`: of three lists in a row, the first that names a translation decides (`MatchJoined`). `LangIs`: in the one list of
  `Lang()`, the forced language comes first, the default last, both at full weight, so an entry of the header decides as in
  `Spoken` only at full weight. That is the condition in `LangNamesText`.

**Placeholders** (`InputsProofs`). `BoundInOrderCorrect`, for statements of any length below a hundred markers.

- `ReboundNumbered`, by induction over the characters read: the text built so far holds one `$` per marker read, and the k-th is
  followed by the digits of k and no other (`Numbered`, `Spelled`). A character of the text keeps this (`TextAfter`), because a digit never comes right
  after a number: either the last character read was no marker (`Closed`), or what follows a marker is no digit. A marker adds the next number (`MarkerAfter`).
- `SpelledRead`: PostgreSQL, which reads all the digits it finds, reads k there. `DriversAssumption` gives the engine that reads.

Only model-checked:

- liveness (`ThresholdLeadsToLock`, `SchemaCompleted`): the provers do not reason about fairness.

## 7. What is not modelled

- Rendering, wording, form parsing, QR images, the TOTP function and bcrypt: no state, or a library's.
- `users` beyond activity and role: nothing modelled reads the rest.
- `ClientIP` of `authx`, which fills a column nothing reads.
- `corsx`: one decision in front of rs/cors. `logx`: the construction of a handler. `appconf` but for
  `Database.Dialect`: sequential, at start-up.
- Of `i18n`, the files, templates, plurals and the texts a language lacks, and the distance between
  languages that are not equal. Of `ratelimit`, the sliding estimate of httprate.
- Instants finer than a second, and overflow of durations beyond 146 years.
- Attributes of cookies; several browsers in `Browser`.

## 8. Plan

Done, in this order: `LockoutPolicy`, `MfaxStore`, `Mfax` (lock, login, enrolment, recovery codes), `Migrate`,
`Sessions`, `RecoveryFormat`, `Browser`; the abstract specifications `SecondFactor`, `MigrationLog` and
`SessionLife` with their refinements; failed calls in the lock run; set-up and elevation in `Browser`; `Limiter`, `Language`, `NextTarget`, `Placeholders`; the proofs of
section 6, each property under the weakest condition found for it.

Left:

1. The challenge cookie beside the session cookie in `Browser`: two logins of one browser share it.
2. The language distances of golang.org/x/text in `Language`.
