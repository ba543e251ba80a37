-------------------------------- MODULE Migrate --------------------------------
(***************************************************************************)
(* sqlmigrate.Run, called at start-up by every server that shares the      *)
(* database.  A server may stop at any statement and start again.          *)
(*                                                                         *)
(* The *.sql files of a component are numbered in lexical order.  The      *)
(* state a file leaves is its effect, counted; files of Altering (ALTER    *)
(* TABLE) fail on a schema that has it, the others (IF NOT EXISTS) do not. *)
(***************************************************************************)
EXTENDS Naturals, FiniteSets

CONSTANTS Servers,
          LastFile,       \* files are 1..LastFile
          Altering,       \* files whose SQL fails when run twice
          Databases,      \* kinds of database, see below
          MaxStops        \* bound of the stops of servers

Files == 1..LastFile

\* PostgreSQL; SQLite with a busy timeout, and without: there a statement that
\* meets the transaction of another server fails at once (SQLITE_BUSY).
Kinds == {"postgres", "sqlite", "sqliteBusy"}

ASSUME MigrateAssumption ==
    /\ Servers # {} /\ LastFile \in Nat \ {0}
    /\ Altering \subseteq Files
    /\ Databases \subseteq Kinds
    /\ MaxStops \in Nat

VARIABLES db,       \* the kind of the database
          tracked,  \* schema_migrations: names committed
          effects,  \* file -> times its SQL was committed
          pc,       \* server -> next statement
          applied,  \* server -> the names Run read
          file,     \* server -> the file of its loop
          stops     \* stops so far

vars == <<db, tracked, effects, pc, applied, file, stops>>

\* A server in "insert" or "commit" has run the SQL of its file in an open
\* transaction.
Points == {"createTable", "readApplied", "sql", "insert", "commit", "done", "failed"}
InTx(s) == pc[s] \in {"insert", "commit"}

SerialWrites == db # "postgres"
WaitsForLock == db # "sqliteBusy"

TypeOK ==
    /\ db \in Databases
    /\ tracked \subseteq Files
    /\ effects \in [Files -> Nat]
    /\ pc \in [Servers -> Points]
    /\ applied \in [Servers -> SUBSET Files]
    /\ file \in [Servers -> 1..(LastFile + 1)]
    /\ stops \in 0..MaxStops

\* Any prefix of the files was applied by an earlier version of the program.
Init ==
    /\ db \in Databases
    /\ \E n \in 0..LastFile :
          /\ tracked = 1..n
          /\ effects = [f \in Files |-> IF f <= n THEN 1 ELSE 0]
    /\ pc = [s \in Servers |-> "createTable"]
    /\ applied = [s \in Servers |-> {}]
    /\ file = [s \in Servers |-> 1]
    /\ stops = 0

Goto(s, point) == pc' = [pc EXCEPT ![s] = point]

\* Mutants: the names are not sorted; the loop stops at an applied file.
NextFileUnsorted(s, from) == {f \in Files : f \notin applied'[s] \cup {from - 1}}
NextFileStops(s, from) == {f \in Files : f = from /\ f \notin applied'[s]}

\* The next file of the loop that Run did not read as applied.
NextFile(s, from) ==
    {f \in Files : /\ f >= from /\ f \notin applied'[s]
                   /\ \A g \in Files : from <= g /\ g < f => g \in applied'[s]}

Loop(s, from) ==
    \/ /\ NextFile(s, from) = {}
       /\ Goto(s, "done") /\ UNCHANGED file
    \/ \E f \in NextFile(s, from) :
          Goto(s, "sql") /\ file' = [file EXCEPT ![s] = f]

\* The tracking table is created when it is missing.  Of two servers that create
\* it at the same time the second fails: in PostgreSQL on the unique index of the
\* catalog, in SQLite on the lock unless it waits.
CreateTable(s) ==
    /\ pc[s] = "createTable"
    /\ \/ Goto(s, "readApplied")
       \/ /\ tracked = {} /\ ~(SerialWrites /\ WaitsForLock)
          /\ \E t \in Servers \ {s} : pc[t] \in {"readApplied", "sql", "insert", "commit"}
          /\ Goto(s, "failed")
    /\ UNCHANGED <<db, tracked, effects, applied, file, stops>>

ReadApplied(s) ==
    /\ pc[s] = "readApplied"
    /\ applied' = [applied EXCEPT ![s] = tracked]
    /\ Loop(s, 1)
    /\ UNCHANGED <<db, tracked, effects, stops>>

\* The transaction of another server is in the way: the only writer of SQLite,
\* or in PostgreSQL the one that runs the same file.
Blocked(s) ==
    \E t \in Servers \ {s} : InTx(t) /\ (SerialWrites \/ file[t] = file[s])

\* tx.Exec of the file.  The SQL of a file another server has committed fails,
\* or passes when it is all IF NOT EXISTS; in PostgreSQL even that fails when it
\* waited for the other transaction (the catalog's unique index).
RunSql(s) ==
    /\ pc[s] = "sql"
    /\ \/ ~Blocked(s) /\ file[s] \notin tracked /\ Goto(s, "insert")
       \/ ~Blocked(s) /\ file[s] \in tracked \ Altering /\ Goto(s, "insert")
       \/ /\ ~Blocked(s) /\ file[s] \in tracked
          /\ file[s] \in Altering \/ ~SerialWrites
          /\ Goto(s, "failed")
       \/ Blocked(s) /\ ~WaitsForLock /\ Goto(s, "failed")
    /\ UNCHANGED <<db, tracked, effects, applied, file, stops>>

\* Mutant: "INSERT OR IGNORE".
InsertIgnored(s) ==
    /\ pc[s] = "insert"
    /\ Goto(s, "commit")
    /\ UNCHANGED <<db, tracked, effects, applied, file, stops>>
\* Mutant: the name is not written in the transaction of the file.
InsertOutside(s) ==
    /\ pc[s] = "insert" /\ file[s] \notin tracked
    /\ tracked' = tracked \cup {file[s]}
    /\ Goto(s, "commit")
    /\ UNCHANGED <<db, effects, applied, file, stops>>

\* The name is the primary key of schema_migrations: a second INSERT of it
\* fails, and Run rolls back and returns the error.
InsertName(s) ==
    /\ pc[s] = "insert"
    /\ \/ file[s] \notin tracked /\ Goto(s, "commit")
       \/ file[s] \in tracked /\ Goto(s, "failed")
    /\ UNCHANGED <<db, tracked, effects, applied, file, stops>>

\* Mutant: the name of the next file is recorded.
CommitNext(s) ==
    /\ pc[s] = "commit"
    /\ tracked' = tracked \cup {file[s] + 1}
    /\ effects' = [effects EXCEPT ![file[s]] = @ + 1]
    /\ UNCHANGED <<db, applied, stops>>
    /\ Loop(s, file[s] + 1)

Commit(s) ==
    /\ pc[s] = "commit"
    /\ tracked' = tracked \cup {file[s]}
    /\ effects' = [effects EXCEPT ![file[s]] = @ + 1]
    /\ UNCHANGED <<db, applied, stops>>
    /\ Loop(s, file[s] + 1)

Step(s) == CreateTable(s) \/ ReadApplied(s) \/ RunSql(s) \/ InsertName(s) \/ Commit(s)

\* The server stops: its transaction is rolled back and Run starts afresh.
Stop(s) ==
    /\ stops < MaxStops
    /\ stops' = stops + 1
    /\ Goto(s, "createTable")
    /\ applied' = [applied EXCEPT ![s] = {}]
    /\ file' = [file EXCEPT ![s] = 1]
    /\ UNCHANGED <<db, tracked, effects>>

Next == \E s \in Servers : Step(s) \/ Stop(s)

Spec == Init /\ [][Next]_vars

\* A call of Run that is not blocked goes on.
FairSpec == Spec /\ \A s \in Servers : WF_vars(Step(s))

--------------------------------------------------------------------------------
(* Properties. *)

\* The SQL of a file is committed once, however many servers run it at the same
\* time and wherever they stop: an ALTER TABLE never meets its own effect.
AppliedOnce == \A f \in Files : effects[f] <= 1

\* schema_migrations names exactly the files whose SQL is committed: a stop
\* between the SQL and the INSERT leaves neither.
TrackedIsApplied == \A f \in Files : f \in tracked <=> effects[f] > 0

\* A file is committed on top of all the files before it, whatever the servers
\* that committed those.
PrefixApplied == \A f \in tracked : \A g \in Files : g < f => g \in tracked

\* Servers that start together can make one another fail, but not leave the
\* schema behind: once none is running, every file is applied.  This needs a
\* blocked statement to wait; with SQLITE_BUSY two servers can both give up.
NothingLeftOut ==
    WaitsForLock /\ (\A s \in Servers : pc[s] \in {"done", "failed"}) => tracked = Files

Log == INSTANCE MigrationLog WITH log <- tracked, schema <- effects

\* Whatever the servers that run, fail or stop between their statements, a reader
\* of the database sees one migration after the other, each with its name: every
\* commit of Run is one step of MigrationLog, and nothing else changes it.
ImplementsMigrationLog == Log!Spec

\* A server that Run tells to go on finds the whole schema.
DoneMeansApplied == \A s \in Servers : pc[s] = "done" => tracked = Files

\* Servers never wait for one another for ever, and the schema gets complete.
SchemaCompleted == WaitsForLock => <>[](tracked = Files)

================================================================================
