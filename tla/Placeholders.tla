------------------------------ MODULE Placeholders ------------------------------
(***************************************************************************)
(* The dialect of a driver and the statements written for it: the driver   *)
(* of the configuration gives the dialect (appconf), Migrate refuses the   *)
(* ones it has no files for, and the stores rewrite the "?" of every       *)
(* statement as the engine reads them (sqldialect.Rebind).                 *)
(*                                                                         *)
(* A statement is a sequence of characters: the markers, and what stands   *)
(* between them.  What the stores write has neither a "$" nor a digit      *)
(* right after a "?".                                                      *)
(***************************************************************************)
EXTENDS Naturals, Sequences, FiniteSets

CONSTANTS Drivers,     \* names found in the configuration
          EngineOf,    \* driver -> the engine that answers under its name
          Characters,  \* what a statement is written with
          Statements,  \* the SQL of the stores
          None         \* no engine yet, no statement yet

VARIABLES driver, dialect,
          ready,      \* Migrate has run
          statement,  \* what a store is given
          sent        \* what the engine gets

placeholdersVars == <<driver, dialect, ready, statement, sent>>

PlaceholdersInit ==
    driver = None /\ dialect = "unknown" /\ ready = FALSE /\ statement = None /\ sent = None

\* Database.Dialect.
Dialect(name) ==
    IF name \in {"", "sqlite", "sqlite3", "libsql"} THEN "sqlite"
    ELSE IF name \in {"postgres", "postgresql", "pgx", "pq"} THEN "postgres"
    ELSE IF name \in {"mysql", "mariadb"} THEN "mysql" ELSE "unknown"

\* supported: the dialects that have migration files.
Supported(d) == d \in {"sqlite", "postgres"}

Digit == <<"0", "1", "2", "3", "4", "5", "6", "7", "8", "9">>
Digits == {Digit[v] : v \in 1..10}

\* The n of the loop of Rebind once it has read i characters.
MarkersUpTo(query, i) == Cardinality({j \in 1..i : query[j] = "?"})

\* No driver answers for a supported engine that is not its own.
ASSUME DriversAssumption ==
    \A name \in Drivers : Supported(Dialect(name)) => EngineOf[name] = Dialect(name)

ASSUME StatementsAssumption ==
    /\ Digits \cup {"$"} \subseteq Characters
    /\ \A query \in Statements :
        /\ query \in Seq(Characters) /\ MarkersUpTo(query, Len(query)) < 100
        /\ \A i \in 1..Len(query) :
              /\ query[i] # "$"
              /\ query[i] = "?" /\ i < Len(query) => query[i + 1] \notin Digits

Configure ==
    /\ driver = None
    /\ \E name \in Drivers : driver' = name /\ dialect' = Dialect(name)
    /\ UNCHANGED <<ready, statement, sent>>

\* Migrate fails for another dialect, and the project does not start.
Migrate ==
    /\ driver # None /\ ~ready
    /\ Supported(dialect)
    /\ ready' = TRUE
    /\ UNCHANGED <<driver, dialect, statement, sent>>

\* Mutant: one byte, as '0' + n would be.
ItoaByte(n) == <<Digit[(n % 10) + 1]>>
\* strconv.Itoa below a hundred.
Itoa(n) == (IF n < 10 THEN <<>> ELSE <<Digit[(n \div 10) + 1]>>) \o <<Digit[(n % 10) + 1]>>

\* What the loop writes for the character i.
Written(query, i) ==
    IF query[i] = "?" THEN <<"$">> \o Itoa(MarkersUpTo(query, i)) ELSE <<query[i]>>

\* The text the loop has built once it has read i characters.
Rebound(query) ==
    LET built[i \in 0..Len(query)] ==
            IF i = 0 THEN <<>> ELSE built[i - 1] \o Written(query, i)
    IN  built

Rebind(d, query) == IF d # "postgres" THEN query ELSE Rebound(query)[Len(query)]

\* A store runs a statement.
Exec ==
    /\ ready
    /\ \E query \in Statements : statement' = query /\ sent' = Rebind(dialect, query)
    /\ UNCHANGED <<driver, dialect, ready>>

PlaceholdersNext == Configure \/ Migrate \/ Exec

PlaceholdersSpec == PlaceholdersInit /\ [][PlaceholdersNext]_placeholdersVars

--------------------------------------------------------------------------------
(* Properties. *)

\* The places of a statement where the engine expects an argument.
PlacesOf(engine, text) ==
    {i \in DOMAIN text : text[i] = IF engine = "postgres" THEN "$" ELSE "?"}

Value(c) == CHOOSE v \in 0..9 : Digit[v + 1] = c
\* PostgreSQL reads the digits after the "$" at i; the other engines count the "?".
NumberAt(engine, text, i) ==
    IF engine # "postgres" THEN Cardinality({j \in PlacesOf(engine, text) : j <= i})
    ELSE IF i + 2 \in DOMAIN text /\ text[i + 2] \in Digits
         THEN 10 * Value(text[i + 1]) + Value(text[i + 2]) ELSE Value(text[i + 1])

\* Whatever the driver is called, the engine behind it finds in a rewritten statement
\* as many places as were written, and binds the k-th argument at the k-th of them.
BoundInOrder ==
    statement # None =>
        LET engine == EngineOf[driver]
            places == PlacesOf(engine, sent)
        IN  /\ Cardinality(places) = MarkersUpTo(statement, Len(statement))
            /\ \A i \in places :
                  NumberAt(engine, sent, i) = Cardinality({j \in places : j <= i})

================================================================================
