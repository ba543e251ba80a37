----------------------------- MODULE MigrateProofs -----------------------------
(***************************************************************************)
(* What holds of Migrate for any number of servers, files and stops.       *)
(*                                                                         *)
(*   LogKept             the inductive invariant: tracked and effects are  *)
(*                       a state of MigrationLog, and no server is ahead   *)
(*   LogImplemented      every behaviour is one of MigrationLog            *)
(*   NothingLeftOutCorrect  a server that can finish is always left        *)
(***************************************************************************)
EXTENDS Migrate, WellFoundedInduction, TLAPS

--------------------------------------------------------------------------------
(* The inductive invariant. *)

Working(s) == pc[s] \in {"sql", "insert", "commit"}

\* The schema and its log are those of the first n migrations, for some n.
Logged == \E n \in 0..LastFile : Log!Applied(n)

\* What Run read is still recorded.
ReadIsTracked == \A s \in Servers : applied[s] \subseteq tracked

\* A server at a file has all the files before it behind it.
BehindIsTracked ==
    \A s \in Servers : Working(s) =>
        file[s] \in Files /\ \A g \in Files : g < file[s] => g \in tracked

\* A name that InsertName found free stays free until the commit.
CommitIsNew == \A s \in Servers : pc[s] = "commit" => file[s] \notin tracked

\* Two open transactions are about two files.
Exclusive ==
    \A s, t \in Servers : s # t /\ InTx(s) /\ InTx(t) => file[s] # file[t]

LogInv ==
    /\ TypeOK /\ Logged /\ ReadIsTracked /\ BehindIsTracked
    /\ DoneMeansApplied /\ CommitIsNew /\ Exclusive

\* A server that is at work on a file that is still to be applied, or that has
\* still to read which these are.
CanFinish(s) == pc[s] \notin {"done", "failed"} /\ (Working(s) => file[s] \notin tracked)

\* Some server can finish, unless nothing is left to do.
SomeoneFinishes ==
    WaitsForLock => tracked = Files \/ \E s \in Servers : CanFinish(s)

--------------------------------------------------------------------------------
(* The loop of Run. *)

LEMMA LeastNumber ==
    ASSUME NEW S \in SUBSET Nat, S # {}
    PROVE  \E m \in S : \A k \in S : m <= k
<1>1. PICK m \in S : \A k \in S : <<k, m>> \notin OpToRel(<, Nat)
  BY WFMin, NatLessThanWellFounded, Zenon
<1>2. \A k \in S : ~(k < m)
  BY <1>1, Zenon DEF OpToRel
<1> QED
  BY <1>2

\* The loop ends when all the files from where it starts were read as applied, and
\* otherwise stops at the first that was not.
LEMMA NextFileLeast ==
    ASSUME NEW s \in Servers, NEW from \in 1..(LastFile + 1),
           NextFile(s, from) = {}
    PROVE  \A f \in Files : f >= from => f \in applied'[s]
<1> DEFINE Missing == {f \in Files : f >= from /\ f \notin applied'[s]}
<1> SUFFICES ASSUME Missing # {} PROVE FALSE
  OBVIOUS
<1>1. Missing \in SUBSET Nat
  BY MigrateAssumption DEF Files
<1> HIDE DEF Missing
<1>2. PICK f \in Missing : \A g \in Missing : f <= g
  BY <1>1, LeastNumber
<1> USE DEF Missing
<1>3. f \in Files /\ f >= from /\ f \notin applied'[s]
  BY <1>2
<1>4. \A g \in Files : from <= g /\ g < f => g \in applied'[s]
  BY <1>2, MigrateAssumption DEF Files
<1> QED
  BY <1>3, <1>4 DEF NextFile

\* After the loop a server has the whole schema behind it, or is at a file that it
\* did not read as applied, with all the files before it behind.
LEMMA LoopReaches ==
    ASSUME TypeOK, NEW s \in Servers, NEW from \in 1..(LastFile + 1),
           Loop(s, from), tracked' \subseteq Files, applied'[s] \subseteq tracked',
           \A g \in Files : g < from => g \in tracked'
    PROVE  \/ /\ pc' = [pc EXCEPT ![s] = "done"] /\ file' = file
              /\ tracked' = Files
           \/ \E f \in Files :
                 /\ pc' = [pc EXCEPT ![s] = "sql"] /\ file' = [file EXCEPT ![s] = f]
                 /\ f >= from /\ f \notin applied'[s]
                 /\ \A g \in Files : g < f => g \in tracked'
<1>1. CASE NextFile(s, from) = {} /\ Goto(s, "done") /\ UNCHANGED file
  <2>1. \A f \in Files : f \in tracked'
    BY <1>1, NextFileLeast, MigrateAssumption DEF Files
  <2> QED
    BY <1>1, <2>1 DEF Goto
<1>2. CASE \E f \in NextFile(s, from) :
              Goto(s, "sql") /\ file' = [file EXCEPT ![s] = f]
  <2>1. PICK f \in NextFile(s, from) :
            Goto(s, "sql") /\ file' = [file EXCEPT ![s] = f]
    BY <1>2
  <2>2. /\ f \in Files /\ f >= from /\ f \notin applied'[s]
        /\ \A g \in Files : from <= g /\ g < f => g \in applied'[s]
    BY DEF NextFile
  <2>3. \A g \in Files : g < f => g \in tracked'
    BY <2>2, MigrateAssumption DEF Files
  <2> QED
    BY <2>1, <2>2, <2>3 DEF Goto
<1> QED
  BY <1>1, <1>2 DEF Loop

--------------------------------------------------------------------------------
(* LogInv is inductive. *)

LEMMA InitLog == Init => LogInv
<1> SUFFICES ASSUME Init PROVE LogInv
  OBVIOUS
<1>1. PICK n \in 0..LastFile :
          tracked = 1..n /\ effects = [f \in Files |-> IF f <= n THEN 1 ELSE 0]
  BY DEF Init
<1>2. Logged
  BY <1>1 DEF Logged, Log!Applied, Files
<1>3. TypeOK
  BY <1>1, MigrateAssumption DEF Init, TypeOK, Files, Points
<1> QED
  BY <1>2, <1>3 DEF LogInv, Init, ReadIsTracked, BehindIsTracked, Working,
     DoneMeansApplied, CommitIsNew, Exclusive, InTx

\* A step of one server that commits nothing keeps everything but what is said of
\* that server.
LEMMA OwnStep ==
    ASSUME LogInv, NEW s \in Servers, UNCHANGED <<db, tracked, effects>>,
           stops' \in 0..MaxStops,
           NEW point \in Points, pc' = [pc EXCEPT ![s] = point],
           NEW known \in SUBSET Files, applied' = [applied EXCEPT ![s] = known],
           known \subseteq tracked,
           NEW f \in 1..(LastFile + 1), file' = [file EXCEPT ![s] = f],
           point \in {"sql", "insert", "commit"} =>
               f \in Files /\ \A g \in Files : g < f => g \in tracked,
           point = "done" => tracked = Files,
           point = "commit" => f \notin tracked,
           point \in {"insert", "commit"} =>
               \A t \in Servers : t # s /\ InTx(t) => file[t] # f
    PROVE  LogInv'
<1>1. TypeOK'
  BY DEF LogInv, TypeOK
<1>2. Logged'
  BY DEF LogInv, Logged, Log!Applied
<1>3. ReadIsTracked'
  BY DEF LogInv, TypeOK, ReadIsTracked
<1>4. BehindIsTracked'
  BY DEF LogInv, TypeOK, BehindIsTracked, Working
<1>5. DoneMeansApplied'
  BY DEF LogInv, TypeOK, DoneMeansApplied
<1>6. CommitIsNew'
  BY DEF LogInv, TypeOK, CommitIsNew
<1>7. Exclusive'
  BY DEF LogInv, TypeOK, Exclusive, InTx
<1> QED
  BY <1>1, <1>2, <1>3, <1>4, <1>5, <1>6, <1>7 DEF LogInv

LEMMA CreateTableLog ==
    ASSUME LogInv, NEW s \in Servers, CreateTable(s) PROVE LogInv'
<1>1. file[s] \in 1..(LastFile + 1) /\ applied[s] \in SUBSET Files /\ stops \in 0..MaxStops
  BY DEF LogInv, TypeOK
<1>2. applied' = [applied EXCEPT ![s] = applied[s]] /\ file' = [file EXCEPT ![s] = file[s]]
  BY DEF CreateTable, LogInv, TypeOK
<1>3. PICK point \in {"readApplied", "failed"} : pc' = [pc EXCEPT ![s] = point]
  BY DEF CreateTable, Goto
<1> QED
  BY <1>1, <1>2, <1>3, OwnStep DEF CreateTable, LogInv, ReadIsTracked, Points

LEMMA ReadAppliedLog ==
    ASSUME LogInv, NEW s \in Servers, ReadApplied(s) PROVE LogInv'
<1>1. TypeOK /\ tracked \subseteq Files /\ stops \in 0..MaxStops
  BY DEF LogInv, TypeOK
<1>2. /\ applied' = [applied EXCEPT ![s] = tracked] /\ applied'[s] = tracked
      /\ UNCHANGED <<db, tracked, effects, stops>> /\ Loop(s, 1)
  BY <1>1 DEF ReadApplied, TypeOK
<1>3. 1 \in 1..(LastFile + 1) /\ \A g \in Files : ~(g < 1)
  BY MigrateAssumption DEF Files
<1>4. CASE /\ pc' = [pc EXCEPT ![s] = "done"] /\ file' = file
           /\ tracked' = Files
  <2>1. file' = [file EXCEPT ![s] = file[s]] /\ file[s] \in 1..(LastFile + 1)
    BY <1>1, <1>4 DEF TypeOK
  <2> QED
    BY <1>1, <1>2, <1>4, <2>1, OwnStep DEF Points
<1>5. CASE \E f \in Files :
              /\ pc' = [pc EXCEPT ![s] = "sql"] /\ file' = [file EXCEPT ![s] = f]
              /\ f >= 1 /\ f \notin applied'[s]
              /\ \A g \in Files : g < f => g \in tracked'
  <2>1. PICK f \in Files :
              /\ pc' = [pc EXCEPT ![s] = "sql"] /\ file' = [file EXCEPT ![s] = f]
              /\ \A g \in Files : g < f => g \in tracked'
    BY <1>5
  <2>2. f \in 1..(LastFile + 1)
    BY MigrateAssumption DEF Files
  <2> QED
    BY <1>1, <1>2, <2>1, <2>2, OwnStep DEF Points
<1> QED
  BY <1>1, <1>2, <1>3, <1>4, <1>5, LoopReaches

\* A statement is not blocked: no other server has a transaction on this file.
LEMMA FreeToRun ==
    ASSUME NEW s \in Servers, ~Blocked(s)
    PROVE  \A t \in Servers : t # s /\ InTx(t) => file[t] # file[s]
  BY DEF Blocked

LEMMA RunSqlLog ==
    ASSUME LogInv, NEW s \in Servers, RunSql(s) PROVE LogInv'
<1>1. /\ file[s] \in 1..(LastFile + 1) /\ applied[s] \in SUBSET Files
      /\ stops \in 0..MaxStops /\ applied[s] \subseteq tracked
  BY DEF LogInv, TypeOK, ReadIsTracked
<1>2. /\ applied' = [applied EXCEPT ![s] = applied[s]]
      /\ file' = [file EXCEPT ![s] = file[s]]
      /\ UNCHANGED <<db, tracked, effects, stops>>
  BY DEF RunSql, LogInv, TypeOK
<1>3. file[s] \in Files /\ \A g \in Files : g < file[s] => g \in tracked
  BY DEF LogInv, BehindIsTracked, Working, RunSql
<1>4. CASE ~Blocked(s) /\ pc' = [pc EXCEPT ![s] = "insert"]
  BY <1>1, <1>2, <1>3, <1>4, FreeToRun, OwnStep DEF Points
<1>5. CASE pc' = [pc EXCEPT ![s] = "failed"]
  BY <1>1, <1>2, <1>5, OwnStep DEF Points
<1> QED
  BY <1>4, <1>5 DEF RunSql, Goto

LEMMA InsertNameLog ==
    ASSUME LogInv, NEW s \in Servers, InsertName(s) PROVE LogInv'
<1>1. /\ file[s] \in 1..(LastFile + 1) /\ applied[s] \in SUBSET Files
      /\ stops \in 0..MaxStops /\ applied[s] \subseteq tracked
  BY DEF LogInv, TypeOK, ReadIsTracked
<1>2. /\ applied' = [applied EXCEPT ![s] = applied[s]]
      /\ file' = [file EXCEPT ![s] = file[s]]
      /\ UNCHANGED <<db, tracked, effects, stops>>
  BY DEF InsertName, LogInv, TypeOK
<1>3. file[s] \in Files /\ \A g \in Files : g < file[s] => g \in tracked
  BY DEF LogInv, BehindIsTracked, Working, InsertName
<1>4. \A t \in Servers : t # s /\ InTx(t) => file[t] # file[s]
  BY DEF LogInv, Exclusive, InsertName, InTx
<1>5. CASE file[s] \notin tracked /\ pc' = [pc EXCEPT ![s] = "commit"]
  BY <1>1, <1>2, <1>3, <1>4, <1>5, OwnStep DEF Points
<1>6. CASE pc' = [pc EXCEPT ![s] = "failed"]
  BY <1>1, <1>2, <1>6, OwnStep DEF Points
<1> QED
  BY <1>5, <1>6 DEF InsertName, Goto

LEMMA StopLog ==
    ASSUME LogInv, NEW s \in Servers, Stop(s) PROVE LogInv'
<1>1. /\ pc' = [pc EXCEPT ![s] = "createTable"] /\ applied' = [applied EXCEPT ![s] = {}]
      /\ file' = [file EXCEPT ![s] = 1] /\ UNCHANGED <<db, tracked, effects>>
  BY DEF Stop, Goto
<1>2. stops' \in 0..MaxStops
  BY MigrateAssumption DEF Stop, LogInv, TypeOK
<1>3. {} \in SUBSET Files /\ 1 \in 1..(LastFile + 1)
  BY MigrateAssumption
<1> QED
  BY <1>1, <1>2, <1>3, OwnStep DEF Points

\* The file of a server about to commit is the next one of the log.
LEMMA CommitsNext ==
    ASSUME LogInv, NEW s \in Servers, pc[s] = "commit",
           NEW n \in 0..LastFile, Log!Applied(n)
    PROVE  file[s] = n + 1 /\ n + 1 \in Files
<1>1. file[s] \in Files /\ \A g \in Files : g < file[s] => g \in tracked
  BY DEF LogInv, BehindIsTracked, Working
<1>2. file[s] \notin tracked /\ tracked = 1..n
  BY DEF LogInv, CommitIsNew, Log!Applied
<1>3. file[s] > n
  BY <1>1, <1>2, MigrateAssumption DEF Files
<1>4. n + 1 \notin tracked
  BY <1>2
<1>5. n + 1 \in Files
  BY <1>1, <1>3, MigrateAssumption DEF Files
<1>6. ~(n + 1 < file[s])
  BY <1>1, <1>4, <1>5
<1> QED
  BY <1>1, <1>3, <1>5, <1>6, MigrateAssumption DEF Files

\* A commit adds one migration to the log.
LEMMA CommitApplies ==
    ASSUME LogInv, NEW s \in Servers, Commit(s),
           NEW n \in 0..LastFile, Log!Applied(n)
    PROVE  n + 1 \in 1..LastFile /\ Log!Applied(n + 1)'
<1>1. file[s] = n + 1 /\ n + 1 \in Files
  BY CommitsNext DEF Commit
<1>2. tracked' = 1..(n + 1)
  BY <1>1 DEF Commit, Log!Applied
<1>3. effects' = [f \in 1..LastFile |-> IF f <= n + 1 THEN 1 ELSE 0]
  <2>1. effects' = [effects EXCEPT ![n + 1] = effects[n + 1] + 1]
    BY <1>1 DEF Commit
  <2>2. effects = [f \in 1..LastFile |-> IF f <= n THEN 1 ELSE 0]
    BY DEF Log!Applied
  <2>3. effects[n + 1] + 1 = 1 /\ DOMAIN effects = 1..LastFile
    BY <1>1, <2>2 DEF Files
  <2>4. \A f \in 1..LastFile : f # n + 1 => (f <= n <=> f <= n + 1)
    OBVIOUS
  <2>5. effects' = [f \in 1..LastFile |-> IF f = n + 1 THEN 1 ELSE effects[f]]
    BY <2>1, <2>3
  <2>6. \A f \in 1..LastFile :
            (IF f = n + 1 THEN 1 ELSE effects[f]) = IF f <= n + 1 THEN 1 ELSE 0
    BY <2>2, <2>4
  <2> QED
    BY <2>5, <2>6
<1> QED
  BY <1>1, <1>2, <1>3 DEF Log!Applied, Files

LEMMA CommitLog ==
    ASSUME LogInv, NEW s \in Servers, Commit(s) PROVE LogInv'
<1>1. PICK n \in 0..LastFile : Log!Applied(n)
  BY DEF LogInv, Logged
<1>2. /\ file[s] = n + 1 /\ n + 1 \in Files /\ tracked = 1..n /\ pc[s] = "commit"
      /\ tracked' = tracked \cup {file[s]} /\ UNCHANGED <<db, applied, stops>>
      /\ Loop(s, file[s] + 1)
  BY <1>1, CommitsNext DEF Commit, Log!Applied
<1>3. n + 1 \in 0..LastFile /\ Log!Applied(n + 1)'
  BY <1>1, CommitApplies
<1>4. tracked' \subseteq Files /\ applied'[s] \subseteq tracked'
  BY <1>2 DEF LogInv, TypeOK, ReadIsTracked
<1>5. file[s] + 1 \in 1..(LastFile + 1) /\ \A g \in Files : g < file[s] + 1 => g \in tracked'
  BY <1>2, MigrateAssumption DEF Files
<1>6. \/ pc' = [pc EXCEPT ![s] = "done"] /\ file' = file /\ tracked' = Files
      \/ \E f \in Files :
            /\ pc' = [pc EXCEPT ![s] = "sql"] /\ file' = [file EXCEPT ![s] = f]
            /\ \A g \in Files : g < f => g \in tracked'
  BY <1>2, <1>4, <1>5, LoopReaches DEF LogInv
<1>7. effects' \in [Files -> Nat]
  BY <1>3 DEF Log!Applied, Files
<1>8. TypeOK'
  <2>1. pc' \in [Servers -> Points] /\ file' \in [Servers -> 1..(LastFile + 1)]
    <3>1. pc \in [Servers -> Points] /\ file \in [Servers -> 1..(LastFile + 1)]
      BY DEF LogInv, TypeOK
    <3>2. Files \subseteq 1..(LastFile + 1) /\ {"done", "sql"} \subseteq Points
      BY MigrateAssumption DEF Files, Points
    <3> QED
      BY <1>6, <3>1, <3>2
  <2> QED
    BY <1>2, <1>4, <1>7, <2>1 DEF LogInv, TypeOK
<1>9. Logged'
  BY <1>3 DEF Logged
<1>10. ReadIsTracked'
  BY <1>2 DEF LogInv, ReadIsTracked
<1>11. BehindIsTracked'
  BY <1>2, <1>6 DEF LogInv, TypeOK, BehindIsTracked, Working
<1>12. DoneMeansApplied'
  BY <1>2, <1>4, <1>6 DEF LogInv, TypeOK, DoneMeansApplied
<1>13. CommitIsNew'
  BY <1>2, <1>6 DEF LogInv, TypeOK, CommitIsNew, Exclusive, InTx
<1>14. Exclusive'
  BY <1>2, <1>6 DEF LogInv, TypeOK, Exclusive, InTx
<1> QED
  BY <1>8, <1>9, <1>10, <1>11, <1>12, <1>13, <1>14 DEF LogInv

LEMMA NextLog == LogInv /\ [Next]_vars => LogInv'
<1> SUFFICES ASSUME LogInv, [Next]_vars PROVE LogInv'
  OBVIOUS
<1>1. CASE UNCHANGED vars
  BY <1>1 DEF LogInv, TypeOK, Logged, Log!Applied, ReadIsTracked, BehindIsTracked,
     Working, DoneMeansApplied, CommitIsNew, Exclusive, InTx, vars
<1>2. CASE Next
  <2> SUFFICES ASSUME NEW s \in Servers, Step(s) \/ Stop(s) PROVE LogInv'
    BY <1>2 DEF Next
  <2> QED
    BY CreateTableLog, ReadAppliedLog, RunSqlLog, InsertNameLog, CommitLog, StopLog DEF Step
<1> QED
  BY <1>1, <1>2

\* For any number of servers, files and stops, on each kind of database: the tables
\* keep their types and the servers their places, and LogInv says why.
THEOREM LogKept == Spec => []LogInv
<1> QED
  BY InitLog, NextLog, PTL DEF Spec

\* The state of Run keeps its types.
THEOREM MigrateTypeCorrect == Spec => []TypeOK
<1>1. LogInv => TypeOK
  BY DEF LogInv
<1> QED
  BY <1>1, LogKept, PTL

--------------------------------------------------------------------------------
(* What follows from LogInv. *)

LEMMA LogInvMeans ==
    LogInv => AppliedOnce /\ TrackedIsApplied /\ PrefixApplied /\ DoneMeansApplied
<1> SUFFICES ASSUME LogInv
             PROVE  AppliedOnce /\ TrackedIsApplied /\ PrefixApplied /\ DoneMeansApplied
  OBVIOUS
<1>1. PICK n \in 0..LastFile :
          /\ tracked = 1..n
          /\ effects = [f \in 1..LastFile |-> IF f <= n THEN 1 ELSE 0]
  BY DEF LogInv, Logged, Log!Applied
<1>2. \A f \in Files : effects[f] = IF f \in tracked THEN 1 ELSE 0
  BY <1>1, MigrateAssumption DEF Files
<1>3. AppliedOnce /\ TrackedIsApplied
  BY <1>2 DEF AppliedOnce, TrackedIsApplied
<1>4. PrefixApplied
  BY <1>1, MigrateAssumption DEF PrefixApplied, Files
<1> QED
  BY <1>3, <1>4 DEF LogInv

\* However many servers run the files at once, and wherever they stop, the SQL of a
\* file is committed once.
THEOREM AppliedOnceCorrect == Spec => []AppliedOnce
<1> QED
  BY LogKept, LogInvMeans, PTL

\* schema_migrations names the files whose SQL is committed, and only these.
THEOREM TrackedIsAppliedCorrect == Spec => []TrackedIsApplied
<1> QED
  BY LogKept, LogInvMeans, PTL

\* A file is committed on top of all those before it.
THEOREM PrefixAppliedCorrect == Spec => []PrefixApplied
<1> QED
  BY LogKept, LogInvMeans, PTL

\* Run returns without error to a server that has the whole schema.
THEOREM DoneMeansAppliedCorrect == Spec => []DoneMeansApplied
<1> QED
  BY LogKept, LogInvMeans, PTL

--------------------------------------------------------------------------------
(* The refinement. *)

\* Only a commit touches the log and the schema, and it adds the next migration.
LEMMA StepRefines == LogInv /\ [Next]_vars =>
    [\E n \in 0..(LastFile - 1) : Log!Apply(n)]_<<tracked, effects>>
<1> SUFFICES ASSUME LogInv, [Next]_vars
             PROVE  \/ \E n \in 0..(LastFile - 1) : Log!Apply(n)
                    \/ UNCHANGED <<tracked, effects>>
  OBVIOUS
<1>1. CASE UNCHANGED vars
  BY <1>1 DEF vars
<1>2. CASE \E s \in Servers : Commit(s)
  <2>1. PICK n \in 0..LastFile : Log!Applied(n)
    BY DEF LogInv, Logged
  <2>2. n + 1 \in 1..LastFile /\ Log!Applied(n + 1)'
    BY <1>2, <2>1, CommitApplies
  <2>3. n \in 0..(LastFile - 1)
    BY <2>2, MigrateAssumption
  <2> QED
    BY <2>1, <2>2, <2>3 DEF Log!Apply
<1>3. CASE \E s \in Servers : \/ CreateTable(s) \/ ReadApplied(s) \/ RunSql(s)
                              \/ InsertName(s) \/ Stop(s)
  BY <1>3 DEF CreateTable, ReadApplied, RunSql, InsertName, Stop
<1> QED
  BY <1>1, <1>2, <1>3 DEF Next, Step

\* What servers do together, statement by statement, is what MigrationLog does: one
\* migration after the other, each recorded as it takes effect.
THEOREM LogImplemented == Spec => ImplementsMigrationLog
<1>1. Init => Log!Init
  BY DEF Init, Log!Init, Log!Applied, Files
<1>2. Spec => Log!Spec
  BY <1>1, LogKept, StepRefines, PTL DEF Spec, Log!Spec
<1> QED
  BY <1>2 DEF ImplementsMigrationLog

--------------------------------------------------------------------------------
(* The schema is not left behind. *)

\* The names only grow.
LEMMA TrackedGrows == LogInv /\ [Next]_vars => tracked \subseteq tracked'
<1> SUFFICES ASSUME LogInv, [Next]_vars PROVE tracked \subseteq tracked'
  OBVIOUS
<1>1. CASE UNCHANGED vars
  BY <1>1 DEF vars
<1>2. CASE Next
  BY <1>2 DEF Next, Step, CreateTable, ReadApplied, RunSql, InsertName, Commit, Stop
<1> QED
  BY <1>1, <1>2

\* After a commit its server is done, or at a file nobody has committed.
LEMMA CommitterFinishes ==
    ASSUME LogInv, NEW s \in Servers, Commit(s)
    PROVE  tracked' = Files \/ CanFinish(s)'
<1>1. PICK n \in 0..LastFile : Log!Applied(n)
  BY DEF LogInv, Logged
<1>2. /\ file[s] = n + 1 /\ n + 1 \in Files
      /\ tracked' = tracked \cup {file[s]} /\ UNCHANGED applied
      /\ Loop(s, file[s] + 1)
  BY <1>1, CommitsNext DEF Commit
<1>3. tracked' = 1..(n + 1)
  BY <1>1, <1>2 DEF Log!Applied
<1>4. tracked' \subseteq Files /\ applied'[s] \subseteq tracked'
  BY <1>2 DEF LogInv, TypeOK, ReadIsTracked
<1>5. file[s] + 1 \in 1..(LastFile + 1) /\ \A g \in Files : g < file[s] + 1 => g \in tracked'
  BY <1>2, <1>3, MigrateAssumption DEF Files
<1>6. \/ tracked' = Files
      \/ \E f \in Files : /\ pc' = [pc EXCEPT ![s] = "sql"]
                          /\ file' = [file EXCEPT ![s] = f] /\ f >= file[s] + 1
  BY <1>2, <1>4, <1>5, LoopReaches DEF LogInv
<1>7. ASSUME NEW f \in Files, pc' = [pc EXCEPT ![s] = "sql"],
             file' = [file EXCEPT ![s] = f], f >= file[s] + 1
      PROVE  CanFinish(s)'
  <2>1. pc'[s] = "sql" /\ file'[s] = f
    BY <1>7 DEF LogInv, TypeOK
  <2>2. f \notin tracked'
    BY <1>2, <1>3, <1>7, MigrateAssumption DEF Files
  <2> QED
    BY <2>1, <2>2 DEF CanFinish, Working
<1> QED
  BY <1>6, <1>7

\* The other steps of a server that can finish leave it so, or leave another one:
\* CreateTable only fails because of a server that is ahead.
LEMMA FinisherStays ==
    ASSUME LogInv, WaitsForLock, NEW s \in Servers, CanFinish(s),
           \/ CreateTable(s) \/ ReadApplied(s) \/ RunSql(s) \/ InsertName(s) \/ Stop(s)
    PROVE  tracked' = Files \/ \E t \in Servers : CanFinish(t)'
<1> USE DEF CanFinish, Working
<1>1. pc \in [Servers -> Points] /\ file \in [Servers -> 1..(LastFile + 1)] /\ TypeOK
  BY DEF LogInv, TypeOK
<1>2. CASE CreateTable(s)
  <2>1. CASE Goto(s, "readApplied")
    BY <1>1, <1>2, <2>1 DEF CreateTable, Goto
  <2>2. CASE /\ tracked = {} /\ Goto(s, "failed")
             /\ \E t \in Servers \ {s} : pc[t] \in {"readApplied", "sql", "insert", "commit"}
    <3>1. PICK t \in Servers \ {s} : pc[t] \in {"readApplied", "sql", "insert", "commit"}
      BY <2>2
    <3>2. pc'[t] = pc[t] /\ tracked' = {}
      BY <1>1, <1>2, <2>2 DEF CreateTable, Goto
    <3> QED
      BY <3>1, <3>2
  <2> QED
    BY <1>2, <2>1, <2>2 DEF CreateTable
<1>3. CASE ReadApplied(s)
  <2>1. applied'[s] = tracked /\ tracked' = tracked /\ tracked' \subseteq Files /\ Loop(s, 1)
    BY <1>1, <1>3 DEF ReadApplied, TypeOK
  <2>2. 1 \in 1..(LastFile + 1) /\ \A g \in Files : ~(g < 1)
    BY MigrateAssumption DEF Files
  <2>3. \/ tracked' = Files
        \/ \E f \in Files : /\ pc' = [pc EXCEPT ![s] = "sql"]
                            /\ file' = [file EXCEPT ![s] = f] /\ f \notin applied'[s]
    BY <1>1, <2>1, <2>2, LoopReaches
  <2> QED
    BY <1>1, <2>1, <2>3
<1>4. CASE RunSql(s)
  <2>1. file[s] \notin tracked
    BY <1>4 DEF RunSql
  <2>2. pc' = [pc EXCEPT ![s] = "insert"] /\ UNCHANGED <<file, tracked>>
    BY <1>4, <2>1 DEF RunSql, Goto
  <2> QED
    BY <1>1, <2>1, <2>2
<1>5. CASE InsertName(s)
  <2>1. file[s] \notin tracked
    BY <1>5 DEF InsertName
  <2>2. pc' = [pc EXCEPT ![s] = "commit"] /\ UNCHANGED <<file, tracked>>
    BY <1>5, <2>1 DEF InsertName, Goto
  <2> QED
    BY <1>1, <2>1, <2>2
<1>6. CASE Stop(s)
  BY <1>1, <1>6 DEF Stop, Goto
<1> QED
  BY <1>2, <1>3, <1>4, <1>5, <1>6

LEMMA SomeoneFinishesKept == LogInv /\ SomeoneFinishes /\ [Next]_vars => SomeoneFinishes'
<1> SUFFICES ASSUME LogInv, SomeoneFinishes, [Next]_vars, WaitsForLock'
             PROVE  (tracked = Files \/ \E s \in Servers : CanFinish(s))'
  BY DEF SomeoneFinishes
<1>1. tracked \subseteq tracked' /\ LogInv'
  BY TrackedGrows, NextLog
<1>2. WaitsForLock
  BY DEF vars, Next, Step, CreateTable, ReadApplied, RunSql, InsertName, Commit, Stop,
     WaitsForLock
<1>3. CASE tracked = Files
  BY <1>1, <1>3 DEF LogInv, TypeOK, Files
<1>4. ASSUME NEW w \in Servers, CanFinish(w)
      PROVE  tracked' = Files \/ \E s \in Servers : CanFinish(s)'
  <2>1. CASE UNCHANGED vars
    BY <1>4, <2>1 DEF vars, CanFinish, Working
  <2>2. CASE \E s \in Servers : Commit(s)
    BY <2>2, CommitterFinishes
  <2>3. CASE \E s \in Servers : \/ CreateTable(s) \/ ReadApplied(s) \/ RunSql(s)
                                \/ InsertName(s) \/ Stop(s)
    <3>1. PICK s \in Servers : \/ CreateTable(s) \/ ReadApplied(s) \/ RunSql(s)
                               \/ InsertName(s) \/ Stop(s)
      BY <2>3
    <3>2. CASE s = w
      BY <1>2, <1>4, <3>1, <3>2, FinisherStays
    <3>3. CASE s # w
      <4>1. tracked' = tracked /\ pc'[w] = pc[w]
        BY <3>1, <3>3 DEF LogInv, TypeOK, CreateTable, ReadApplied, RunSql, InsertName,
           Stop, Goto, Loop
      <4>2. file'[w] = file[w]
        BY <3>1, <3>3 DEF LogInv, TypeOK, CreateTable, ReadApplied, RunSql, InsertName,
           Stop, Loop
      <4> QED
        BY <1>4, <4>1, <4>2 DEF CanFinish, Working
    <3> QED
      BY <3>2, <3>3
  <2> QED
    BY <2>1, <2>2, <2>3 DEF Next, Step
<1> QED
  BY <1>2, <1>3, <1>4 DEF SomeoneFinishes

\* Servers that start together never all give up and leave the schema behind, where a
\* blocked statement waits: a server fails because of another that can finish.
THEOREM NothingLeftOutCorrect == Spec => []NothingLeftOut
<1>1. Init => SomeoneFinishes
  BY MigrateAssumption DEF Init, SomeoneFinishes, CanFinish, Working
<1>2. SomeoneFinishes => NothingLeftOut
  BY DEF SomeoneFinishes, NothingLeftOut, CanFinish
<1> QED
  BY <1>1, <1>2, LogKept, SomeoneFinishesKept, PTL DEF Spec

================================================================================
