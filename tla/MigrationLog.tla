----------------------------- MODULE MigrationLog ------------------------------
(***************************************************************************)
(* What sqlmigrate promises about a database: the schema is a number of    *)
(* migrations, each applied once, on top of those before it, and the log   *)
(* names exactly these at every moment.                                    *)
(***************************************************************************)
EXTENDS Naturals

CONSTANT LastFile

VARIABLES log,    \* the migrations recorded
          schema  \* migration -> times its effect is in the schema

Applied(n) ==
    /\ log = 1..n
    /\ schema = [f \in 1..LastFile |-> IF f <= n THEN 1 ELSE 0]

Init == \E n \in 0..LastFile : Applied(n)

Apply(n) == Applied(n) /\ Applied(n + 1)'

Spec == Init /\ [][\E n \in 0..(LastFile - 1) : Apply(n)]_<<log, schema>>
================================================================================
