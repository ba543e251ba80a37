------------------------------- MODULE MCMigrate -------------------------------
(***************************************************************************)
(* Three servers start on the same database; the files are those of mfax:  *)
(* the second one alters a table.                                          *)
(***************************************************************************)
EXTENDS Migrate

CONSTANTS s1, s2, s3
================================================================================
