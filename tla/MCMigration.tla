------------------------------- MODULE MCMigration -------------------------------
(***************************************************************************)
(* An instance of the schema migration for TLC: three operations at a time,  *)
(* and three of the columns the first version of the table did not have      *)
(* (tests/test_durable_resume.py starts from such a table).                  *)
(***************************************************************************)
EXTENDS SchemaMigration

CONSTANTS c1, c2, c3

ThreeCallers == {c1, c2, c3}
ThreeColumns == <<"thread_id", "review_status", "interrupted_at">>
================================================================================
