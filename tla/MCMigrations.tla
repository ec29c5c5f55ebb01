---------------------------- MODULE MCMigrations ----------------------------
(***************************************************************************)
(* Migrations for TLC: the three files of the repository, where only 003   *)
(* alters a table of another one, the table 001 creates.                   *)
(***************************************************************************)
EXTENDS Migrations

OnTableOf001 == [f \in 1 .. 3 |-> IF f = 3 THEN {1} ELSE {}]
=============================================================================
