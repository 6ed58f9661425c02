---------------------------- MODULE MCMigrations ----------------------------
(* A model-checking instance of Migrations: an old and two new binaries.     *)
EXTENDS Migrations

CONSTANTS old, new1, new2

\* The old binary does not embed the newest version.
Binaries == [p \in {old, new1, new2} |-> IF p = old THEN 2 ELSE 3]
=============================================================================
