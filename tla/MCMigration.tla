----------------------------- MODULE MCMigration -----------------------------
(* An instance of Migration for TLC: a replica of a release with three     *)
(* files and one of the release before it migrate, while an operator with  *)
(* either of the two releases rolls back.                                  *)
EXTENDS Migration

CONSTANTS newUp, oldUp, newDown, oldDown

MCCmd == [i \in Instances |-> IF i \in {newUp, oldUp} THEN "up" ELSE "down"]
MCFiles == [i \in Instances |-> IF i \in {oldUp, oldDown} THEN 2 ELSE 3]
=============================================================================
