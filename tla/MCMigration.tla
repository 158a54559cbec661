---------------------------- MODULE MCMigration ----------------------------
(* TLC instance of Migration. *)
EXTENDS Migration, TLC
=============================================================================
