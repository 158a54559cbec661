---------------------------- MODULE MCLifecycle ----------------------------
(* A machine with a few starts and crashes, for TLC. *)
EXTENDS Lifecycle
=============================================================================
