--------------------------- MODULE MCMachineConf ---------------------------
(* TLC instance of MachineConf. *)
EXTENDS MachineConf, TLC

MCBaseName == <<>>

Symmetry == Permutations(Clients) \cup Permutations(Slots) \cup Permutations(Values)
=============================================================================
