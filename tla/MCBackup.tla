----------------------------- MODULE MCBackup -----------------------------
(* Two blocks, and backups enough for a full copy, an incremental one that *)
(* fails and its repetition.                                               *)
EXTENDS Backup, TLC

AllBlocks == Permutations(Blocks)
=============================================================================
