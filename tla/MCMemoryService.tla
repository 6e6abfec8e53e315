---------------------------- MODULE MCMemoryService ----------------------------
(***************************************************************************)
(* MemoryService for TLC.  Stores of one episode, and readers, are alike.  *)
(***************************************************************************)
EXTENDS MemoryService, TLC

Alike == Permutations(Stores) \cup Permutations(Readers)
=============================================================================
