--------------------------- MODULE MCTaskCommands ---------------------------
(***************************************************************************)
(* TLC instances of TaskCommands.                                          *)
(***************************************************************************)
EXTENDS TaskCommands, TLC

Symmetry == Permutations(Request) \cup Permutations(TaskId)
=============================================================================
