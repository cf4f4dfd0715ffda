------------------------- MODULE MCConnectionManager -------------------------
(***************************************************************************)
(* TLC instance of ConnectionManager.  With two faults four calls are      *)
(* enough for every reconnect that is due.                                 *)
(***************************************************************************)
EXTENDS ConnectionManager
=============================================================================
