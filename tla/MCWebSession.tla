---------------------------- MODULE MCWebSession ----------------------------
(* Instances of WebSession for TLC. *)
EXTENDS WebSession

CONSTANTS Busy, Only   \* the tab that may have every call out, and the one call of the others

MCRequest == TabRequest
MCCallsOf == [t \in Tab |-> IF t = Busy THEN Call ELSE {Only}]
=============================================================================
