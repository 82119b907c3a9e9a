------------------------------ MODULE MCPolicy ------------------------------
(***************************************************************************)
(* An instance of RPCPolicy for TLC: two callers that retry and one that   *)
(* does not.                                                               *)
(***************************************************************************)
EXTENDS RPCPolicy

Callers3 == 1..3
Repeatable == {1, 2}
=============================================================================
