----------------------------- MODULE MCExecutor -----------------------------
(***************************************************************************)
(* Instances of OperationExecutor for TLC.                                 *)
(***************************************************************************)
EXTENDS OperationExecutor

CONSTANTS c1, c2, c3, k1, k2

ThreeCalls == {c1, c2, c3}

\* The three calls are retries of one request.
SameKey == [c \in Calls |-> k1]

\* c3 is about another request.
TwoKeys == [c \in Calls |-> IF c = c3 THEN k2 ELSE k1]
=============================================================================
