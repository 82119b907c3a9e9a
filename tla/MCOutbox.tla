------------------------------ MODULE MCOutbox ------------------------------
(***************************************************************************)
(* Instances of OutboxDispatcher for TLC.                                  *)
(***************************************************************************)
EXTENDS OutboxDispatcher

\* Two processes with worker IDs of their own and clocks that agree.
d1 == "d1"
d2 == "d2"
OneDispatcher == {d1}
TwoDispatchers == {d1, d2}
OwnWorkerIDs == [d \in Dispatchers |-> d]
NoSkew == [d \in Dispatchers |-> 0]

\* The clock of d2 runs a tick ahead.
SkewedClock == [d \in Dispatchers |-> IF d = d2 THEN 1 ELSE 0]
=============================================================================
