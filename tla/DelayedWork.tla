---------------------------- MODULE DelayedWork ----------------------------
(***************************************************************************)
(* What an application relies on when it closes its event bus              *)
(* (framework/core/eventBus): publications that were put off either run    *)
(* before Close returns or never.                                          *)
(***************************************************************************)
CONSTANT Publications

VARIABLES
    bus,        \* "open", "closing" while Close waits, "closed"
    delayed     \* [Publications -> {"none", "armed", "running", "over"}]

busVars == <<bus, delayed>>

BusTypeOK ==
    /\ bus \in {"open", "closing", "closed"}
    /\ delayed \in [Publications -> {"none", "armed", "running", "over"}]

BusInit ==
    /\ bus = "open"
    /\ delayed = [p \in Publications |-> "none"]

DelayPublish(p) ==
    /\ bus = "open"
    /\ delayed[p] = "none"
    /\ delayed' = [delayed EXCEPT ![p] = "armed"]
    /\ UNCHANGED bus

\* The timer went off while the bus was open: the handlers run.
Fire(p) ==
    /\ bus = "open"
    /\ delayed[p] = "armed"
    /\ delayed' = [delayed EXCEPT ![p] = "running"]
    /\ UNCHANGED bus

\* The handlers returned; or there was nobody to call, or the bus closed first.
Settle(p) ==
    /\ delayed[p] \in {"armed", "running"}
    /\ delayed' = [delayed EXCEPT ![p] = "over"]
    /\ UNCHANGED bus

BusCloseBegins ==
    /\ bus = "open"
    /\ bus' = "closing"
    /\ UNCHANGED delayed

BusCloseEnds ==
    /\ bus = "closing"
    /\ \A p \in Publications : delayed[p] \notin {"armed", "running"}
    /\ bus' = "closed"
    /\ UNCHANGED delayed

\* A second Close does not wait for the first.
BusCloseAgain ==
    /\ bus # "open"
    /\ UNCHANGED busVars

BusNext ==
    \/ \E p \in Publications : DelayPublish(p) \/ Fire(p) \/ Settle(p)
    \/ BusCloseBegins
    \/ BusCloseEnds

BusSpec == BusInit /\ [][BusNext]_busVars
=============================================================================
