--------------------------- MODULE OutboxDelivery ---------------------------
(***************************************************************************)
(* What the outbox promises to whoever enqueues an event, without leases,  *)
(* workers, attempts or time (docs/waves/W08-event-broker-outbox.md):      *)
(* delivery is at least once, an event that was accepted for delivery is   *)
(* owed until the broker has taken it or it is given up for good, and only *)
(* a delivered event is ever forgotten.                                    *)
(***************************************************************************)
EXTENDS Naturals

CONSTANT Events

VARIABLES
    state,      \* what the outbox owes for each event
    taken       \* whether the broker has taken it since it was submitted

vars == <<state, taken>>

States == {"none", "owed", "delivered", "abandoned"}

TypeOK ==
    /\ state \in [Events -> States]
    /\ taken \in [Events -> BOOLEAN]

Init ==
    /\ state = [e \in Events |-> "none"]
    /\ taken = [e \in Events |-> FALSE]

Submit(e) ==
    /\ state[e] = "none"
    /\ state' = [state EXCEPT ![e] = "owed"]
    /\ taken' = [taken EXCEPT ![e] = FALSE]

\* The broker may take an event more than once, and late.
Take(e) ==
    /\ taken' = [taken EXCEPT ![e] = TRUE]
    /\ UNCHANGED state

Confirm(e) ==
    /\ state[e] = "owed"
    /\ taken[e]
    /\ state' = [state EXCEPT ![e] = "delivered"]
    /\ UNCHANGED taken

GiveUp(e) ==
    /\ state[e] = "owed"
    /\ state' = [state EXCEPT ![e] = "abandoned"]
    /\ UNCHANGED taken

Forget(ids) ==
    /\ \A e \in ids : state[e] = "delivered"
    /\ state' = [e \in Events |-> IF e \in ids THEN "none" ELSE state[e]]
    /\ UNCHANGED taken

Next ==
    \/ \E e \in Events : Submit(e) \/ Take(e) \/ Confirm(e) \/ GiveUp(e)
    \/ \E ids \in SUBSET Events : Forget(ids)

Spec == Init /\ [][Next]_vars
=============================================================================
