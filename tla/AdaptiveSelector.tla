-------------------------- MODULE AdaptiveSelector --------------------------
(***************************************************************************)
(* Adaptive node selection for one service: pkg/selector/adaptive.go,      *)
(* default.go and selector.go.                                             *)
(*                                                                         *)
(* A pick looks the service up, brings the states in line with what it got *)
(* (dropping those of nodes that are not in it), collects the states of    *)
(* the filtered nodes and chooses among them, with the mutex taken anew    *)
(* for each of the last three.  Snapshots of different age may overtake    *)
(* each other, and the report of a call finds its node by key: the state   *)
(* may have been dropped, and made anew, since.                            *)
(*                                                                         *)
(* Latencies and scores decide which of the available nodes is taken; any  *)
(* of them may be.                                                         *)
(***************************************************************************)
EXTENDS Naturals, FiniteSets

CONSTANTS
    Nodes,                  \* keys: version and identity
    Clients,                \* callers, each with one call at a time
    ConsecutiveFailures,
    MaxEjectionPercent,
    FailClosed

ASSUME SelectorAssumption ==
    /\ IsFiniteSet(Nodes) /\ IsFiniteSet(Clients)
    /\ ConsecutiveFailures \in Nat \ {0}
    /\ MaxEjectionPercent \in 1..100
    /\ FailClosed \in BOOLEAN

VARIABLES
    registered,     \* what the cache answers
    known,          \* the nodes with a state
    inflight, failures,
    ejected,        \* those whose ejectedUntil lies ahead
    mixed,          \* history: nodes whose state was dropped under a call,
                    \* until none is under way on them
    pc,
    snapshot,       \* what each client's lookup returned
    candidates,     \* its candidates whose state is still the current one
    picked          \* the node it calls

states == <<known, inflight, failures, ejected, mixed>>
clients == <<pc, snapshot, candidates, picked>>
vars == <<registered, states, clients>>

Outcomes == {"success", "failure", "ignore", "eject"}

TypeOK ==
    /\ registered \in SUBSET Nodes \ {{}}
    /\ known \subseteq Nodes
    /\ inflight \in [Nodes -> 0..Cardinality(Clients)]
    /\ failures \in [Nodes -> 0..ConsecutiveFailures]
    /\ ejected \subseteq known /\ mixed \subseteq Nodes
    /\ pc \in [Clients -> {"idle", "found", "synced", "choosing", "calling"}]
    /\ snapshot \in [Clients -> SUBSET Nodes]
    /\ candidates \in [Clients -> SUBSET Nodes]
    /\ picked \in [Clients -> SUBSET Nodes]

Init ==
    /\ registered \in SUBSET Nodes \ {{}}
    /\ known = {}
    /\ inflight = [n \in Nodes |-> 0]
    /\ failures = [n \in Nodes |-> 0]
    /\ ejected = {} /\ mixed = {}
    /\ pc = [c \in Clients |-> "idle"]
    /\ snapshot = [c \in Clients |-> {}]
    /\ candidates = [c \in Clients |-> {}]
    /\ picked = [c \in Clients |-> {}]

\* The calls that are under way on n.
Calling(n) == {c \in Clients : picked[c] = {n}}

\* The states of `nodes' are dropped; candidates that point to them are void.
Dropped(nodes) ==
    /\ ejected' = ejected \ nodes
    /\ inflight' = [n \in Nodes |-> IF n \in nodes THEN 0 ELSE inflight[n]]
    /\ failures' = [n \in Nodes |-> IF n \in nodes THEN 0 ELSE failures[n]]
    /\ candidates' = [c \in Clients |-> candidates[c] \ nodes]
    /\ mixed' = mixed \cup {n \in nodes : Calling(n) # {}}

---------------------------------------------------------------------------
(* Pick *)

\* The lookup through the cache (an error ends the pick).
Lookup(c) ==
    /\ pc[c] = "idle"
    /\ snapshot' = [snapshot EXCEPT ![c] = registered]
    /\ pc' = [pc EXCEPT ![c] = "found"]
    /\ UNCHANGED <<registered, states, candidates, picked>>

\* stateCandidates, and then the filters of the caller.
Reconcile(c) ==
    /\ pc[c] = "found"
    /\ known' = snapshot[c]
    /\ Dropped(known \ snapshot[c])
    /\ \E kept \in SUBSET snapshot[c] :
          /\ snapshot' = [snapshot EXCEPT ![c] = kept]
          /\ pc' = [pc EXCEPT ![c] = IF kept = {} THEN "idle" ELSE "synced"]
    /\ UNCHANGED <<registered, picked>>

\* candidatesForFiltered
Collect(c) ==
    /\ pc[c] = "synced"
    /\ candidates' = [candidates EXCEPT ![c] = snapshot[c] \cap known]
    /\ snapshot' = [snapshot EXCEPT ![c] = {}]
    /\ pc' = [pc EXCEPT ![c] =
                IF snapshot[c] \cap known = {} THEN "idle" ELSE "choosing"]
    /\ UNCHANGED <<registered, states, picked>>

Available(c) ==
    IF candidates[c] \subseteq ejected /\ ~FailClosed
    THEN candidates[c]
    ELSE candidates[c] \ ejected

\* choose, with tracking
Choose(c) ==
    /\ pc[c] = "choosing"
    /\ \E n \in Available(c) :
          /\ picked' = [picked EXCEPT ![c] = {n}]
          /\ inflight' = [inflight EXCEPT ![n] = @ + 1]
    /\ pc' = [pc EXCEPT ![c] = "calling"]
    /\ candidates' = [candidates EXCEPT ![c] = {}]
    /\ UNCHANGED <<registered, known, failures, ejected, mixed, snapshot>>

\* ErrNoneAvailable
ChooseFails(c) ==
    /\ pc[c] = "choosing"
    /\ Available(c) = {}
    /\ pc' = [pc EXCEPT ![c] = "idle"]
    /\ candidates' = [candidates EXCEPT ![c] = {}]
    /\ UNCHANGED <<registered, states, snapshot, picked>>

---------------------------------------------------------------------------
(* Feedback *)

MaxEjected == (Cardinality(known) * MaxEjectionPercent) \div 100

\* Mutant: the share is rounded up.
MaySpare_RoundsUp(n) ==
    /\ Cardinality(known) > 1
    /\ \/ Cardinality(ejected) <
            (Cardinality(known) * MaxEjectionPercent + 99) \div 100
       \/ n \in ejected

\* maybeEjectLocked lets the service do without n.
MaySpare(n) ==
    /\ Cardinality(known) > 1
    /\ MaxEjected >= 1
    /\ Cardinality(ejected) < MaxEjected \/ n \in ejected

\* The counter goes no further than the threshold here.
Failed(n, count) ==
    IF count >= ConsecutiveFailures /\ MaySpare(n)
    THEN /\ ejected' = ejected \cup {n}
         /\ failures' = [failures EXCEPT ![n] = 0]
    ELSE /\ failures' = [failures EXCEPT ![n] =
                           IF count <= ConsecutiveFailures
                           THEN count ELSE ConsecutiveFailures]
         /\ UNCHANGED ejected

Judged(n, outcome) ==
    CASE outcome = "success" -> /\ failures' = [failures EXCEPT ![n] = 0]
                                /\ UNCHANGED ejected
      [] outcome = "ignore"  -> UNCHANGED <<failures, ejected>>
      [] outcome = "eject"   -> Failed(n, ConsecutiveFailures)
      [] outcome = "failure" -> Failed(n, failures[n] + 1)

Less(n) == IF inflight[n] > 0 THEN inflight[n] - 1 ELSE 0

\* Mutant: a call that is not judged returns before it is counted out.
Record_IgnoreFirst(n, outcome, tracked) ==
    IF n \in known /\ outcome # "ignore"
    THEN /\ inflight' = [inflight EXCEPT ![n] = IF tracked THEN Less(n) ELSE @]
         /\ Judged(n, outcome)
    ELSE UNCHANGED <<inflight, failures, ejected>>

\* record
Record(n, outcome, tracked) ==
    IF n \in known
    THEN /\ inflight' = [inflight EXCEPT ![n] = IF tracked THEN Less(n) ELSE @]
         /\ Judged(n, outcome)
    ELSE UNCHANGED <<inflight, failures, ejected>>

\* Selection.Done and its variants; a second one does nothing.
Done(c, outcome) ==
    /\ pc[c] = "calling"
    /\ \E n \in picked[c] : Record(n, outcome, TRUE)
    /\ pc' = [pc EXCEPT ![c] = "idle"]
    /\ picked' = [picked EXCEPT ![c] = {}]
    /\ mixed' = {n \in mixed : Calling(n)' # {}}
    /\ UNCHANGED <<registered, known, snapshot, candidates>>

\* Mark, for a node that was selected without tracking.
Mark(n, outcome) ==
    /\ n \in known
    /\ Record(n, outcome, FALSE)
    /\ UNCHANGED <<registered, known, mixed, clients>>

\* Reset forgets the states of the service.
Reset ==
    /\ known # {}
    /\ known' = {}
    /\ Dropped(known)
    /\ UNCHANGED <<registered, pc, snapshot, picked>>

---------------------------------------------------------------------------
(* Surroundings *)

EjectionEnds(n) ==
    /\ n \in ejected
    /\ ejected' = ejected \ {n}
    /\ UNCHANGED <<registered, known, inflight, failures, mixed, clients>>

RegistryChanges ==
    /\ registered' \in SUBSET Nodes \ {{}, registered}
    /\ UNCHANGED <<states, clients>>

Next ==
    \/ \E c \in Clients : \/ Lookup(c) \/ Reconcile(c) \/ Collect(c)
                          \/ Choose(c) \/ ChooseFails(c)
                          \/ \E o \in Outcomes : Done(c, o)
    \/ \E n \in Nodes : EjectionEnds(n) \/ \E o \in Outcomes : Mark(n, o)
    \/ Reset
    \/ RegistryChanges

Spec == Init /\ [][Next]_vars

---------------------------------------------------------------------------
(* Properties *)

\* The in-flight number of a node counts the calls under way on it.  It is never
\* too high, so no node is shunned for calls that have ended.  It is too low
\* only where a state was dropped under a call, whose report then takes a call
\* of others off the state made anew, and no longer than until the node is
\* without calls for a moment.
InflightCountsCalls ==
    \A n \in Nodes : /\ inflight[n] <= Cardinality(Calling(n))
                     /\ n \notin mixed => inflight[n] = Cardinality(Calling(n))

\* With a share below 100 per cent, no ejection takes the last node that was
\* left, also when nodes vanished after others were ejected and two reports
\* come at the same time.
EjectionLeavesOne ==
    [][\A n \in Nodes : n \in ejected' \ ejected => known' \ ejected' # {}]_vars
=============================================================================
