--------------------------- MODULE SelectorProofs ---------------------------
(***************************************************************************)
(* Proofs about AdaptiveSelector, for any number of nodes and clients and  *)
(* any outlier configuration: the in-flight counters count the calls under *)
(* way, and ejections leave a node.                                        *)
(***************************************************************************)
EXTENDS AdaptiveSelector, FiniteSetTheorems, TLAPS

\* The part of the type invariant that the argument rests on.
Shape ==
    /\ registered \subseteq Nodes
    /\ known \subseteq Nodes
    /\ ejected \subseteq known
    /\ inflight \in [Nodes -> Nat]
    /\ pc \in [Clients -> {"idle", "found", "synced", "choosing", "calling"}]
    /\ snapshot \in [Clients -> SUBSET Nodes]
    /\ picked \in [Clients -> SUBSET Nodes]

\* A client calls one node while it is calling, and none otherwise.
CallsOne ==
    \A c \in Clients : IF pc[c] = "calling"
                       THEN \E n \in Nodes : picked[c] = {n}
                       ELSE picked[c] = {}

\* A candidate that counts has a state.
CandidatesKnown == candidates \in [Clients -> SUBSET known]

\* A state that was dropped comes back with nothing in flight.
UnknownIsIdle == \A n \in Nodes \ known : inflight[n] = 0

LoadInv == Shape /\ CallsOne /\ CandidatesKnown /\ UnknownIsIdle /\ InflightCountsCalls

---------------------------------------------------------------------------

LEMMA CallingIsFinite ==
    \A n : IsFiniteSet(Calling(n)) /\ Cardinality(Calling(n)) \in Nat
<1> SUFFICES ASSUME NEW n
             PROVE  IsFiniteSet(Calling(n)) /\ Cardinality(Calling(n)) \in Nat
    OBVIOUS
<1>1. Calling(n) \subseteq Clients
  BY DEF Calling
<1> QED
  BY <1>1, SelectorAssumption, FS_Subset, FS_CardinalityType

\* A client that begins to call n is one call more on n alone.
LEMMA CallBegins ==
    ASSUME Shape, NEW c \in Clients, NEW n \in Nodes, picked[c] = {},
           picked' = [picked EXCEPT ![c] = {n}]
    PROVE  \A m \in Nodes : Cardinality(Calling(m)') =
               IF m = n THEN Cardinality(Calling(m)) + 1 ELSE Cardinality(Calling(m))
<1>1. Calling(n)' = Calling(n) \cup {c} /\ c \notin Calling(n)
  BY DEF Calling, Shape
<1>2. Cardinality(Calling(n) \cup {c}) = Cardinality(Calling(n)) + 1
  BY <1>1, CallingIsFinite, FS_AddElement
<1>3. \A m \in Nodes \ {n} : Calling(m)' = Calling(m)
  BY DEF Calling, Shape
<1> QED
  BY <1>1, <1>2, <1>3

\* ... and one that ends its call is one call less.
LEMMA CallEnds ==
    ASSUME Shape, NEW c \in Clients, NEW n \in Nodes, picked[c] = {n},
           picked' = [picked EXCEPT ![c] = {}]
    PROVE  /\ Cardinality(Calling(n)) >= 1
           /\ \A m \in Nodes : Cardinality(Calling(m)') =
               IF m = n THEN Cardinality(Calling(m)) - 1 ELSE Cardinality(Calling(m))
<1>1. Calling(n)' = Calling(n) \ {c} /\ c \in Calling(n)
  BY DEF Calling, Shape
<1>2. Cardinality(Calling(n) \ {c}) = Cardinality(Calling(n)) - 1
  BY <1>1, CallingIsFinite, FS_RemoveElement
<1>3. \A m \in Nodes \ {n} : Calling(m)' = Calling(m)
  BY DEF Calling, Shape
<1>4. Cardinality(Calling(n) \ {c}) \in Nat /\ Cardinality(Calling(n)) \in Nat
  <2>1. Calling(n) \ {c} \subseteq Calling(n)
    OBVIOUS
  <2> QED
    BY <2>1, CallingIsFinite, FS_Subset, FS_CardinalityType
<1>5. Cardinality(Calling(n)) >= 1
  BY <1>2, <1>4
<1>6. Cardinality(Calling(n)') = Cardinality(Calling(n)) - 1
  BY <1>1, <1>2
<1> QED
  BY <1>3, <1>5, <1>6

\* While nobody begins or ends a call, the calls stay the same.
LEMMA CallsStay ==
    ASSUME UNCHANGED picked PROVE \A n \in Nodes : Calling(n)' = Calling(n)
  BY DEF Calling

\* Dropping states leaves counters that are as small, or zero.
LEMMA DroppingKeepsLoad ==
    ASSUME LoadInv, NEW S \in SUBSET Nodes, Dropped(known \ S),
           known' = S, UNCHANGED <<registered, picked>>,
           pc' \in [Clients -> {"idle", "found", "synced", "choosing", "calling"}],
           \A c \in Clients : pc[c] = "calling" <=> pc'[c] = "calling",
           snapshot' \in [Clients -> SUBSET Nodes]
    PROVE  LoadInv'
<1>1. Shape'
  BY DEF LoadInv, Shape, Dropped
<1>2. CallsOne'
  BY DEF LoadInv, CallsOne
<1>3. CandidatesKnown'
  BY DEF LoadInv, CandidatesKnown, Dropped
<1>4. \A n \in Nodes : inflight'[n] = IF n \in known \ S THEN 0 ELSE inflight[n]
  BY DEF Dropped
<1>5. UnknownIsIdle'
  BY <1>4 DEF LoadInv, UnknownIsIdle
<1>6. ASSUME NEW n \in Nodes
      PROVE  /\ inflight'[n] <= Cardinality(Calling(n)')
             /\ n \notin mixed' => inflight'[n] = Cardinality(Calling(n)')
  <2>1. /\ inflight[n] <= Cardinality(Calling(n))
        /\ n \notin mixed => inflight[n] = Cardinality(Calling(n))
        /\ Calling(n)' = Calling(n) /\ Cardinality(Calling(n)) \in Nat
    BY CallsStay, CallingIsFinite DEF LoadInv, InflightCountsCalls
  <2>2. CASE n \in known \ S
    <3>1. n \notin mixed' => Calling(n) = {}
      BY <2>2 DEF Dropped
    <3>2. n \notin mixed' => Cardinality(Calling(n)) = 0
      BY <3>1, FS_EmptySet
    <3>3. inflight'[n] = 0
      BY <1>4, <2>2
    <3> QED
      BY <2>1, <3>2, <3>3
  <2>3. CASE n \notin known \ S
    <3>1. n \in mixed => n \in mixed'
      BY DEF Dropped
    <3> QED
      BY <1>4, <2>1, <2>3, <3>1
  <2> QED
    BY <2>2, <2>3
<1> QED
  BY <1>1, <1>2, <1>3, <1>5, <1>6 DEF LoadInv, InflightCountsCalls

\* A report ejects its node at most, and never a node without a state.
LEMMA RecordEjects ==
    ASSUME Shape, NEW n \in Nodes, NEW outcome \in Outcomes, NEW tracked \in BOOLEAN,
           Record(n, outcome, tracked)
    PROVE  /\ ejected' = ejected \/ (n \in known /\ MaySpare(n) /\ ejected' = ejected \cup {n})
           /\ inflight' = IF n \in known /\ tracked
                          THEN [inflight EXCEPT ![n] = Less(n)] ELSE inflight
<1>1. ASSUME NEW count, Failed(n, count)
      PROVE  ejected' = ejected \/ (MaySpare(n) /\ ejected' = ejected \cup {n})
  BY <1>1 DEF Failed
<1>2. CASE n \in known
  <2>1. Judged(n, outcome) /\ inflight' = [inflight EXCEPT ![n] = IF tracked THEN Less(n) ELSE @]
    BY <1>2 DEF Record
  <2>2. ejected' = ejected \/ (MaySpare(n) /\ ejected' = ejected \cup {n})
    <3>1. CASE outcome = "success"
      BY <2>1, <3>1 DEF Judged
    <3>2. CASE outcome = "ignore"
      BY <2>1, <3>2 DEF Judged
    <3>3. CASE outcome = "eject"
      BY <1>1, <2>1, <3>3 DEF Judged
    <3>4. CASE outcome = "failure"
      BY <1>1, <2>1, <3>4 DEF Judged
    <3> QED
      BY <3>1, <3>2, <3>3, <3>4 DEF Outcomes
  <2>3. ~tracked => inflight' = inflight
    BY <2>1 DEF Shape
  <2> QED
    BY <1>2, <2>1, <2>2, <2>3
<1>3. CASE n \notin known
  BY <1>3 DEF Record
<1> QED
  BY <1>2, <1>3

LEMMA LessIsLess ==
    ASSUME Shape, NEW n \in Nodes
    PROVE  Less(n) \in Nat /\ (inflight[n] = 0 => Less(n) = 0)
           /\ (inflight[n] > 0 => Less(n) = inflight[n] - 1)
  BY DEF Less, Shape

---------------------------------------------------------------------------
(* The invariant *)

LEMMA LoadInvStep == LoadInv /\ [Next]_vars => LoadInv'
<1> SUFFICES ASSUME LoadInv, [Next]_vars PROVE LoadInv'
    OBVIOUS
<1>0. Shape /\ CallsOne /\ CandidatesKnown /\ UnknownIsIdle /\ InflightCountsCalls
  BY DEF LoadInv
<1>a. ASSUME UNCHANGED <<known, inflight, mixed, picked>>, CandidatesKnown', Shape',
             \A c \in Clients : pc[c] = "calling" <=> pc'[c] = "calling"
      PROVE  LoadInv'
  <2>1. CallsOne' /\ UnknownIsIdle'
    BY <1>0, <1>a DEF CallsOne, UnknownIsIdle
  <2>2. InflightCountsCalls'
    BY <1>0, <1>a, CallsStay DEF InflightCountsCalls
  <2> QED
    BY <1>a, <2>1, <2>2 DEF LoadInv
<1>1. CASE UNCHANGED vars
  <2>1. Shape' /\ CandidatesKnown'
    BY <1>0, <1>1 DEF vars, states, clients, Shape, CandidatesKnown
  <2> QED
    BY <1>1, <1>a, <2>1 DEF vars, states, clients
<1>2. ASSUME NEW c \in Clients, Lookup(c) PROVE LoadInv'
  <2>1. Shape' /\ CandidatesKnown'
    BY <1>0, <1>2 DEF Lookup, states, Shape, CandidatesKnown
  <2>2. \A d \in Clients : pc[d] = "calling" <=> pc'[d] = "calling"
    BY <1>0, <1>2 DEF Lookup, Shape
  <2> QED
    BY <1>2, <1>a, <2>1, <2>2 DEF Lookup, states
<1>3. ASSUME NEW c \in Clients, Reconcile(c) PROVE LoadInv'
  <2>1. PICK kept \in SUBSET snapshot[c] :
            /\ snapshot' = [snapshot EXCEPT ![c] = kept]
            /\ pc' = [pc EXCEPT ![c] = IF kept = {} THEN "idle" ELSE "synced"]
    BY <1>3 DEF Reconcile
  <2>2. snapshot[c] \in SUBSET Nodes /\ snapshot' \in [Clients -> SUBSET Nodes]
    BY <1>0, <2>1 DEF Shape
  <2>3. /\ pc' \in [Clients -> {"idle", "found", "synced", "choosing", "calling"}]
        /\ \A d \in Clients : pc[d] = "calling" <=> pc'[d] = "calling"
    BY <1>0, <1>3, <2>1 DEF Shape, Reconcile
  <2>4. known' = snapshot[c] /\ Dropped(known \ snapshot[c]) /\ UNCHANGED <<registered, picked>>
    BY <1>3 DEF Reconcile
  <2> QED
    BY <2>2, <2>3, <2>4, DroppingKeepsLoad
<1>4. ASSUME NEW c \in Clients, Collect(c) PROVE LoadInv'
  <2>1. Shape' /\ CandidatesKnown'
    BY <1>0, <1>4 DEF Collect, states, Shape, CandidatesKnown
  <2>2. \A d \in Clients : pc[d] = "calling" <=> pc'[d] = "calling"
    BY <1>0, <1>4 DEF Collect, Shape
  <2> QED
    BY <1>4, <1>a, <2>1, <2>2 DEF Collect, states
<1>5. ASSUME NEW c \in Clients, Choose(c) PROVE LoadInv'
  <2>1. PICK n \in Available(c) : /\ picked' = [picked EXCEPT ![c] = {n}]
                                  /\ inflight' = [inflight EXCEPT ![n] = @ + 1]
    BY <1>5 DEF Choose
  <2>2. n \in known /\ n \in Nodes
    BY <1>0 DEF Available, CandidatesKnown, Shape
  <2>3. Shape' /\ CandidatesKnown'
    BY <1>0, <1>5, <2>1, <2>2 DEF Choose, Shape, CandidatesKnown
  <2>4. CallsOne'
    BY <1>0, <1>5, <2>1, <2>2 DEF Choose, Shape, CallsOne
  <2>5. UnknownIsIdle'
    BY <1>0, <1>5, <2>1, <2>2 DEF Choose, Shape, UnknownIsIdle
  <2>6. picked[c] = {}
    BY <1>0, <1>5 DEF Choose, CallsOne
  <2>7. InflightCountsCalls'
    <3>1. /\ Cardinality(Calling(n)') = Cardinality(Calling(n)) + 1
          /\ \A m \in Nodes \ {n} : Cardinality(Calling(m)') = Cardinality(Calling(m))
      BY <1>0, <2>1, <2>2, <2>6, CallBegins
    <3>2. inflight'[n] = inflight[n] + 1 /\ \A m \in Nodes \ {n} : inflight'[m] = inflight[m]
      BY <1>0, <2>1, <2>2 DEF Shape
    <3>3. /\ inflight[n] \in Nat /\ inflight[n] <= Cardinality(Calling(n))
          /\ n \notin mixed => inflight[n] = Cardinality(Calling(n))
      BY <1>0, <2>2 DEF Shape, InflightCountsCalls
    <3>4. /\ inflight'[n] <= Cardinality(Calling(n)')
          /\ n \notin mixed => inflight'[n] = Cardinality(Calling(n)')
      BY <3>1, <3>2, <3>3, CallingIsFinite
    <3>5. mixed' = mixed
      BY <1>5 DEF Choose
    <3> QED
      BY <1>0, <3>1, <3>2, <3>4, <3>5 DEF InflightCountsCalls
  <2> QED
    BY <2>3, <2>4, <2>5, <2>7 DEF LoadInv
<1>6. ASSUME NEW c \in Clients, ChooseFails(c) PROVE LoadInv'
  <2>1. Shape' /\ CandidatesKnown'
    BY <1>0, <1>6 DEF ChooseFails, states, Shape, CandidatesKnown
  <2>2. \A d \in Clients : pc[d] = "calling" <=> pc'[d] = "calling"
    BY <1>0, <1>6 DEF ChooseFails, Shape
  <2> QED
    BY <1>6, <1>a, <2>1, <2>2 DEF ChooseFails, states
<1>7. ASSUME NEW c \in Clients, NEW o \in Outcomes, Done(c, o) PROVE LoadInv'
  <2>1. PICK n \in Nodes : picked[c] = {n}
    BY <1>0, <1>7 DEF Done, CallsOne
  <2>2. Record(n, o, TRUE)
    BY <1>7, <2>1 DEF Done
  <2>3. /\ ejected' \subseteq known
        /\ inflight' = IF n \in known THEN [inflight EXCEPT ![n] = Less(n)] ELSE inflight
    BY <1>0, <2>2, RecordEjects DEF Shape
  <2>4. Shape' /\ CandidatesKnown'
    BY <1>0, <1>7, <2>3, LessIsLess DEF Done, Shape, CandidatesKnown
  <2>5. CallsOne'
    BY <1>0, <1>7 DEF Done, Shape, CallsOne
  <2>6. UnknownIsIdle'
    BY <1>0, <1>7, <2>3 DEF Done, Shape, UnknownIsIdle
  <2>7. InflightCountsCalls'
    <3>1. picked' = [picked EXCEPT ![c] = {}]
      BY <1>7 DEF Done
    <3>2. \A m \in Nodes \ {n} : inflight'[m] = inflight[m]
      BY <1>0, <2>3 DEF Shape
    <3>3. inflight'[n] = Less(n)
      BY <1>0, <2>3, LessIsLess DEF Shape, UnknownIsIdle
    <3>4. /\ inflight[n] \in Nat /\ inflight[n] <= Cardinality(Calling(n))
          /\ n \notin mixed => inflight[n] = Cardinality(Calling(n))
      BY <1>0 DEF Shape, InflightCountsCalls
    <3>5. Cardinality(Calling(n)) >= 1 /\ Cardinality(Calling(n)') = Cardinality(Calling(n)) - 1
      BY <1>0, <2>1, <3>1, CallEnds
    <3>6. /\ inflight'[n] <= Cardinality(Calling(n)') /\ inflight'[n] \in Nat
          /\ n \notin mixed => inflight'[n] = Cardinality(Calling(n)')
      BY <1>0, <3>3, <3>4, <3>5, LessIsLess, CallingIsFinite
    <3>7. \A m \in Nodes \ {n} : Cardinality(Calling(m)') = Cardinality(Calling(m))
      BY <1>0, <2>1, <3>1, CallEnds
    <3>8. ASSUME NEW m \in Nodes, m \notin mixed', m \in mixed
          PROVE  inflight'[m] = Cardinality(Calling(m)')
      <4>1. Calling(m)' = {}
        BY <1>7, <3>8 DEF Done
      <4>2. Cardinality(Calling(m)') = 0
        BY <4>1, FS_EmptySet
      <4>3. inflight'[m] <= Cardinality(Calling(m)') /\ inflight'[m] \in Nat
        BY <1>0, <3>2, <3>6, <3>7 DEF InflightCountsCalls, Shape
      <4> QED
        BY <4>2, <4>3
    <3> QED
      BY <1>0, <3>2, <3>6, <3>7, <3>8 DEF InflightCountsCalls
  <2> QED
    BY <2>4, <2>5, <2>6, <2>7 DEF LoadInv
<1>8. ASSUME NEW n \in Nodes, NEW o \in Outcomes, Mark(n, o) PROVE LoadInv'
  <2>1. ejected' \subseteq known /\ inflight' = inflight
    BY <1>0, <1>8, RecordEjects DEF Mark, Shape
  <2>2. Shape' /\ CandidatesKnown'
    BY <1>0, <1>8, <2>1 DEF Mark, clients, Shape, CandidatesKnown
  <2> QED
    BY <1>8, <1>a, <2>1, <2>2 DEF Mark, clients
<1>9. ASSUME NEW n \in Nodes, EjectionEnds(n) PROVE LoadInv'
  <2>1. Shape' /\ CandidatesKnown'
    BY <1>0, <1>9 DEF EjectionEnds, clients, Shape, CandidatesKnown
  <2> QED
    BY <1>9, <1>a, <2>1 DEF EjectionEnds, clients
<1>10. CASE Reset
  <2>1. known' = {} /\ Dropped(known \ {}) /\ UNCHANGED <<registered, picked, pc, snapshot>>
    BY <1>10 DEF Reset
  <2>2. {} \in SUBSET Nodes
    OBVIOUS
  <2> QED
    BY <1>0, <2>1, <2>2, DroppingKeepsLoad DEF Shape
<1>11. CASE RegistryChanges
  <2>1. Shape' /\ CandidatesKnown'
    BY <1>0, <1>11 DEF RegistryChanges, states, clients, Shape, CandidatesKnown
  <2> QED
    BY <1>11, <1>a, <2>1 DEF RegistryChanges, states, clients
<1> QED
  BY <1>1, <1>2, <1>3, <1>4, <1>5, <1>6, <1>7, <1>8, <1>9, <1>10, <1>11 DEF Next

\* Counters, picks and candidates fit together in every reachable state.
THEOREM LoadInvariant == Spec => []LoadInv
<1>1. Init => LoadInv
  <2> SUFFICES ASSUME Init PROVE LoadInv
    OBVIOUS
  <2>1. Shape /\ CallsOne /\ CandidatesKnown /\ UnknownIsIdle
    BY DEF Init, Shape, CallsOne, CandidatesKnown, UnknownIsIdle
  <2>2. \A n \in Nodes : Calling(n) = {} /\ Cardinality(Calling(n)) = 0
    BY FS_EmptySet DEF Init, Calling
  <2>3. InflightCountsCalls
    BY <2>2 DEF Init, InflightCountsCalls
  <2> QED
    BY <2>1, <2>3 DEF LoadInv
<1> QED
  BY <1>1, LoadInvStep, PTL DEF Spec

\* The counter of a node is never above the calls under way on it, whatever
\* states were dropped and made anew meanwhile, and it is below them only on a
\* node whose state was dropped under a call that it still has, or shares.
THEOREM LoadIsReal == Spec => []InflightCountsCalls
<1>1. LoadInv => InflightCountsCalls
  BY DEF LoadInv
<1> QED
  BY <1>1, LoadInvariant, PTL

---------------------------------------------------------------------------
(* Ejections *)

\* A share below all of the nodes is fewer nodes than there are.
LEMMA ShareIsPart ==
    ASSUME NEW k \in Nat, k > 0, MaxEjectionPercent < 100
    PROVE  (k * MaxEjectionPercent) \div 100 < k
           /\ (k * MaxEjectionPercent) \div 100 \in Nat
<1>1. MaxEjectionPercent \in Nat /\ MaxEjectionPercent <= 99
  BY SelectorAssumption
<1>2. k * MaxEjectionPercent \in Nat /\ k * MaxEjectionPercent <= k * 99
  BY <1>1, SMTT(30)
<1> DEFINE a == k * MaxEjectionPercent
<1>3. a \in Nat /\ a <= k * 99
  BY <1>2
<1> HIDE DEF a
<1>4. a \div 100 < k /\ a \div 100 \in Nat
  BY <1>3
<1> QED
  BY <1>4 DEF a

\* An ejection that is allowed leaves a known node that is not ejected.
LEMMA SparedLeavesOne ==
    ASSUME Shape, MaxEjectionPercent < 100, NEW n \in known, n \notin ejected, MaySpare(n)
    PROVE  known \ (ejected \cup {n}) # {}
<1>1. IsFiniteSet(known) /\ IsFiniteSet(ejected)
  BY SelectorAssumption, FS_Subset DEF Shape
<1>2. Cardinality(known) \in Nat /\ Cardinality(ejected) \in Nat
  BY <1>1, FS_CardinalityType
<1>3. Cardinality(known) > 1 /\ Cardinality(ejected) < MaxEjected
  BY DEF MaySpare
<1>4. MaxEjected < Cardinality(known) /\ MaxEjected \in Nat
  BY <1>2, <1>3, ShareIsPart DEF MaxEjected
<1>5. IsFiniteSet(ejected \cup {n}) /\ Cardinality(ejected \cup {n}) = Cardinality(ejected) + 1
  BY <1>1, FS_AddElement
<1>6. Cardinality(ejected \cup {n}) < Cardinality(known)
  BY <1>2, <1>3, <1>4, <1>5
<1>7. SUFFICES ASSUME known \subseteq ejected \cup {n} PROVE FALSE
  OBVIOUS
<1>8. Cardinality(known) <= Cardinality(ejected \cup {n})
  BY <1>5, <1>7, FS_Subset
<1> QED
  BY <1>2, <1>5, <1>6, <1>8

\* With a maximal share below 100 per cent, no ejection takes the last node
\* that was left, however nodes, reports and ejections came and went.
THEOREM EjectionsLeaveOne ==
    ASSUME MaxEjectionPercent < 100 PROVE Spec => EjectionLeavesOne
<1>1. LoadInv /\ [Next]_vars =>
          [\A n \in Nodes : n \in ejected' \ ejected => known' \ ejected' # {}]_vars
  <2> SUFFICES ASSUME LoadInv, Next, NEW n \in Nodes, n \in ejected' \ ejected
               PROVE  known' \ ejected' # {}
      OBVIOUS
  <2>0. Shape
    BY DEF LoadInv
  <2>1. ASSUME NEW m \in Nodes, NEW o \in Outcomes, NEW t \in BOOLEAN, Record(m, o, t), UNCHANGED known
        PROVE  known' \ ejected' # {}
    <3>1. m \in known /\ MaySpare(m) /\ ejected' = ejected \cup {m}
      BY <2>0, <2>1, RecordEjects
    <3>2. m \notin ejected
      BY <3>1
    <3> QED
      BY <2>0, <2>1, <3>1, <3>2, SparedLeavesOne
  <2>2. ASSUME NEW c \in Clients, NEW o \in Outcomes, Done(c, o)
        PROVE  known' \ ejected' # {}
    <3>1. PICK m \in picked[c] : Record(m, o, TRUE)
      BY <2>2 DEF Done
    <3>2. m \in Nodes
      BY <2>0 DEF Shape
    <3> QED
      BY <2>1, <2>2, <3>1, <3>2 DEF Done
  <2>3. ASSUME NEW m \in Nodes, NEW o \in Outcomes, Mark(m, o)
        PROVE  known' \ ejected' # {}
    BY <2>1, <2>3 DEF Mark
  <2>4. ASSUME NEW c \in Clients, Lookup(c) \/ Reconcile(c) \/ Collect(c) \/ Choose(c) \/ ChooseFails(c)
        PROVE  ejected' \subseteq ejected
    BY <2>4 DEF Lookup, Reconcile, Dropped, Collect, Choose, ChooseFails, states
  <2>5. ASSUME \/ \E m \in Nodes : EjectionEnds(m)
               \/ Reset \/ RegistryChanges
        PROVE  ejected' \subseteq ejected
    BY <2>5 DEF EjectionEnds, Reset, Dropped, RegistryChanges, states
  <2> QED
    BY <2>2, <2>3, <2>4, <2>5 DEF Next
<1> QED
  BY <1>1, LoadInvariant, PTL DEF Spec, EjectionLeavesOne
=============================================================================
