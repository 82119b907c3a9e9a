----------------------------- MODULE HostProofs ----------------------------
(***************************************************************************)
(* Proofs about RuntimeHost and the modules it is made of, for any catalog *)
(* of modules, any number of components, servers, requests, delayed        *)
(* publications and callers of Shutdown.                                   *)
(*                                                                         *)
(* The order that resolvePlan finds is proved by the least counterexample  *)
(* to a round of its loop; the rest rests on one invariant, HostInv, about *)
(* the list through which the holder of lifecycleMu works.                 *)
(***************************************************************************)
EXTENDS RuntimeHost, FiniteSetTheorems, WellFoundedInduction, TLAPS

\* A nonempty set of natural numbers has a least element.
LEMMA LeastNat ==
    ASSUME NEW T \in SUBSET Nat, T # {} PROVE \E n \in T : \A m \in T : n <= m
  <1> DEFINE R == OpToRel(<, Nat)
  <1>1. IsWellFoundedOn(R, Nat)
    BY NatLessThanWellFounded, Zenon
  <1>2. \A x, y \in Nat : <<y, x>> \in R <=> y < x
    BY DEF OpToRel
  <1> HIDE DEF R
  <1>3. PICK x \in T : \A y \in T : ~(<<y, x>> \in R)
    BY <1>1, WFMin
  <1>4. \A y \in T : ~(y < x)
    BY <1>2, <1>3
  <1> QED
    BY <1>4

\* What holds of 0 and carries over from n to n + 1 holds of every number: T
\* are the numbers of which it does not.
LEMMA NoLeast ==
    ASSUME NEW T \in SUBSET Nat, 0 \notin T,
           \A n \in Nat : n + 1 \in T => n \in T
    PROVE  T = {}
  <1>1. SUFFICES ASSUME T # {} PROVE FALSE
    OBVIOUS
  <1>2. PICK n \in T : \A m \in T : n <= m
    BY <1>1, LeastNat
  <1>3. n # 0 /\ n - 1 \in Nat /\ (n - 1) + 1 = n
    BY <1>2
  <1>4. n - 1 \in T
    BY <1>2, <1>3
  <1> QED
    BY <1>2, <1>3, <1>4

---------------------------------------------------------------------------
(* resolvePlan *)

\* The state of the loop before its first round.
FirstRound ==
    [ordered |-> << >>,
     indegree |-> [m \in DOMAIN descriptors |-> Indegree(m)],
     ready |-> {m \in DOMAIN descriptors : Indegree(m) = 0}]

\* f lists the states of the loop for the first n rounds.
Rounds(f, n) == f = [k \in 0..n |-> IF k = 0 THEN FirstRound ELSE Round(f[k - 1])]

\* The recursive function of Ordered exists.
LEMMA RoundsExist == \A n \in Nat : \E f : Rounds(f, n)
  <1> DEFINE T == {n \in Nat : ~ \E f : Rounds(f, n)}
  <1>1. 0 \notin T
    <2> DEFINE f == [k \in 0..0 |-> FirstRound]
    <2>1. f = [k \in 0..0 |-> IF k = 0 THEN FirstRound ELSE Round(f[k - 1])]
      OBVIOUS
    <2>2. Rounds(f, 0)
      BY <2>1 DEF Rounds
    <2> QED
      BY <2>2
  <1>2. ASSUME NEW n \in Nat, n \notin T PROVE n + 1 \notin T
    <2>1. PICK f : Rounds(f, n)
      BY <1>2
    <2> DEFINE g == [k \in 0..(n + 1) |-> IF k = n + 1 THEN Round(f[n]) ELSE f[k]]
    <2>2. \A k \in 0..n : f[k] = IF k = 0 THEN FirstRound ELSE Round(f[k - 1])
      BY <2>1, Zenon DEF Rounds
    <2>3. ASSUME NEW k \in 0..(n + 1)
          PROVE  g[k] = IF k = 0 THEN FirstRound ELSE Round(g[k - 1])
      <3>1. CASE k = 0
        BY <3>1, <2>2
      <3>2. CASE k # 0 /\ k # n + 1
        <4>1. k \in 0..n /\ k - 1 \in 0..n /\ k - 1 # n + 1 /\ k - 1 \in 0..(n + 1)
          BY <3>2
        <4>2. g[k] = f[k] /\ g[k - 1] = f[k - 1]
          BY <3>2, <4>1
        <4> QED
          BY <3>2, <4>1, <4>2, <2>2
      <3>3. CASE k = n + 1
        <4>1. k # 0 /\ k - 1 = n /\ n \in 0..(n + 1) /\ n # n + 1
          BY <3>3
        <4>2. g[k] = Round(f[n]) /\ g[n] = f[n]
          BY <3>3, <4>1
        <4> QED
          BY <4>1, <4>2
      <3> QED
        BY <3>1, <3>2, <3>3
    <2>4. g = [k \in 0..(n + 1) |-> IF k = 0 THEN FirstRound ELSE Round(g[k - 1])]
      <3> DEFINE h == [k \in 0..(n + 1) |-> IF k = 0 THEN FirstRound ELSE Round(g[k - 1])]
      <3>1. \A k \in 0..(n + 1) : g[k] = h[k]
        BY <2>3
      <3>2. g = h
        BY <3>1
      <3> QED
        BY <3>2
    <2>5. Rounds(g, n + 1)
      BY <2>4 DEF Rounds
    <2> QED
      BY <2>5
  <1>3. T = {}
    BY <1>1, <1>2, NoLeast
  <1> QED
    BY <1>3

\* The order found is the one after as many rounds as there are modules.
LEMMA OrderedIs ==
    ASSUME Cardinality(DOMAIN descriptors) \in Nat
    PROVE  \E f : /\ Rounds(f, Cardinality(DOMAIN descriptors))
                  /\ Ordered = f[Cardinality(DOMAIN descriptors)].ordered
  <1> DEFINE N == Cardinality(DOMAIN descriptors)
             f == CHOOSE g : Rounds(g, N)
  <1>1. Rounds(f, N)
    BY RoundsExist
  <1>2. Ordered = f[N].ordered
    BY Zenon DEF Ordered, Rounds, FirstRound
  <1> QED
    BY <1>1, <1>2

\* The first n names of the order p.
Firsts(p, n) == {p[i] : i \in 1..n}

\* Where the loop stands after a round: the names found so far, each once and
\* after all it depends on, always the least of those that could follow; and
\* for the others how many dependencies are not among them.
FoundWell(p) ==
    /\ p \in Seq(DOMAIN descriptors)
    /\ \A i, j \in 1..Len(p) : i < j => p[i] # p[j]
    /\ \A j \in 1..Len(p) : descriptors[p[j]].dependsOn \subseteq Firsts(p, j - 1)
    /\ \A j \in 1..Len(p) : \A m \in DOMAIN descriptors :
         (m \notin Firsts(p, j - 1) /\ descriptors[m].dependsOn \subseteq Firsts(p, j - 1))
         => p[j] <= m

RoundInv(s) ==
    /\ FoundWell(s.ordered)
    /\ s.indegree = [m \in DOMAIN descriptors |->
            Cardinality(descriptors[m].dependsOn \ Firsts(s.ordered, Len(s.ordered)))]
    /\ s.ready = {m \in DOMAIN descriptors \ Firsts(s.ordered, Len(s.ordered)) :
                     descriptors[m].dependsOn \subseteq Firsts(s.ordered, Len(s.ordered))}

\* The descriptors of a catalog, and the sets made of them, are finite.
LEMMA CatalogFinite ==
    ASSUME CatalogTypeOK
    PROVE  /\ IsFiniteSet(DOMAIN descriptors) /\ Cardinality(DOMAIN descriptors) \in Nat
           /\ DOMAIN descriptors \subseteq Nat
           /\ \A m \in DOMAIN descriptors :
                 /\ descriptors[m].dependsOn \subseteq Modules
                 /\ descriptors[m].needs \subseteq Resources
                 /\ \A X : /\ IsFiniteSet(descriptors[m].dependsOn \ X)
                           /\ Cardinality(descriptors[m].dependsOn \ X) \in Nat
  <1>1. DOMAIN descriptors \subseteq Modules /\ Modules \subseteq Nat /\ IsFiniteSet(Modules)
    BY CatalogAssumption DEF CatalogTypeOK
  <1>2. IsFiniteSet(DOMAIN descriptors) /\ Cardinality(DOMAIN descriptors) \in Nat
    BY <1>1, FS_Subset, FS_CardinalityType
  <1>3. ASSUME NEW m \in DOMAIN descriptors
        PROVE  /\ descriptors[m].dependsOn \subseteq Modules
               /\ descriptors[m].needs \subseteq Resources
    BY <1>3 DEF CatalogTypeOK, Descriptor
  <1>4. ASSUME NEW m \in DOMAIN descriptors, NEW X
        PROVE  /\ IsFiniteSet(descriptors[m].dependsOn \ X)
               /\ Cardinality(descriptors[m].dependsOn \ X) \in Nat
    <2>1. descriptors[m].dependsOn \ X \subseteq Modules
      BY <1>3
    <2> QED
      BY <1>1, <2>1, FS_Subset, FS_CardinalityType
  <1> QED
    BY <1>1, <1>2, <1>3, <1>4

\* The least element of a set of names.
LEMMA MinIs ==
    ASSUME NEW T \in SUBSET Nat, T # {}
    PROVE  Min(T) \in T /\ \A m \in T : Min(T) <= m
  <1>1. PICK n \in T : \A m \in T : n <= m
    BY LeastNat
  <1> QED
    BY <1>1 DEF Min

\* The loop begins well.
LEMMA FirstRoundWell ==
    ASSUME CatalogTypeOK PROVE RoundInv(FirstRound) /\ Len(FirstRound.ordered) = 0
  <1> DEFINE s == FirstRound
  <1>1. s.ordered = << >> /\ Len(s.ordered) = 0 /\ Firsts(s.ordered, 0) = {}
    BY DEF FirstRound, Firsts
  <1>2. FoundWell(s.ordered)
    BY <1>1 DEF FoundWell
  <1>3. \A m \in DOMAIN descriptors : descriptors[m].dependsOn \ {} = descriptors[m].dependsOn
    OBVIOUS
  <1>4. s.indegree = [m \in DOMAIN descriptors |-> Cardinality(descriptors[m].dependsOn \ {})]
    BY <1>3 DEF FirstRound, Indegree
  <1>5. ASSUME NEW m \in DOMAIN descriptors
        PROVE  Indegree(m) = 0 <=> descriptors[m].dependsOn \subseteq {}
    <2>1. IsFiniteSet(descriptors[m].dependsOn)
      BY <1>3, CatalogFinite
    <2>2. Cardinality(descriptors[m].dependsOn) = 0 <=> descriptors[m].dependsOn = {}
      BY <2>1, FS_EmptySet
    <2> QED
      BY <2>2 DEF Indegree
  <1>6. s.ready = {m \in DOMAIN descriptors \ {} : descriptors[m].dependsOn \subseteq {}}
    BY <1>5 DEF FirstRound
  <1> QED
    BY <1>1, <1>2, <1>4, <1>6 DEF RoundInv

\* A round that finds a module goes on well.
LEMMA RoundWell ==
    ASSUME CatalogTypeOK, NEW s, RoundInv(s), s.ready # {}
    PROVE  RoundInv(Round(s)) /\ Len(Round(s).ordered) = Len(s.ordered) + 1
  <1> DEFINE n == Len(s.ordered)
             name == Min(s.ready)
             t == Round(s)
             F == Firsts(s.ordered, n)
             dependents == {m \in DOMAIN descriptors : name \in descriptors[m].dependsOn}
  <1>1. /\ s.ordered \in Seq(DOMAIN descriptors) /\ n \in Nat
        /\ s.ready = {m \in DOMAIN descriptors \ F : descriptors[m].dependsOn \subseteq F}
        /\ s.indegree = [m \in DOMAIN descriptors |-> Cardinality(descriptors[m].dependsOn \ F)]
    BY DEF RoundInv, FoundWell
  <1>2. name \in s.ready /\ \A m \in s.ready : name <= m
    <2>1. s.ready \in SUBSET Nat
      BY <1>1, CatalogFinite
    <2> QED
      BY <2>1, MinIs
  <1> HIDE DEF name
  <1>3. /\ name \in DOMAIN descriptors /\ name \notin F
        /\ descriptors[name].dependsOn \subseteq F
    BY <1>1, <1>2
  <1> DEFINE indegree == [m \in DOMAIN s.indegree |->
                            s.indegree[m] - (IF m \in dependents THEN 1 ELSE 0)]
  <1>4. /\ t.ordered = Append(s.ordered, name)
        /\ t.indegree = indegree
        /\ t.ready = (s.ready \ {name}) \cup {m \in dependents : indegree[m] = 0}
    <2>1. t = [ordered |-> Append(s.ordered, name),
               indegree |-> indegree,
               ready |-> (s.ready \ {name}) \cup {m \in dependents : indegree[m] = 0}]
      BY Zenon DEF Round, name
    <2> HIDE DEF t, indegree, dependents
    <2> QED
      BY <2>1
  <1>5. /\ Len(t.ordered) = n + 1
        /\ t.ordered[n + 1] = name
        /\ \A i \in 1..n : t.ordered[i] = s.ordered[i]
        /\ t.ordered \in Seq(DOMAIN descriptors)
    BY <1>1, <1>3, <1>4
  <1> HIDE DEF t
  <1>6. ASSUME NEW k \in 0..n PROVE Firsts(t.ordered, k) = Firsts(s.ordered, k)
    <2>1. 1..k \subseteq 1..n
      BY <1>1
    <2>2. \A i \in 1..k : t.ordered[i] = s.ordered[i]
      BY <2>1, <1>5
    <2> QED
      BY <2>2 DEF Firsts
  <1>7. Firsts(t.ordered, n + 1) = F \cup {name}
    <2>1. 1..(n + 1) = 1..n \cup {n + 1}
      BY <1>1
    <2> QED
      BY <2>1, <1>5 DEF Firsts
  <1>8. FoundWell(t.ordered)
    <2>1. ASSUME NEW i \in 1..(n + 1), NEW j \in 1..(n + 1), i < j
          PROVE  t.ordered[i] # t.ordered[j]
      <3>1. CASE j = n + 1
        <4>1. i \in 1..n
          BY <1>1, <2>1, <3>1
        <4>2. t.ordered[i] \in F
          BY <4>1, <1>5 DEF Firsts
        <4> QED
          BY <4>2, <1>3, <1>5, <3>1
      <3>2. CASE j # n + 1
        <4>1. i \in 1..n /\ j \in 1..n
          BY <1>1, <2>1, <3>2
        <4> QED
          BY <4>1, <2>1, <1>5 DEF RoundInv, FoundWell
      <3> QED
        BY <3>1, <3>2
    <2>2. ASSUME NEW j \in 1..(n + 1)
          PROVE  /\ descriptors[t.ordered[j]].dependsOn \subseteq Firsts(t.ordered, j - 1)
                 /\ \A m \in DOMAIN descriptors :
                      (m \notin Firsts(t.ordered, j - 1) /\
                       descriptors[m].dependsOn \subseteq Firsts(t.ordered, j - 1))
                      => t.ordered[j] <= m
      <3>1. CASE j = n + 1
        <4>1. Firsts(t.ordered, j - 1) = F
          BY <3>1, <1>1, <1>6
        <4> QED
          BY <4>1, <3>1, <1>1, <1>2, <1>3, <1>5
      <3>2. CASE j # n + 1
        <4>1. j \in 1..n /\ j - 1 \in 0..n
          BY <1>1, <3>2
        <4>2. Firsts(t.ordered, j - 1) = Firsts(s.ordered, j - 1)
          BY <4>1, <1>6
        <4> QED
          BY <4>1, <4>2, <1>5 DEF RoundInv, FoundWell
      <3> QED
        BY <3>1, <3>2
    <2> QED
      BY <2>1, <2>2, <1>5 DEF FoundWell
  <1> DEFINE G == F \cup {name}
  <1>9. ASSUME NEW m \in DOMAIN descriptors
        PROVE  /\ indegree[m] = Cardinality(descriptors[m].dependsOn \ G)
               /\ m \in t.ready <=> m \notin G /\ descriptors[m].dependsOn \subseteq G
    <2> DEFINE d == descriptors[m].dependsOn
    <2>1. /\ IsFiniteSet(d \ F) /\ Cardinality(d \ F) \in Nat
          /\ IsFiniteSet(d \ G) /\ Cardinality(d \ G) \in Nat
      BY CatalogFinite
    <2>2. indegree[m] = Cardinality(d \ F) - (IF m \in dependents THEN 1 ELSE 0)
      BY <1>1
    <2>3. CASE m \in dependents
      <3>1. name \in d \ F /\ (d \ F) \ {name} = d \ G
        BY <2>3, <1>3
      <3>2. Cardinality((d \ F) \ {name}) = Cardinality(d \ F) - 1
        BY <3>1, <2>1, FS_RemoveElement
      <3>3. indegree[m] = Cardinality(d \ G)
        BY <2>2, <2>3, <3>1, <3>2
      <3>4. Cardinality(d \ G) = 0 <=> d \ G = {}
        BY <2>1, FS_EmptySet
      <3>5. m \notin F
        <4>1. SUFFICES ASSUME m \in F PROVE FALSE
          OBVIOUS
        <4>2. PICK j \in 1..n : m = s.ordered[j]
          BY <4>1 DEF Firsts
        <4>3. d \subseteq Firsts(s.ordered, j - 1)
          BY <4>2 DEF RoundInv, FoundWell
        <4>4. Firsts(s.ordered, j - 1) \subseteq F
          BY <1>1 DEF Firsts
        <4> QED
          BY <4>3, <4>4, <3>1
      <3>6. m # name
        BY <1>3, <2>3
      <3>7. m \notin s.ready
        BY <1>1, <3>1
      <3>8. m \in t.ready <=> indegree[m] = 0
        BY <1>4, <2>3, <3>7
      <3> QED
        BY <3>3, <3>4, <3>5, <3>6, <3>8
    <2>4. CASE m \notin dependents
      <3>1. d \ F = d \ G
        BY <2>4
      <3>2. indegree[m] = Cardinality(d \ G)
        <4>1. indegree[m] = Cardinality(d \ F) - 0
          BY <2>2, <2>4
        <4>2. Cardinality(d \ F) - 0 = Cardinality(d \ F)
          BY <2>1
        <4> QED
          BY <3>1, <4>1, <4>2
      <3>3. m \in t.ready <=> m \in s.ready /\ m # name
        BY <1>4, <2>4
      <3>4. d \subseteq F <=> d \subseteq G
        BY <3>1
      <3>5. m \in s.ready <=> m \notin F /\ d \subseteq F
        BY <1>1
      <3> QED
        BY <3>2, <3>3, <3>4, <3>5
    <2> QED
      BY <2>3, <2>4
  <1>10. DOMAIN s.indegree = DOMAIN descriptors
    BY <1>1
  <1>11. t.indegree = [m \in DOMAIN descriptors |-> Cardinality(descriptors[m].dependsOn \ G)]
    BY <1>4, <1>9, <1>10
  <1>12. t.ready \subseteq DOMAIN descriptors
    BY <1>1, <1>4
  <1>13. t.ready = {m \in DOMAIN descriptors \ G : descriptors[m].dependsOn \subseteq G}
    BY <1>9, <1>12
  <1>14. Firsts(t.ordered, Len(t.ordered)) = G
    BY <1>5, <1>7
  <1>15. RoundInv(t)
    BY <1>8, <1>11, <1>13, <1>14 DEF RoundInv
  <1> QED
    BY <1>5, <1>15 DEF t

\* Every state of the loop is well; it has found a module in each round, or
\* none is left that could follow.
LEMMA RoundsWell ==
    ASSUME CatalogTypeOK, NEW n \in Nat, NEW f, Rounds(f, n)
    PROVE  \A k \in 0..n : /\ RoundInv(f[k])
                           /\ Len(f[k].ordered) = k \/ f[k].ready = {}
  <1> DEFINE P(k) == /\ RoundInv(f[k])
                     /\ Len(f[k].ordered) = k \/ f[k].ready = {}
             T == {k \in 0..n : ~P(k)}
  <1>1. \A k \in 0..n : f[k] = IF k = 0 THEN FirstRound ELSE Round(f[k - 1])
    BY Zenon DEF Rounds
  <1>2. P(0)
    <2>1. f[0] = FirstRound
      BY <1>1
    <2> QED
      BY <2>1, FirstRoundWell
  <1>3. ASSUME NEW k \in Nat, k + 1 \in T PROVE k \in T
    <2>1. k \in 0..n /\ k + 1 \in 0..n /\ k + 1 # 0 /\ (k + 1) - 1 = k
      BY <1>3
    <2>2. SUFFICES ASSUME P(k) PROVE P(k + 1)
      BY <1>3, <2>1
    <2>3. f[k + 1] = Round(f[k])
      BY <1>1, <2>1
    <2>4. CASE f[k].ready = {}
      BY <2>2, <2>3, <2>4 DEF Round
    <2>5. CASE f[k].ready # {}
      <3>1. RoundInv(Round(f[k])) /\ Len(Round(f[k]).ordered) = Len(f[k].ordered) + 1
        BY <2>2, <2>5, RoundWell
      <3> QED
        BY <2>2, <2>3, <2>5, <3>1
    <2> QED
      BY <2>4, <2>5
  <1>4. T = {}
    <2>1. T \in SUBSET Nat /\ 0 \notin T
      BY <1>2
    <2> HIDE DEF T
    <2> QED
      BY <1>3, <2>1, NoLeast
  <1> QED
    BY <1>4

\* What the loop leaves: some of the modules in order, all of them or none
\* that could follow.
LEMMA OrderedWell ==
    ASSUME CatalogTypeOK
    PROVE  /\ FoundWell(Ordered)
           /\ \/ Len(Ordered) = Cardinality(DOMAIN descriptors)
              \/ \A m \in DOMAIN descriptors :
                    \/ m \in Firsts(Ordered, Len(Ordered))
                    \/ ~(descriptors[m].dependsOn \subseteq Firsts(Ordered, Len(Ordered)))
  <1> DEFINE N == Cardinality(DOMAIN descriptors)
  <1>1. N \in Nat
    BY CatalogFinite
  <1>2. PICK f : Rounds(f, N) /\ Ordered = f[N].ordered
    BY <1>1, OrderedIs
  <1>3. RoundInv(f[N]) /\ (Len(f[N].ordered) = N \/ f[N].ready = {})
    BY <1>1, <1>2, RoundsWell
  <1> QED
    BY <1>2, <1>3 DEF RoundInv

\* An order as long as there are modules has them all.
LEMMA FullOrder ==
    ASSUME CatalogTypeOK, NEW p, FoundWell(p), Len(p) = Cardinality(DOMAIN descriptors)
    PROVE  /\ Range(p) = DOMAIN descriptors
           /\ Firsts(p, Len(p)) = DOMAIN descriptors
  <1> DEFINE N == Cardinality(DOMAIN descriptors)
  <1>1. N \in Nat /\ IsFiniteSet(DOMAIN descriptors) /\ Len(p) = N
    BY CatalogFinite
  <1>2. p \in [1..N -> DOMAIN descriptors]
    BY <1>1 DEF FoundWell
  <1>3. p \in Injection(1..N, DOMAIN descriptors)
    <2>1. ASSUME NEW a \in 1..N, NEW b \in 1..N, p[a] = p[b] PROVE a = b
      <3>1. a < b \/ b < a \/ a = b
        BY <1>1
      <3> QED
        BY <3>1, <2>1, <1>1 DEF FoundWell
    <2> QED
      BY <2>1, <1>2 DEF Injection, IsInjective
  <1>4. Cardinality(1..N) = N
    BY <1>1, FS_Interval
  <1>5. p \in Surjection(1..N, DOMAIN descriptors)
    BY <1>1, <1>3, <1>4, FS_Injection
  <1>6. \A d \in DOMAIN descriptors : \E i \in 1..N : p[i] = d
    BY <1>5 DEF Surjection
  <1> QED
    BY <1>1, <1>2, <1>6 DEF Range, Firsts

\* A catalog with an order of all modules has no cycle.
LEMMA OrderedAcyclic ==
    ASSUME CatalogTypeOK, NEW p, FoundWell(p), Range(p) = DOMAIN descriptors
    PROVE  Acyclic
  <1> SUFFICES ASSUME NEW S \in SUBSET DOMAIN descriptors, S # {}
               PROVE  \E m \in S : descriptors[m].dependsOn \cap S = {}
    BY DEF Acyclic
  <1> DEFINE T == {i \in 1..Len(p) : p[i] \in S}
  <1>1. p \in Seq(DOMAIN descriptors) /\ Len(p) \in Nat /\ DOMAIN p = 1..Len(p)
    BY DEF FoundWell
  <1>2. T \in SUBSET Nat /\ T # {}
    BY <1>1 DEF Range
  <1>3. PICK i \in T : \A j \in T : i <= j
    <2> HIDE DEF T
    <2> QED
      BY <1>2, LeastNat
  <1>4. descriptors[p[i]].dependsOn \subseteq Firsts(p, i - 1)
    BY <1>3 DEF FoundWell
  <1>5. Firsts(p, i - 1) \cap S = {}
    <2> SUFFICES ASSUME NEW j \in 1..(i - 1), p[j] \in S PROVE FALSE
      BY DEF Firsts
    <2>1. j \in T /\ ~(i <= j)
      BY <1>1, <1>3
    <2> QED
      BY <1>3, <2>1
  <1> QED
    BY <1>3, <1>4, <1>5

\* Found modules come in topological order.
LEMMA OrderedTopological ==
    ASSUME CatalogTypeOK, NEW p, FoundWell(p), Range(p) = DOMAIN descriptors
    PROVE  Topological(p)
  <1>1. p \in Seq(DOMAIN descriptors) /\ Len(p) \in Nat /\ DOMAIN p = 1..Len(p)
    BY DEF FoundWell
  <1>2. ASSUME NEW i \in DOMAIN p, NEW j \in DOMAIN p, i < j
        PROVE  p[i] # p[j] /\ p[j] \notin descriptors[p[i]].dependsOn
    <2>1. p[i] # p[j]
      BY <1>1, <1>2 DEF FoundWell
    <2>2. descriptors[p[i]].dependsOn \subseteq Firsts(p, i - 1)
      BY <1>1 DEF FoundWell
    <2>3. p[j] \notin Firsts(p, i - 1)
      <3> SUFFICES ASSUME NEW k \in 1..(i - 1), p[k] = p[j] PROVE FALSE
        BY DEF Firsts
      <3>1. k \in 1..Len(p) /\ j \in 1..Len(p) /\ k < j
        BY <1>1, <1>2
      <3> QED
        BY <3>1 DEF FoundWell
    <2> QED
      BY <2>1, <2>2, <2>3
  <1> QED
    BY <1>2 DEF Topological

\* Of all topological orders the one found comes first.
LEMMA OrderedFirst ==
    ASSUME CatalogTypeOK, Accepted, NEW p, FoundWell(p), Range(p) = DOMAIN descriptors,
           NEW q \in [1..Len(p) -> Modules], Topological(q)
    PROVE  q = p \/ Precedes(p, q)
  <1> DEFINE n == Len(p)
             T == {i \in 1..n : p[i] # q[i]}
  <1>1. p \in Seq(DOMAIN descriptors) /\ n \in Nat /\ DOMAIN p = 1..n /\ DOMAIN q = 1..n
    BY DEF FoundWell
  <1>2. CASE T = {}
    <2>1. \A i \in 1..n : p[i] = q[i]
      BY <1>2
    <2>2. p = [i \in 1..n |-> p[i]] /\ q = [i \in 1..n |-> q[i]]
      BY <1>1
    <2>3. p = q
      BY <2>1, <2>2
    <2> QED
      BY <2>3
  <1>3. CASE T # {}
    <2>1. T \in SUBSET Nat
      BY <1>1
    <2>2. PICK i \in T : \A j \in T : i <= j
      <3> HIDE DEF T
      <3> QED
        BY <1>3, <2>1, LeastNat
    <2>3. i \in 1..n /\ p[i] # q[i]
      BY <2>2
    <2>4. \A j \in 1..(i - 1) : p[j] = q[j]
      <3> SUFFICES ASSUME NEW j \in 1..(i - 1), p[j] # q[j] PROVE FALSE
        OBVIOUS
      <3>1. j \in T /\ ~(i <= j)
        BY <1>1, <2>3
      <3> QED
        BY <2>2, <3>1
    <2>5. Firsts(p, i - 1) = Firsts(q, i - 1)
      BY <2>4 DEF Firsts
    <2>6. q[i] \in DOMAIN descriptors
      BY <1>1, <2>3 DEF Topological, Range
    <2>7. q[i] \notin Firsts(q, i - 1)
      <3> SUFFICES ASSUME NEW j \in 1..(i - 1), q[j] = q[i] PROVE FALSE
        BY DEF Firsts
      <3>1. j \in 1..n /\ j < i
        BY <1>1, <2>3
      <3> QED
        BY <1>1, <2>3, <3>1 DEF Topological
    <2>8. descriptors[q[i]].dependsOn \subseteq Firsts(q, i - 1)
      <3> SUFFICES ASSUME NEW d \in descriptors[q[i]].dependsOn
                   PROVE  d \in Firsts(q, i - 1)
        OBVIOUS
      <3>1. d \in DOMAIN descriptors
        BY <2>6 DEF Accepted
      <3>2. PICK k \in 1..n : d = q[k]
        BY <1>1, <3>1 DEF Topological, Range
      <3>3. ~(i < k)
        BY <1>1, <2>3, <3>2 DEF Topological
      <3>4. k # i
        <4>1. PICK a \in 1..n : p[a] = q[i]
          BY <1>1, <2>6 DEF Range
        <4>2. descriptors[p[a]].dependsOn \subseteq Firsts(p, a - 1)
          BY DEF FoundWell
        <4>3. p[a] \notin Firsts(p, a - 1)
          <5> SUFFICES ASSUME NEW b \in 1..(a - 1), p[b] = p[a] PROVE FALSE
            BY DEF Firsts
          <5>1. b \in 1..n /\ b < a
            BY <1>1
          <5> QED
            BY <1>1, <5>1 DEF FoundWell
        <4> QED
          BY <3>2, <4>1, <4>2, <4>3
      <3>5. k \in 1..(i - 1)
        BY <1>1, <2>3, <3>2, <3>3, <3>4
      <3> QED
        BY <3>2, <3>5 DEF Firsts
    <2>9. p[i] <= q[i]
      BY <2>3, <2>5, <2>6, <2>7, <2>8 DEF FoundWell
    <2>10. p[i] \in Nat /\ q[i] \in Nat
      BY <1>1, <2>3, <2>6, CatalogFinite
    <2>11. p[i] < q[i]
      BY <2>3, <2>9, <2>10
    <2> QED
      BY <1>1, <2>3, <2>4, <2>11 DEF Precedes
  <1> QED
    BY <1>2, <1>3

\* Seal resolves exactly the catalogs that have an order.
LEMMA ResolvesIff ==
    ASSUME CatalogTypeOK PROVE Resolves <=> Accepted /\ Acyclic
  <1> DEFINE p == Ordered
             F == Firsts(p, Len(p))
  <1>1. FoundWell(p)
    BY OrderedWell
  <1>2. ASSUME Resolves PROVE Accepted /\ Acyclic
    <2>1. Accepted /\ Len(p) = Cardinality(DOMAIN descriptors)
      BY <1>2 DEF Resolves
    <2> QED
      BY <1>1, <2>1, FullOrder, OrderedAcyclic
  <1>3. ASSUME Accepted, Acyclic, Len(p) # Cardinality(DOMAIN descriptors) PROVE FALSE
    <2> DEFINE S == DOMAIN descriptors \ F
    <2>1. \A m \in DOMAIN descriptors : m \in F \/ ~(descriptors[m].dependsOn \subseteq F)
      BY <1>3, OrderedWell
    <2>2. S # {}
      <3>1. SUFFICES ASSUME DOMAIN descriptors \subseteq F PROVE FALSE
        OBVIOUS
      <3>2. p \in Seq(DOMAIN descriptors) /\ Len(p) \in Nat
        BY <1>1 DEF FoundWell
      <3>3. p \in [1..Len(p) -> DOMAIN descriptors]
        BY <3>2
      <3>4. ASSUME NEW a \in 1..Len(p), NEW b \in 1..Len(p), p[a] = p[b] PROVE a = b
        <4>1. a < b \/ b < a \/ a = b
          BY <3>2
        <4> QED
          BY <4>1, <3>4, <1>1 DEF FoundWell
      <3>5. p \in Injection(1..Len(p), DOMAIN descriptors)
        BY <3>3, <3>4 DEF Injection, IsInjective
      <3>6. \A d \in DOMAIN descriptors : \E i \in 1..Len(p) : p[i] = d
        BY <3>1 DEF Firsts
      <3>7. p \in Surjection(1..Len(p), DOMAIN descriptors)
        BY <3>3, <3>6 DEF Surjection
      <3>8. Cardinality(1..Len(p)) = Len(p)
        <4>1. \A k \in Nat : Cardinality(1..k) = k
          BY FS_Interval
        <4> QED
          BY <3>2, <4>1
      <3>9. IsFiniteSet(DOMAIN descriptors)
        BY CatalogFinite
      <3> QED
        BY <1>3, <3>5, <3>7, <3>8, <3>9, FS_Injection
    <2>3. PICK m \in S : descriptors[m].dependsOn \cap S = {}
      BY <1>3, <2>2 DEF Acyclic
    <2>4. descriptors[m].dependsOn \subseteq DOMAIN descriptors
      BY <1>3, <2>3 DEF Accepted
    <2> QED
      BY <2>1, <2>3, <2>4
  <1> QED
    BY <1>2, <1>3 DEF Resolves

\* The catalog: types, and a plan that is what resolvePlan found.
CatalogInv ==
    /\ CatalogTypeOK
    /\ sealed # "sealed" => plan = << >>
    /\ sealed = "refused" => ~(Accepted /\ Acyclic)
    /\ sealed = "sealed" =>
        Accepted /\ FoundWell(plan) /\ Range(plan) = DOMAIN descriptors

\* Only registration and sealing touch the catalog.
LEMMA CatalogSteps ==
    ASSUME [Next]_vars
    PROVE  \/ UNCHANGED catalogVars
           \/ boot = "register" /\ \E m \in Modules : Register(m)
           \/ boot = "seal" /\ Seal
  <1>1. CASE RegisterModule
    BY <1>1 DEF RegisterModule
  <1>2. CASE BootStep
    BY <1>2 DEF BootStep, MainBegins, Listen, SealCatalog, PrepareFactory, Build,
                Discarded, Wire, RunBegins, BootStarts, BootStarted, Publish, GiveUp
  <1>3. CASE Unwound \/ RunReturns \/ (\E p \in Stoppers : CallShutdown(p))
             \/ DeadlinePasses \/ EnvironmentStep \/ ProbeBegins \/ ProbeAsks
             \/ UNCHANGED vars
    BY <1>3 DEF Unwound, RunReturns, CallShutdown, DeadlinePasses, EnvironmentStep,
                ServerStep, BusStep, ProbeBegins, ProbeAsks, vars
  <1>4. CASE LockStep
    BY <1>4 DEF LockStep, HolderStep, StartFactory, StartModule, StopModule,
                StartComponent, StopComponent, ComponentStops, StopFactory, CloseBus,
                BusCloses, ShutdownTakesLock
  <1> QED
    BY <1>1, <1>2, <1>3, <1>4 DEF Next

\* Registering and sealing keep the catalog as CatalogInv says.
LEMMA CatalogStep ==
    ASSUME CatalogInv, [Next]_vars PROVE CatalogInv'
  <1>1. CASE UNCHANGED catalogVars
    <2>1. descriptors' = descriptors /\ sealed' = sealed /\ plan' = plan
      BY <1>1 DEF catalogVars
    <2>2. /\ (Accepted' <=> Accepted) /\ (Acyclic' <=> Acyclic)
          /\ (FoundWell(plan)' <=> FoundWell(plan))
          /\ (CatalogTypeOK' <=> CatalogTypeOK)
          /\ Range(plan)' = Range(plan)
      BY <2>1 DEF Accepted, Acyclic, FoundWell, CatalogTypeOK
    <2> QED
      BY <2>1, <2>2 DEF CatalogInv
  <1>2. ASSUME NEW m \in Modules, Register(m) PROVE CatalogInv'
    <2>1. PICK d \in Offered[m] :
             descriptors' = [x \in DOMAIN descriptors \cup {m} |->
                               IF x = m THEN d ELSE descriptors[x]]
      BY <1>2 DEF Register
    <2>2. sealed # "sealed" /\ sealed' = "open" /\ plan' = plan
      BY <1>2 DEF Register
    <2>3. d \in Descriptor
      BY <2>1, CatalogAssumption
    <2>4. /\ DOMAIN descriptors \subseteq Modules
          /\ \A x \in DOMAIN descriptors : descriptors[x] \in Descriptor
          /\ plan \in Seq(Modules)
      BY DEF CatalogInv, CatalogTypeOK
    <2>5. DOMAIN descriptors' \subseteq Modules
      BY <2>1, <2>4
    <2>6. \A x \in DOMAIN descriptors' : descriptors'[x] \in Descriptor
      BY <2>1, <2>3, <2>4
    <2>7. CatalogTypeOK'
      BY <2>2, <2>4, <2>5, <2>6 DEF CatalogTypeOK
    <2> QED
      BY <2>2, <2>7 DEF CatalogInv
  <1>3. CASE Seal
    <2>1. /\ descriptors' = descriptors
          /\ \/ Resolves /\ sealed' = "sealed" /\ plan' = Ordered
             \/ ~Resolves /\ sealed' = "refused" /\ plan' = plan /\ sealed # "sealed"
      BY <1>3 DEF Seal
    <2>2. CatalogTypeOK /\ DOMAIN descriptors \subseteq Modules
      BY DEF CatalogInv, CatalogTypeOK
    <2>3. (Accepted' <=> Accepted) /\ (Acyclic' <=> Acyclic)
      BY <2>1 DEF Accepted, Acyclic
    <2>4. CASE Resolves /\ sealed' = "sealed" /\ plan' = Ordered
      <3>1. Accepted /\ Len(Ordered) = Cardinality(DOMAIN descriptors)
        BY <2>4 DEF Resolves
      <3>2. FoundWell(Ordered)
        BY <2>2, OrderedWell
      <3>3. Range(Ordered) = DOMAIN descriptors
        BY <2>2, <3>1, <3>2, FullOrder
      <3> DEFINE p == Ordered
      <3> HIDE DEF p
      <3>4. plan' = p /\ FoundWell(p) /\ Range(p) = DOMAIN descriptors
        BY <2>4, <3>2, <3>3 DEF p
      <3>5. FoundWell(plan)'
        BY <2>1, <3>4 DEF FoundWell, Firsts
      <3>6. plan' \in Seq(Modules)
        BY <2>2, <3>4 DEF FoundWell
      <3>7. CatalogTypeOK'
        BY <2>1, <2>2, <2>4, <3>6 DEF CatalogTypeOK
      <3>8. Range(plan)' = DOMAIN descriptors'
        BY <2>1, <3>4
      <3> QED
        BY <2>3, <2>4, <3>1, <3>5, <3>7, <3>8 DEF CatalogInv
    <2>5. CASE ~Resolves /\ sealed' = "refused" /\ plan' = plan /\ sealed # "sealed"
      <3>1. ~(Accepted /\ Acyclic)
        BY <2>2, <2>5, ResolvesIff
      <3>2. CatalogTypeOK'
        BY <2>1, <2>2, <2>5 DEF CatalogTypeOK
      <3> QED
        BY <2>3, <2>5, <3>1, <3>2 DEF CatalogInv
    <2> QED
      BY <2>1, <2>4, <2>5
  <1> QED
    BY <1>1, <1>2, <1>3, CatalogSteps

\* The catalog is sound in every process that Boot runs (catalog.go).
LEMMA CatalogHolds == Spec => []CatalogInv
  <1>1. Init => CatalogInv
    <2> SUFFICES ASSUME Init PROVE CatalogInv
      OBVIOUS
    <2>1. descriptors = << >> /\ sealed = "open" /\ plan = << >>
      BY DEF Init, CatalogInit
    <2>2. DOMAIN << >> = {} /\ << >> \in Seq(Modules)
      OBVIOUS
    <2> QED
      BY <2>1, <2>2 DEF CatalogInv, CatalogTypeOK
  <1>2. CatalogInv /\ [Next]_vars => CatalogInv'
    BY CatalogStep
  <1> QED
    BY <1>1, <1>2, PTL DEF Spec

\* Seal accepts exactly the catalogs that have an order, and gives the first
\* of all orders by name, for any number of modules.
THEOREM PlanComesFirst == Spec => []PlanIsFirstOrder
  <1>1. CatalogInv => PlanIsFirstOrder
    <2> SUFFICES ASSUME CatalogInv PROVE PlanIsFirstOrder
      OBVIOUS
    <2>1. CatalogTypeOK
      BY DEF CatalogInv
    <2>2. CASE sealed = "sealed"
      <3>1. Accepted /\ FoundWell(plan) /\ Range(plan) = DOMAIN descriptors
        BY <2>2 DEF CatalogInv
      <3>2. Acyclic /\ Topological(plan)
        BY <2>1, <3>1, OrderedAcyclic, OrderedTopological
      <3>3. \A q \in [1..Len(plan) -> Modules] :
              Topological(q) => q = plan \/ Precedes(plan, q)
        BY <2>1, <3>1, OrderedFirst
      <3> QED
        BY <2>2, <3>1, <3>2, <3>3 DEF PlanIsFirstOrder
    <2>3. CASE sealed # "sealed"
      BY <2>3 DEF CatalogInv, PlanIsFirstOrder
    <2> QED
      BY <2>2, <2>3
  <1> QED
    BY <1>1, CatalogHolds, PTL

---------------------------------------------------------------------------
(* The invariant of the process *)

Early == {"register", "listen", "seal", "prepare", "build", "discard"}

Unwinding == phase \in {"rollback", "stopping", "discard"}

\* Who does what: where Boot is, what the App says, and who holds the lock.
Stages ==
    /\ boot \in Early => app = "none"
    /\ app = "none" => /\ boot \in Early \cup {"failed"}
                       /\ phase \in {"idle", "discard"} /\ holder = Nobody
                       /\ \A p \in Callers : shutdown[p] = "idle"
    /\ boot = "discard" <=> phase = "discard"
    /\ boot = "starting" <=> phase \in {"starting", "rollback"}
    /\ phase \in {"starting", "rollback"} => holder = Boot /\ app = "starting"
    /\ holder # Nobody <=> phase \in {"starting", "rollback", "stopping"}
    /\ \A p \in Callers : shutdown[p] = "holding" <=> phase = "stopping" /\ holder = p
    /\ app = "stopping" => phase = "stopping"
    /\ app = "starting" => boot = "starting"
    /\ app = "ready" => phase = "idle" /\ boot \in {"publish", "up", "over"}

\* Modules are built along the plan.
BuiltAlongPlan ==
    /\ boot \in {"register", "listen", "seal"} => sealed # "sealed"
    /\ boot \in {"register", "listen", "seal", "prepare"} => built = << >>
    /\ Len(built) <= Len(plan)
    /\ \A i \in 1..Len(built) : built[i] = plan[i]
    /\ \A m \in Modules : module[m] # "absent" <=> m \in Range(built)
    /\ \A m \in Modules : M(m) \in Range(todo) => m \in Range(built)

\* The resources are open exactly while the provider has them.
ResourcesOwned ==
    /\ \A r \in Resources : opened[r] \in {0, 1}
    /\ provider \in {"prepared", "started"} =>
        /\ owned = Required
        /\ \A r \in Resources : closed[r] = 0 /\ (opened[r] = 1 <=> r \in owned)
    /\ provider \notin {"prepared", "started"} => \A r \in Resources : closed[r] = opened[r]
    /\ provider \in {"static", "new"} => owned = {}
    /\ boot \in {"register", "listen", "seal", "prepare"} =>
        provider \in {"static", "new"} /\ \A r \in Resources : opened[r] = 0

\* x may stand before y among the parts that are to be started, b being what
\* was built.
StartsBefore(b, x, y) ==
    /\ y # Factory
    /\ \A i, j \in 1..Len(b) : x = M(b[i]) /\ y = M(b[j]) => i < j
    /\ \A c \in Components : x = C(c) => \E d \in Components : y = C(d) /\ c < d

\* A component that is still to be stopped.
Transport(x) == \E c \in Components : x \in {C(c), Draining(c)}

\* x may stand before y among the parts that are to be stopped.
StopsBefore(b, x, y) ==
    /\ x = Factory => \A m \in Modules : y # M(m)
    /\ \A i, j \in 1..Len(b) : x = M(b[i]) /\ y = M(b[j]) => j < i
    /\ Transport(y) => Transport(x)
    /\ x \in {Bus, BusClosing} => y \notin {Bus, BusClosing}

StartOrder(b, q) == \A i, j \in 1..Len(q) : i < j => StartsBefore(b, q[i], q[j])
StopOrder(b, q) == \A i, j \in 1..Len(q) : i < j => StopsBefore(b, q[i], q[j])

\* While Start works: what is not in its list is started.
StartList ==
    phase = "starting" =>
        /\ StartOrder(built, todo)
        /\ Factory \in Range(todo) \/ provider \in {"static", "started"}
        /\ \A m \in Range(built) : M(m) \in Range(todo) \/ module[m] = "up"
        /\ \A c \in Components : C(c) \in Range(todo) \/ c \in started \ stopping
        /\ \A c \in started, d \in Components : C(d) \in Range(todo) => c < d
        /\ started # {} => \A x \in Range(todo) : \E d \in Components : x = C(d)

\* While something is unwound: what is not in the list is stopped.
StopList ==
    Unwinding =>
        /\ StopOrder(built, todo)
        /\ Factory \in Range(todo) \/ provider \in {"static", "stopped"}
        /\ \A m \in Range(built) : M(m) \in Range(todo) \/ module[m] = "down"
        /\ \A c \in Components :
             c \in started \/ phase = "stopping" => c \in stopping \/ C(c) \in Range(todo)
        /\ (\E x \in Range(todo) : Transport(x)) =>
             \A m \in Range(built) : M(m) \in Range(todo)
        /\ bus = "open" => Bus \in Range(todo)
        /\ phase = "discard" => \A x \in Range(todo) : ~Transport(x)

\* Modules are up in the order of the plan and on top of the provider's
\* resources, and down only when those go.
UpInOrder ==
    /\ \A i, j \in 1..Len(built) :
        i < j /\ module[built[j]] = "up" => module[built[i]] = "up"
    /\ \A m \in Modules : module[m] = "up" => provider \in {"static", "started"}
    /\ \A m \in Modules :
        module[m] = "down" /\ ~Unwinding => provider \in {"static", "stopped"}

\* Servers are behind the modules: they take requests while all are up, and
\* once told to stop keep those that are in flight only while they drain.
ServersBehind ==
    /\ boot \in Early \cup {"wire", "start"} => started = {}
    /\ \A r \in Requests : request[r] # None => request[r] \in started
    /\ started \ stopping # {} => \A m \in Range(built) : module[m] = "up"
    /\ RequestsFindModules
    /\ \A c \in stopping : \/ forced
                           \/ ~InFlight(c)
                           \/ Unwinding /\ Draining(c) \in Range(todo)
    /\ \A s \in Servers : s \in stopping => listener[s] # "open"
    /\ app = "none" => stopping = {}
    /\ app = "ready" => started = Components /\ stopping = {}
    /\ app = "stopped" => stopping = Components
    /\ boot = "failed" /\ way = "bootstrap" => \A s \in Servers : listener[s] # "open"

\* Nothing is delayed by a bus that was closed, nor before there are modules.
BusQuiet ==
    /\ bus = "closing" => Unwinding /\ BusClosing \in Range(todo)
    /\ bus = "closed" => \A p \in Publications : delayed[p] \notin {"armed", "running"}
    /\ built = << >> => \A p \in Publications : delayed[p] = "none"

\* Nobody works on an App that is over, or will start it.
Over ==
    /\ phase = "idle"
    /\ \/ app \in {"stopped", "failed"}
       \/ boot = "failed"
       \/ boot = "giveup" /\ shutdown[Boot] \in {"idle", "returned"}

Clean ==
    Over =>
        /\ \A m \in Range(built) : module[m] = "down"
        /\ provider \notin {"prepared", "started"}
        /\ started \subseteq stopping
        /\ bus = "closed" \/ built = << >>

\* A probe that has found the App ready has not yet asked a server that was
\* gone when it began.
ProbeHonest ==
    probe.at # 0 =>
        /\ boot \in {"up", "over"}
        /\ (probe.ready /\ app = "ready" /\ ~probe.sound) => \E s \in exited : s >= probe.at

HostInv ==
    /\ TypeOK /\ Stages /\ BuiltAlongPlan /\ ResourcesOwned /\ StartList /\ StopList
    /\ UpInOrder /\ ServersBehind /\ BusQuiet /\ Clean /\ ProbeHonest

---------------------------------------------------------------------------
(* Lists of parts *)

\* Parts of different kinds differ, and so do those of different numbers.
LEMMA PartsDiffer ==
    /\ \A x, y : (M(x) = M(y) => x = y) /\ (C(x) = C(y) => x = y)
                 /\ (Draining(x) = Draining(y) => x = y)
    /\ \A x, y : M(x) # C(y) /\ M(x) # Draining(y) /\ C(x) # Draining(y)
    /\ \A x : /\ M(x) \notin {Factory, Bus, BusClosing}
              /\ C(x) \notin {Factory, Bus, BusClosing}
              /\ Draining(x) \notin {Factory, Bus, BusClosing}
    /\ Factory # Bus /\ Factory # BusClosing /\ Bus # BusClosing
  BY DEF M, C, Draining, Factory, Bus, BusClosing

\* The parts that the lists are made of.
LEMMA PartsAre ==
    /\ \A m \in Modules : M(m) \in Parts
    /\ \A c \in Components : C(c) \in Parts /\ Draining(c) \in Parts
    /\ Factory \in Parts /\ Bus \in Parts /\ BusClosing \in Parts
  BY DEF Parts

\* Only components, and those that drain, are transports.
LEMMA NotTransport ==
    /\ \A m : ~Transport(M(m))
    /\ ~Transport(Factory) /\ ~Transport(Bus) /\ ~Transport(BusClosing)
    /\ \A c \in Components : Transport(C(c)) /\ Transport(Draining(c))
  BY PartsDiffer DEF Transport

\* A list that is not empty is its head and its tail.
LEMMA TailIs ==
    ASSUME NEW q \in Seq(Parts), q # << >>
    PROVE  /\ Tail(q) \in Seq(Parts) /\ Head(q) \in Parts
           /\ Len(Tail(q)) + 1 = Len(q)
           /\ \A i \in 1..Len(Tail(q)) : i + 1 \in 1..Len(q) /\ Tail(q)[i] = q[i + 1]
           /\ 1 \in 1..Len(q) /\ q[1] = Head(q)
           /\ Range(q) = {Head(q)} \cup Range(Tail(q))
  <1>1. /\ Tail(q) \in Seq(Parts) /\ Head(q) \in Parts
        /\ Len(q) \in Nat /\ Len(q) > 0 /\ Len(Tail(q)) = Len(q) - 1
        /\ q[1] = Head(q)
        /\ \A i \in 1..Len(Tail(q)) : Tail(q)[i] = q[i + 1]
    OBVIOUS
  <1>2. DOMAIN q = 1..Len(q) /\ DOMAIN Tail(q) = 1..Len(Tail(q))
    BY <1>1
  <1>3. \A i \in 1..Len(Tail(q)) : i + 1 \in 1..Len(q)
    BY <1>1
  <1>4. \A i \in 1..Len(q) : i = 1 \/ (i - 1 \in 1..Len(Tail(q)) /\ (i - 1) + 1 = i)
    BY <1>1
  <1>5. Range(q) \subseteq {Head(q)} \cup Range(Tail(q))
    <2> SUFFICES ASSUME NEW i \in 1..Len(q) PROVE q[i] \in {Head(q)} \cup Range(Tail(q))
      BY <1>2 DEF Range
    <2>1. CASE i = 1
      BY <1>1, <2>1
    <2>2. CASE i # 1
      <3>1. i - 1 \in 1..Len(Tail(q)) /\ Tail(q)[i - 1] = q[i]
        BY <1>1, <1>4, <2>2
      <3> QED
        BY <1>2, <3>1 DEF Range
    <2> QED
      BY <2>1, <2>2
  <1>6. {Head(q)} \cup Range(Tail(q)) \subseteq Range(q)
    BY <1>1, <1>2, <1>3 DEF Range
  <1> QED
    BY <1>1, <1>3, <1>5, <1>6

\* The same list with another head.
LEMMA ConsIs ==
    ASSUME NEW q \in Seq(Parts), NEW x \in Parts
    PROVE  /\ <<x>> \o q \in Seq(Parts)
           /\ Len(<<x>> \o q) = Len(q) + 1
           /\ (<<x>> \o q)[1] = x
           /\ \A i \in 2..(Len(q) + 1) : (<<x>> \o q)[i] = q[i - 1]
           /\ Range(<<x>> \o q) = {x} \cup Range(q)
  <1> DEFINE r == <<x>> \o q
  <1>1. /\ r \in Seq(Parts) /\ Len(r) = Len(q) + 1 /\ r[1] = x
        /\ \A i \in 2..(Len(q) + 1) : r[i] = q[i - 1]
        /\ Len(q) \in Nat
    OBVIOUS
  <1> HIDE DEF r
  <1>2. DOMAIN r = 1..(Len(q) + 1) /\ DOMAIN q = 1..Len(q)
    BY <1>1
  <1>3. \A i \in 1..(Len(q) + 1) : i = 1 \/ (i \in 2..(Len(q) + 1) /\ i - 1 \in 1..Len(q))
    BY <1>1
  <1>4. \A i \in 1..Len(q) : i + 1 \in 2..(Len(q) + 1) /\ (i + 1) - 1 = i
                             /\ i + 1 \in 1..(Len(q) + 1)
    BY <1>1
  <1>5. Range(r) \subseteq {x} \cup Range(q)
    <2> SUFFICES ASSUME NEW i \in 1..(Len(q) + 1) PROVE r[i] \in {x} \cup Range(q)
      BY <1>2 DEF Range
    <2> QED
      BY <1>1, <1>2, <1>3 DEF Range
  <1>6. {x} \cup Range(q) \subseteq Range(r)
    <2>1. x \in Range(r)
      <3>1. 1 \in 1..(Len(q) + 1)
        BY <1>1
      <3> QED
        BY <1>1, <1>2, <3>1 DEF Range
    <2>2. \A i \in 1..Len(q) : q[i] \in Range(r)
      BY <1>1, <1>2, <1>4 DEF Range
    <2> QED
      BY <1>2, <2>1, <2>2 DEF Range
  <1> QED
    BY <1>1, <1>5, <1>6 DEF r

\* The tail of an ordered list is ordered, behind its head.
LEMMA StartTail ==
    ASSUME NEW b, NEW q \in Seq(Parts), q # << >>, StartOrder(b, q)
    PROVE  StartOrder(b, Tail(q)) /\ \A y \in Range(Tail(q)) : StartsBefore(b, Head(q), y)
  <1>1. /\ Tail(q) \in Seq(Parts) /\ Len(q) \in Nat /\ Len(Tail(q)) \in Nat
        /\ \A i \in 1..Len(Tail(q)) : i + 1 \in 1..Len(q) /\ Tail(q)[i] = q[i + 1]
        /\ 1 \in 1..Len(q) /\ q[1] = Head(q)
    BY TailIs
  <1>2. ASSUME NEW i \in 1..Len(Tail(q)), NEW j \in 1..Len(Tail(q)), i < j
        PROVE  StartsBefore(b, Tail(q)[i], Tail(q)[j])
    <2>1. i + 1 < j + 1 /\ i + 1 \in 1..Len(q) /\ j + 1 \in 1..Len(q)
      BY <1>1, <1>2
    <2> QED
      BY <1>1, <2>1 DEF StartOrder
  <1>3. ASSUME NEW j \in 1..Len(Tail(q)) PROVE StartsBefore(b, Head(q), Tail(q)[j])
    <2>1. 1 < j + 1 /\ j + 1 \in 1..Len(q)
      BY <1>1
    <2> QED
      BY <1>1, <2>1 DEF StartOrder
  <1>4. \A y \in Range(Tail(q)) : \E j \in 1..Len(Tail(q)) : y = Tail(q)[j]
    BY <1>1 DEF Range
  <1> QED
    BY <1>2, <1>3, <1>4 DEF StartOrder

\* The same for parts that are to be stopped.
LEMMA StopTail ==
    ASSUME NEW b, NEW q \in Seq(Parts), q # << >>, StopOrder(b, q)
    PROVE  StopOrder(b, Tail(q)) /\ \A y \in Range(Tail(q)) : StopsBefore(b, Head(q), y)
  <1>1. /\ Tail(q) \in Seq(Parts) /\ Len(q) \in Nat /\ Len(Tail(q)) \in Nat
        /\ \A i \in 1..Len(Tail(q)) : i + 1 \in 1..Len(q) /\ Tail(q)[i] = q[i + 1]
        /\ 1 \in 1..Len(q) /\ q[1] = Head(q)
    BY TailIs
  <1>2. ASSUME NEW i \in 1..Len(Tail(q)), NEW j \in 1..Len(Tail(q)), i < j
        PROVE  StopsBefore(b, Tail(q)[i], Tail(q)[j])
    <2>1. i + 1 < j + 1 /\ i + 1 \in 1..Len(q) /\ j + 1 \in 1..Len(q)
      BY <1>1, <1>2
    <2> QED
      BY <1>1, <2>1 DEF StopOrder
  <1>3. ASSUME NEW j \in 1..Len(Tail(q)) PROVE StopsBefore(b, Head(q), Tail(q)[j])
    <2>1. 1 < j + 1 /\ j + 1 \in 1..Len(q)
      BY <1>1
    <2> QED
      BY <1>1, <2>1 DEF StopOrder
  <1>4. \A y \in Range(Tail(q)) : \E j \in 1..Len(Tail(q)) : y = Tail(q)[j]
    BY <1>1 DEF Range
  <1> QED
    BY <1>2, <1>3, <1>4 DEF StopOrder

\* A head that may stand before all the rest can be put in front.
LEMMA StopCons ==
    ASSUME NEW b, NEW q \in Seq(Parts), NEW x \in Parts, StopOrder(b, q),
           \A y \in Range(q) : StopsBefore(b, x, y)
    PROVE  StopOrder(b, <<x>> \o q)
  <1> DEFINE r == <<x>> \o q
  <1>1. /\ Len(r) = Len(q) + 1 /\ r[1] = x /\ Len(q) \in Nat
        /\ \A i \in 2..(Len(q) + 1) : r[i] = q[i - 1]
    BY ConsIs
  <1> HIDE DEF r
  <1>2. \A i \in 1..Len(q) : q[i] \in Range(q)
    BY DEF Range
  <1>3. ASSUME NEW i \in 1..Len(r), NEW j \in 1..Len(r), i < j
        PROVE  StopsBefore(b, r[i], r[j])
    <2>1. j \in 2..(Len(q) + 1) /\ j - 1 \in 1..Len(q) /\ r[j] = q[j - 1]
      BY <1>1, <1>3
    <2>2. CASE i = 1
      BY <1>1, <1>2, <2>1, <2>2
    <2>3. CASE i # 1
      <3>1. i \in 2..(Len(q) + 1) /\ i - 1 \in 1..Len(q) /\ r[i] = q[i - 1] /\ i - 1 < j - 1
        BY <1>1, <1>3, <2>3
      <3> QED
        BY <2>1, <3>1 DEF StopOrder
    <2> QED
      BY <2>2, <2>3
  <1> QED
    BY <1>3 DEF StopOrder, r

\* A list of one part.
LEMMA SingleIs ==
    ASSUME NEW x \in Parts
    PROVE  <<x>> \in Seq(Parts) /\ Len(<<x>>) = 1 /\ Range(<<x>>) = {x}
  <1>1. <<x>> \in Seq(Parts) /\ Len(<<x>>) = 1 /\ DOMAIN <<x>> = 1..1 /\ <<x>>[1] = x
    OBVIOUS
  <1>2. 1..1 = {1}
    OBVIOUS
  <1> QED
    BY <1>1, <1>2 DEF Range

\* Two lists in a row.
LEMMA ConcatIs ==
    ASSUME NEW p \in Seq(Parts), NEW q \in Seq(Parts)
    PROVE  /\ p \o q \in Seq(Parts) /\ Len(p \o q) = Len(p) + Len(q)
           /\ \A i \in 1..Len(p) : (p \o q)[i] = p[i]
           /\ \A i \in 1..Len(q) : (p \o q)[Len(p) + i] = q[i]
           /\ \A i \in 1..(Len(p) + Len(q)) :
                 i \in 1..Len(p) \/ (i - Len(p) \in 1..Len(q) /\ (p \o q)[i] = q[i - Len(p)])
           /\ Range(p \o q) = Range(p) \cup Range(q)
  <1> DEFINE r == p \o q
  <1>1. /\ r \in Seq(Parts) /\ Len(r) = Len(p) + Len(q) /\ Len(p) \in Nat
        /\ Len(q) \in Nat
        /\ \A i \in 1..(Len(p) + Len(q)) :
              r[i] = IF i <= Len(p) THEN p[i] ELSE q[i - Len(p)]
    OBVIOUS
  <1> HIDE DEF r
  <1>2. DOMAIN r = 1..(Len(p) + Len(q)) /\ DOMAIN p = 1..Len(p) /\ DOMAIN q = 1..Len(q)
    BY <1>1
  <1>3. \A i \in 1..Len(p) : i \in 1..(Len(p) + Len(q)) /\ r[i] = p[i]
    BY <1>1
  <1>4. ASSUME NEW i \in 1..Len(q)
        PROVE  Len(p) + i \in 1..(Len(p) + Len(q)) /\ r[Len(p) + i] = q[i]
    <2>1. /\ Len(p) + i \in 1..(Len(p) + Len(q)) /\ ~(Len(p) + i <= Len(p))
          /\ (Len(p) + i) - Len(p) = i
      BY <1>1
    <2> QED
      BY <1>1, <2>1
  <1>5. \A i \in 1..(Len(p) + Len(q)) :
           i \in 1..Len(p) \/ (i - Len(p) \in 1..Len(q) /\ r[i] = q[i - Len(p)])
    BY <1>1
  <1>6. Range(r) = Range(p) \cup Range(q)
    <2>1. \A x \in Range(r) : x \in Range(p) \cup Range(q)
      BY <1>2, <1>3, <1>5 DEF Range
    <2>2. \A x \in Range(p) : x \in Range(r)
      BY <1>2, <1>3 DEF Range
    <2>3. \A x \in Range(q) : x \in Range(r)
      BY <1>2, <1>4 DEF Range
    <2> QED
      BY <2>1, <2>2, <2>3
  <1> QED
    BY <1>1, <1>3, <1>4, <1>5, <1>6 DEF r

\* Two lists in a row are in the order of a shutdown when every part of the
\* first may stand before every part of the second ...
LEMMA StopConcat ==
    ASSUME NEW b, NEW p \in Seq(Parts), NEW q \in Seq(Parts),
           StopOrder(b, p), StopOrder(b, q),
           \A x \in Range(p), y \in Range(q) : StopsBefore(b, x, y)
    PROVE  StopOrder(b, p \o q)
  <1> DEFINE r == p \o q
  <1>1. /\ Len(r) = Len(p) + Len(q) /\ Len(p) \in Nat /\ Len(q) \in Nat
        /\ \A i \in 1..Len(p) : r[i] = p[i]
        /\ \A i \in 1..(Len(p) + Len(q)) :
              i \in 1..Len(p) \/ (i - Len(p) \in 1..Len(q) /\ r[i] = q[i - Len(p)])
    BY ConcatIs
  <1> HIDE DEF r
  <1>2. /\ \A i \in 1..Len(p) : p[i] \in Range(p)
        /\ \A i \in 1..Len(q) : q[i] \in Range(q)
    BY DEF Range
  <1>3. ASSUME NEW i \in 1..Len(r), NEW j \in 1..Len(r), i < j
        PROVE  StopsBefore(b, r[i], r[j])
    <2>1. CASE i \in 1..Len(p) /\ j \in 1..Len(p)
      BY <1>1, <1>3, <2>1 DEF StopOrder
    <2>2. CASE i \in 1..Len(p) /\ j \notin 1..Len(p)
      BY <1>1, <1>2, <2>2
    <2>3. CASE i \notin 1..Len(p)
      <3>1. j \notin 1..Len(p) /\ i - Len(p) < j - Len(p)
        BY <1>1, <1>3, <2>3
      <3> QED
        BY <1>1, <2>3, <3>1 DEF StopOrder
    <2> QED
      BY <2>1, <2>2, <2>3
  <1> QED
    BY <1>3 DEF StopOrder, r

\* ... and so for the order of a start.
LEMMA StartConcat ==
    ASSUME NEW b, NEW p \in Seq(Parts), NEW q \in Seq(Parts),
           StartOrder(b, p), StartOrder(b, q),
           \A x \in Range(p), y \in Range(q) : StartsBefore(b, x, y)
    PROVE  StartOrder(b, p \o q)
  <1> DEFINE r == p \o q
  <1>1. /\ Len(r) = Len(p) + Len(q) /\ Len(p) \in Nat /\ Len(q) \in Nat
        /\ \A i \in 1..Len(p) : r[i] = p[i]
        /\ \A i \in 1..(Len(p) + Len(q)) :
              i \in 1..Len(p) \/ (i - Len(p) \in 1..Len(q) /\ r[i] = q[i - Len(p)])
    BY ConcatIs
  <1> HIDE DEF r
  <1>2. /\ \A i \in 1..Len(p) : p[i] \in Range(p)
        /\ \A i \in 1..Len(q) : q[i] \in Range(q)
    BY DEF Range
  <1>3. ASSUME NEW i \in 1..Len(r), NEW j \in 1..Len(r), i < j
        PROVE  StartsBefore(b, r[i], r[j])
    <2>1. CASE i \in 1..Len(p) /\ j \in 1..Len(p)
      BY <1>1, <1>3, <2>1 DEF StartOrder
    <2>2. CASE i \in 1..Len(p) /\ j \notin 1..Len(p)
      BY <1>1, <1>2, <2>2
    <2>3. CASE i \notin 1..Len(p)
      <3>1. j \notin 1..Len(p) /\ i - Len(p) < j - Len(p)
        BY <1>1, <1>3, <2>3
      <3> QED
        BY <1>1, <2>3, <3>1 DEF StartOrder
    <2> QED
      BY <2>1, <2>2, <2>3
  <1> QED
    BY <1>3 DEF StartOrder, r

\* What was built: each module once.
Distinct(b) == \A i, j \in 1..Len(b) : b[i] = b[j] => i = j

\* The modules, forwards and backwards.
LEMMA ModuleParts ==
    ASSUME NEW b \in Seq(Modules), Distinct(b)
    PROVE  /\ AsParts(b, M) \in Seq(Parts) /\ Backwards(b, M) \in Seq(Parts)
           /\ Range(AsParts(b, M)) = {M(m) : m \in Range(b)}
           /\ Range(Backwards(b, M)) = {M(m) : m \in Range(b)}
           /\ StartOrder(b, AsParts(b, M)) /\ StopOrder(b, Backwards(b, M))
  <1> DEFINE n == Len(b)
             f == AsParts(b, M)
             g == Backwards(b, M)
  <1>1. n \in Nat /\ DOMAIN b = 1..n /\ \A i \in 1..n : b[i] \in Modules
    OBVIOUS
  <1>2. f = [i \in 1..n |-> M(b[i])]
    BY <1>1 DEF AsParts
  <1>3. g = [i \in 1..n |-> M(b[(n - i) + 1])]
    <2>1. Reverse(b) = [i \in 1..n |-> b[(n - i) + 1]]
      BY DEF Reverse
    <2> QED
      BY <2>1 DEF Backwards, AsParts
  <1> HIDE DEF f, g
  <1>4. \A i \in 1..n : (n - i) + 1 \in 1..n /\ (n - ((n - i) + 1)) + 1 = i
    BY <1>1
  <1>5. \A i \in 1..n : f[i] = M(b[i]) /\ g[i] = M(b[(n - i) + 1])
    BY <1>2, <1>3
  <1>6. f \in Seq(Parts) /\ g \in Seq(Parts) /\ Len(f) = n /\ Len(g) = n
    <2>1. \A i \in 1..n : M(b[i]) \in Parts /\ M(b[(n - i) + 1]) \in Parts
      BY <1>1, <1>4, PartsAre
    <2> QED
      BY <1>1, <1>2, <1>3, <2>1
  <1>7. Range(f) = {M(m) : m \in Range(b)}
    BY <1>1, <1>2, <1>5 DEF Range
  <1>8. Range(g) = {M(m) : m \in Range(b)}
    <2>1. \A x \in Range(g) : x \in {M(m) : m \in Range(b)}
      BY <1>1, <1>3, <1>4, <1>5 DEF Range
    <2>2. ASSUME NEW i \in 1..n PROVE M(b[i]) \in Range(g)
      <3>1. (n - i) + 1 \in DOMAIN g /\ g[(n - i) + 1] = M(b[i])
        <4>1. (n - i) + 1 \in 1..n /\ (n - ((n - i) + 1)) + 1 = i
          BY <1>4
        <4>2. g[(n - i) + 1] = M(b[(n - ((n - i) + 1)) + 1])
          BY <4>1, <1>5
        <4> QED
          BY <1>3, <4>1, <4>2
      <3> QED
        BY <3>1 DEF Range
    <2>3. \A m \in Range(b) : \E i \in 1..n : m = b[i]
      BY <1>1 DEF Range
    <2> QED
      BY <2>1, <2>2, <2>3
  <1>9. StartOrder(b, f)
    <2>1. ASSUME NEW i \in 1..n,
                 NEW j \in 1..n, i < j PROVE StartsBefore(b, M(b[i]), M(b[j]))
      BY <2>1, PartsDiffer DEF StartsBefore, Distinct
    <2> QED
      BY <2>1, <1>5, <1>6 DEF StartOrder
  <1>10. StopOrder(b, g)
    <2>1. ASSUME NEW i \in 1..n,
                 NEW j \in 1..n, i > j PROVE StopsBefore(b, M(b[i]), M(b[j]))
      <3>1. \A k, l \in 1..n : M(b[i]) = M(b[k]) /\ M(b[j]) = M(b[l]) => k = i /\ l = j
        BY PartsDiffer DEF Distinct
      <3> QED
        BY <2>1, <3>1, PartsDiffer, NotTransport DEF StopsBefore
    <2>2. ASSUME NEW i \in 1..n, NEW j \in 1..n, i < j PROVE StopsBefore(b, g[i], g[j])
      <3>1. (n - i) + 1 > (n - j) + 1 /\ (n - i) + 1 \in 1..n /\ (n - j) + 1 \in 1..n
        BY <1>1, <2>2
      <3> QED
        BY <1>5, <2>1, <3>1
    <2> QED
      BY <2>2, <1>6 DEF StopOrder
  <1> QED
    BY <1>6, <1>7, <1>8, <1>9, <1>10 DEF f, g

\* The components up to k, backwards, and all of them forwards.
LEMMA ComponentParts ==
    ASSUME NEW b, NEW k \in Components \cup {Cardinality(Components)}
    PROVE  /\ AsParts(ComponentList, C) \in Seq(Parts)
           /\ Range(AsParts(ComponentList, C)) = {C(c) : c \in Components}
           /\ StartOrder(b, AsParts(ComponentList, C))
           /\ Backwards(SubSeq(ComponentList, 1, k), C) \in Seq(Parts)
           /\ Range(Backwards(SubSeq(ComponentList, 1, k), C)) = {C(c) : c \in 1..k}
           /\ StopOrder(b, Backwards(SubSeq(ComponentList, 1, k), C))
           /\ SubSeq(ComponentList, 1, Cardinality(Components)) = ComponentList
  <1> DEFINE n == Cardinality(Components)
             f == AsParts(ComponentList, C)
             s == SubSeq(ComponentList, 1, k)
             g == Backwards(s, C)
  <1>1. n \in Nat /\ Components = 1..n
    BY TransportAssumption, FS_CardinalityType
  <1>2. k \in Nat /\ k <= n
    BY <1>1
  <1>3. ComponentList = [i \in 1..n |-> i]
    BY <1>1 DEF ComponentList
  <1>4. ComponentList \in Seq(Nat) /\ Len(ComponentList) = n
    BY <1>1, <1>3
  <1>5. SubSeq(ComponentList, 1, n) = ComponentList
    BY <1>1, <1>3, <1>4
  <1>6. s = [i \in 1..k |-> i]
    BY <1>1, <1>2, <1>3, <1>4
  <1>7. f = [i \in 1..n |-> C(i)]
    BY <1>3 DEF AsParts
  <1>8. g = [i \in 1..k |-> C((k - i) + 1)]
    <2> HIDE DEF s
    <2>1. s \in Seq(Nat) /\ Len(s) = k
      BY <1>2, <1>6
    <2>2. \A i \in 1..k : (k - i) + 1 \in 1..k
      BY <1>2
    <2>3. Reverse(s) = [i \in 1..k |-> (k - i) + 1]
      BY <1>6, <2>1, <2>2 DEF Reverse
    <2> QED
      BY <2>3 DEF Backwards, AsParts
  <1> HIDE DEF f, g, s
  <1>9. \A i \in 1..n : C(i) \in Parts /\ Transport(C(i))
    BY <1>1, PartsAre, NotTransport
  <1>10. \A i \in 1..k : (k - i) + 1 \in 1..k /\ (k - i) + 1 \in 1..n
                         /\ (k - ((k - i) + 1)) + 1 = i
    BY <1>1, <1>2
  <1>11. f \in Seq(Parts) /\ Len(f) = n /\ g \in Seq(Parts) /\ Len(g) = k
    <2>1. \A i \in 1..k : C((k - i) + 1) \in Parts
      BY <1>9, <1>10
    <2> QED
      BY <1>1, <1>2, <1>7, <1>8, <1>9, <2>1
  <1>12. Range(f) = {C(c) : c \in Components}
    BY <1>1, <1>7 DEF Range
  <1>13. Range(g) = {C(c) : c \in 1..k}
    <2>1. \A x \in Range(g) : x \in {C(c) : c \in 1..k}
      BY <1>8, <1>10 DEF Range
    <2>2. ASSUME NEW i \in 1..k PROVE C(i) \in Range(g)
      <3>1. (k - i) + 1 \in 1..k /\ (k - ((k - i) + 1)) + 1 = i
        BY <1>10
      <3>2. g[(k - i) + 1] = C((k - ((k - i) + 1)) + 1) /\ (k - i) + 1 \in DOMAIN g
        BY <1>8, <3>1
      <3> QED
        BY <3>1, <3>2 DEF Range
    <2> QED
      BY <2>1, <2>2
  <1>14. StartOrder(b, f)
    <2>1. ASSUME NEW i \in 1..n, NEW j \in 1..n, i < j PROVE StartsBefore(b, C(i), C(j))
      BY <1>1, <2>1, PartsDiffer DEF StartsBefore
    <2>2. \A i \in 1..n : f[i] = C(i)
      BY <1>7
    <2> QED
      BY <2>1, <2>2, <1>11 DEF StartOrder
  <1>15. StopOrder(b, g)
    <2>1. ASSUME NEW i \in 1..n, NEW j \in 1..n PROVE StopsBefore(b, C(i), C(j))
      BY <1>9, PartsDiffer DEF StopsBefore
    <2>2. \A i \in 1..k : g[i] = C((k - i) + 1)
      BY <1>8
    <2> QED
      BY <2>1, <2>2, <1>10, <1>11 DEF StopOrder
  <1> QED
    BY <1>5, <1>11, <1>12, <1>13, <1>14, <1>15 DEF f, g, s

\* The list of Start.
LEMMA StartParts ==
    ASSUME NEW b \in Seq(Modules), Distinct(b), NEW q,
           q = <<Factory>> \o AsParts(b, M) \o AsParts(ComponentList, C)
    PROVE  /\ q \in Seq(Parts) /\ StartOrder(b, q)
           /\ Factory \in Range(q)
           /\ \A m : M(m) \in Range(q) <=> m \in Range(b)
           /\ \A c \in Components : C(c) \in Range(q)
  <1> DEFINE x == <<Factory>>
             y == AsParts(b, M)
             z == AsParts(ComponentList, C)
  <1>1. /\ y \in Seq(Parts) /\ Range(y) = {M(m) : m \in Range(b)} /\ StartOrder(b, y)
    BY ModuleParts
  <1>2. /\ z \in Seq(Parts) /\ Range(z) = {C(c) : c \in Components} /\ StartOrder(b, z)
    BY ComponentParts
  <1>3. x \in Seq(Parts) /\ Len(x) = 1 /\ Range(x) = {Factory}
    BY PartsAre, SingleIs
  <1>4. StartOrder(b, x)
    BY <1>3 DEF StartOrder
  <1> HIDE DEF x, y, z
  <1>5. \A m \in Range(b) : StartsBefore(b, Factory, M(m))
    BY PartsDiffer DEF StartsBefore
  <1>6. x \o y \in Seq(Parts) /\ Range(x \o y) = Range(x) \cup Range(y)
    BY <1>1, <1>3, ConcatIs
  <1>7. StartOrder(b, x \o y)
    BY <1>1, <1>3, <1>4, <1>5, StartConcat
  <1>8. /\ \A m \in Range(b), c \in Components : StartsBefore(b, M(m), C(c))
        /\ \A c \in Components : StartsBefore(b, Factory, C(c))
    BY PartsDiffer DEF StartsBefore
  <1>9. \A u \in Range(x \o y), w \in Range(z) : StartsBefore(b, u, w)
    BY <1>1, <1>2, <1>3, <1>6, <1>8
  <1>10. StartOrder(b, (x \o y) \o z)
    BY <1>2, <1>6, <1>7, <1>9, StartConcat
  <1>11. (x \o y) \o z \in Seq(Parts) /\ Range((x \o y) \o z) = Range(x \o y) \cup Range(z)
    BY <1>2, <1>6, ConcatIs
  <1>12. q = (x \o y) \o z
    BY DEF x, y, z
  <1>13. \A m : M(m) \in Range(q) <=> m \in Range(b)
    <2>1. \A m : M(m) \in Range(q) <=> M(m) \in {Factory} \cup Range(y) \cup Range(z)
      BY <1>3, <1>6, <1>11, <1>12
    <2>2. \A m : M(m) # Factory /\ M(m) \notin Range(z)
      BY <1>2, PartsDiffer
    <2>3. \A m : M(m) \in Range(y) <=> m \in Range(b)
      BY <1>1, PartsDiffer
    <2> QED
      BY <2>1, <2>2, <2>3
  <1> QED
    BY <1>2, <1>3, <1>6, <1>10, <1>11, <1>12, <1>13

\* The list of a shutdown or of the rollback of a start, of which the
\* components up to k had their turn; and the one of a start that came to no
\* component.
LEMMA StopParts ==
    ASSUME built \in Seq(Modules), Distinct(built),
           NEW k \in Components \cup {Cardinality(Components)},
           NEW q, q \in {ShutdownComponents,
                         Backwards(SubSeq(ComponentList, 1, k), C) \o ShutdownComponents}
    PROVE  /\ q \in Seq(Parts) /\ StopOrder(built, q)
           /\ Factory \in Range(q) /\ Bus \in Range(q)
           /\ \A m : M(m) \in Range(q) <=> m \in Range(built)
           /\ q = Backwards(SubSeq(ComponentList, 1, k), C) \o ShutdownComponents
                => \A c \in 1..k : C(c) \in Range(q)
  <1> DEFINE b == built
             w == Backwards(SubSeq(ComponentList, 1, k), C)
             x == Backwards(b, M)
             y == <<Factory, Bus>>
  <1>1. /\ x \in Seq(Parts) /\ Range(x) = {M(m) : m \in Range(b)} /\ StopOrder(b, x)
    BY ModuleParts
  <1>2. /\ w \in Seq(Parts) /\ Range(w) = {C(c) : c \in 1..k} /\ StopOrder(b, w)
    BY ComponentParts
  <1>3. y \in Seq(Parts) /\ Len(y) = 2 /\ y[1] = Factory /\ y[2] = Bus /\ DOMAIN y = 1..2
    BY PartsAre
  <1> HIDE DEF w, x, y
  <1>4. Range(y) = {Factory, Bus}
    BY <1>3 DEF Range
  <1>5. StopOrder(b, y)
    <2>1. StopsBefore(b, Factory, Bus)
      BY PartsDiffer, NotTransport DEF StopsBefore
    <2>2. \A i, j \in 1..2 : i < j => i = 1 /\ j = 2
      OBVIOUS
    <2> QED
      BY <1>3, <2>1, <2>2 DEF StopOrder
  <1>6. \A m \in Range(b) : StopsBefore(b, M(m), Factory) /\ StopsBefore(b, M(m), Bus)
    BY PartsDiffer, NotTransport DEF StopsBefore
  <1>7. x \o y \in Seq(Parts) /\ Range(x \o y) = Range(x) \cup Range(y)
    BY <1>1, <1>3, ConcatIs
  <1>8. StopOrder(b, x \o y)
    BY <1>1, <1>3, <1>4, <1>5, <1>6, StopConcat
  <1>9. 1..k \subseteq Components
    BY TransportAssumption, FS_CardinalityType
  <1>10. \A c \in 1..k : /\ \A m \in Range(b) : StopsBefore(b, C(c), M(m))
                         /\ StopsBefore(b, C(c), Factory) /\ StopsBefore(b, C(c), Bus)
    BY <1>9, PartsDiffer, NotTransport DEF StopsBefore
  <1>11. \A u \in Range(w), v \in Range(x \o y) : StopsBefore(b, u, v)
    BY <1>1, <1>2, <1>4, <1>7, <1>10
  <1>12. StopOrder(b, w \o (x \o y))
    BY <1>2, <1>7, <1>8, <1>11, StopConcat
  <1>13. w \o (x \o y) \in Seq(Parts) /\ Range(w \o (x \o y)) = Range(w) \cup Range(x \o y)
    BY <1>2, <1>7, ConcatIs
  <1>14. ShutdownComponents = x \o y
    BY DEF ShutdownComponents, x, y
  <1>15. q = x \o y \/ q = w \o (x \o y)
    BY <1>14 DEF w
  <1>16. \A m : M(m) \in Range(q) <=> m \in Range(built)
    <2>1. \A m : M(m) \notin {Factory, Bus} /\ M(m) \notin Range(w)
      BY <1>2, PartsDiffer
    <2>2. \A m : M(m) \in Range(x) <=> m \in Range(built)
      BY <1>1, PartsDiffer
    <2>3. \A m : M(m) \in Range(q) <=> M(m) \in Range(x)
      BY <2>1, <1>4, <1>7, <1>13, <1>15
    <2> QED
      BY <2>2, <2>3
  <1>17. q = w \o ShutdownComponents => \A c \in 1..k : C(c) \in Range(q)
    BY <1>2, <1>13, <1>14
  <1>18. q \in Seq(Parts) /\ StopOrder(built, q) /\ Factory \in Range(q) /\ Bus \in Range(q)
    BY <1>4, <1>7, <1>8, <1>12, <1>13, <1>15
  <1> QED
    BY <1>16, <1>17, <1>18 DEF w

\* The list of a construction that failed.
LEMMA DiscardParts ==
    ASSUME NEW b \in Seq(Modules), Distinct(b), NEW q,
           q = <<Bus>> \o Backwards(b, M) \o <<Factory>>
    PROVE  /\ q \in Seq(Parts) /\ StopOrder(b, q)
           /\ Factory \in Range(q) /\ Bus \in Range(q)
           /\ \A m : M(m) \in Range(q) <=> m \in Range(b)
           /\ \A p \in Range(q) : ~Transport(p)
  <1> DEFINE x == <<Bus>>
             y == Backwards(b, M)
             z == <<Factory>>
  <1>1. /\ y \in Seq(Parts) /\ Range(y) = {M(m) : m \in Range(b)} /\ StopOrder(b, y)
    BY ModuleParts
  <1>2. x \in Seq(Parts) /\ Len(x) = 1 /\ Range(x) = {Bus}
    BY PartsAre, SingleIs
  <1>3. z \in Seq(Parts) /\ Len(z) = 1 /\ Range(z) = {Factory}
    BY PartsAre, SingleIs
  <1>4. StopOrder(b, x) /\ StopOrder(b, z)
    BY <1>2, <1>3 DEF StopOrder
  <1> HIDE DEF x, y, z
  <1>5. \A m \in Range(b) : StopsBefore(b, Bus, M(m)) /\ StopsBefore(b, M(m), Factory)
    BY PartsDiffer, NotTransport DEF StopsBefore
  <1>6. StopsBefore(b, Bus, Factory)
    BY PartsDiffer, NotTransport DEF StopsBefore
  <1>7. x \o y \in Seq(Parts) /\ Range(x \o y) = Range(x) \cup Range(y)
    BY <1>1, <1>2, ConcatIs
  <1>8. StopOrder(b, x \o y)
    BY <1>1, <1>2, <1>4, <1>5, StopConcat
  <1>9. \A u \in Range(x \o y), w \in Range(z) : StopsBefore(b, u, w)
    BY <1>1, <1>2, <1>3, <1>5, <1>6, <1>7
  <1>10. StopOrder(b, (x \o y) \o z)
    BY <1>3, <1>4, <1>7, <1>8, <1>9, StopConcat
  <1>11. (x \o y) \o z \in Seq(Parts) /\ Range((x \o y) \o z) = Range(x \o y) \cup Range(z)
    BY <1>3, <1>7, ConcatIs
  <1>12. q = (x \o y) \o z
    BY DEF x, y, z
  <1>13. \A m : M(m) \in Range(q) <=> m \in Range(b)
    <2>1. \A m : M(m) \in Range(q) <=> M(m) \in {Bus} \cup Range(y) \cup {Factory}
      BY <1>2, <1>3, <1>7, <1>11, <1>12
    <2>2. \A m : M(m) \notin {Factory, Bus}
      BY PartsDiffer
    <2>3. \A m : M(m) \in Range(y) <=> m \in Range(b)
      BY <1>1, PartsDiffer
    <2> QED
      BY <2>1, <2>2, <2>3
  <1>14. \A p \in Range(q) : ~Transport(p)
    <2>1. \A p \in Range(q) : p \in {Bus, Factory} \/ \E m \in Range(b) : p = M(m)
      BY <1>1, <1>2, <1>3, <1>7, <1>11, <1>12
    <2> QED
      BY <2>1, NotTransport
  <1> QED
    BY <1>2, <1>3, <1>7, <1>10, <1>11, <1>12, <1>13, <1>14

---------------------------------------------------------------------------
(* Types *)

\* What is built is a part of the plan, each module once.
LEMMA BuiltIs ==
    ASSUME CatalogInv, BuiltAlongPlan, built \in Seq(Modules)
    PROVE  /\ Distinct(built) /\ Distinct(plan)
           /\ Range(built) \subseteq Range(plan)
           /\ Range(plan) \subseteq DOMAIN descriptors
           /\ plan \in Seq(Modules)
           /\ \A m : m \in Range(built) <=> \E i \in 1..Len(built) : m = built[i]
           /\ Range(built) \subseteq Modules
  <1>1. plan \in Seq(Modules) /\ DOMAIN plan = 1..Len(plan) /\ Len(plan) \in Nat
    BY DEF CatalogInv, CatalogTypeOK
  <1>2. Len(built) \in Nat /\ DOMAIN built = 1..Len(built)
    OBVIOUS
  <1>3. /\ Len(built) <= Len(plan) /\ \A i \in 1..Len(built) : built[i] = plan[i]
    BY DEF BuiltAlongPlan
  <1>4. \A i, j \in 1..Len(plan) : i < j => plan[i] # plan[j]
    BY <1>1 DEF CatalogInv, FoundWell
  <1>5. Distinct(plan)
    <2> SUFFICES ASSUME NEW i \in 1..Len(plan), NEW j \in 1..Len(plan), plan[i] = plan[j]
                 PROVE  i = j
      BY DEF Distinct
    <2>1. i < j \/ j < i \/ i = j
      BY <1>1
    <2> QED
      BY <1>4, <2>1
  <1>6. \A i \in 1..Len(built) : i \in 1..Len(plan)
    BY <1>1, <1>2, <1>3
  <1>7. Distinct(built)
    BY <1>3, <1>5, <1>6 DEF Distinct
  <1>8. Range(plan) \subseteq DOMAIN descriptors
    <2>1. CASE sealed = "sealed"
      BY <2>1 DEF CatalogInv
    <2>2. CASE sealed # "sealed"
      <3>1. plan = << >>
        BY <2>2 DEF CatalogInv
      <3> QED
        BY <3>1 DEF Range
    <2> QED
      BY <2>1, <2>2
  <1>9. \A m : m \in Range(built) <=> \E i \in 1..Len(built) : m = built[i]
    BY <1>2 DEF Range
  <1>10. Range(built) \subseteq Range(plan)
    BY <1>1, <1>3, <1>6, <1>9 DEF Range
  <1>11. Range(built) \subseteq Modules
    BY <1>2, <1>9
  <1> QED
    BY <1>1, <1>5, <1>7, <1>8, <1>9, <1>10, <1>11

\* Plan.Requirements has what each module of the plan needs.
LEMMA RequiredIs ==
    ASSUME CatalogInv
    PROVE  /\ Required \subseteq Resources
           /\ \A m \in Range(plan) : descriptors[m].needs \subseteq Required
  <1>1. Range(plan) \subseteq DOMAIN descriptors
    <2>1. CASE sealed = "sealed"
      BY <2>1 DEF CatalogInv
    <2>2. CASE sealed # "sealed"
      <3>1. plan = << >>
        BY <2>2 DEF CatalogInv
      <3> QED
        BY <3>1 DEF Range
    <2> QED
      BY <2>1, <2>2
  <1>2. \A m \in DOMAIN descriptors : descriptors[m].needs \subseteq Resources
    BY CatalogFinite DEF CatalogInv
  <1> QED
    BY <1>1, <1>2 DEF Required

\* Who touches the provider ...
LEMMA ProviderSteps ==
    ASSUME [Next]_vars
    PROVE  \/ UNCHANGED providerVars
           \/ PrepareFactory
           \/ Starts(Factory) /\ ProviderStart /\ Started
           \/ Starts(Factory) /\ ProviderStartFails /\ phase' = "rollback"
           \/ Stops(Factory) /\ ProviderShutdown /\ Stopped
  <1>1. CASE RegisterModule \/ BootStep
    BY <1>1 DEF RegisterModule, BootStep, MainBegins, Listen, SealCatalog, Build,
                Discarded, Wire, RunBegins, BootStarts, BootStarted, Publish, GiveUp
  <1>3. CASE Unwound \/ RunReturns \/ (\E p \in Stoppers : CallShutdown(p))
             \/ DeadlinePasses \/ EnvironmentStep \/ ProbeBegins \/ ProbeAsks
             \/ UNCHANGED vars
    BY <1>3 DEF Unwound, RunReturns, CallShutdown, DeadlinePasses, EnvironmentStep,
                ServerStep, BusStep, ProbeBegins, ProbeAsks, vars
  <1>4. CASE LockStep
    BY <1>4 DEF LockStep, HolderStep, StartFactory, StartModule, StopModule,
                StartComponent, StopComponent, ComponentStops, StopFactory, CloseBus,
                BusCloses, ShutdownTakesLock, Unwind
  <1> QED
    BY <1>1, <1>3, <1>4 DEF Next

\* ... the servers ...
LEMMA ServerSteps ==
    ASSUME [Next]_vars
    PROVE  \/ UNCHANGED serverVars
           \/ Listen
           \/ BootFails /\ (SealCatalog \/ Discarded \/ GiveUp)
           \/ /\ \/ \E r \in Requests : Arrive(r) \/ Answer(r)
                 \/ \E s \in Servers : ServeEnds(s) \/ ServeFails(s)
              /\ UNCHANGED <<appVars, hostVars>>
           \/ \E c \in Components : \/ Starts(C(c)) /\ ComponentStart(c) /\ Started
                                    \/ Stops(C(c)) /\ ShutdownBegins(c)
                                       /\ todo' = <<Draining(c)>> \o Tail(todo)
                                       /\ UNCHANGED <<app, built, holder, phase, expired, shutdown>>
                                    \/ Stops(Draining(c)) /\ ShutdownEnds(c, expired) /\ Stopped
  <1>1. CASE RegisterModule \/ BootStep
    BY <1>1 DEF RegisterModule, BootStep, MainBegins, SealCatalog, PrepareFactory,
       Build,
                Discarded, Wire, RunBegins, BootStarts, BootStarted, Publish, GiveUp
  <1>3. CASE Unwound \/ RunReturns \/ (\E p \in Stoppers : CallShutdown(p))
             \/ DeadlinePasses \/ EnvironmentStep \/ ProbeBegins \/ ProbeAsks
             \/ UNCHANGED vars
    BY <1>3 DEF Unwound, RunReturns, CallShutdown, DeadlinePasses, EnvironmentStep,
                ServerStep, BusStep, ProbeBegins, ProbeAsks, vars
  <1>4. CASE LockStep
    BY <1>4 DEF LockStep, HolderStep, StartFactory, StartModule, StopModule,
                StartComponent, StopComponent, ComponentStops, StopFactory, CloseBus,
                BusCloses, ShutdownTakesLock, ComponentStartFails, ShutdownAgain
  <1> QED
    BY <1>1, <1>3, <1>4 DEF Next

\* ... the bus ...
LEMMA BusSteps ==
    ASSUME [Next]_vars
    PROVE  \/ UNCHANGED busVars
           \/ /\ \E p \in Publications : (DelayPublish(p) /\ built # << >>) \/ Fire(p) \/ Settle(p)
              /\ UNCHANGED <<appVars, hostVars>>
           \/ /\ Stops(Bus) /\ BusCloseBegins /\ todo' = <<BusClosing>> \o Tail(todo)
              /\ UNCHANGED <<built, phase>>
           \/ Stops(BusClosing) /\ BusCloseEnds /\ Stopped
  <1>1. CASE RegisterModule \/ BootStep
    BY <1>1 DEF RegisterModule, BootStep, MainBegins, Listen, SealCatalog,
       PrepareFactory,
                Build, Discarded, Wire, RunBegins, BootStarts, BootStarted, Publish,
                GiveUp
  <1>3. CASE Unwound \/ RunReturns \/ (\E p \in Stoppers : CallShutdown(p))
             \/ DeadlinePasses \/ EnvironmentStep \/ ProbeBegins \/ ProbeAsks
             \/ UNCHANGED vars
    BY <1>3 DEF Unwound, RunReturns, CallShutdown, DeadlinePasses, EnvironmentStep,
                ServerStep, BusStep, ProbeBegins, ProbeAsks, vars
  <1>4. CASE LockStep
    BY <1>4 DEF LockStep, HolderStep, StartFactory, StartModule, StopModule,
                StartComponent, StopComponent, ComponentStops, StopFactory, CloseBus,
                BusCloses, ShutdownTakesLock, BusCloseAgain
  <1> QED
    BY <1>1, <1>3, <1>4 DEF Next

\* ... and the modules.
LEMMA ModuleSteps ==
    ASSUME [Next]_vars
    PROVE  \/ UNCHANGED <<built, module>>
           \/ /\ boot = "build" /\ boot' \in {"build", "discard", "wire"}
              /\ phase' = phase /\ app' = app
              /\ Len(built) < Len(plan)
              /\ built' = Append(built, plan[Len(built) + 1])
              /\ module' = [module EXCEPT ![plan[Len(built) + 1]] = "built"]
              /\ UNCHANGED <<catalogVars, providerVars, serverVars, busVars, todo>>
           \/ \E m \in Modules :
                 /\ Starts(M(m)) /\ module' = [module EXCEPT ![m] = "up"] /\ Started
                 /\ UNCHANGED <<catalogVars, providerVars, serverVars, busVars, hostVars>>
           \/ \E m \in Modules :
                 /\ Stops(M(m)) /\ module' = [module EXCEPT ![m] = "down"] /\ Stopped
                 /\ UNCHANGED <<catalogVars, providerVars, serverVars, busVars, hostVars>>
  <1>1. CASE RegisterModule \/ (BootStep /\ ~Build)
    BY <1>1 DEF RegisterModule, BootStep, MainBegins, Listen, SealCatalog,
       PrepareFactory,
                Discarded, Wire, RunBegins, BootStarts, BootStarted, Publish, GiveUp,
                appVars, ShutdownCalled, StartBegins, StartRefused, StartEnds
  <1>2. CASE Build
    <2>1. boot = "build" /\ boot' \in {"build", "discard", "wire"}
      BY <1>2 DEF Build
    <2>2. CASE BuildModule
      BY <1>2, <2>1, <2>2 DEF Build, BuildModule
    <2>3. CASE CollectCapabilities
      BY <2>3 DEF CollectCapabilities
    <2> QED
      BY <1>2, <2>2, <2>3 DEF Build
  <1>3. CASE Unwound \/ RunReturns \/ (\E p \in Stoppers : CallShutdown(p))
             \/ DeadlinePasses \/ EnvironmentStep \/ ProbeBegins \/ ProbeAsks
             \/ UNCHANGED vars
    BY <1>3 DEF Unwound, UnwindEnds, RunReturns, CallShutdown, ShutdownCalled,
                DeadlinePasses, Expire, EnvironmentStep,
                ServerStep, BusStep, ProbeBegins, ProbeAsks, vars, appVars
  <1>4. CASE LockStep
    BY <1>4 DEF LockStep, HolderStep, StartFactory, StartModule, StopModule,
                StartComponent, StopComponent, ComponentStops, StopFactory, CloseBus,
                BusCloses, ShutdownTakesLock, Started, Stopped
  <1> QED
    BY <1>1, <1>2, <1>3, <1>4 DEF Next, BootStep

\* What Once counts.
LEMMA OnceIs ==
    ASSUME NEW n \in [Resources -> Nat], NEW S
    PROVE  /\ Once(n, S) \in [Resources -> Nat]
           /\ \A r \in Resources : Once(n, S)[r] = n[r] + (IF r \in S THEN 1 ELSE 0)
  BY DEF Once

\* The provider keeps its types ...
LEMMA ProviderTyped ==
    ASSUME CatalogInv, ProviderTypeOK, [Next]_vars PROVE ProviderTypeOK'
  <1>1. /\ provider \in {"static", "new", "prepared", "started", "stopped"}
        /\ owned \subseteq Resources
        /\ opened \in [Resources -> Nat] /\ closed \in [Resources -> Nat]
    BY DEF ProviderTypeOK
  <1>2. CASE UNCHANGED providerVars
    BY <1>1, <1>2 DEF ProviderTypeOK, providerVars
  <1>3. CASE Prepare
    BY <1>1, <1>3, OnceIs, RequiredIs DEF ProviderTypeOK, Prepare, providerVars
  <1>4. CASE PrepareFails
    <2>1. PICK S : opened' = Once(opened, S) /\ closed' = Once(closed, S)
      BY <1>4 DEF PrepareFails
    <2>2. provider' = provider /\ owned' = owned
      BY <1>4 DEF PrepareFails
    <2> QED
      BY <1>1, <2>1, <2>2, OnceIs DEF ProviderTypeOK
  <1>5. CASE ProviderStart \/ ProviderStartFails \/ ProviderShutdown
    BY <1>1, <1>5, OnceIs DEF ProviderTypeOK, ProviderStart, ProviderStartFails,
                              ProviderShutdown, providerVars
  <1> QED
    BY <1>2, <1>3, <1>4, <1>5, ProviderSteps DEF PrepareFactory

\* ... the servers ...
LEMMA ServerTyped ==
    ASSUME ServerTypeOK, [Next]_vars PROVE ServerTypeOK'
  <1>1. /\ started \subseteq Components /\ stopping \subseteq Components
        /\ exited \subseteq started \cap Servers
        /\ listener \in [Servers -> {"none", "open", "closed"}]
        /\ request \in [Requests -> Servers \cup {None}]
        /\ forced \in BOOLEAN /\ Servers \subseteq Components
    BY TransportAssumption DEF ServerTypeOK
  <1>2. CASE UNCHANGED serverVars
    BY <1>1, <1>2 DEF ServerTypeOK, serverVars
  <1>3. CASE Listen
    BY <1>1, <1>3 DEF ServerTypeOK, Listen
  <1>4. CASE BootFails
    BY <1>1, <1>4 DEF ServerTypeOK, BootFails, CloseListeners
  <1>5. CASE \E r \in Requests : Arrive(r) \/ Answer(r)
    BY <1>1, <1>5 DEF ServerTypeOK, Arrive, Answer
  <1>6. CASE \E s \in Servers : ServeEnds(s) \/ ServeFails(s)
    BY <1>1, <1>6 DEF ServerTypeOK, ServeEnds, ServeFails, Serving
  <1>7. ASSUME NEW c \in Components, ComponentStart(c) PROVE ServerTypeOK'
    BY <1>1, <1>7 DEF ServerTypeOK, ComponentStart
  <1>8. ASSUME NEW c \in Components, ShutdownBegins(c) PROVE ServerTypeOK'
    BY <1>1, <1>8 DEF ServerTypeOK, ShutdownBegins
  <1>9. ASSUME NEW c \in Components, ShutdownEnds(c, expired) PROVE ServerTypeOK'
    <2>1. forced' \in BOOLEAN
      BY <1>9, Zenon DEF ShutdownEnds
    <2>2. UNCHANGED <<started, stopping, exited, listener, request>>
      BY <1>9 DEF ShutdownEnds
    <2> QED
      BY <1>1, <2>1, <2>2 DEF ServerTypeOK
  <1> QED
    BY <1>2, <1>3, <1>4, <1>5, <1>6, <1>7, <1>8, <1>9, ServerSteps

\* ... the bus ...
LEMMA BusTyped ==
    ASSUME BusTypeOK, [Next]_vars PROVE BusTypeOK'
  <1>1. /\ bus \in {"open", "closing", "closed"}
        /\ delayed \in [Publications -> {"none", "armed", "running", "over"}]
    BY DEF BusTypeOK
  <1>2. CASE UNCHANGED busVars
    BY <1>1, <1>2 DEF BusTypeOK, busVars
  <1>3. CASE \E p \in Publications : DelayPublish(p) \/ Fire(p) \/ Settle(p)
    BY <1>1, <1>3 DEF BusTypeOK, DelayPublish, Fire, Settle
  <1>4. CASE BusCloseBegins \/ BusCloseEnds
    BY <1>1, <1>4 DEF BusTypeOK, BusCloseBegins, BusCloseEnds
  <1> QED
    BY <1>2, <1>3, <1>4, BusSteps

\* ... and the modules.
LEMMA ModulesTyped ==
    ASSUME CatalogInv, AppTypeOK, [Next]_vars
    PROVE  built' \in Seq(Modules) /\ module' \in [Modules -> {"absent", "built", "up", "down"}]
  <1>1. built \in Seq(Modules) /\ module \in [Modules -> {"absent", "built", "up", "down"}]
    BY DEF AppTypeOK
  <1>2. ASSUME Len(built) < Len(plan), built' = Append(built, plan[Len(built) + 1]),
               module' = [module EXCEPT ![plan[Len(built) + 1]] = "built"]
        PROVE  built' \in Seq(Modules) /\ module' \in [Modules -> {"absent", "built", "up", "down"}]
    <2>1. plan \in Seq(Modules) /\ Len(built) + 1 \in 1..Len(plan)
      BY <1>1, <1>2 DEF CatalogInv, CatalogTypeOK
    <2>2. plan[Len(built) + 1] \in Modules
      BY <2>1
    <2> QED
      BY <1>1, <1>2, <2>2
  <1>3. ASSUME NEW m \in Modules, NEW v \in {"up", "down"}, built' = built,
               module' = [module EXCEPT ![m] = v]
        PROVE  built' \in Seq(Modules) /\ module' \in [Modules -> {"absent", "built", "up", "down"}]
    BY <1>1, <1>3
  <1> QED
    BY <1>1, <1>2, <1>3, ModuleSteps DEF Started, Stopped

\* How the list of parts changes.
LEMMA TodoSteps ==
    ASSUME Stages, [Next]_vars
    PROVE  \/ UNCHANGED <<todo, phase>>
           \/ boot \in {"prepare", "build"} /\ BuildError /\ boot' = "discard"
           \/ boot = "discard" /\ todo = << >> /\ phase' = "idle" /\ todo' = todo
           \/ boot = "start" /\ StartBegins /\ boot' = "starting"
           \/ boot = "starting" /\ StartEnds
           \/ UnwindEnds
           \/ /\ phase = "starting" /\ todo # << >> /\ built' = built
              /\ \/ Started
                 \/ /\ Head(todo) = Factory \/ \E m \in Modules : Head(todo) = M(m)
                    /\ Unwind("rollback", ShutdownComponents)
                    /\ UNCHANGED serverVars
                 \/ \E c \in Components :
                       /\ Head(todo) = C(c)
                       /\ Unwind("rollback",
                             Backwards(SubSeq(ComponentList, 1, c), C) \o ShutdownComponents)
                       /\ UNCHANGED serverVars
           \/ /\ \E p \in Callers : shutdown[p] = "waiting" /\ shutdown' = [shutdown EXCEPT ![p] = "holding"]
                                    /\ holder' = p
              /\ holder = Nobody /\ app # "stopped" /\ app' = "stopping"
              /\ Unwind("stopping", Backwards(ComponentList, C) \o ShutdownComponents)
              /\ UNCHANGED <<catalogVars, providerVars, serverVars, busVars, built, module, hostVars>>
           \/ /\ Unwinding /\ todo # << >> /\ phase' = phase
              /\ \/ Stopped
                 \/ \E c \in Components : Head(todo) = C(c) /\ todo' = <<Draining(c)>> \o Tail(todo)
                 \/ Head(todo) = Bus /\ todo' = <<BusClosing>> \o Tail(todo)
  <1>1. CASE RegisterModule \/ MainBegins \/ Listen \/ SealCatalog \/ Wire \/ RunBegins
             \/ Publish \/ GiveUp
    BY <1>1 DEF RegisterModule, MainBegins, Listen, SealCatalog, Wire, RunBegins,
                Publish, GiveUp, appVars, ShutdownCalled
  <1>2. CASE PrepareFactory
    BY <1>2 DEF PrepareFactory, appVars
  <1>3. CASE Build
    <2>1. boot = "build" /\ app = "none"
      BY <1>3 DEF Build, Stages, Early
    <2>2. CASE BuildError /\ app' = app
      <3>1. phase' = "discard" /\ app' # "new"
        BY <2>1, <2>2 DEF BuildError, Unwind
      <3>2. boot' = "discard"
        BY <1>3, <3>1 DEF Build
      <3> QED
        BY <2>1, <2>2, <3>2
    <2>3. UNCHANGED <<todo, phase>> \/ (BuildError /\ app' = app)
      BY <1>3 DEF Build, BuildModule, CollectCapabilities
    <2> QED
      BY <2>2, <2>3
  <1>4. CASE Discarded \/ BootStarts \/ BootStarted \/ Unwound
    BY <1>4 DEF Discarded, BootStarts, BootStarted, Unwound, StartRefused, appVars
  <1>5. CASE RunReturns \/ (\E p \in Stoppers : CallShutdown(p))
             \/ DeadlinePasses \/ EnvironmentStep \/ ProbeBegins \/ ProbeAsks
             \/ UNCHANGED vars
    BY <1>5 DEF RunReturns, CallShutdown, ShutdownCalled,
                DeadlinePasses, Expire, EnvironmentStep,
                ServerStep, BusStep, ProbeBegins, ProbeAsks, vars, appVars
  <1>6. CASE StartFactory \/ (\E m \in Modules : StartModule(m))
    BY <1>6 DEF StartFactory, StartModule, Starts, Started
  <1>7. CASE \E c \in Components : StartComponent(c)
    BY <1>7 DEF StartComponent, Starts, Started, ComponentStartFails
  <1>8. CASE StopFactory \/ (\E m \in Modules : StopModule(m))
    BY <1>8 DEF StopFactory, StopModule, Stops, Stopped, Unwinding
  <1>9. CASE (\E c \in Components : StopComponent(c) \/ ComponentStops(c)) \/ CloseBus \/ BusCloses
    BY <1>9 DEF StopComponent, ComponentStops, CloseBus, BusCloses, Stops, Stopped,
       Unwinding
  <1>10. ASSUME NEW p \in Callers, ShutdownTakesLock(p), UNCHANGED hostVars
         PROVE \/ UNCHANGED <<todo, phase>>
               \/ /\ shutdown[p] = "waiting"
                  /\ shutdown' = [shutdown EXCEPT ![p] = "holding"]
                  /\ holder' = p
                  /\ holder = Nobody /\ app # "stopped" /\ app' = "stopping"
                  /\ Unwind("stopping", Backwards(ComponentList, C) \o ShutdownComponents)
                  /\ UNCHANGED <<catalogVars, providerVars, serverVars, busVars, built, module, hostVars>>
    BY <1>10 DEF ShutdownTakesLock
  <1> QED
    BY <1>1, <1>2, <1>3, <1>4, <1>5, <1>6, <1>7, <1>8, <1>9, <1>10
    DEF Next, BootStep, LockStep, HolderStep

\* The list has parts only.
LEMMA ListTyped ==
    ASSUME CatalogInv, TypeOK, Stages, BuiltAlongPlan, [Next]_vars
    PROVE  /\ todo' \in Seq(Parts)
           /\ phase' \in {"idle", "starting", "rollback", "stopping", "discard"}
  <1>1. /\ built \in Seq(Modules) /\ todo \in Seq(Parts)
        /\ phase \in {"idle", "starting", "rollback", "stopping", "discard"}
    BY DEF TypeOK, AppTypeOK
  <1>2. Distinct(built)
    BY <1>1, BuiltIs
  <1>3. /\ ShutdownComponents \in Seq(Parts)
        /\ Backwards(ComponentList, C) \o ShutdownComponents \in Seq(Parts)
        /\ \A c \in Components :
             Backwards(SubSeq(ComponentList, 1, c), C) \o ShutdownComponents \in Seq(Parts)
    <2>1. \A k \in Components \cup {Cardinality(Components)} :
            /\ ShutdownComponents \in Seq(Parts)
            /\ Backwards(SubSeq(ComponentList, 1, k), C) \o ShutdownComponents \in Seq(Parts)
      BY <1>1, <1>2, StopParts
    <2>2. SubSeq(ComponentList, 1, Cardinality(Components)) = ComponentList
      BY ComponentParts
    <2> QED
      BY <2>1, <2>2
  <1>4. CASE UNCHANGED <<todo, phase>>
    BY <1>1, <1>4
  <1>5. CASE BuildError
    BY <1>1, <1>2, <1>5, DiscardParts DEF BuildError, Unwind
  <1>6. CASE phase' = "idle" /\ todo' = todo
    BY <1>1, <1>6
  <1>7. CASE StartBegins
    BY <1>1, <1>2, <1>7, StartParts DEF StartBegins
  <1>8. CASE \/ Unwind("rollback", ShutdownComponents)
             \/ \E c \in Components : Unwind("rollback",
                     Backwards(SubSeq(ComponentList, 1, c), C) \o ShutdownComponents)
             \/ Unwind("stopping", Backwards(ComponentList, C) \o ShutdownComponents)
    BY <1>3, <1>8 DEF Unwind
  <1>9. ASSUME todo # << >>, todo' = Tail(todo), phase' = phase
        PROVE  todo' \in Seq(Parts) /\ phase' = phase
    BY <1>1, <1>9, TailIs
  <1>10. ASSUME todo # << >>, NEW x \in Parts, todo' = <<x>> \o Tail(todo), phase' = phase
         PROVE  todo' \in Seq(Parts) /\ phase' = phase
    BY <1>1, <1>10, TailIs, ConsIs
  <1>11. CASE /\ Unwinding /\ todo # << >> /\ phase' = phase
              /\ \/ Stopped
                 \/ \E c \in Components : Head(todo) = C(c) /\ todo' = <<Draining(c)>> \o Tail(todo)
                 \/ Head(todo) = Bus /\ todo' = <<BusClosing>> \o Tail(todo)
    BY <1>1, <1>9, <1>10, <1>11, PartsAre DEF Stopped
  <1>12. CASE todo # << >> /\ Started
    BY <1>1, <1>9, <1>12 DEF Started
  <1>13. CASE StartEnds \/ UnwindEnds
    BY <1>6, <1>13 DEF StartEnds, UnwindEnds
  <1> QED
    BY <1>4, <1>5, <1>6, <1>7, <1>8, <1>11, <1>12, <1>13, TodoSteps

\* A probe has a first and a last server to ask.
LEMMA ServersOrdered ==
    /\ Servers \subseteq Nat /\ Servers # {} /\ IsFiniteSet(Servers) /\ 0 \notin Servers
    /\ Min(Servers) \in Servers /\ \A s \in Servers : Min(Servers) <= s
    /\ Max(Servers) \in Servers /\ \A s \in Servers : s <= Max(Servers)
  <1>1. /\ Servers \subseteq Nat /\ Servers # {} /\ IsFiniteSet(Servers)
        /\ 0 \notin Servers
    <2>1. /\ Servers \subseteq Components /\ Servers # {} /\ IsFiniteSet(Components)
          /\ Components = 1..Cardinality(Components) /\ Cardinality(Components) \in Nat
      BY TransportAssumption, FS_CardinalityType
    <2>2. IsFiniteSet(Servers)
      BY <2>1, FS_Subset
    <2> QED
      BY <2>1, <2>2
  <1>2. Min(Servers) \in Servers /\ \A s \in Servers : Min(Servers) <= s
    BY <1>1, MinIs
  <1>3. \E x \in Servers : \A y \in Servers : x >= y
    <2> DEFINE n == Cardinality(Components)
               T == {n - s : s \in Servers}
    <2>1. n \in Nat /\ \A s \in Servers : s \in 1..n
      BY TransportAssumption, FS_CardinalityType
    <2>2. T \in SUBSET Nat /\ T # {}
      BY <1>1, <2>1
    <2>3. PICK t \in T : \A u \in T : t <= u
      <3> HIDE DEF T
      <3> QED
        BY <2>2, LeastNat
    <2>4. PICK x \in Servers : t = n - x
      BY <2>3
    <2>5. \A y \in Servers : n - x <= n - y
      BY <2>3, <2>4
    <2>6. \A y \in Servers : x >= y
      BY <2>1, <2>4, <2>5
    <2> QED
      BY <2>4, <2>6
  <1>4. Max(Servers) \in Servers /\ \A s \in Servers : Max(Servers) >= s
    BY <1>3 DEF Max
  <1> QED
    BY <1>1, <1>2, <1>4

\* The next server of a probe.
LEMMA NextServer ==
    ASSUME NEW a \in Servers, a # Max(Servers)
    PROVE  LET n == Min({s \in Servers : s > a})
           IN  n \in Servers /\ n > a /\ \A s \in Servers : s > a => n <= s
  <1> DEFINE T == {s \in Servers : s > a}
  <1>1. Max(Servers) \in T /\ T \in SUBSET Nat
    <2> DEFINE m == Max(Servers)
    <2>1. m \in Servers /\ a <= m /\ m # a /\ Servers \subseteq Nat
      BY ServersOrdered
    <2> HIDE DEF m
    <2>2. m > a
      BY <2>1
    <2> QED
      BY <2>1, <2>2 DEF m
  <1>2. Min(T) \in T /\ \A m \in T : Min(T) <= m
    <2> HIDE DEF T
    <2> QED
      BY <1>1, MinIs
  <1> QED
    BY <1>2

\* Boot is one of the callers and not of the stoppers.
LEMMA CallersAre ==
    /\ Boot \in Callers /\ Stoppers \subseteq Callers /\ Nobody \notin Callers
    /\ Boot \notin Stoppers /\ Boot # Nobody
  BY CallerAssumption DEF Callers

\* The remaining variables.
LEMMA RestTyped ==
    ASSUME TypeOK, [Next]_vars
    PROVE  /\ app' \in {"none", "new", "initializing", "starting", "ready", "stopping",
                        "stopped", "failed"}
           /\ holder' \in Callers \cup {Nobody}
           /\ expired' \in BOOLEAN
           /\ shutdown' \in [Callers -> {"idle", "waiting", "holding", "returned"}]
           /\ way' \in {"bootstrap", "run"}
           /\ boot' \in {"register", "listen", "seal", "prepare", "build", "discard",
                         "wire", "start", "starting", "publish", "giveup", "up", "over",
                         "failed"}
  <1> DEFINE G == /\ app' \in {"none", "new", "initializing", "starting", "ready", "stopping",
                               "stopped", "failed"}
                  /\ holder' \in Callers \cup {Nobody}
                  /\ expired' \in BOOLEAN
                  /\ shutdown' \in [Callers -> {"idle", "waiting", "holding", "returned"}]
                  /\ way' \in {"bootstrap", "run"}
                  /\ boot' \in {"register", "listen", "seal", "prepare", "build", "discard",
                                "wire", "start", "starting", "publish", "giveup", "up", "over",
                                "failed"}
  <1>0. SUFFICES G
    OBVIOUS
  <1>a. /\ app \in {"none", "new", "initializing", "starting", "ready", "stopping",
                    "stopped", "failed"}
        /\ holder \in Callers \cup {Nobody}
        /\ expired \in BOOLEAN
        /\ shutdown \in [Callers -> {"idle", "waiting", "holding", "returned"}]
        /\ way \in {"bootstrap", "run"}
        /\ boot \in {"register", "listen", "seal", "prepare", "build", "discard",
                     "wire", "start", "starting", "publish", "giveup", "up", "over",
                     "failed"}
    BY DEF TypeOK, AppTypeOK
  <1>1. CASE RegisterModule \/ MainBegins \/ Listen \/ SealCatalog \/ PrepareFactory
    BY <1>1, <1>a DEF RegisterModule, MainBegins, Listen, SealCatalog, PrepareFactory,
                      BootFails, hostVars, appVars
  <1>2. CASE Build
    <2>1. boot' \in {"build", "discard", "wire"}
      BY <1>2 DEF Build
    <2> QED
      BY <1>2, <2>1, <1>a DEF Build, BuildModule, CollectCapabilities
  <1>3. CASE Discarded \/ RunBegins \/ GiveUp
    BY <1>3, <1>a DEF Discarded, RunBegins, GiveUp, BootFails
  <1>4. ASSUME NEW p \in Callers, ShutdownCalled(p)
        PROVE  shutdown' \in [Callers -> {"idle", "waiting", "holding", "returned"}]
    BY <1>4, <1>a DEF ShutdownCalled
  <1>5. CASE Wire \/ Publish \/ RunReturns \/ (\E p \in Stoppers : CallShutdown(p))
    BY <1>4, <1>5, <1>a, CallersAre DEF Wire, Publish, RunReturns, CallShutdown,
                                  ShutdownCalled, hostVars, appVars
  <1>6. CASE BootStarts \/ BootStarted
    BY <1>6, <1>a, CallersAre DEF BootStarts, BootStarted, StartBegins, StartRefused,
                                  StartEnds, appVars
  <1>7. CASE Unwound
    <2>1. shutdown' \in [Callers -> {"idle", "waiting", "holding", "returned"}]
      BY <1>7, <1>a DEF Unwound, UnwindEnds
    <2> QED
      BY <1>7, <2>1, <1>a DEF Unwound, UnwindEnds
  <1>8. CASE DeadlinePasses \/ EnvironmentStep \/ ProbeBegins \/ ProbeAsks \/ UNCHANGED vars
    BY <1>8, <1>a DEF DeadlinePasses, Expire, EnvironmentStep, ServerStep, BusStep,
                      ProbeBegins, ProbeAsks, vars, hostVars, appVars
  <1>9. CASE HolderStep /\ UNCHANGED hostVars
    <2>1. UNCHANGED <<way, boot>>
      BY <1>9 DEF hostVars
    <2>2. CASE StartFactory \/ StopFactory \/ CloseBus \/ BusCloses
      BY <2>1, <2>2, <1>a DEF StartFactory, StopFactory, CloseBus, BusCloses, Started, Stopped
    <2>3. CASE \E m \in Modules : StartModule(m) \/ StopModule(m)
      BY <2>1, <2>3, <1>a DEF StartModule, StopModule, Started, Stopped
    <2>4. CASE \E c \in Components : StartComponent(c) \/ StopComponent(c) \/ ComponentStops(c)
      BY <2>1, <2>4, <1>a DEF StartComponent, StopComponent, ComponentStops, Started, Stopped
    <2> QED
      BY <1>9, <2>2, <2>3, <2>4 DEF HolderStep
  <1>10. ASSUME NEW p \in Callers, ShutdownTakesLock(p), UNCHANGED hostVars PROVE G
    BY <1>10, <1>a DEF ShutdownTakesLock, hostVars
  <1> QED
    BY <1>1, <1>2, <1>3, <1>5, <1>6, <1>7, <1>8, <1>9, <1>10 DEF Next, BootStep,
       LockStep

\* Only a probe changes the probe.
LEMMA ProbeSteps ==
    ASSUME [Next]_vars
    PROVE  UNCHANGED probe \/ ProbeBegins \/ ProbeAsks
  BY DEF Next, RegisterModule, BootStep, MainBegins, Listen, SealCatalog,
         PrepareFactory,
         Build, Discarded, Wire, RunBegins, BootStarts, BootStarted, Publish, GiveUp,
         Unwound, RunReturns, CallShutdown, DeadlinePasses, EnvironmentStep,
         LockStep, vars

\* A probe stays at a server or is over.
LEMMA ProbeTyped ==
    ASSUME TypeOK, [Next]_vars
    PROVE  probe' \in [at : Servers \cup {0}, ready : BOOLEAN, sound : BOOLEAN]
  <1>1. /\ probe \in [at : Servers \cup {0}, ready : BOOLEAN, sound : BOOLEAN]
        /\ probe.sound \in BOOLEAN
    BY DEF TypeOK
  <1>2. CASE ProbeBegins
    <2> DEFINE r == app = "ready"
               o == app = "ready" /\ \A s \in Servers : Serving(s)
    <2>1. probe' = [at |-> Min(Servers), ready |-> r, sound |-> o]
      BY <1>2 DEF ProbeBegins
    <2>2. r \in BOOLEAN /\ o \in BOOLEAN
      BY Zenon
    <2> HIDE DEF r, o
    <2> QED
      BY <2>1, <2>2, ServersOrdered
  <1>3. CASE ProbeAsks
    <2>1. CASE probe' = NoProbe
      BY <2>1 DEF NoProbe
    <2>2. CASE probe' # NoProbe
      <3> DEFINE n == Min({s \in Servers : s > probe.at})
                 r == ProbeFinds(probe.at)
      <3>1. /\ probe.at \in Servers /\ probe.at # Max(Servers)
            /\ probe' = [at |-> n, ready |-> r, sound |-> probe.sound]
        BY <1>3, <2>2 DEF ProbeAsks
      <3>2. n \in Servers
        BY <3>1, NextServer
      <3>3. r \in BOOLEAN
        BY Zenon DEF ProbeFinds
      <3> HIDE DEF n, r
      <3> QED
        BY <1>1, <3>1, <3>2, <3>3
    <2> QED
      BY <2>1, <2>2
  <1>4. CASE UNCHANGED probe
    BY <1>1, <1>4
  <1> QED
    BY <1>2, <1>3, <1>4, ProbeSteps

\* Every step keeps all types.
LEMMA TypeStep ==
    ASSUME CatalogInv, CatalogInv', TypeOK, Stages, BuiltAlongPlan,
           [Next]_vars PROVE TypeOK'
  <1>1. CatalogTypeOK'
    BY DEF CatalogInv
  <1>2. ProviderTypeOK' /\ ServerTypeOK' /\ BusTypeOK'
    BY ProviderTyped, ServerTyped, BusTyped DEF TypeOK
  <1>3. AppTypeOK'
    BY ModulesTyped, ListTyped, RestTyped DEF TypeOK, AppTypeOK
  <1> QED
    BY <1>1, <1>2, <1>3, RestTyped, ProbeTyped DEF TypeOK

---------------------------------------------------------------------------
(* Where everybody is *)

\* Every step leaves Boot, the App and the lock in agreement: the lock is
\* held by the one that works on the list.
LEMMA StagesStep ==
    ASSUME TypeOK, Stages, [Next]_vars PROVE Stages'
  <1>a. /\ holder \in Callers \cup {Nobody}
        /\ shutdown \in [Callers -> {"idle", "waiting", "holding", "returned"}]
        /\ phase \in {"idle", "starting", "rollback", "stopping", "discard"}
    BY DEF TypeOK, AppTypeOK
  <1>b. CASE UNCHANGED <<app, boot, phase, holder, shutdown>>
    BY <1>b DEF Stages, Early
  <1>1. CASE RegisterModule \/ DeadlinePasses \/ EnvironmentStep \/ ProbeBegins \/ ProbeAsks
             \/ UNCHANGED vars
    BY <1>1, <1>b DEF RegisterModule, DeadlinePasses, Expire, EnvironmentStep,
       ServerStep,
                      BusStep, ProbeBegins, ProbeAsks, vars, hostVars, appVars
  <1>2. CASE MainBegins \/ Listen \/ SealCatalog
    <2>1. /\ boot \in {"register", "listen", "seal"}
          /\ boot' \in {"listen", "seal", "prepare", "failed"}
          /\ UNCHANGED <<app, phase, holder, shutdown>>
      BY <1>2 DEF MainBegins, Listen, SealCatalog, BootFails, appVars
    <2> QED
      BY <2>1 DEF Stages, Early
  <1>3. CASE PrepareFactory
    <2>1. /\ boot = "prepare"
          /\ \/ boot' = "build" /\ phase' = phase
             \/ boot' = "discard" /\ phase' = "discard"
          /\ UNCHANGED <<app, holder, shutdown>>
      BY <1>3 DEF PrepareFactory, BuildError, Unwind, appVars
    <2> QED
      BY <2>1 DEF Stages, Early
  <1>4. CASE Build
    <2>1. boot = "build" /\ app = "none" /\ phase = "idle"
      BY <1>4 DEF Build, Stages, Early
    <2>2. /\ UNCHANGED <<holder, shutdown>>
          /\ \/ app' = app /\ phase' = phase
             \/ app' = app /\ phase' = "discard"
             \/ app' = "new" /\ phase' = phase
      BY <1>4 DEF Build, BuildModule, CollectCapabilities, BuildError, Unwind
    <2>3. /\ app' = "none" /\ phase' = "idle" => boot' = "build"
          /\ app' = "none" /\ phase' = "discard" => boot' = "discard"
          /\ app' = "new" /\ phase' = "idle" => boot' = "wire"
      BY <1>4 DEF Build
    <2> QED
      BY <2>1, <2>2, <2>3 DEF Stages, Early
  <1>5. CASE Discarded
    <2>1. /\ boot = "discard" /\ boot' = "failed" /\ phase' = "idle"
          /\ UNCHANGED <<app, holder, shutdown>>
      BY <1>5 DEF Discarded, BootFails
    <2> QED
      BY <2>1 DEF Stages, Early
  <1>6. ASSUME NEW p \in Callers, ShutdownCalled(p), app # "none",
               boot' = boot \/ /\ boot \in {"wire", "publish", "up"}
                               /\ boot' \in {"giveup", "over"}
                               /\ app = "ready" => boot' = "over"
        PROVE  Stages'
    <2>1. /\ UNCHANGED <<app, holder, phase>>
          /\ \A q \in Callers : shutdown'[q] = IF q = p THEN "waiting" ELSE shutdown[q]
          /\ shutdown[p] = "idle"
      BY <1>6, <1>a DEF ShutdownCalled
    <2>2. \A q \in Callers : shutdown'[q] = "holding" <=> shutdown[q] = "holding"
      BY <2>1
    <2>3. boot' \notin Early /\ (boot' = "discard" <=> boot = "discard")
          /\ (boot' = "starting" <=> boot = "starting")
      BY <1>6 DEF Stages, Early
    <2> QED
      BY <1>6, <2>1, <2>2, <2>3 DEF Stages
  <1>7. CASE Wire \/ Publish \/ RunReturns \/ (\E p \in Stoppers : CallShutdown(p))
    <2>1. CASE UNCHANGED appVars /\ boot \in {"wire", "publish"} /\ boot' \in {"start", "up"}
               /\ (boot = "wire" => boot' = "start") /\ (boot = "publish" => boot' = "up")
      BY <2>1 DEF appVars, Stages, Early
    <2>2. CASE Wire
      BY <1>6, <2>1, <2>2, CallersAre DEF Wire, Stages, Early
    <2>3. CASE Publish
      BY <1>6, <2>1, <2>3, CallersAre DEF Publish, Stages, Early
    <2>4. CASE RunReturns
      BY <1>6, <2>4, CallersAre DEF RunReturns, Stages, Early
    <2>5. ASSUME NEW p \in Stoppers, CallShutdown(p) PROVE Stages'
      BY <1>6, <2>5, CallersAre DEF CallShutdown, Stages, Early, hostVars
    <2> QED
      BY <1>7, <2>2, <2>3, <2>4, <2>5
  <1>8. CASE RunBegins
    <2>1. /\ boot = "wire" /\ boot' = "start" /\ app' = "initializing"
          /\ UNCHANGED <<holder, phase, shutdown>>
      BY <1>8 DEF RunBegins
    <2> QED
      BY <2>1 DEF Stages, Early
  <1>9. CASE BootStarts
    <2>1. CASE StartBegins
      <3>1. /\ boot = "start" /\ boot' = "starting" /\ holder = Nobody /\ holder' = Boot
            /\ app' = "starting" /\ phase' = "starting" /\ UNCHANGED shutdown
        BY <1>9, <2>1 DEF BootStarts, StartBegins, StartRefused
      <3> QED
        BY <3>1, <1>a, CallersAre DEF Stages, Early
    <2>2. CASE StartRefused
      <3>1. /\ boot = "start" /\ boot' = "giveup"
            /\ UNCHANGED <<app, holder, phase, shutdown>>
            /\ app \in {"stopping", "stopped", "failed"}
        BY <1>9, <2>2 DEF BootStarts, StartBegins, StartRefused, appVars
      <3> QED
        BY <3>1 DEF Stages, Early
    <2> QED
      BY <1>9, <2>1, <2>2 DEF BootStarts
  <1>10. CASE BootStarted
    <2>1. /\ boot = "starting" /\ boot' \in {"publish", "up"} /\ phase = "starting"
          /\ app' = "ready" /\ phase' = "idle" /\ holder' = Nobody /\ UNCHANGED shutdown
      BY <1>10 DEF BootStarted, StartEnds
    <2> QED
      BY <2>1, <1>a, CallersAre DEF Stages, Early
  <1>11. CASE GiveUp
    <2>1. /\ boot = "giveup" /\ boot' = "failed" /\ app' \in {"failed", app}
          /\ UNCHANGED <<holder, phase, shutdown>>
      BY <1>11 DEF GiveUp, BootFails
    <2> QED
      BY <2>1 DEF Stages, Early
  <1>12. CASE Unwound
    <2>1. /\ phase \in {"rollback", "stopping"} /\ phase' = "idle" /\ holder' = Nobody
          /\ \A p \in Callers : shutdown'[p] =
               IF shutdown[p] = "holding" THEN "returned" ELSE shutdown[p]
      BY <1>12 DEF Unwound, UnwindEnds
    <2>2. \A p \in Callers : shutdown'[p] # "holding"
      BY <2>1
    <2>3. CASE phase = "rollback"
      <3>1. holder = Boot /\ boot = "starting"
        BY <2>3 DEF Stages
      <3>2. boot' = "giveup" /\ app' = "failed"
        BY <1>12, <2>3, <3>1 DEF Unwound, UnwindEnds
      <3> QED
        BY <2>1, <2>2, <2>3, <3>1, <3>2 DEF Stages, Early
    <2>4. CASE phase = "stopping"
      <3>1. boot' = boot /\ app' = "stopped"
        BY <1>12, <2>4 DEF Unwound, UnwindEnds
      <3> QED
        BY <2>1, <2>2, <2>4, <3>1 DEF Stages, Early
    <2> QED
      BY <2>1, <2>3, <2>4
  <1>13. CASE HolderStep /\ UNCHANGED hostVars
    <2>1. CASE Started \/ Stopped \/ UNCHANGED <<app, holder, phase, shutdown>>
      BY <1>13, <1>b, <2>1 DEF Started, Stopped, hostVars
    <2>2. CASE phase = "starting" /\ phase' = "rollback" /\ UNCHANGED <<app, holder, shutdown>>
      BY <1>13, <2>2 DEF Stages, Early, hostVars
    <2> QED
      BY <1>13, <2>1, <2>2
      DEF HolderStep, StartFactory, StartModule, StopModule, StartComponent,
      StopComponent,
          ComponentStops, StopFactory, CloseBus, BusCloses, Starts, Unwind
  <1>14. ASSUME NEW p \in Callers, ShutdownTakesLock(p), UNCHANGED hostVars PROVE Stages'
    <2>1. /\ shutdown[p] = "waiting" /\ holder = Nobody /\ boot' = boot
      BY <1>14 DEF ShutdownTakesLock, hostVars
    <2>2. CASE app = "stopped"
      <3>1. /\ UNCHANGED <<app, holder, phase>>
            /\ \A q \in Callers : shutdown'[q] = IF q = p THEN "returned" ELSE shutdown[q]
        BY <1>14, <1>a, <2>2 DEF ShutdownTakesLock
      <3>2. \A q \in Callers : shutdown'[q] = "holding" <=> shutdown[q] = "holding"
        BY <2>1, <3>1
      <3> QED
        BY <2>1, <2>2, <3>1, <3>2 DEF Stages, Early
    <2>3. CASE app # "stopped"
      <3>1. /\ app' = "stopping" /\ holder' = p /\ phase' = "stopping"
            /\ \A q \in Callers : shutdown'[q] = IF q = p THEN "holding" ELSE shutdown[q]
        BY <1>14, <1>a, <2>3 DEF ShutdownTakesLock, Unwind
      <3>2. app # "none" /\ boot \notin Early /\ phase = "idle"
            /\ \A q \in Callers : shutdown[q] # "holding"
        BY <1>a, <2>1, CallersAre DEF Stages, Early
      <3> QED
        BY <2>1, <3>1, <3>2, CallersAre DEF Stages, Early
    <2> QED
      BY <2>2, <2>3
  <1> QED
    BY <1>1, <1>2, <1>3, <1>4, <1>5, <1>7, <1>8, <1>9, <1>10, <1>11, <1>12, <1>13, <1>14
    DEF Next, BootStep, LockStep

---------------------------------------------------------------------------
(* What is built, and what the provider holds *)

\* Before anything is built nobody else is at work.
LEMMA EarlyBoot ==
    ASSUME Stages, [Next]_vars, boot' \in {"register", "listen", "seal", "prepare"}
    PROVE  /\ boot \in {"register", "listen", "seal", "prepare"}
           /\ phase = "idle" /\ phase' = "idle"
           /\ boot' # "prepare" => /\ boot # "prepare"
                                   /\ UNCHANGED catalogVars \/ sealed' # "sealed"
  <1>1. CASE RegisterModule
    <2>1. boot' = boot /\ boot = "register" /\ sealed' = "open" /\ phase' = phase
      BY <1>1 DEF RegisterModule, Register, hostVars, appVars
    <2> QED
      BY <2>1 DEF Stages, Early
  <1>2. CASE MainBegins \/ Listen \/ SealCatalog
    <2>1. boot \in {"register", "listen", "seal"} /\ phase' = phase
      BY <1>2 DEF MainBegins, Listen, SealCatalog, appVars
    <2>2. boot' # "prepare" => UNCHANGED catalogVars \/ sealed' # "sealed"
      BY <1>2 DEF MainBegins, Listen, SealCatalog
    <2> QED
      BY <2>1, <2>2 DEF Stages, Early
  <1>3. CASE Build
    <2>1. boot' \in {"build", "discard", "wire"}
      BY <1>3 DEF Build
    <2> QED
      BY <2>1
  <1>4. CASE boot' = boot /\ phase' = phase /\ UNCHANGED catalogVars
    BY <1>4 DEF Stages, Early
  <1>5. CASE DeadlinePasses \/ EnvironmentStep \/ ProbeBegins \/ ProbeAsks \/ UNCHANGED vars
             \/ (\E p \in Stoppers : CallShutdown(p))
    BY <1>4, <1>5 DEF DeadlinePasses, Expire, EnvironmentStep, ServerStep, BusStep,
       ProbeBegins,
                      ProbeAsks, CallShutdown, ShutdownCalled, vars, hostVars, appVars
  <1>6. CASE Unwound \/ (HolderStep /\ UNCHANGED hostVars)
    <2>1. boot' \in {boot, "giveup"} /\ phase # "idle"
      BY <1>6 DEF Unwound, UnwindEnds, HolderStep, StartFactory, StartModule,
         StopModule,
                  StartComponent, StopComponent, ComponentStops, StopFactory, CloseBus,
                  BusCloses, Starts, Stops, hostVars
    <2> QED
      BY <2>1 DEF Stages, Early
  <1>7. ASSUME NEW p \in Callers, ShutdownTakesLock(p), UNCHANGED hostVars PROVE FALSE
    <2>1. boot' = boot /\ shutdown[p] = "waiting"
      BY <1>7 DEF ShutdownTakesLock, hostVars
    <2> QED
      BY <2>1 DEF Stages, Early
  <1>8. CASE PrepareFactory \/ Discarded \/ Wire \/ RunBegins \/ BootStarts \/ BootStarted
             \/ Publish \/ GiveUp \/ RunReturns
    BY <1>8 DEF PrepareFactory, Discarded, Wire, RunBegins, BootStarts, BootStarted,
       Publish,
                GiveUp, RunReturns, BootFails
  <1> QED
    BY <1>1, <1>2, <1>3, <1>5, <1>6, <1>7, <1>8 DEF Next, BootStep, LockStep

\* Modules are built in the order of the plan, and no list has a module that
\* was not built.
LEMMA BuiltStep ==
    ASSUME CatalogInv, CatalogInv', TypeOK, TypeOK', Stages, BuiltAlongPlan, [Next]_vars
    PROVE  BuiltAlongPlan'
  <1>1. /\ built \in Seq(Modules) /\ todo \in Seq(Parts)
        /\ module \in [Modules -> {"absent", "built", "up", "down"}]
        /\ Len(built) \in Nat /\ DOMAIN built = 1..Len(built)
    BY DEF TypeOK, AppTypeOK
  <1>2. /\ plan \in Seq(Modules) /\ plan' \in Seq(Modules)
        /\ Len(plan) \in Nat /\ Len(plan') \in Nat
    BY DEF CatalogInv, CatalogTypeOK
  <1>3. boot' \in {"register", "listen", "seal"} => sealed' # "sealed"
    BY EarlyBoot DEF BuiltAlongPlan, catalogVars
  <1>4. CASE UNCHANGED <<built, module>>
    <2>1. boot' \in {"register", "listen", "seal", "prepare"} => built' = << >>
      BY <1>4, EarlyBoot DEF BuiltAlongPlan
    <2>2. /\ Len(built') <= Len(plan')
          /\ \A i \in 1..Len(built') : built'[i] = plan'[i]
      <3>1. CASE UNCHANGED catalogVars
        BY <1>4, <3>1 DEF BuiltAlongPlan, catalogVars
      <3>2. CASE boot \in {"register", "seal"}
        <4>1. built' = << >>
          BY <1>4, <3>2 DEF BuiltAlongPlan
        <4> QED
          BY <1>2, <4>1
      <3> QED
        BY <3>1, <3>2, CatalogSteps
    <2>3. \A m \in Modules : module'[m] # "absent" <=> m \in Range(built')
      BY <1>4 DEF BuiltAlongPlan
    <2>4. \A m \in Modules : M(m) \in Range(todo') => m \in Range(built')
      <3>1. Distinct(built)
        BY <1>1, BuiltIs
      <3>2. CASE todo' = todo
        BY <1>4, <3>2 DEF BuiltAlongPlan
      <3>3. CASE BuildError \/ StartBegins
        BY <1>1, <1>4, <3>1, <3>3, DiscardParts, StartParts DEF BuildError, Unwind,
           StartBegins
      <3>4. CASE \/ Unwind("rollback", ShutdownComponents)
                 \/ \E c \in Components : Unwind("rollback",
                         Backwards(SubSeq(ComponentList, 1, c), C) \o ShutdownComponents)
                 \/ Unwind("stopping", Backwards(ComponentList, C) \o ShutdownComponents)
        <4>1. PICK k \in Components \cup {Cardinality(Components)} :
                todo' \in {ShutdownComponents,
                           Backwards(SubSeq(ComponentList, 1, k), C) \o ShutdownComponents}
          <5>1. SubSeq(ComponentList, 1, Cardinality(Components)) = ComponentList
            BY ComponentParts
          <5> QED
            BY <3>4, <5>1 DEF Unwind
        <4> QED
          BY <1>1, <1>4, <3>1, <4>1, StopParts
      <3>5. CASE todo # << >> /\ todo' = Tail(todo)
        <4>1. Range(todo') \subseteq Range(todo)
          BY <1>1, <3>5, TailIs
        <4> QED
          BY <1>4, <4>1 DEF BuiltAlongPlan
      <3>6. ASSUME todo # << >>, NEW x \in Parts, \A m : x # M(m),
                   todo' = <<x>> \o Tail(todo)
            PROVE  \A m \in Modules : M(m) \in Range(todo') => m \in Range(built')
        <4>1. Tail(todo) \in Seq(Parts) /\ Range(Tail(todo)) \subseteq Range(todo)
          BY <1>1, <3>6, TailIs
        <4>2. Range(todo') = {x} \cup Range(Tail(todo))
          BY <3>6, <4>1, ConsIs
        <4>3. \A m \in Modules : M(m) \in Range(todo') => M(m) \in Range(todo)
          BY <3>6, <4>1, <4>2
        <4> QED
          BY <1>4, <4>3 DEF BuiltAlongPlan
      <3>7. CASE \/ todo # << >> /\ \E c \in Components : todo' = <<Draining(c)>> \o Tail(todo)
                 \/ todo # << >> /\ todo' = <<BusClosing>> \o Tail(todo)
        <4>1. /\ \A c \in Components : Draining(c) \in Parts /\ \A m : Draining(c) # M(m)
              /\ BusClosing \in Parts /\ \A m : BusClosing # M(m)
          BY PartsAre, PartsDiffer
        <4> QED
          BY <3>6, <3>7, <4>1
      <3> QED
        BY <3>2, <3>3, <3>4, <3>5, <3>7, TodoSteps DEF Started, Stopped, StartEnds,
           UnwindEnds
    <2> QED
      BY <1>3, <2>1, <2>2, <2>3, <2>4 DEF BuiltAlongPlan
  <1>5. CASE /\ boot = "build" /\ boot' \in {"build", "discard", "wire"}
             /\ Len(built) < Len(plan)
             /\ built' = Append(built, plan[Len(built) + 1])
             /\ module' = [module EXCEPT ![plan[Len(built) + 1]] = "built"]
             /\ UNCHANGED <<catalogVars, providerVars, serverVars, busVars, todo>>
    <2> DEFINE n == Len(built) + 1
    <2>1. plan' = plan /\ n \in 1..Len(plan) /\ plan[n] \in Modules /\ todo' = todo
      BY <1>1, <1>2, <1>5 DEF catalogVars
    <2>2. /\ Len(built') = n /\ DOMAIN built' = 1..n /\ built'[n] = plan[n]
          /\ \A i \in 1..Len(built) : built'[i] = built[i]
      BY <1>1, <1>5, <2>1
    <2>3. \A i \in 1..n : i \in 1..Len(built) \/ i = n
      BY <1>1
    <2>4. Range(built') = Range(built) \cup {plan[n]}
      BY <1>1, <2>1, <2>2, <2>3 DEF Range
    <2>5. \A i \in 1..n : built'[i] = plan[i]
      BY <2>2, <2>3 DEF BuiltAlongPlan
    <2>6. \A m \in Modules : module'[m] # "absent" <=> m \in Range(built')
      BY <1>1, <1>5, <2>1, <2>4 DEF BuiltAlongPlan
    <2> HIDE DEF n
    <2>7. Len(built') <= Len(plan')
      BY <1>2, <2>1, <2>2
    <2> QED
      BY <1>5, <2>1, <2>2, <2>4, <2>5, <2>6, <2>7 DEF BuiltAlongPlan
  <1>6. ASSUME NEW m \in Modules, NEW v \in {"up", "down"},
               phase # "idle" /\ todo # << >> /\ Head(todo) = M(m),
               module' = [module EXCEPT ![m] = v], todo' = Tail(todo), built' = built,
               UNCHANGED <<catalogVars, hostVars>>
        PROVE  BuiltAlongPlan'
    <2>1. M(m) \in Range(todo) /\ Range(todo') \subseteq Range(todo)
      BY <1>1, <1>6, TailIs
    <2>2. m \in Range(built)
      BY <2>1 DEF BuiltAlongPlan
    <2>3. \A x \in Modules : module'[x] # "absent" <=> x \in Range(built')
      BY <1>1, <1>6, <2>2 DEF BuiltAlongPlan
    <2>4. plan' = plan /\ sealed' = sealed /\ boot' = boot
      BY <1>6 DEF catalogVars, hostVars
    <2> QED
      BY <1>6, <2>1, <2>3, <2>4 DEF BuiltAlongPlan
  <1>7. ASSUME NEW m \in Modules, Starts(M(m)), module' = [module EXCEPT ![m] = "up"],
               Started,
               UNCHANGED <<catalogVars, providerVars, serverVars, busVars, hostVars>>
        PROVE  BuiltAlongPlan'
    BY <1>6, <1>7 DEF Starts, Started
  <1>8. ASSUME NEW m \in Modules, Stops(M(m)), module' = [module EXCEPT ![m] = "down"],
               Stopped,
               UNCHANGED <<catalogVars, providerVars, serverVars, busVars, hostVars>>
        PROVE  BuiltAlongPlan'
    BY <1>6, <1>8 DEF Stops, Stopped
  <1> QED
    BY <1>4, <1>5, <1>7, <1>8, ModuleSteps

\* What the resources are after a step of the provider.
LEMMA ResourcesStep ==
    ASSUME CatalogInv, TypeOK, Stages, ResourcesOwned, [Next]_vars
    PROVE  ResourcesOwned'
  <1> DEFINE Owned(s, o, p, c, q) ==
               /\ \A r \in Resources : p[r] \in {0, 1}
               /\ s \in {"prepared", "started"} =>
                   /\ o = q
                   /\ \A r \in Resources : c[r] = 0 /\ (p[r] = 1 <=> r \in o)
               /\ s \notin {"prepared", "started"} => \A r \in Resources : c[r] = p[r]
               /\ s \in {"static", "new"} => o = {}
  <1>1. /\ provider \in {"static", "new", "prepared", "started", "stopped"}
        /\ owned \subseteq Resources
        /\ opened \in [Resources -> Nat] /\ closed \in [Resources -> Nat]
    BY DEF TypeOK, ProviderTypeOK
  <1>2. Owned(provider, owned, opened, closed, Required)
    BY DEF ResourcesOwned
  <1>3. boot \in {"register", "listen", "seal", "prepare"} =>
          provider \in {"static", "new"} /\ \A r \in Resources : opened[r] = 0
    BY DEF ResourcesOwned
  <1>4. CASE boot' \in {"register", "listen", "seal", "prepare"}
    <2>1. boot \in {"register", "listen", "seal", "prepare"} /\ phase = "idle"
      BY <1>4, EarlyBoot
    <2>2. UNCHANGED providerVars
      BY <1>4, <2>1, ProviderSteps DEF PrepareFactory, Starts, Stops
    <2>3. provider' \in {"static", "new"} /\ \A r \in Resources : opened'[r] = 0
      BY <1>3, <2>1, <2>2 DEF providerVars
    <2> QED
      BY <1>2, <2>2, <2>3 DEF ResourcesOwned, providerVars
  <1>5. CASE boot' \notin {"register", "listen", "seal", "prepare"}
    <2>1. provider \in {"static", "new"} \/ Required' = Required
      BY <1>3, CatalogSteps DEF Required, catalogVars
    <2> SUFFICES Owned(provider', owned', opened', closed', Required')
      BY <1>5 DEF ResourcesOwned
    <2>2. CASE UNCHANGED providerVars
      <3>1. provider' = provider /\ owned' = owned /\ opened' = opened /\ closed' = closed
        BY <2>2 DEF providerVars
      <3> QED
        BY <1>2, <2>1, <3>1
    <2>3. CASE PrepareFactory
      <3>1. provider \in {"static", "new"} /\ \A r \in Resources : opened[r] = 0 /\ closed[r] = 0
        BY <1>2, <1>3, <2>3 DEF PrepareFactory
      <3>2. Required' = Required
        BY <2>3 DEF PrepareFactory, Required, catalogVars
      <3>3. CASE Prepare /\ ~UNCHANGED providerVars
        <4>1. provider' = "prepared" /\ owned' = Required /\ opened' = Once(opened, Required)
              /\ closed' = closed
          BY <3>3 DEF Prepare
        <4>2. \A r \in Resources : opened'[r] = IF r \in Required THEN 1 ELSE 0
          BY <1>1, <3>1, <4>1, OnceIs
        <4> QED
          BY <3>1, <3>2, <4>1, <4>2
      <3>4. CASE PrepareFails
        <4>1. PICK S : opened' = Once(opened, S) /\ closed' = Once(closed, S)
          BY <3>4 DEF PrepareFails
        <4>2. provider' = provider /\ owned' = owned
          BY <3>4 DEF PrepareFails
        <4>3. \A r \in Resources : opened'[r] = closed'[r] /\ opened'[r] \in {0, 1}
          BY <1>1, <3>1, <4>1, OnceIs
        <4> QED
          BY <1>2, <3>1, <4>2, <4>3
      <3> QED
        BY <2>2, <2>3, <3>3, <3>4 DEF PrepareFactory
    <2>4. ASSUME provider' = "stopped", owned' = owned, opened' = opened,
                 closed' = Once(closed, owned), provider \in {"new", "prepared", "started"}
          PROVE  Owned(provider', owned', opened', closed', Required')
      <3>1. \A r \in Resources : closed'[r] = closed[r] + (IF r \in owned THEN 1 ELSE 0)
        BY <1>1, <2>4, OnceIs
      <3>2. ASSUME NEW r \in Resources PROVE closed'[r] = opened[r]
        <4>1. CASE provider = "new"
          <5>1. owned = {} /\ closed[r] = opened[r] /\ opened[r] \in Nat
            BY <1>1, <1>2, <4>1
          <5> QED
            BY <3>1, <5>1
        <4>2. CASE provider # "new"
          <5>1. closed[r] = 0 /\ (opened[r] = 1 <=> r \in owned) /\ opened[r] \in {0, 1}
            BY <1>2, <2>4, <4>2
          <5> QED
            BY <3>1, <5>1
        <4> QED
          BY <4>1, <4>2
      <3> QED
        BY <1>2, <2>4, <3>2
    <2>5. CASE ProviderStart /\ ~UNCHANGED providerVars
      <3>1. provider = "prepared" /\ provider' = "started" /\ UNCHANGED <<owned, opened, closed>>
        BY <2>5 DEF ProviderStart
      <3> QED
        BY <1>2, <2>1, <3>1
    <2>6. CASE (ProviderStartFails \/ ProviderShutdown) /\ ~UNCHANGED providerVars
      BY <2>4, <2>6 DEF ProviderStartFails, ProviderShutdown
    <2> HIDE DEF Owned
    <2> QED
      BY <2>2, <2>3, <2>5, <2>6, ProviderSteps
  <1> QED
    BY <1>4, <1>5

---------------------------------------------------------------------------
(* The lists *)

parts == <<built, module, provider, started, stopping, bus>>

\* Start gets on with its list ...
StartsPart ==
    /\ phase = "starting" /\ todo # << >> /\ todo' = Tail(todo)
    /\ UNCHANGED <<phase, built, bus, app>>
    /\ \/ /\ Head(todo) = Factory
          /\ ProviderStart /\ UNCHANGED <<module, started, stopping>>
       \/ \E m \in Modules :
             /\ Head(todo) = M(m)
             /\ module' = [module EXCEPT ![m] = "up"]
             /\ UNCHANGED <<provider, started, stopping>>
       \/ \E c \in Components :
             /\ Head(todo) = C(c)
             /\ ComponentStart(c) /\ UNCHANGED <<provider, module>>

\* ... or gives up at its head.
RollsBack ==
    /\ phase = "starting" /\ todo # << >> /\ phase' = "rollback"
    /\ UNCHANGED <<built, module, started, stopping, bus, app>>
    /\ \/ /\ Head(todo) = Factory
          /\ todo' = ShutdownComponents
          /\ provider \in {"prepared", "stopped"} /\ provider' = "stopped"
       \/ \E m \in Modules :
             /\ Head(todo) = M(m)
             /\ todo' = ShutdownComponents /\ UNCHANGED provider
       \/ \E c \in Components :
             /\ Head(todo) = C(c)
             /\ todo' = Backwards(SubSeq(ComponentList, 1, c), C) \o ShutdownComponents
             /\ UNCHANGED provider

\* Shutdown takes the lock and makes its list.
TakesLock ==
    /\ phase = "idle" /\ app # "stopped" /\ app' = "stopping"
    /\ Unwind("stopping", Backwards(ComponentList, C) \o ShutdownComponents)
    /\ UNCHANGED parts

\* The head of a list of parts to be stopped is.
StopsPart ==
    /\ Unwinding /\ todo # << >> /\ UNCHANGED <<phase, built, app>>
    /\ \/ /\ Head(todo) = Factory
          /\ ProviderShutdown /\ todo' = Tail(todo)
          /\ UNCHANGED <<module, started, stopping, bus>>
       \/ \E m \in Modules :
             /\ Head(todo) = M(m)
             /\ module' = [module EXCEPT ![m] = "down"] /\ todo' = Tail(todo)
             /\ UNCHANGED <<provider, started, stopping, bus>>
       \/ \E c \in Components :
             /\ Head(todo) = C(c)
             /\ stopping' = stopping \cup {c} /\ todo' = <<Draining(c)>> \o Tail(todo)
             /\ UNCHANGED <<provider, module, started, bus>>
       \/ \E c \in Components :
             /\ Head(todo) = C(c) /\ c \in stopping
             /\ todo' = Tail(todo) /\ UNCHANGED parts
       \/ \E c \in Components :
             /\ Head(todo) = Draining(c) /\ ShutdownEnds(c, expired)
             /\ todo' = Tail(todo) /\ UNCHANGED parts
       \/ /\ Head(todo) = Bus
          /\ bus' = "closing" /\ todo' = <<BusClosing>> \o Tail(todo)
          /\ UNCHANGED <<provider, module, started, stopping>>
       \/ /\ Head(todo) = Bus /\ bus # "open"
          /\ todo' = Tail(todo) /\ UNCHANGED parts
       \/ /\ Head(todo) = BusClosing
          /\ bus' = "closed" /\ todo' = Tail(todo)
          /\ UNCHANGED <<provider, module, started, stopping>>

\* Whatever happens to the parts of the application happens in one of these
\* ways.
LEMMA WorkSteps ==
    ASSUME TypeOK, Stages, [Next]_vars
    PROVE  \/ UNCHANGED <<todo, phase, parts>>
           \/ boot \in {"prepare", "build"} /\ UNCHANGED <<todo, phase, app, started, stopping, bus>>
           \/ boot \in {"prepare", "build"} /\ BuildError /\ UNCHANGED <<parts, app>>
           \/ todo = << >> /\ phase' = "idle" /\ UNCHANGED <<todo, parts>>
           \/ boot = "start" /\ StartBegins /\ UNCHANGED parts
           \/ StartsPart \/ RollsBack \/ TakesLock \/ StopsPart
  <1>1. CASE RegisterModule \/ MainBegins \/ Listen \/ SealCatalog \/ Wire \/ RunBegins
             \/ Publish \/ GiveUp
    BY <1>1 DEF RegisterModule, MainBegins, Listen, SealCatalog, Wire, RunBegins,
                Publish, GiveUp, appVars, ShutdownCalled, BootFails,
                parts, providerVars, serverVars, busVars
  <1>2. CASE PrepareFactory
    BY <1>2 DEF PrepareFactory, appVars, PrepareFails, parts, serverVars, busVars
  <1>3. CASE Build
    <2>1. boot = "build" /\ app = "none" /\ phase = "idle"
      BY <1>3 DEF Build, Stages, Early
    <2>2. CASE BuildModule
      BY <1>3, <2>1, <2>2 DEF Build, BuildModule, parts, providerVars, serverVars,
         busVars
    <2>3. CASE CollectCapabilities
      BY <1>3, <2>1, <2>3 DEF Build, CollectCapabilities, parts, providerVars,
         serverVars, busVars
    <2> QED
      BY <1>3, <2>2, <2>3 DEF Build
  <1>4. CASE Discarded \/ BootStarts \/ BootStarted \/ Unwound
    BY <1>4 DEF Discarded, BootStarts, BootStarted, Unwound, StartBegins,
       StartRefused, StartEnds,
                UnwindEnds, BootFails, appVars, parts, providerVars, serverVars, busVars
  <1>5. CASE RunReturns \/ (\E p \in Stoppers : CallShutdown(p))
             \/ DeadlinePasses \/ EnvironmentStep \/ ProbeBegins \/ ProbeAsks
             \/ UNCHANGED vars
    BY <1>5 DEF RunReturns, CallShutdown, ShutdownCalled,
                DeadlinePasses, Expire, EnvironmentStep, ServerStep, BusStep,
                ProbeBegins,
                ProbeAsks, Arrive, Answer, ServeEnds, ServeFails, DelayPublish,
                Fire, Settle,
                vars, appVars, parts, providerVars, serverVars, busVars
  <1>6. CASE StartFactory \/ (\E m \in Modules : StartModule(m))
             \/ (\E c \in Components : StartComponent(c))
    BY <1>6 DEF StartFactory, StartModule, StartComponent, Starts, Started,
       StartsPart, RollsBack,
                ProviderStartFails, ComponentStartFails, Unwind, providerVars,
                serverVars, busVars
  <1>7. CASE StopFactory \/ (\E m \in Modules : StopModule(m))
    BY <1>7 DEF StopFactory, StopModule, Stops, Stopped, Unwinding, StopsPart,
                providerVars, serverVars, busVars
  <1>8. CASE (\E c \in Components : StopComponent(c) \/ ComponentStops(c))
    BY <1>8 DEF StopComponent, ComponentStops, Stops, Stopped, Unwinding, StopsPart,
       parts,
                ShutdownBegins, ShutdownAgain, ShutdownEnds, providerVars,
                serverVars, busVars
  <1>9. CASE CloseBus \/ BusCloses
    BY <1>9 DEF CloseBus, BusCloses, Stops, Stopped, Unwinding, StopsPart, parts,
                BusCloseBegins, BusCloseAgain, BusCloseEnds, providerVars,
                serverVars, busVars
  <1>10. ASSUME NEW p \in Callers, ShutdownTakesLock(p)
         PROVE  UNCHANGED <<todo, phase, parts>> \/ TakesLock
    <2>1. phase = "idle"
      <3>1. /\ holder = Nobody /\ shutdown[p] = "waiting"
            /\ phase \in {"idle", "starting", "rollback", "stopping", "discard"}
        BY <1>10 DEF ShutdownTakesLock, TypeOK, AppTypeOK
      <3> QED
        BY <3>1 DEF Stages, Early
    <2> QED
      BY <1>10, <2>1 DEF ShutdownTakesLock, TakesLock, parts, providerVars,
         serverVars, busVars
  <1> QED
    BY <1>1, <1>2, <1>3, <1>4, <1>5, <1>6, <1>7, <1>8, <1>9, <1>10
    DEF Next, BootStep, LockStep, HolderStep

\* Start takes the head of its list only after it has started it.
LEMMA StartListStep ==
    ASSUME CatalogInv, TypeOK, Stages, BuiltAlongPlan, StartList, ServersBehind,
           [Next]_vars
    PROVE  StartList'
  <1>1. /\ built \in Seq(Modules) /\ todo \in Seq(Parts) /\ started \subseteq Components
        /\ module \in [Modules -> {"absent", "built", "up", "down"}]
    BY DEF TypeOK, AppTypeOK, ServerTypeOK
  <1>2. Distinct(built) /\ Range(built) \subseteq Modules
    BY <1>1, BuiltIs
  <1> SUFFICES ASSUME phase' = "starting" PROVE StartList'
    BY DEF StartList
  <1>3. CASE UNCHANGED <<todo, phase, parts>>
    BY <1>3 DEF StartList, parts
  <1>4. CASE boot \in {"prepare", "build"} /\ phase' = phase
    BY <1>4 DEF Stages, Early
  <1>5. CASE boot = "start" /\ StartBegins /\ UNCHANGED parts
    <2>1. /\ todo' = <<Factory>> \o AsParts(built, M) \o AsParts(ComponentList, C)
          /\ built' = built /\ started' = started /\ started = {}
      BY <1>5 DEF StartBegins, parts, ServersBehind, Early
    <2>2. /\ StartOrder(built, todo') /\ Factory \in Range(todo')
          /\ \A m : M(m) \in Range(todo') <=> m \in Range(built)
          /\ \A c \in Components : C(c) \in Range(todo')
      <3>1. \A q : q = <<Factory>> \o AsParts(built, M) \o AsParts(ComponentList, C) =>
              /\ StartOrder(built, q) /\ Factory \in Range(q)
              /\ \A m : M(m) \in Range(q) <=> m \in Range(built)
              /\ \A c \in Components : C(c) \in Range(q)
        BY <1>1, <1>2, StartParts
      <3> QED
        BY <2>1, <3>1
    <2> QED
      BY <2>1, <2>2 DEF StartList
  <1>6. CASE StartsPart
    <2>1. /\ phase = "starting" /\ todo # << >> /\ todo' = Tail(todo) /\ built' = built
      BY <1>6 DEF StartsPart
    <2>2. /\ StartOrder(built, todo)
          /\ Factory \in Range(todo) \/ provider \in {"static", "started"}
          /\ \A m \in Range(built) : M(m) \in Range(todo) \/ module[m] = "up"
          /\ \A c \in Components : C(c) \in Range(todo) \/ c \in started \ stopping
          /\ \A c \in started, d \in Components : C(d) \in Range(todo) => c < d
          /\ started # {} => \A x \in Range(todo) : \E d \in Components : x = C(d)
      BY <2>1 DEF StartList
    <2>3. /\ StartOrder(built, todo')
          /\ \A y \in Range(todo') : StartsBefore(built, Head(todo), y)
          /\ Range(todo) = {Head(todo)} \cup Range(todo')
      BY <1>1, <2>1, <2>2, StartTail, TailIs
    <2> DEFINE q == todo'
    <2>4. q = todo'
      OBVIOUS
    <2> HIDE DEF q
    <2>5. CASE Head(todo) = Factory /\ ProviderStart /\ UNCHANGED <<module, started, stopping>>
      <3>1. provider' \in {"static", "started"}
        BY <2>5 DEF ProviderStart, providerVars
      <3>2. \A x : M(x) # Factory /\ C(x) # Factory
        BY PartsDiffer
      <3>3. Range(q) = Range(todo) \ {Factory} \/ Range(q) = Range(todo)
        BY <2>3, <2>4, <2>5
      <3>4. /\ \A x : M(x) \in Range(q) <=> M(x) \in Range(todo)
            /\ \A x : C(x) \in Range(q) <=> C(x) \in Range(todo)
        BY <3>2, <3>3
      <3>5. /\ started' = started /\ stopping' = stopping /\ module' = module
        BY <2>5
      <3>6. started # {} => \A x \in Range(q) : \E d \in Components : x = C(d)
        BY <2>2, <3>3
      <3> QED
        BY <2>1, <2>2, <2>3, <2>4, <3>1, <3>4, <3>5, <3>6 DEF StartList
    <2>6. ASSUME NEW m \in Modules, Head(todo) = M(m),
                 module' = [module EXCEPT ![m] = "up"],
                 UNCHANGED <<provider, started, stopping>>
          PROVE  StartList'
      <3>1. Factory # M(m) /\ \A c : C(c) # M(m)
        BY PartsDiffer
      <3>2. \A x \in Range(todo) : x \in Range(q) \/ x = M(m)
        BY <2>3, <2>4, <2>6
      <3>3. Range(q) \subseteq Range(todo)
        BY <2>3, <2>4
      <3>4. /\ Factory \in Range(todo) => Factory \in Range(q)
            /\ \A c : C(c) \in Range(q) <=> C(c) \in Range(todo)
        BY <3>1, <3>2, <3>3
      <3>5. ASSUME NEW x \in Range(built) PROVE M(x) \in Range(q) \/ module'[x] = "up"
        <4>1. x \in Modules /\ (M(x) = M(m) => x = m)
          BY <1>2, PartsDiffer
        <4> QED
          BY <1>1, <2>2, <2>6, <3>2, <4>1
      <3>6. provider' = provider /\ started' = started /\ stopping' = stopping
        BY <2>6
      <3> QED
        BY <2>1, <2>2, <2>3, <2>4, <3>3, <3>4, <3>5, <3>6 DEF StartList
    <2>7. ASSUME NEW c \in Components, Head(todo) = C(c), ComponentStart(c),
                 UNCHANGED <<provider, module>>
          PROVE  StartList'
      <3>1. Factory # C(c) /\ \A m : M(m) # C(c)
        BY PartsDiffer
      <3>2. \A x \in Range(todo) : x \in Range(q) \/ x = C(c)
        BY <2>3, <2>4, <2>7
      <3>3. Range(q) \subseteq Range(todo) /\ C(c) \in Range(todo)
        BY <2>3, <2>4, <2>7
      <3>4. c \in Nat
        BY TransportAssumption, FS_CardinalityType
      <3>5. c \notin started
        BY <2>2, <3>3, <3>4
      <3>6. started' = started \cup {c} /\ stopping' = stopping /\ c \notin stopping
        BY <2>7, <3>5 DEF ComponentStart
      <3>7. \A y \in Range(q) : \E d \in Components : y = C(d) /\ c < d
        BY <2>3, <2>4, <2>7 DEF StartsBefore
      <3>8. /\ Factory \in Range(q) \/ provider' \in {"static", "started"}
            /\ \A m \in Range(built) : M(m) \in Range(q) \/ module'[m] = "up"
        BY <2>2, <2>7, <3>1, <3>2
      <3>9. \A e \in Components : C(e) \in Range(q) \/ e \in started' \ stopping'
        <4> SUFFICES ASSUME NEW e \in Components, C(e) \notin Range(q)
                     PROVE  e \in started' \ stopping'
          OBVIOUS
        <4>1. C(e) \in Range(todo) => e = c
          BY <3>2, PartsDiffer
        <4> QED
          BY <2>2, <3>6, <4>1
      <3>10. \A e \in started', d \in Components : C(d) \in Range(q) => e < d
        <4> SUFFICES ASSUME NEW e \in started', NEW d \in Components, C(d) \in Range(q)
                     PROVE  e < d
          OBVIOUS
        <4>1. CASE e = c
          BY <3>7, <4>1, PartsDiffer
        <4>2. CASE e \in started
          BY <2>2, <3>3, <4>2
        <4> QED
          BY <3>6, <4>1, <4>2
      <3> QED
        BY <2>1, <2>3, <2>4, <3>7, <3>8, <3>9, <3>10 DEF StartList
    <2> QED
      BY <1>6, <2>5, <2>6, <2>7 DEF StartsPart
  <1> QED
    BY <1>3, <1>4, <1>5, <1>6, WorkSteps
    DEF BuildError, Unwind, RollsBack, TakesLock, StopsPart, Unwinding

\* What a list made of ShutdownComponents says, for a start that came to
\* component k, and for a shutdown.
LEMMA StopBegins ==
    ASSUME CatalogInv, TypeOK, BuiltAlongPlan,
           NEW k \in Components \cup {Cardinality(Components)},
           \/ todo' = ShutdownComponents
           \/ todo' = Backwards(SubSeq(ComponentList, 1, k), C) \o ShutdownComponents
    PROVE  /\ StopOrder(built, todo') /\ Factory \in Range(todo') /\ Bus \in Range(todo')
           /\ \A m : M(m) \in Range(todo') <=> m \in Range(built)
           /\ todo' = Backwards(SubSeq(ComponentList, 1, k), C) \o ShutdownComponents
                => \A c \in 1..k : C(c) \in Range(todo')
  <1>1. built \in Seq(Modules)
    BY DEF TypeOK, AppTypeOK
  <1>2. Distinct(built)
    BY <1>1, BuiltIs
  <1>3. \A q \in {ShutdownComponents,
                  Backwards(SubSeq(ComponentList, 1, k), C) \o ShutdownComponents} :
          /\ StopOrder(built, q) /\ Factory \in Range(q) /\ Bus \in Range(q)
          /\ \A m : M(m) \in Range(q) <=> m \in Range(built)
          /\ q = Backwards(SubSeq(ComponentList, 1, k), C) \o ShutdownComponents
               => \A c \in 1..k : C(c) \in Range(q)
    BY <1>1, <1>2, StopParts
  <1> QED
    BY <1>3

\* The list of a rollback, a shutdown or a discarded construction begins with
\* all that has to be stopped, and loses a part only when that was stopped.
LEMMA StopListStep ==
    ASSUME CatalogInv, TypeOK, Stages, BuiltAlongPlan, StartList, StopList,
    ServersBehind,
           [Next]_vars
    PROVE  StopList'
  <1>1. /\ built \in Seq(Modules) /\ todo \in Seq(Parts) /\ started \subseteq Components
        /\ module \in [Modules -> {"absent", "built", "up", "down"}]
    BY DEF TypeOK, AppTypeOK, ServerTypeOK
  <1>2. Distinct(built) /\ Range(built) \subseteq Modules
    BY <1>1, BuiltIs
  <1>3. Components = 1..Cardinality(Components) /\ Cardinality(Components) \in Nat
    BY TransportAssumption, FS_CardinalityType
  <1> SUFFICES ASSUME phase' \in {"rollback", "stopping", "discard"} PROVE StopList'
    BY DEF StopList, Unwinding
  <1>4. CASE UNCHANGED <<todo, phase, parts>>
    BY <1>4 DEF StopList, Unwinding, parts
  <1>5. CASE boot \in {"prepare", "build"} /\ phase' = phase
    BY <1>5 DEF Stages, Early
  <1>6. CASE boot \in {"prepare", "build"} /\ BuildError /\ UNCHANGED <<parts, app>>
    <2>1. started' = {} /\ built' = built /\ phase' = "discard"
          /\ todo' = <<Bus>> \o Backwards(built, M) \o <<Factory>>
      BY <1>6 DEF ServersBehind, Early, parts, BuildError, Unwind
    <2>2. \A q : q = <<Bus>> \o Backwards(built, M) \o <<Factory>> =>
            /\ StopOrder(built, q) /\ Factory \in Range(q) /\ Bus \in Range(q)
            /\ \A m : M(m) \in Range(q) <=> m \in Range(built)
            /\ \A x \in Range(q) : ~Transport(x)
      BY <1>1, <1>2, DiscardParts
    <2>3. /\ StopOrder(built, todo') /\ Factory \in Range(todo') /\ Bus \in Range(todo')
          /\ \A m : M(m) \in Range(todo') <=> m \in Range(built)
          /\ \A x \in Range(todo') : ~Transport(x)
      BY <2>1, <2>2
    <2> QED
      BY <2>1, <2>3 DEF StopList
  <1>7. ASSUME /\ StopOrder(built, todo') /\ Factory \in Range(todo') /\ Bus \in Range(todo')
               /\ \A m : M(m) \in Range(todo') <=> m \in Range(built),
               UNCHANGED <<built, module, started, stopping, bus>>, phase' # "discard",
               \A c \in Components : c \in started \/ phase' = "stopping" => C(c) \in Range(todo')
        PROVE  StopList'
    BY <1>7 DEF StopList
  <1>8. CASE RollsBack
    <2>1. /\ phase = "starting" /\ todo # << >> /\ phase' = "rollback"
          /\ UNCHANGED <<built, module, started, stopping, bus>>
          /\ Head(todo) \in Range(todo)
      BY <1>1, <1>8, TailIs DEF RollsBack
    <2>2. ASSUME started = {}, todo' = ShutdownComponents PROVE StopList'
      BY <1>7, <2>1, <2>2, StopBegins
    <2>3. ASSUME NEW c \in Components, Head(todo) = C(c),
                 todo' = Backwards(SubSeq(ComponentList, 1, c), C) \o ShutdownComponents
          PROVE  StopList'
      <3>1. \A d \in started : d < c
        BY <2>1, <2>3 DEF StartList
      <3>2. \A d \in started : d \in 1..c
        BY <1>1, <1>3, <3>1
      <3>3. /\ StopOrder(built, todo') /\ Factory \in Range(todo') /\ Bus \in Range(todo')
            /\ \A m : M(m) \in Range(todo') <=> m \in Range(built)
            /\ \A d \in 1..c : C(d) \in Range(todo')
        BY <2>3, StopBegins
      <3>4. \A d \in Components : d \in started \/ phase' = "stopping" => C(d) \in Range(todo')
        BY <2>1, <3>2, <3>3
      <3> QED
        BY <1>7, <2>1, <3>3, <3>4
    <2>4. ASSUME \A d \in Components : Head(todo) # C(d) PROVE started = {}
      BY <2>1, <2>4 DEF StartList
    <2>5. /\ \A d : Factory # C(d)
          /\ \A m, d : M(m) # C(d)
      BY PartsDiffer
    <2> QED
      BY <1>8, <2>2, <2>3, <2>4, <2>5 DEF RollsBack
  <1>9. CASE TakesLock
    <2> DEFINE n == Cardinality(Components)
    <2>1. /\ todo' = Backwards(SubSeq(ComponentList, 1, n), C) \o ShutdownComponents
          /\ UNCHANGED <<built, module, started, stopping, bus>>
      BY <1>9, ComponentParts DEF TakesLock, Unwind, parts
    <2>3. phase' = "stopping"
      BY <1>9 DEF TakesLock, Unwind
    <2>2. /\ StopOrder(built, todo') /\ Factory \in Range(todo') /\ Bus \in Range(todo')
          /\ \A m : M(m) \in Range(todo') <=> m \in Range(built)
          /\ \A d \in 1..n : C(d) \in Range(todo')
      BY <2>1, StopBegins
    <2> QED
      BY <1>3, <1>7, <2>1, <2>2, <2>3
  <1>10. CASE StopsPart
    <2>1. Unwinding /\ todo # << >> /\ phase' = phase /\ built' = built
      BY <1>10 DEF StopsPart
    <2>2. /\ StopOrder(built, todo)
          /\ Factory \in Range(todo) \/ provider \in {"static", "stopped"}
          /\ \A m \in Range(built) : M(m) \in Range(todo) \/ module[m] = "down"
          /\ \A c \in Components :
               c \in started \/ phase = "stopping" => c \in stopping \/ C(c) \in Range(todo)
          /\ (\E x \in Range(todo) : Transport(x)) =>
               \A m \in Range(built) : M(m) \in Range(todo)
          /\ bus = "open" => Bus \in Range(todo)
          /\ phase = "discard" => \A x \in Range(todo) : ~Transport(x)
      BY <2>1 DEF StopList
    <2> DEFINE h == Head(todo)
               t == Tail(todo)
    <2>3. /\ t \in Seq(Parts) /\ h \in Parts /\ StopOrder(built, t)
          /\ \A y \in Range(t) : StopsBefore(built, h, y)
          /\ Range(todo) = {h} \cup Range(t)
      BY <1>1, <2>1, <2>2, StopTail, TailIs
    <2> HIDE DEF h, t
    <2>4. /\ \A x \in Range(todo) : x \in Range(t) \/ x = h
          /\ Range(t) \subseteq Range(todo)
      BY <2>3
    <2>5. ~Transport(h) => \A x \in Range(t) : ~Transport(x)
      BY <2>3 DEF StopsBefore
    <2>6. Transport(h) =>
            /\ \A m \in Range(built) : M(m) \in Range(t)
            /\ Factory \in Range(t) \/ provider \in {"static", "stopped"}
            /\ bus = "open" => Bus \in Range(t)
      <3>1. Transport(h) => h # Factory /\ h # Bus /\ \A m : h # M(m)
        BY NotTransport
      <3> QED
        BY <2>2, <2>3, <2>4, <3>1
    \* The head is not a component.
    <2>7. ASSUME ~Transport(h), todo' = t, UNCHANGED <<started, stopping>>,
                 Factory \in Range(t) \/ provider' \in {"static", "stopped"},
                 \A m \in Range(built) : M(m) \in Range(t) \/ module'[m] = "down",
                 bus' = "open" => Bus \in Range(t)
          PROVE  StopList'
      <3>1. \A c \in Components : C(c) # h
        BY <2>7, NotTransport
      <3>2. \A c \in Components :
               c \in started \/ phase = "stopping" => c \in stopping \/ C(c) \in Range(t)
        BY <2>2, <2>4, <3>1
      <3> QED
        BY <2>1, <2>3, <2>5, <2>7, <3>2 DEF StopList
    \* It is, and what is left of it may stand in front.
    <2>8. ASSUME Transport(h), UNCHANGED <<built, module, provider, started, bus>>,
                 StopOrder(built, todo'), Range(t) \subseteq Range(todo'),
                 stopping \subseteq stopping', \A c \in Components : h = C(c) => c \in stopping'
          PROVE  StopList'
      <3>1. \A c \in Components : c \in started' \/ phase' = "stopping" =>
                c \in stopping' \/ C(c) \in Range(todo')
        BY <2>1, <2>2, <2>4, <2>8
      <3>2. \A m \in Range(built) : M(m) \in Range(todo')
        BY <2>6, <2>8
      <3>3. phase' # "discard"
        BY <2>1, <2>2, <2>3, <2>8
      <3> QED
        BY <2>6, <2>8, <3>1, <3>2, <3>3 DEF StopList
    <2>9. CASE /\ h = Factory
               /\ ProviderShutdown /\ todo' = t
               /\ UNCHANGED <<module, started, stopping, bus>>
      <3>1. ~Transport(h) /\ (\A m : M(m) # h) /\ Bus # h
        BY <2>9, NotTransport, PartsDiffer
      <3>2. provider' \in {"static", "stopped"}
        BY <2>9 DEF ProviderShutdown, providerVars
      <3> QED
        BY <2>2, <2>4, <2>7, <2>9, <3>1, <3>2
    <2>10. ASSUME NEW m \in Modules, h = M(m), module' = [module EXCEPT ![m] = "down"],
                  todo' = t,
                  UNCHANGED <<provider, started, stopping, bus>>
           PROVE  StopList'
      <3>1. ~Transport(h) /\ Factory # h /\ Bus # h /\ \A x : M(x) = h => x = m
        BY <2>10, NotTransport, PartsDiffer
      <3>2. \A x \in Range(built) : M(x) \in Range(t) \/ module'[x] = "down"
        BY <1>1, <1>2, <2>2, <2>4, <2>10, <3>1
      <3> QED
        BY <2>2, <2>4, <2>7, <2>10, <3>1, <3>2
    <2>11. ASSUME NEW c \in Components, h = C(c), stopping' = stopping \cup {c},
                  todo' = <<Draining(c)>> \o t, UNCHANGED <<provider, module, started, bus>>
           PROVE  StopList'
      <3>1. Transport(h) /\ Draining(c) \in Parts /\ \A d \in Components : h = C(d) => d = c
        BY <2>11, NotTransport, PartsAre, PartsDiffer
      <3>2. \A y : StopsBefore(built, Draining(c), y)
        BY NotTransport, PartsDiffer DEF StopsBefore
      <3>3. StopOrder(built, todo')
        BY <2>3, <2>11, <3>1, <3>2, StopCons
      <3>4. Range(t) \subseteq Range(todo')
        BY <2>3, <2>11, <3>1, ConsIs
      <3> QED
        BY <2>1, <2>8, <2>11, <3>1, <3>3, <3>4
    <2>12. ASSUME NEW c \in Components, \/ h = C(c) /\ c \in stopping
                                        \/ h = Draining(c),
                  todo' = t, UNCHANGED parts
           PROVE  StopList'
      <3>1. Transport(h) /\ \A d \in Components : h = C(d) => d \in stopping
        BY <2>12, NotTransport, PartsDiffer
      <3> QED
        BY <2>3, <2>8, <2>12, <3>1 DEF parts
    <2>13. CASE /\ h = Bus /\ bus' = "closing" /\ todo' = <<BusClosing>> \o t
                /\ UNCHANGED <<provider, module, started, stopping>>
      <3>1. /\ ~Transport(h) /\ Factory # h /\ (\A m : M(m) # h) /\ (\A c : C(c) # h)
            /\ BusClosing \in Parts /\ ~Transport(BusClosing)
        BY <2>13, NotTransport, PartsAre, PartsDiffer
      <3>2. ASSUME NEW y \in Range(t) PROVE StopsBefore(built, BusClosing, y)
        <4>1. y \notin {Bus, BusClosing} /\ ~Transport(y)
          BY <2>3, <2>13, <3>1 DEF StopsBefore
        <4> QED
          BY <4>1, PartsDiffer DEF StopsBefore
      <3>3. StopOrder(built, todo')
        BY <2>3, <2>13, <3>1, <3>2, StopCons
      <3>4. Range(todo') = {BusClosing} \cup Range(t)
        BY <2>3, <2>13, <3>1, ConsIs
      <3>5. \A x \in Range(todo') : ~Transport(x)
        BY <2>5, <3>1, <3>4
      <3>6. /\ Factory \in Range(todo') \/ provider \in {"static", "stopped"}
            /\ \A m \in Range(built) : M(m) \in Range(todo') \/ module[m] = "down"
            /\ \A c \in Components :
                 c \in started \/ phase = "stopping" => c \in stopping \/ C(c) \in Range(todo')
        BY <2>2, <2>4, <3>1, <3>4
      <3> QED
        BY <2>1, <2>13, <3>3, <3>5, <3>6 DEF StopList
    <2>14. CASE h = Bus /\ bus # "open" /\ todo' = t /\ UNCHANGED parts
      <3>1. ~Transport(h) /\ Factory # h /\ (\A m : M(m) # h)
        BY <2>14, NotTransport, PartsDiffer
      <3>2. UNCHANGED <<provider, module, started, stopping, bus>>
        BY <2>14 DEF parts
      <3> QED
        BY <2>2, <2>4, <2>7, <2>14, <3>1, <3>2
    <2>15. CASE h = BusClosing /\ bus' = "closed" /\ todo' = t
                /\ UNCHANGED <<provider, module, started, stopping>>
      <3>1. ~Transport(h) /\ Factory # h /\ (\A m : M(m) # h)
        BY <2>15, NotTransport, PartsDiffer
      <3> QED
        BY <2>2, <2>4, <2>7, <2>15, <3>1
    <2> QED
      BY <1>10, <2>9, <2>10, <2>11, <2>12, <2>13, <2>14, <2>15 DEF StopsPart, h, t
  <1> QED
    BY <1>4, <1>5, <1>6, <1>8, <1>9, <1>10, WorkSteps DEF StartsPart, StartBegins

---------------------------------------------------------------------------
(* Modules, servers and the bus *)

\* Modules come up in the order of the plan on a provider that is started,
\* and go down backwards before it does.
LEMMA UpStep ==
    ASSUME CatalogInv, TypeOK, TypeOK', Stages, BuiltAlongPlan, BuiltAlongPlan',
           StartList, StopList,
           UpInOrder, [Next]_vars
    PROVE  UpInOrder'
  <1>1. /\ built \in Seq(Modules) /\ todo \in Seq(Parts) /\ Len(built) \in Nat
        /\ module \in [Modules -> {"absent", "built", "up", "down"}]
    BY DEF TypeOK, AppTypeOK
  <1>2. /\ Distinct(built) /\ Distinct(plan) /\ Range(built) \subseteq Modules
        /\ \A m : m \in Range(built) <=> \E i \in 1..Len(built) : m = built[i]
    BY <1>1, BuiltIs
  <1>3. \A i \in 1..Len(built) : built[i] \in Modules /\ built[i] \in Range(built)
    BY <1>1, <1>2
  <1>4. ASSUME UNCHANGED <<built, module, provider>>,
               Unwinding' \/ ~Unwinding PROVE UpInOrder'
    BY <1>4 DEF UpInOrder
  <1>5. CASE boot \in {"prepare", "build"} /\ UNCHANGED <<todo, phase, app, started, stopping, bus>>
    <2>1. phase = "idle" /\ phase' = "idle" /\ ~Unwinding /\ ~Unwinding'
      BY <1>5 DEF Stages, Early, Unwinding
    <2>2. CASE boot = "prepare"
      <3>1. built = << >> /\ UNCHANGED <<built, module>>
        BY <2>1, <2>2, ModuleSteps DEF BuiltAlongPlan, Starts, Stops
      <3>2. Len(built') = 0 /\ \A m \in Modules : module'[m] = "absent"
        BY <1>1, <3>1 DEF BuiltAlongPlan, Range
      <3> QED
        BY <3>2 DEF UpInOrder
    <2>3. CASE boot = "build"
      <3>1. UNCHANGED providerVars
        BY <2>1, <2>3, ProviderSteps DEF PrepareFactory, Starts, Stops
      <3>2. CASE UNCHANGED <<built, module>>
        BY <1>4, <2>1, <3>1, <3>2 DEF providerVars
      <3>3. CASE /\ Len(built) < Len(plan)
                 /\ built' = Append(built, plan[Len(built) + 1])
                 /\ module' = [module EXCEPT ![plan[Len(built) + 1]] = "built"]
        <4> DEFINE n == Len(built) + 1
        <4>1. /\ n \in 1..Len(plan) /\ plan[n] \in Modules /\ Len(built') = n
              /\ built'[n] = plan[n] /\ \A i \in 1..Len(built) : built'[i] = built[i]
          BY <1>1, <3>3 DEF CatalogInv, CatalogTypeOK
        <4>2. \A i \in 1..n : i \in 1..Len(built) \/ i = n
          BY <1>1
        <4>3. /\ module'[plan[n]] = "built"
              /\ \A m \in Modules : m # plan[n] => module'[m] = module[m]
          BY <1>1, <3>3, <4>1
        <4>4. \A i \in 1..Len(built) : i \in 1..Len(plan) /\ i # n /\ built[i] = plan[i]
          BY <1>1, <4>1 DEF BuiltAlongPlan
        <4> HIDE DEF n
        <4>5. \A i \in 1..Len(built) : built[i] # plan[n]
          BY <1>2, <4>1, <4>4 DEF Distinct
        <4>6. ASSUME NEW i \in 1..Len(built'), NEW j \in 1..Len(built'), i < j,
                     module'[built'[j]] = "up"
              PROVE  module'[built'[i]] = "up"
          <5>1. j \in 1..Len(built)
            BY <4>1, <4>2, <4>3, <4>6
          <5>2. i \in 1..Len(built)
            BY <1>1, <4>6, <5>1
          <5>3. module[built[j]] = "up"
            BY <1>3, <4>1, <4>3, <4>5, <4>6, <5>1
          <5>4. module[built[i]] = "up"
            BY <4>6, <5>1, <5>2, <5>3 DEF UpInOrder
          <5> QED
            BY <1>3, <4>1, <4>3, <4>5, <5>2, <5>4
        <4>7. \A m \in Modules : module'[m] \in {"up", "down"} => module[m] = module'[m]
          BY <4>3
        <4>8. provider' = provider
          BY <3>1 DEF providerVars
        <4> QED
          BY <2>1, <4>6, <4>7, <4>8 DEF UpInOrder
      <3> QED
        BY <2>1, <3>2, <3>3, ModuleSteps DEF Starts, Stops
    <2> QED
      BY <1>5, <2>2, <2>3
  <1>6. CASE todo = << >> /\ phase' = "idle" /\ UNCHANGED <<todo, parts>>
    <2>1. Unwinding => provider \in {"static", "stopped"}
      BY <1>6 DEF StopList, Range
    <2>2. UNCHANGED <<built, module, provider>> /\ ~Unwinding'
      BY <1>6 DEF parts, Unwinding
    <2> QED
      BY <2>1, <2>2 DEF UpInOrder
  <1>7. CASE StartsPart
    <2>1. /\ phase = "starting" /\ todo # << >> /\ built' = built /\ phase' = phase
          /\ ~Unwinding /\ ~Unwinding'
      BY <1>7 DEF StartsPart, Unwinding
    <2>2. /\ Factory \in Range(todo) \/ provider \in {"static", "started"}
          /\ \A m \in Range(built) : M(m) \in Range(todo) \/ module[m] = "up"
          /\ \A y \in Range(Tail(todo)) : StartsBefore(built, Head(todo), y)
          /\ Range(todo) = {Head(todo)} \cup Range(Tail(todo))
      BY <1>1, <2>1, StartTail, TailIs DEF StartList
    <2>3. CASE Head(todo) = Factory /\ ProviderStart /\ UNCHANGED <<module, started, stopping>>
      <3>1. \/ provider = "static" /\ provider' = "static"
            \/ provider = "prepared" /\ provider' = "started"
        BY <2>3 DEF ProviderStart, providerVars
      <3>2. module' = module
        BY <2>3
      <3> QED
        BY <2>1, <3>1, <3>2 DEF UpInOrder
    <2>4. ASSUME NEW m \in Modules, Head(todo) = M(m),
                 module' = [module EXCEPT ![m] = "up"],
                 UNCHANGED <<provider, started, stopping>>
          PROVE  UpInOrder'
      <3>1. provider \in {"static", "started"}
        <4>1. Factory # M(m)
          BY PartsDiffer
        <4>2. Factory \notin Range(Tail(todo))
          BY <2>2 DEF StartsBefore
        <4> QED
          BY <2>2, <2>4, <4>1, <4>2
      <3>2. ASSUME NEW i \in 1..Len(built), NEW j \in 1..Len(built), i < j,
                   module'[built[j]] = "up"
            PROVE  module'[built[i]] = "up"
        <4>1. CASE built[j] = m
          <5>1. built[i] # m
            BY <1>1, <1>2, <3>2, <4>1 DEF Distinct
          <5>2. M(built[i]) # Head(todo)
            BY <2>4, <5>1, PartsDiffer
          <5>3. M(built[i]) \notin Range(Tail(todo))
            <6> SUFFICES ASSUME M(built[i]) \in Range(Tail(todo)) PROVE FALSE
              OBVIOUS
            <6>1. StartsBefore(built, M(built[j]), M(built[i]))
              BY <2>2, <2>4, <4>1
            <6>2. j < i
              BY <6>1 DEF StartsBefore
            <6> QED
              BY <3>2, <6>2
          <5>4. module[built[i]] = "up"
            BY <1>3, <2>2, <5>2, <5>3
          <5> QED
            BY <1>1, <1>3, <2>4, <5>4
        <4>2. CASE built[j] # m
          <5>1. module[built[i]] = "up"
            BY <1>1, <1>3, <2>4, <3>2, <4>2 DEF UpInOrder
          <5> QED
            BY <1>1, <1>3, <2>4, <5>1
        <4> QED
          BY <4>1, <4>2
      <3>3. \A x \in Modules : module'[x] = "down" => module[x] = "down"
        BY <1>1, <2>4
      <3>4. provider' = provider
        BY <2>4
      <3> QED
        BY <2>1, <3>1, <3>2, <3>3, <3>4 DEF UpInOrder
    <2>5. CASE UNCHANGED <<provider, module>>
      BY <1>4, <2>1, <2>5
    <2> QED
      BY <1>7, <2>3, <2>4, <2>5 DEF StartsPart
  <1>8. CASE RollsBack
    <2>1. UNCHANGED <<built, module>> /\ Unwinding'
      BY <1>8 DEF RollsBack, Unwinding
    <2>2. UNCHANGED provider \/ provider \in {"prepared", "stopped"}
      BY <1>8 DEF RollsBack
    <2> QED
      BY <2>1, <2>2 DEF UpInOrder
  <1>9. CASE StopsPart
    <2>1. Unwinding /\ Unwinding' /\ todo # << >> /\ built' = built
      BY <1>9 DEF StopsPart, Unwinding
    <2>2. /\ \A m \in Range(built) : M(m) \in Range(todo) \/ module[m] = "down"
          /\ \A y \in Range(Tail(todo)) : StopsBefore(built, Head(todo), y)
          /\ Range(todo) = {Head(todo)} \cup Range(Tail(todo))
      BY <1>1, <2>1, StopTail, TailIs DEF StopList
    <2>3. CASE Head(todo) = Factory /\ UNCHANGED module
      <3>1. \A m \in Modules : M(m) \notin Range(todo)
        BY <2>2, <2>3, PartsDiffer DEF StopsBefore
      <3>2. \A m \in Modules : module'[m] # "up"
        BY <1>2, <2>2, <2>3, <3>1 DEF BuiltAlongPlan
      <3> QED
        BY <1>3, <2>1, <3>2 DEF UpInOrder
    <2>4. ASSUME NEW m \in Modules, Head(todo) = M(m),
                 module' = [module EXCEPT ![m] = "down"],
                 UNCHANGED provider
          PROVE  UpInOrder'
      <3>1. \A x \in Modules : module'[x] = "up" => module[x] = "up" /\ x # m
        BY <1>1, <2>4
      <3>2. ASSUME NEW i \in 1..Len(built), NEW j \in 1..Len(built), i < j,
                   module'[built[j]] = "up"
            PROVE  module'[built[i]] = "up"
        <4>1. module[built[j]] = "up" /\ built[j] # m /\ module[built[i]] = "up"
          BY <1>3, <3>1, <3>2 DEF UpInOrder
        <4>2. built[i] # m
          <5> SUFFICES ASSUME built[i] = m PROVE FALSE
            OBVIOUS
          <5>1. M(built[j]) \in Range(todo) /\ M(built[j]) # M(m)
            BY <1>3, <2>2, <4>1, PartsDiffer
          <5>2. StopsBefore(built, M(built[i]), M(built[j]))
            BY <2>2, <2>4, <5>1
          <5>3. j < i
            BY <5>2 DEF StopsBefore
          <5> QED
            BY <3>2, <5>3
        <4> QED
          BY <1>1, <1>3, <2>4, <4>1, <4>2
      <3> QED
        BY <2>1, <2>4, <3>1, <3>2 DEF UpInOrder
    <2>5. CASE UNCHANGED <<provider, module>>
      BY <1>4, <2>1, <2>5
    <2> QED
      BY <1>9, <2>3, <2>4, <2>5 DEF StopsPart, parts
  <1>10. CASE boot = "start" /\ StartBegins /\ UNCHANGED parts
    <2>1. ~Unwinding
      BY <1>10 DEF StartBegins, Stages, Unwinding
    <2> QED
      BY <1>4, <1>10, <2>1 DEF parts
  <1>11. CASE BuildError /\ UNCHANGED parts
    BY <1>4, <1>11 DEF BuildError, Unwind, Unwinding, parts
  <1>12. CASE TakesLock
    BY <1>4, <1>12 DEF TakesLock, Unwind, Unwinding, parts
  <1>13. CASE UNCHANGED <<todo, phase, parts>>
    BY <1>4, <1>13 DEF Unwinding, parts
  <1> QED
    BY <1>5, <1>6, <1>7, <1>8, <1>9, <1>10, <1>11, <1>12, <1>13, WorkSteps

\* The states of the App that say most are reached in one way each.
LEMMA AppSteps ==
    ASSUME Stages, [Next]_vars
    PROVE  /\ app' = "none" => app = "none"
           /\ (app' = "ready" /\ app # "ready") =>
                boot = "starting" /\ phase = "starting" /\ todo = << >> /\ UNCHANGED parts
           /\ (app' = "stopped" /\ app # "stopped") =>
                phase = "stopping" /\ todo = << >> /\ UNCHANGED parts
           /\ boot' \in Early \cup {"wire", "start"} => boot \in Early \cup {"wire", "start"}
           /\ boot \in {"up", "over"} => boot' \in {"up", "over"}
  <1>1. CASE RegisterModule \/ MainBegins \/ Listen \/ SealCatalog \/ PrepareFactory
    BY <1>1 DEF RegisterModule, MainBegins, Listen, SealCatalog, PrepareFactory,
       BootFails,
                hostVars, appVars, Early
  <1>2. CASE Build
    <2>1. boot = "build" /\ app' \in {app, "new"}
      BY <1>2 DEF Build, BuildModule, CollectCapabilities
    <2> QED
      BY <2>1 DEF Early
  <1>3. CASE Discarded \/ RunBegins \/ Wire \/ Publish \/ RunReturns \/ GiveUp
    BY <1>3 DEF Discarded, RunBegins, Wire, Publish, RunReturns, GiveUp, BootFails,
                ShutdownCalled, appVars, Early
  <1>4. CASE BootStarts \/ BootStarted
    BY <1>4 DEF BootStarts, BootStarted, StartBegins, StartRefused, StartEnds,
       appVars, Early,
                parts, providerVars, serverVars, busVars
  <1>5. CASE Unwound
    <2>1. boot \in {"up", "over"} => boot' = boot
      BY <1>5 DEF Unwound, UnwindEnds, Stages
    <2> QED
      BY <1>5, <2>1 DEF Unwound, UnwindEnds, Early, parts, providerVars, serverVars,
         busVars
  <1>6. CASE DeadlinePasses \/ EnvironmentStep \/ ProbeBegins \/ ProbeAsks \/ UNCHANGED vars
             \/ (\E p \in Stoppers : CallShutdown(p))
    BY <1>6 DEF DeadlinePasses, Expire, EnvironmentStep, ServerStep, BusStep,
       ProbeBegins,
                ProbeAsks, CallShutdown, ShutdownCalled, vars, hostVars, appVars
  <1>7. CASE HolderStep /\ UNCHANGED hostVars
    <2>1. app' = app /\ boot' = boot
      BY <1>7 DEF HolderStep, StartFactory, StartModule, StopModule,
                StartComponent, StopComponent, ComponentStops, StopFactory, CloseBus,
                BusCloses, Started, Stopped, hostVars
    <2> QED
      BY <2>1
  <1>8. ASSUME NEW p \in Callers, ShutdownTakesLock(p), UNCHANGED hostVars
        PROVE  app' \in {app, "stopping"} /\ boot' = boot
    BY <1>8 DEF ShutdownTakesLock, hostVars
  <1> QED
    BY <1>1, <1>2, <1>3, <1>4, <1>5, <1>6, <1>7, <1>8 DEF Next, BootStep, LockStep

\* Requests come to servers that serve, and only a shutdown that does not wait
\* for them is forced.
LEMMA FlightSteps ==
    ASSUME TypeOK, [Next]_vars
    PROVE  /\ started \subseteq started' /\ stopping \subseteq stopping'
           /\ exited \subseteq exited'
           /\ forced => forced'
           /\ \A r \in Requests : \/ request'[r] \in {request[r], None}
                                  \/ /\ request'[r] \in started \ stopping
                                     /\ UNCHANGED <<appVars, started, stopping, forced>>
  <1>1. request \in [Requests -> Servers \cup {None}] /\ forced \in BOOLEAN
    BY DEF TypeOK, ServerTypeOK
  <1>2. CASE UNCHANGED serverVars
    BY <1>2 DEF serverVars
  <1>3. CASE Listen \/ BootFails
    BY <1>3 DEF Listen, BootFails
  <1>4. CASE (\E r \in Requests : Arrive(r) \/ Answer(r)) /\ UNCHANGED appVars
    <2>1. PICK r \in Requests : Arrive(r) \/ Answer(r)
      BY <1>4
    <2>2. CASE Answer(r)
      BY <1>1, <2>2 DEF Answer
    <2>3. CASE Arrive(r)
      <3>1. PICK s \in Servers : Serving(s) /\ request' = [request EXCEPT ![r] = s]
        BY <2>3 DEF Arrive
      <3>2. UNCHANGED <<started, stopping, exited, forced>>
        BY <2>3 DEF Arrive
      <3>3. \A q \in Requests : request'[q] = IF q = r THEN s ELSE request[q]
        BY <1>1, <3>1
      <3> QED
        BY <1>4, <3>1, <3>2, <3>3 DEF Serving
    <2> QED
      BY <2>1, <2>2, <2>3
  <1>5. CASE \E s \in Servers : ServeEnds(s) \/ ServeFails(s)
    BY <1>5 DEF ServeEnds, ServeFails
  <1>6. ASSUME NEW c \in Components, ComponentStart(c) \/ ShutdownBegins(c)
        PROVE  /\ started \subseteq started' /\ stopping \subseteq stopping'
               /\ UNCHANGED <<exited, forced, request>>
    BY <1>6 DEF ComponentStart, ShutdownBegins
  <1>7. ASSUME NEW c \in Components, ShutdownEnds(c, expired)
        PROVE  (forced => forced') /\ UNCHANGED <<started, stopping, exited, request>>
    <2>1. forced => forced'
      BY <1>7, Zenon DEF ShutdownEnds
    <2> QED
      BY <1>7, <2>1 DEF ShutdownEnds
  <1> QED
    BY <1>2, <1>3, <1>4, <1>5, <1>6, <1>7, ServerSteps

\* What is open was opened by Listen; a server that is told to stop closes.
LEMMA ListenerSteps ==
    ASSUME TypeOK, [Next]_vars
    PROVE  /\ \A s \in Servers : listener'[s] = "open" => listener[s] = "open" \/ boot = "listen"
           /\ \A s \in Servers : s \in stopping' \ stopping => listener'[s] # "open"
  <1>1. listener \in [Servers -> {"none", "open", "closed"}]
    BY DEF TypeOK, ServerTypeOK
  <1>2. CASE UNCHANGED serverVars
    BY <1>2 DEF serverVars
  <1>3. CASE Listen \/ BootFails
    BY <1>1, <1>3 DEF Listen, BootFails, CloseListeners
  <1>4. CASE \E r \in Requests : Arrive(r) \/ Answer(r)
    BY <1>4 DEF Arrive, Answer
  <1>5. CASE \E s \in Servers : ServeEnds(s) \/ ServeFails(s)
    BY <1>1, <1>5 DEF ServeEnds, ServeFails
  <1>6. CASE \E c \in Components : ComponentStart(c) \/ ShutdownBegins(c) \/ ShutdownEnds(c, expired)
    BY <1>1, <1>6 DEF ComponentStart, ShutdownBegins, ShutdownEnds
  <1> QED
    BY <1>2, <1>3, <1>4, <1>5, <1>6, ServerSteps

\* While all modules are up they stay so until no component is left to stop.
LEMMA UpStays ==
    ASSUME CatalogInv, TypeOK, Stages, BuiltAlongPlan, StopList, ServersBehind,
           [Next]_vars,
           \A m \in Range(built) : module[m] = "up", started # {}
    PROVE  \/ \A m \in Range(built') : module'[m] = "up"
           \/ /\ Unwinding /\ UNCHANGED <<started, stopping>>
              /\ started \subseteq stopping
              /\ \A x \in Range(todo) : ~Transport(x)
  <1>1. /\ built \in Seq(Modules) /\ todo \in Seq(Parts) /\ started \subseteq Components
        /\ module \in [Modules -> {"absent", "built", "up", "down"}]
    BY DEF TypeOK, AppTypeOK, ServerTypeOK
  <1>2. Range(built) \subseteq Modules
    BY <1>1, BuiltIs
  <1>3. CASE UNCHANGED <<built, module>>
    BY <1>3
  <1>4. boot \notin {"prepare", "build"}
    BY DEF ServersBehind, Early
  <1>5. ASSUME NEW m \in Modules, module' = [module EXCEPT ![m] = "up"], built' = built
        PROVE  \A x \in Range(built') : module'[x] = "up"
    BY <1>1, <1>2, <1>5
  <1>6. ASSUME NEW m \in Modules, Head(todo) = M(m), Unwinding, todo # << >>,
               UNCHANGED <<started, stopping>>
        PROVE  /\ started \subseteq stopping
               /\ \A x \in Range(todo) : ~Transport(x)
    <2>0. StopOrder(built, todo)
      BY <1>6 DEF StopList
    <2>1. /\ \A y \in Range(Tail(todo)) : StopsBefore(built, Head(todo), y)
          /\ Range(todo) = {Head(todo)} \cup Range(Tail(todo))
      BY <1>1, <1>6, <2>0, StopTail, TailIs
    <2>2. \A x \in Range(todo) : ~Transport(x)
      BY <1>6, <2>1, NotTransport DEF StopsBefore
    <2>3. \A c \in Components : C(c) \notin Range(todo)
      BY <2>2, NotTransport
    <2> QED
      BY <1>1, <1>6, <2>2, <2>3 DEF StopList
  <1>7. CASE StartsPart
    BY <1>3, <1>5, <1>7 DEF StartsPart
  <1>8. CASE StopsPart
    BY <1>3, <1>6, <1>8 DEF StopsPart, parts
  <1> QED
    BY <1>3, <1>4, <1>7, <1>8, WorkSteps DEF RollsBack, TakesLock, parts

\* Requests come only while all modules are up, and no module goes down
\* before every server that was started has drained or was given up.
LEMMA ServersStep ==
    ASSUME CatalogInv, TypeOK, TypeOK', Stages, BuiltAlongPlan, StartList, StopList,
           ServersBehind, [Next]_vars
    PROVE  ServersBehind'
  <1>1. /\ built \in Seq(Modules) /\ todo \in Seq(Parts)
        /\ started \subseteq Components /\ stopping \subseteq Components
        /\ started' \subseteq Components /\ stopping' \subseteq Components
        /\ request \in [Requests -> Servers \cup {None}]
        /\ listener' \in [Servers -> {"none", "open", "closed"}]
    BY DEF TypeOK, AppTypeOK, ServerTypeOK
  <1>2. None \notin Components /\ Servers \subseteq Components
    BY TransportAssumption, FS_CardinalityType DEF None
  <1>3. /\ \A r \in Requests : request[r] # None => request[r] \in started
        /\ started \ stopping # {} => \A m \in Range(built) : module[m] = "up"
        /\ \A c \in stopping : \/ forced
                               \/ ~InFlight(c)
                               \/ Unwinding /\ Draining(c) \in Range(todo)
    BY DEF ServersBehind
  <1>4. \A c \in Components : InFlight(c) => c \in started
    BY <1>2, <1>3 DEF InFlight
  <1>5. started' # started => phase = "starting" /\ phase' = "starting" /\ boot = "starting"
                              /\ app' = app
    BY WorkSteps DEF parts, StartsPart, RollsBack, TakesLock, StopsPart, Stages
  <1>6. stopping' # stopping => Unwinding /\ app' = app /\ todo # << >> /\ Transport(Head(todo))
    BY WorkSteps, NotTransport DEF parts, StartsPart, RollsBack, TakesLock,
       StopsPart, ComponentStart
  <1>7. boot' \in Early \cup {"wire", "start"} => started' = {}
    <2>1. boot \in Early \cup {"wire", "start"} => started = {} /\ boot # "starting"
      BY DEF ServersBehind, Early
    <2> QED
      BY <1>5, <2>1, AppSteps
  <1>8. \A r \in Requests : request'[r] # None => request'[r] \in started'
    BY <1>3, FlightSteps
  \* A component that is told to stop gets no further request.
  <1>9. \A c \in stopping : (InFlight(c))' => InFlight(c)
    <2> SUFFICES ASSUME NEW c \in stopping, NEW r \in Requests, request'[r] = c
                 PROVE  request[r] = c
      BY DEF InFlight
    <2> QED
      BY <1>1, <1>2, FlightSteps
  <1>10. started' \ stopping' # {} => \A m \in Range(built') : module'[m] = "up"
    <2> SUFFICES ASSUME started' \ stopping' # {}
                 PROVE  \A m \in Range(built') : module'[m] = "up"
      OBVIOUS
    <2>1. CASE started' = started
      <3>1. started # {} /\ started \ stopping # {}
        BY <2>1, FlightSteps
      <3> QED
        BY <1>3, <3>1, UpStays
    <2>2. CASE started' # started
      <3>1. /\ phase = "starting" /\ todo # << >> /\ UNCHANGED <<built, module>>
            /\ \E c \in Components : Head(todo) = C(c)
        BY <2>2, WorkSteps DEF parts, StartsPart, RollsBack, TakesLock, StopsPart
      <3>2. /\ \A y \in Range(Tail(todo)) : StartsBefore(built, Head(todo), y)
            /\ Range(todo) = {Head(todo)} \cup Range(Tail(todo))
        BY <1>1, <3>1, StartTail, TailIs DEF StartList
      <3>3. \A y \in Range(todo) : \E d \in Components : y = C(d)
        BY <3>1, <3>2 DEF StartsBefore
      <3>4. \A m : M(m) \notin Range(todo)
        BY <3>3, PartsDiffer
      <3> QED
        BY <3>1, <3>4 DEF StartList
    <2> QED
      BY <2>1, <2>2
  <1>11. RequestsFindModules'
    <2> SUFFICES ASSUME NEW s \in Servers, (InFlight(s))', ~forced'
                 PROVE  \A m \in Range(built') : module'[m] = "up"
      BY DEF RequestsFindModules
    <2>1. PICK r \in Requests : request'[r] = s
      BY DEF InFlight
    <2>2. CASE request[r] = s
      <3>1. InFlight(s) /\ s \in started /\ ~forced
        BY <1>2, <1>3, <2>2, FlightSteps DEF InFlight
      <3>2. \A m \in Range(built) : module[m] = "up"
        BY <3>1 DEF ServersBehind, RequestsFindModules
      <3>3. ASSUME \A x \in Range(todo) : ~Transport(x), started \subseteq stopping
            PROVE  FALSE
        <4>1. s \in stopping /\ Draining(s) \in Range(todo)
          BY <1>3, <3>1, <3>3
        <4> QED
          BY <1>2, <3>3, <4>1, NotTransport
      <3> QED
        BY <3>1, <3>2, <3>3, UpStays
    <2>3. CASE request[r] # s
      <3>1. s \in started \ stopping /\ UNCHANGED <<built, module>>
        BY <1>2, <2>1, <2>3, FlightSteps DEF appVars
      <3> QED
        BY <1>3, <3>1
    <2> QED
      BY <2>2, <2>3
  <1>12. ASSUME NEW c \in stopping'
         PROVE  forced' \/ ~(InFlight(c))' \/ (Unwinding' /\ Draining(c) \in Range(todo'))
    <2> SUFFICES ASSUME ~forced', (InFlight(c))'
                 PROVE  Unwinding' /\ Draining(c) \in Range(todo')
      OBVIOUS
    <2>1. ~forced
      BY FlightSteps
    <2>2. CASE c \notin stopping
      <3>1. Unwinding /\ todo # << >> /\ phase' = phase /\ todo' = <<Draining(c)>> \o Tail(todo)
        BY <2>2, WorkSteps DEF parts, StartsPart, RollsBack, TakesLock, StopsPart,
           ComponentStart
      <3>2. Tail(todo) \in Seq(Parts) /\ Draining(c) \in Parts
        BY <1>1, <3>1, TailIs, PartsAre
      <3> QED
        BY <3>1, <3>2, ConsIs DEF Unwinding
    <2>3. CASE c \in stopping
      <3>1. c \in Components /\ InFlight(c) /\ c \in started /\ Unwinding /\ Draining(c) \in Range(todo)
        BY <1>1, <1>3, <1>4, <1>9, <2>1, <2>3
      <3>2. boot \notin {"prepare", "build"} /\ todo # << >>
        BY <3>1 DEF ServersBehind, Early, Range
      <3>3. phase # "starting" /\ phase # "idle"
        BY <3>1 DEF Unwinding
      <3>4. ASSUME boot = "start", StartBegins PROVE FALSE
        BY <3>1, <3>4 DEF Stages, StartBegins, Unwinding
      <3>5. CASE UNCHANGED <<todo, phase, parts>>
        BY <3>1, <3>5 DEF Unwinding
      <3>6. CASE StopsPart
        <4>1. /\ Tail(todo) \in Seq(Parts)
              /\ Range(todo) = {Head(todo)} \cup Range(Tail(todo))
          BY <1>1, <3>2, TailIs
        <4>2. Unwinding'
          BY <3>6 DEF StopsPart, Unwinding
        <4>3. Range(Tail(todo)) \subseteq Range(todo')
          <5>1. /\ \A d \in Components : Draining(d) \in Parts
                /\ BusClosing \in Parts
            BY PartsAre
          <5>2. \A x \in Parts : Range(Tail(todo)) \subseteq Range(<<x>> \o Tail(todo))
            BY <4>1, ConsIs
          <5>3. \/ todo' = Tail(todo) \/ \E x \in Parts : todo' = <<x>> \o Tail(todo)
            BY <3>6, <5>1 DEF StopsPart
          <5> QED
            BY <5>2, <5>3
        <4>4. Head(todo) # Draining(c)
          <5> SUFFICES ASSUME Head(todo) = Draining(c) PROVE FALSE
            OBVIOUS
          <5>1. ShutdownEnds(c, expired)
            <6>1. /\ \A d \in Components : Draining(c) # C(d) /\ (Draining(c) = Draining(d) => d = c)
                  /\ \A m : Draining(c) # M(m)
                  /\ Draining(c) \notin {Factory, Bus, BusClosing}
              BY PartsDiffer
            <6> QED
              BY <3>6, <6>1 DEF StopsPart
          <5>2. c \in Servers
            BY <1>1, <1>2, <3>1 DEF InFlight
          <5>3. expired
            BY <3>1, <5>1, <5>2 DEF ShutdownEnds
          <5>4. forced'
            BY <3>1, <5>1, <5>3, Zenon DEF ShutdownEnds
          <5> QED
            BY <5>4
        <4> QED
          BY <3>1, <4>1, <4>2, <4>3, <4>4
      <3>7. CASE boot \in {"prepare", "build"} \/ todo = << >>
        BY <3>2, <3>7
      <3> QED
        BY <3>3, <3>4, <3>5, <3>6, <3>7, WorkSteps DEF StartsPart, RollsBack, TakesLock
    <2> QED
      BY <2>2, <2>3
  <1>13. app' = "none" => stopping' = {}
    <2>1. app = "none" => stopping = {}
      BY DEF ServersBehind
    <2>2. ASSUME app = "none", stopping' # stopping PROVE FALSE
      <3>1. phase = "discard" /\ todo # << >> /\ Transport(Head(todo))
        BY <1>6, <2>2 DEF Stages, Unwinding
      <3>2. Head(todo) \in Range(todo)
        BY <1>1, <3>1, TailIs
      <3> QED
        BY <3>1, <3>2 DEF StopList, Unwinding
    <2> QED
      BY <2>1, <2>2, AppSteps
  <1>14. \A s \in Servers : s \in stopping' => listener'[s] # "open"
    <2> SUFFICES ASSUME NEW s \in Servers, s \in stopping',
                        listener'[s] = "open" PROVE FALSE
      OBVIOUS
    <2>1. s \in stopping
      BY ListenerSteps
    <2>2. app # "none"
      BY <2>1 DEF ServersBehind
    <2>3. boot # "listen"
      BY <2>2 DEF Stages, Early
    <2> QED
      BY <2>1, <2>3, ListenerSteps DEF ServersBehind
  <1>15. app' = "ready" => started' = Components /\ stopping' = {}
    <2> SUFFICES ASSUME app' = "ready" PROVE started' = Components /\ stopping' = {}
      OBVIOUS
    <2>1. CASE app = "ready"
      <3>1. phase = "idle" /\ started = Components /\ stopping = {}
        BY <2>1 DEF Stages, ServersBehind
      <3> QED
        BY <1>5, <1>6, <3>1 DEF Unwinding
    <2>2. CASE app # "ready"
      <3>1. phase = "starting" /\ todo = << >> /\ UNCHANGED <<started, stopping>>
        BY <2>2, AppSteps DEF parts
      <3>2. \A c \in Components : c \in started \ stopping
        BY <3>1 DEF StartList, Range
      <3> QED
        BY <1>1, <3>1, <3>2
    <2> QED
      BY <2>1, <2>2
  <1>16. app' = "stopped" => stopping' = Components
    <2> SUFFICES ASSUME app' = "stopped" PROVE stopping' = Components
      OBVIOUS
    <2>1. CASE app = "stopped"
      BY <1>1, <2>1, FlightSteps DEF ServersBehind
    <2>2. CASE app # "stopped"
      <3>1. phase = "stopping" /\ todo = << >> /\ UNCHANGED <<started, stopping>>
        BY <2>2, AppSteps DEF parts
      <3>2. \A c \in Components : c \in stopping
        BY <3>1 DEF StopList, Unwinding, Range
      <3> QED
        BY <1>1, <3>1, <3>2
    <2> QED
      BY <2>1, <2>2
  <1>17. (boot' = "failed" /\ way' = "bootstrap") => \A s \in Servers : listener'[s] # "open"
    <2> SUFFICES ASSUME boot' = "failed", way' = "bootstrap"
                 PROVE  \A s \in Servers : listener'[s] # "open"
      OBVIOUS
    <2>1. way' = way
      BY DEF Next, RegisterModule, BootStep, MainBegins, Listen, SealCatalog,
             PrepareFactory,
             Build, Discarded, Wire, RunBegins, BootStarts, BootStarted, Publish,
             GiveUp,
             Unwound, RunReturns, CallShutdown, DeadlinePasses, EnvironmentStep,
             LockStep,
             ProbeBegins, ProbeAsks, vars, hostVars
    <2>2. CASE boot = "failed"
      BY <2>1, <2>2, ListenerSteps DEF ServersBehind
    <2>3. CASE Listen
      BY <2>3 DEF Listen
    <2>4. CASE BootFails
      BY <2>1, <2>4 DEF BootFails, CloseListeners
    <2>5. CASE Build
      <3>1. boot' \in {"build", "discard", "wire"}
        BY <2>5 DEF Build
      <3> QED
        BY <3>1
    <2> QED
      BY <2>2, <2>3, <2>4, <2>5
      DEF Next, RegisterModule, BootStep, MainBegins, SealCatalog, PrepareFactory,
             Discarded, Wire, RunBegins, BootStarts, BootStarted, Publish, GiveUp,
             Unwound, RunReturns, CallShutdown, DeadlinePasses, EnvironmentStep,
             LockStep,
             ProbeBegins, ProbeAsks, vars, hostVars
  <1> QED
    BY <1>7, <1>8, <1>10, <1>11, <1>12, <1>13, <1>14, <1>15, <1>16,
       <1>17 DEF ServersBehind

\* A bus that is closed delays nothing.
LEMMA BusQuietStep ==
    ASSUME TypeOK, TypeOK', Stages, BuiltAlongPlan, BusQuiet, [Next]_vars
    PROVE  BusQuiet'
  <1>1. /\ built \in Seq(Modules) /\ todo \in Seq(Parts)
        /\ bus \in {"open", "closing", "closed"}
        /\ delayed \in [Publications -> {"none", "armed", "running", "over"}]
    BY DEF TypeOK, AppTypeOK, BusTypeOK
  <1>2. bus' = "closing" => Unwinding' /\ BusClosing \in Range(todo')
    <2> SUFFICES ASSUME bus' = "closing" PROVE Unwinding' /\ BusClosing \in Range(todo')
      OBVIOUS
    <2>1. CASE bus # "closing"
      <3>1. Unwinding /\ todo # << >> /\ phase' = phase /\ todo' = <<BusClosing>> \o Tail(todo)
        BY <2>1, WorkSteps DEF parts, StartsPart, RollsBack, TakesLock, StopsPart
      <3>2. Tail(todo) \in Seq(Parts) /\ BusClosing \in Parts
        BY <1>1, <3>1, TailIs, PartsAre
      <3> QED
        BY <3>1, <3>2, ConsIs DEF Unwinding
    <2>2. CASE bus = "closing"
      <3>1. Unwinding /\ BusClosing \in Range(todo)
        BY <2>2 DEF BusQuiet
      <3>2. /\ phase # "starting" /\ phase # "idle" /\ todo # << >>
            /\ Tail(todo) \in Seq(Parts)
            /\ Range(todo) = {Head(todo)} \cup Range(Tail(todo))
        <4>1. todo # << >>
          BY <3>1 DEF Range
        <4> QED
          BY <1>1, <3>1, <4>1, TailIs DEF Unwinding
      <3>3. boot \notin {"prepare", "build"}
        BY <3>1 DEF Stages, Early, Unwinding
      <3>4. ASSUME StartBegins, boot = "start" PROVE FALSE
        BY <3>1, <3>4 DEF Stages, StartBegins, Unwinding
      <3>5. CASE UNCHANGED <<todo, phase, parts>>
        BY <3>1, <3>5 DEF Unwinding
      <3>6. CASE StopsPart
        <4>1. Unwinding' /\ Head(todo) # BusClosing
          <5>1. /\ \A c : BusClosing # C(c) /\ BusClosing # Draining(c) /\ BusClosing # M(c)
                /\ BusClosing # Factory /\ BusClosing # Bus
            BY PartsDiffer
          <5> QED
            BY <3>6, <5>1 DEF StopsPart, Unwinding
        <4>2. Range(Tail(todo)) \subseteq Range(todo')
          <5>1. /\ \A d \in Components : Draining(d) \in Parts
                /\ BusClosing \in Parts
            BY PartsAre
          <5>2. \A x \in Parts : Range(Tail(todo)) \subseteq Range(<<x>> \o Tail(todo))
            BY <3>2, ConsIs
          <5>3. todo' = Tail(todo) \/ \E x \in Parts : todo' = <<x>> \o Tail(todo)
            BY <3>6, <5>1 DEF StopsPart
          <5> QED
            BY <5>2, <5>3
        <4> QED
          BY <3>1, <3>2, <4>1, <4>2
      <3> QED
        BY <3>2, <3>3, <3>4, <3>5, <3>6, WorkSteps DEF StartsPart, RollsBack, TakesLock
    <2> QED
      BY <2>1, <2>2
  <1>3. \A p \in Publications : delayed'[p] \in {"armed", "running"} =>
          delayed[p] \in {"armed", "running"} \/ (bus = "open" /\ bus' = "open")
    BY <1>1, BusSteps DEF busVars, DelayPublish, Fire, Settle, BusCloseBegins,
       BusCloseEnds
  <1>4. bus' = "closed" => \A p \in Publications : delayed'[p] \notin {"armed", "running"}
    <2>1. CASE UNCHANGED bus
      BY <1>3, <2>1 DEF BusQuiet
    <2>2. CASE bus' # bus /\ bus' = "closed"
      BY <2>2, BusSteps DEF busVars, DelayPublish, Fire, Settle, BusCloseBegins,
         BusCloseEnds
    <2> QED
      BY <2>1, <2>2
  <1>5. built' = << >> => \A p \in Publications : delayed'[p] = "none"
    <2> SUFFICES ASSUME built' = << >> PROVE \A p \in Publications : delayed'[p] = "none"
      OBVIOUS
    <2>1. built = << >>
      <3>1. CASE UNCHANGED built
        BY <3>1
      <3>2. CASE built' = Append(built, plan[Len(built) + 1])
        <4>1. Len(built') = Len(built) + 1 /\ Len(built) \in Nat
          BY <1>1, <3>2
        <4>2. Len(built') = 0
          OBVIOUS
        <4> QED
          BY <4>1, <4>2
      <3> QED
        BY <3>1, <3>2, ModuleSteps DEF Started, Stopped
    <2>2. \A p \in Publications : delayed[p] = "none"
      BY <2>1 DEF BusQuiet
    <2> QED
      BY <1>1, <2>1, <2>2, BusSteps
      DEF busVars, DelayPublish, Fire, Settle, BusCloseBegins, BusCloseEnds
  <1> QED
    BY <1>2, <1>4, <1>5 DEF BusQuiet

\* How an App comes to its end.
LEMMA OverComes ==
    ASSUME TypeOK, Stages, [Next]_vars, Over', ~Over
    PROVE  \/ boot \in {"listen", "seal"} /\ UNCHANGED <<parts, phase>>
           \/ Unwinding /\ todo = << >> /\ UNCHANGED <<parts, todo>>
  <1>a. shutdown \in [Callers -> {"idle", "waiting", "holding", "returned"}]
        /\ phase \in {"idle", "starting", "rollback", "stopping", "discard"}
    BY DEF TypeOK, AppTypeOK
  <1>b. phase' = "idle" /\ (app' \in {"stopped", "failed"} \/ boot' \in {"failed", "giveup"})
    BY DEF Over
  <1>1. CASE Listen \/ SealCatalog
    BY <1>1 DEF Listen, SealCatalog, BootFails, parts, providerVars, serverVars,
       busVars, appVars
  <1>2. CASE Discarded \/ Unwound
    <2>1. /\ phase \in {"rollback", "stopping"} \/ boot = "discard"
          /\ todo = << >> /\ UNCHANGED <<parts, todo>>
      BY <1>2 DEF Discarded, Unwound, UnwindEnds, BootFails, parts, providerVars,
         serverVars, busVars
    <2> QED
      BY <2>1 DEF Stages, Unwinding
  <1>4. ASSUME UNCHANGED <<phase, app, boot>>,
               shutdown'[Boot] = shutdown[Boot] PROVE FALSE
    BY <1>4 DEF Over
  <1>5. CASE RegisterModule \/ DeadlinePasses \/ EnvironmentStep \/ ProbeBegins \/ ProbeAsks
             \/ UNCHANGED vars
    BY <1>4, <1>5 DEF RegisterModule, DeadlinePasses, Expire, EnvironmentStep,
       ServerStep,
                      BusStep, ProbeBegins, ProbeAsks, vars, hostVars, appVars
  <1>6. CASE MainBegins \/ PrepareFactory \/ RunBegins \/ BootStarted
    <2>1. /\ boot' \notin {"failed", "giveup"}
          /\ app' \in {"initializing", "ready"} \/ (app' = app /\ boot \in {"register", "prepare"})
      BY <1>6 DEF MainBegins, PrepareFactory, RunBegins, BootStarted, StartEnds, appVars
    <2> QED
      BY <1>b, <2>1 DEF Stages, Early
  <1>7. CASE Build
    <2>1. boot' \in {"build", "discard", "wire"} /\ app' \in {app, "new"} /\ boot = "build"
      BY <1>7 DEF Build, BuildModule, CollectCapabilities
    <2> QED
      BY <1>b, <2>1 DEF Stages, Early
  <1>8. ASSUME NEW p \in Callers, ShutdownCalled(p)
        PROVE  /\ UNCHANGED <<app, phase>> /\ shutdown'[p] = "waiting"
               /\ p # Boot => shutdown'[Boot] = shutdown[Boot]
    BY <1>8, <1>a, CallersAre DEF ShutdownCalled
  <1>9. CASE Wire \/ Publish \/ RunReturns
    <2>1. /\ boot \in {"wire", "publish", "up"} /\ UNCHANGED <<app, phase>>
          /\ \/ boot' \in {"start", "up", "over"}
             \/ boot' = "giveup" /\ shutdown'[Boot] = "waiting"
      BY <1>8, <1>9, CallersAre DEF Wire, Publish, RunReturns, appVars
    <2> QED
      BY <1>b, <2>1 DEF Over
  <1>10. CASE BootStarts
    <2>1. CASE StartBegins
      BY <1>b, <2>1 DEF StartBegins
    <2>2. CASE StartRefused
      <3>1. UNCHANGED <<app, phase>> /\ app \in {"stopping", "stopped", "failed"}
            /\ holder = Nobody
        BY <2>2 DEF StartRefused, appVars
      <3>2. app # "stopping"
        BY <3>1 DEF Stages
      <3> QED
        BY <1>b, <3>1, <3>2 DEF Over
    <2> QED
      BY <1>10, <2>1, <2>2 DEF BootStarts
  <1>11. CASE GiveUp
    <2>1. boot = "giveup" /\ shutdown[Boot] \in {"idle", "returned"} /\ phase' = phase
      BY <1>11 DEF GiveUp
    <2> QED
      BY <1>b, <2>1 DEF Over
  <1>12. CASE \E p \in Stoppers : CallShutdown(p)
    <2>1. UNCHANGED <<phase, app, boot>> /\ shutdown'[Boot] = shutdown[Boot]
      BY <1>8, <1>12, CallersAre DEF CallShutdown, hostVars
    <2> QED
      BY <1>4, <2>1
  <1>13. CASE HolderStep
    <2>1. phase' # "idle"
      BY <1>13 DEF HolderStep, StartFactory, StartModule, StopModule,
                StartComponent, StopComponent, ComponentStops, StopFactory, CloseBus,
                BusCloses, Started, Stopped, Starts, Stops, Unwind
    <2> QED
      BY <1>b, <2>1
  <1>14. ASSUME NEW p \in Callers, ShutdownTakesLock(p) PROVE FALSE
    <2>1. CASE app = "stopped"
      <3>1. phase' = phase
        BY <1>14, <2>1 DEF ShutdownTakesLock
      <3> QED
        BY <1>b, <2>1, <3>1 DEF Over
    <2>2. CASE app # "stopped"
      BY <1>14, <1>b, <2>2 DEF ShutdownTakesLock, Unwind
    <2> QED
      BY <2>1, <2>2
  <1> QED
    BY <1>1, <1>2, <1>5, <1>6, <1>7, <1>9, <1>10, <1>11, <1>12, <1>13, <1>14
    DEF Next, BootStep, LockStep

\* An App that is over was unwound, or had nothing to unwind.
LEMMA CleanStep ==
    ASSUME TypeOK, Stages, BuiltAlongPlan, ResourcesOwned, StopList, ServersBehind,
    BusQuiet, Clean,
           [Next]_vars
    PROVE  Clean'
  <1> DEFINE K == /\ \A m \in Range(built) : module[m] = "down"
                  /\ provider \notin {"prepared", "started"}
                  /\ started \subseteq stopping
                  /\ bus = "closed" \/ built = << >>
  <1>1. /\ built \in Seq(Modules) /\ started \subseteq Components
        /\ bus \in {"open", "closing", "closed"}
    BY DEF TypeOK, AppTypeOK, BusTypeOK, ServerTypeOK
  <1> SUFFICES ASSUME Over' PROVE K'
    BY DEF Clean
  <1>2. CASE Over
    <2>1. K /\ phase = "idle"
      BY <1>2 DEF Clean, Over
    <2>2. boot \notin {"prepare", "build"}
      BY <1>2 DEF Over, Stages, Early
    <2>3. ASSUME boot = "start", StartBegins PROVE FALSE
      BY <1>2, <2>3 DEF Over, StartBegins
    <2>4. UNCHANGED parts
      BY <2>1, <2>2, <2>3, WorkSteps DEF StartsPart, RollsBack, TakesLock,
         StopsPart, Unwinding, parts
    <2> QED
      BY <2>1, <2>4 DEF parts
  <1>3. CASE ~Over
    <2>1. CASE boot \in {"listen", "seal"} /\ UNCHANGED <<parts, phase>>
      <3>1. built = << >> /\ started = {} /\ provider \in {"static", "new"}
        BY <2>1 DEF BuiltAlongPlan, ServersBehind, ResourcesOwned, Early
      <3> QED
        BY <2>1, <3>1 DEF parts, Range
    <2>2. CASE Unwinding /\ todo = << >> /\ UNCHANGED <<parts, todo>>
      <3>1. \A x : x \notin Range(todo)
        BY <2>2 DEF Range
      <3>2. K
        BY <1>1, <2>2, <3>1 DEF StopList, BusQuiet
      <3> QED
        BY <2>2, <3>2 DEF parts
    <2> QED
      BY <1>3, <2>1, <2>2, OverComes
  <1> QED
    BY <1>2, <1>3

\* A probe that has asked some servers has still to ask one that has ended
\* if any had when it began.
LEMMA ProbeStep ==
    ASSUME TypeOK, TypeOK', Stages, ServersBehind, ProbeHonest, [Next]_vars
    PROVE  ProbeHonest'
  <1>1. /\ probe \in [at : Servers \cup {0}, ready : BOOLEAN, sound : BOOLEAN]
        /\ probe' \in [at : Servers \cup {0}, ready : BOOLEAN, sound : BOOLEAN]
        /\ exited \subseteq Servers
    BY DEF TypeOK, ServerTypeOK
  <1>2. /\ exited \subseteq exited'
        /\ boot \in {"up", "over"} => boot' \in {"up", "over"}
        /\ boot \in {"up", "over"} /\ app' = "ready" => app = "ready"
    BY FlightSteps, AppSteps
  <1>3. CASE UNCHANGED probe
    BY <1>2, <1>3 DEF ProbeHonest
  <1>4. CASE ProbeBegins
    <2> DEFINE r == app = "ready"
               o == app = "ready" /\ \A s \in Servers : Serving(s)
    <2>1. /\ probe' = [at |-> Min(Servers), ready |-> r, sound |-> o] /\ boot = "up"
          /\ UNCHANGED <<app, boot, exited>>
      BY <1>4 DEF ProbeBegins, appVars, hostVars, serverVars
    <2>2. probe'.at = Min(Servers) /\ probe'.sound = o
      <3> HIDE DEF r, o
      <3> QED
        BY <2>1
    <2>3. ASSUME app = "ready", ~probe'.sound PROVE \E s \in exited' : s >= probe'.at
      <3>1. PICK s \in Servers : ~Serving(s)
        BY <2>2, <2>3
      <3>2. started = Components /\ stopping = {}
        BY <2>3 DEF ServersBehind
      <3>3. s \in exited
        BY <3>1, <3>2, TransportAssumption DEF Serving
      <3>4. s >= Min(Servers)
        BY <3>1, ServersOrdered
      <3> QED
        BY <2>1, <2>2, <3>3, <3>4
    <2> HIDE DEF r, o
    <2> QED
      BY <2>1, <2>3 DEF ProbeHonest
  <1>5. CASE ProbeAsks
    <2>1. UNCHANGED <<app, boot, exited, started, stopping>> /\ probe.at \in Servers
      BY <1>5 DEF ProbeAsks, appVars, hostVars, serverVars
    <2>2. probe.at # 0 /\ boot \in {"up", "over"}
      BY <2>1, ServersOrdered DEF ProbeHonest
    <2>3. CASE probe' = NoProbe
      BY <2>3 DEF NoProbe, ProbeHonest
    <2>4. CASE probe' # NoProbe
      <3> DEFINE n == Min({s \in Servers : s > probe.at})
                 r == ProbeFinds(probe.at)
      <3>1. probe.at # Max(Servers) /\ probe' = [at |-> n, ready |-> r, sound |-> probe.sound]
        BY <1>5, <2>4 DEF ProbeAsks
      <3>2. /\ n \in Servers /\ n > probe.at
            /\ \A s \in Servers : s > probe.at => n <= s
        BY <2>1, <3>1, NextServer
      <3>3. probe'.at = n /\ probe'.ready = r /\ probe'.sound = probe.sound
        <4> HIDE DEF n, r
        <4> QED
          BY <3>1
      <3> HIDE DEF n
      <3>4. ASSUME r, app = "ready", ~probe.sound PROVE \E s \in exited : s >= n
        <4>1. probe.ready /\ Healthy(probe.at)
          BY <3>4 DEF ProbeFinds
        <4>2. PICK s \in exited : s >= probe.at
          BY <2>2, <3>4, <4>1 DEF ProbeHonest
        <4>3. stopping = {}
          BY <3>4 DEF ServersBehind
        <4>4. probe.at \notin exited
          BY <4>1, <4>3 DEF Healthy
        <4>5. s \in Servers /\ s \in Nat /\ probe.at \in Nat
          BY <1>1, <2>1, <4>2, ServersOrdered
        <4>6. s > probe.at
          BY <4>2, <4>4, <4>5
        <4> QED
          BY <3>2, <4>2, <4>5, <4>6, ServersOrdered
      <3> HIDE DEF r
      <3> QED
        BY <2>1, <2>2, <3>3, <3>4 DEF ProbeHonest
    <2> QED
      BY <2>3, <2>4
  <1> QED
    BY <1>3, <1>4, <1>5, ProbeSteps

---------------------------------------------------------------------------
(* What follows *)

\* The invariant holds when Boot begins ...
LEMMA HostInit ==
    ASSUME Init PROVE HostInv
  <1>1. /\ descriptors = << >> /\ sealed = "open" /\ plan = << >>
        /\ provider \in {"static", "new"} /\ owned = {}
        /\ opened = [r \in Resources |-> 0] /\ closed = [r \in Resources |-> 0]
        /\ started = {} /\ stopping = {} /\ exited = {}
        /\ listener = [s \in Servers |-> "none"]
        /\ request = [r \in Requests |-> None] /\ forced = FALSE
        /\ bus = "open" /\ delayed = [p \in Publications |-> "none"]
        /\ app = "none" /\ built = << >> /\ module = [m \in Modules |-> "absent"]
        /\ holder = Nobody /\ phase = "idle" /\ todo = << >> /\ expired = FALSE
        /\ shutdown = [p \in Callers |-> "idle"]
        /\ way \in {"bootstrap", "run"} /\ boot = "register" /\ probe = NoProbe
    BY DEF Init, CatalogInit, ProviderInit, ServerInit, BusInit, AppInit
  <1>2. TypeOK
    <2>0. DOMAIN << >> = {} /\ << >> \in Seq(Modules)
      OBVIOUS
    <2>1. CatalogTypeOK
      BY <1>1, <2>0 DEF CatalogTypeOK
    <2>2. ProviderTypeOK /\ BusTypeOK
      BY <1>1 DEF ProviderTypeOK, BusTypeOK
    <2>4. ServerTypeOK
      BY <1>1 DEF ServerTypeOK
    <2>5. AppTypeOK
      <3>1. built \in Seq(Modules) /\ todo \in Seq(Parts)
        BY <1>1
      <3> QED
        BY <1>1, <3>1 DEF AppTypeOK
    <2>3. probe \in [at : Servers \cup {0}, ready : BOOLEAN, sound : BOOLEAN]
      BY <1>1 DEF NoProbe
    <2> QED
      BY <1>1, <2>1, <2>2, <2>3, <2>4, <2>5 DEF TypeOK
  <1>3. \A x : x \notin Range(built)
    BY <1>1 DEF Range
  <1>4. Stages
    BY <1>1 DEF Stages, Early
  <1>5. BuiltAlongPlan
    <2>1. Len(built) = 0 /\ Len(plan) = 0 /\ \A m \in Modules : module[m] = "absent"
      BY <1>1
    <2>2. \A m \in Modules : M(m) \notin Range(todo)
      BY <1>1 DEF Range
    <2> QED
      BY <1>1, <1>3, <2>1, <2>2 DEF BuiltAlongPlan
  <1>6. ResourcesOwned
    BY <1>1 DEF ResourcesOwned
  <1>7. StartList /\ StopList /\ Clean
    BY <1>1 DEF StartList, StopList, Clean, Over, Unwinding
  <1>8. UpInOrder
    BY <1>1 DEF UpInOrder
  <1>9. ServersBehind /\ BusQuiet
    BY <1>1, <1>3 DEF ServersBehind, BusQuiet, RequestsFindModules, Early
  <1>10. ProbeHonest
    BY <1>1 DEF ProbeHonest, NoProbe
  <1> QED
    BY <1>2, <1>4, <1>5, <1>6, <1>7, <1>8, <1>9, <1>10 DEF HostInv

\* ... and every step keeps it.
LEMMA HostStep ==
    ASSUME CatalogInv, CatalogInv', HostInv, [Next]_vars PROVE HostInv'
  <1>1. TypeOK'
    BY TypeStep DEF HostInv
  <1>2. Stages' /\ BuiltAlongPlan' /\ ResourcesOwned'
    BY <1>1, StagesStep, BuiltStep, ResourcesStep DEF HostInv
  <1>3. StartList' /\ StopList'
    BY StartListStep, StopListStep DEF HostInv
  <1>4. UpInOrder'
    BY <1>1, <1>2, UpStep DEF HostInv
  <1>5. ServersBehind' /\ BusQuiet' /\ Clean' /\ ProbeHonest'
    BY <1>1, ServersStep, BusQuietStep, CleanStep, ProbeStep DEF HostInv
  <1> QED
    BY <1>1, <1>2, <1>3, <1>4, <1>5 DEF HostInv

\* The invariant of the process: who holds lifecycleMu, what its list still
\* has, and how modules, resources, servers, requests, bus and probe stand to
\* each other (host.go, bootstrap.go, application_lifecycle.go).
THEOREM ProcessSound == Spec => []HostInv
  <1>1. Init => HostInv
    BY HostInit
  <1>2. CatalogInv /\ CatalogInv' /\ HostInv /\ [Next]_vars => HostInv'
    BY HostStep
  <1> QED
    BY <1>1, <1>2, CatalogHolds, PTL DEF Spec

\* Every variable keeps its type.
THEOREM HostTyped == Spec => []TypeOK
  <1>1. HostInv => TypeOK
    BY DEF HostInv
  <1> QED
    BY <1>1, ProcessSound, PTL

\* While a module is up so is all it depends on, and what it needs is open,
\* for every catalog: what Start, Shutdown and each rollback do with the order
\* of resolvePlan comes to this (application_lifecycle.go, provider.go).
THEOREM ModulesOutlived == Spec => []DependenciesOutlive
  <1>1. CatalogInv /\ HostInv => DependenciesOutlive
    <2> SUFFICES ASSUME CatalogInv, HostInv, NEW m \in Modules, module[m] = "up"
                 PROVE  /\ \A d \in descriptors[m].dependsOn : module[d] = "up"
                        /\ provider # "static" => \A r \in descriptors[m].needs : Open(r)
      BY DEF DependenciesOutlive
    <2>1. built \in Seq(Modules) /\ Len(built) \in Nat
      BY DEF HostInv, TypeOK, AppTypeOK
    <2>2. BuiltAlongPlan /\ UpInOrder /\ ResourcesOwned
      BY DEF HostInv
    <2>3. m \in Range(built)
      BY <2>2 DEF BuiltAlongPlan
    <2>4. /\ Range(built) \subseteq Range(plan)
          /\ Range(plan) \subseteq DOMAIN descriptors
          /\ \A x : x \in Range(built) <=> \E i \in 1..Len(built) : x = built[i]
          /\ plan \in Seq(Modules)
      BY <2>1, <2>2, BuiltIs
    <2>5. PICK j \in 1..Len(built) : m = built[j]
      BY <2>3, <2>4
    <2>6. /\ Len(plan) \in Nat /\ Len(built) <= Len(plan)
          /\ \A i \in 1..Len(built) : built[i] = plan[i]
      BY <2>2, <2>4 DEF BuiltAlongPlan
    <2>7. ASSUME NEW d \in descriptors[m].dependsOn PROVE module[d] = "up"
      <3>1. plan # << >> /\ j \in 1..Len(plan)
        BY <2>1, <2>5, <2>6
      <3>2. FoundWell(plan)
        BY <3>1 DEF CatalogInv
      <3>3. d \in Firsts(plan, j - 1)
        BY <2>5, <2>6, <2>7, <3>1, <3>2 DEF FoundWell
      <3>4. PICK i \in 1..(j - 1) : d = plan[i]
        BY <3>3 DEF Firsts
      <3>5. i \in 1..Len(built) /\ i < j
        BY <2>1, <2>5, <3>4
      <3> QED
        BY <2>2, <2>5, <2>6, <3>4, <3>5 DEF UpInOrder
    <2>8. ASSUME provider # "static", NEW r \in descriptors[m].needs PROVE Open(r)
      <3>1. provider = "started"
        BY <2>2, <2>8 DEF UpInOrder
      <3>2. r \in Required /\ r \in Resources
        BY <2>3, <2>4, RequiredIs
      <3>3. closed[r] = 0 /\ opened[r] = 1
        BY <2>2, <3>1, <3>2 DEF ResourcesOwned
      <3> QED
        BY <3>3 DEF Open
    <2> QED
      BY <2>7, <2>8
  <1> QED
    BY <1>1, CatalogHolds, ProcessSound, PTL

\* An App that is stopped, or that failed to be built or started, has shut down
\* every module, closed every resource once and every listener it owned, told
\* every component to stop and waits for no delayed handler.
THEOREM ShutdownIsComplete == Spec => []NothingLeftBehind
  <1>1. HostInv => NothingLeftBehind
    <2> SUFFICES ASSUME HostInv, AtRest
                 PROVE  /\ \A m \in Range(built) : module[m] = "down"
                        /\ \A r \in Resources : opened[r] <= 1 /\ closed[r] = opened[r]
                        /\ started \subseteq stopping
                        /\ \A p \in Publications : delayed[p] \notin {"armed", "running"}
                        /\ ((boot = "failed" /\ way = "bootstrap") \/ app = "stopped")
                            => \A s \in Servers : listener[s] # "open"
      BY DEF NothingLeftBehind
    <2>1. Clean /\ ResourcesOwned /\ BusQuiet /\ ServersBehind
      BY DEF HostInv
    <2>2. Over
      BY DEF AtRest, Over
    <2>3. /\ \A m \in Range(built) : module[m] = "down"
          /\ provider \notin {"prepared", "started"}
          /\ started \subseteq stopping
          /\ bus = "closed" \/ built = << >>
      BY <2>1, <2>2 DEF Clean
    <2>4. \A r \in Resources : opened[r] <= 1 /\ closed[r] = opened[r]
      BY <2>1, <2>3 DEF ResourcesOwned
    <2>5. \A p \in Publications : delayed[p] \notin {"armed", "running"}
      BY <2>1, <2>3 DEF BusQuiet
    <2>6. ((boot = "failed" /\ way = "bootstrap") \/ app = "stopped")
            => \A s \in Servers : listener[s] # "open"
      BY <2>1, TransportAssumption DEF ServersBehind
    <2> QED
      BY <2>3, <2>4, <2>5, <2>6
  <1> QED
    BY <1>1, ProcessSound, PTL

\* A request in flight finds every module up unless the deadline of the
\* shutdown had passed (http.go, grpc.go, App.Shutdown).
THEOREM RequestsServed == Spec => []RequestsFindModules
  <1>1. HostInv => RequestsFindModules
    BY DEF HostInv, ServersBehind
  <1> QED
    BY <1>1, ProcessSound, PTL

\* A probe is told ready by an App that is still ready only if every server
\* served when it began, however many there are (App.Health).
THEOREM ReadyIsTrue == Spec => []ReadyMeansServing
  <1>1. HostInv => ReadyMeansServing
    <2> SUFFICES ASSUME HostInv, probe.at = Max(Servers),
                        ProbeFinds(probe.at), app = "ready",
                        ~probe.sound
                 PROVE  FALSE
      BY DEF ReadyMeansServing
    <2>1. /\ probe.at \in Servers /\ probe.at # 0 /\ Servers \subseteq Nat
          /\ \A s \in Servers : s <= probe.at
      BY ServersOrdered
    <2>2. exited \subseteq Servers /\ stopping = {}
      BY DEF HostInv, TypeOK, ServerTypeOK, ServersBehind
    <2>3. probe.ready /\ probe.at \notin exited
      BY <2>2 DEF ProbeFinds, Healthy
    <2>4. PICK s \in exited : s >= probe.at
      BY <2>1, <2>3 DEF HostInv, ProbeHonest
    <2>5. s = probe.at
      <3>1. s \in Nat /\ probe.at \in Nat /\ s <= probe.at
        BY <2>1, <2>2, <2>4
      <3> QED
        BY <2>4, <3>1
    <2> QED
      BY <2>3, <2>4, <2>5
  <1> QED
    BY <1>1, ProcessSound, PTL

\* No module starts again after its shutdown when there is a provider: it
\* refuses to start first (provider.go, Start).
THEOREM StartedOnce == Spec => NoSecondStart
  <1> DEFINE Stays == \A m \in Modules :
                        (module[m] = "down" /\ provider # "static") => module'[m] = "down"
  <1>1. CatalogInv /\ HostInv /\ [Next]_vars => [Stays]_vars
    <2> SUFFICES ASSUME CatalogInv, HostInv, [Next]_vars, NEW m \in Modules,
                        module[m] = "down", provider # "static"
                 PROVE  module'[m] = "down"
      OBVIOUS
    <2>1. /\ built \in Seq(Modules) /\ Len(built) \in Nat /\ todo \in Seq(Parts)
          /\ module \in [Modules -> {"absent", "built", "up", "down"}]
      BY DEF HostInv, TypeOK, AppTypeOK
    <2>2. BuiltAlongPlan /\ UpInOrder /\ StartList
      BY DEF HostInv
    <2>3. CASE UNCHANGED <<built, module>>
      BY <2>3
    <2>4. CASE /\ Len(built) < Len(plan)
               /\ module' = [module EXCEPT ![plan[Len(built) + 1]] = "built"]
      <3> DEFINE n == Len(built) + 1
      <3>1. /\ Distinct(plan) /\ plan \in Seq(Modules)
            /\ \A x : x \in Range(built) <=> \E i \in 1..Len(built) : x = built[i]
        BY <2>1, <2>2, BuiltIs
      <3>2. n \in 1..Len(plan) /\ \A i \in 1..Len(built) : i \in 1..Len(plan) /\ i # n
        BY <2>1, <2>4, <3>1
      <3> HIDE DEF n
      <3>3. plan[n] \notin Range(built)
        BY <2>2, <3>1, <3>2 DEF Distinct, BuiltAlongPlan
      <3>4. m # plan[n]
        BY <2>2, <3>3 DEF BuiltAlongPlan
      <3> QED
        BY <2>1, <2>4, <3>4 DEF n
    <2>5. ASSUME NEW x \in Modules, Starts(M(x)), module' = [module EXCEPT ![x] = "up"]
          PROVE  FALSE
      <3>1. phase = "starting" /\ todo # << >> /\ Head(todo) = M(x) /\ ~Unwinding
        BY <2>5 DEF Starts, Unwinding
      <3>2. provider = "stopped"
        BY <2>2, <3>1 DEF UpInOrder
      <3>3. /\ \A y \in Range(Tail(todo)) : StartsBefore(built, Head(todo), y)
            /\ Range(todo) = {Head(todo)} \cup Range(Tail(todo))
        BY <2>1, <2>2, <3>1, StartTail, TailIs DEF StartList
      <3>4. Factory \in Range(todo)
        BY <2>2, <3>1, <3>2 DEF StartList
      <3>5. Factory # M(x)
        BY PartsDiffer
      <3> QED
        BY <3>1, <3>3, <3>4, <3>5 DEF StartsBefore
    <2>6. ASSUME NEW x \in Modules, module' = [module EXCEPT ![x] = "down"]
          PROVE  module'[m] = "down"
      BY <2>1, <2>6
    <2> QED
      BY <2>3, <2>4, <2>5, <2>6, ModuleSteps
  <1> QED
    BY <1>1, CatalogHolds, ProcessSound, PTL DEF Spec, NoSecondStart
=============================================================================
