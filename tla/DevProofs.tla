----------------------------- MODULE DevProofs -----------------------------
(***************************************************************************)
(* Proofs about DevPlan and DevRuntime, for any number of processes, any   *)
(* manifests and targets, any number of failing writes and commands that   *)
(* ignore signals.                                                         *)
(*                                                                         *)
(* The planner is a recursive function: that it exists, and what it        *)
(* answers, is proved by the least number of names off the path for which  *)
(* it would not be so.  The supervisor rests on one invariant, DevInv.     *)
(***************************************************************************)
EXTENDS DevRuntime, FiniteSetTheorems, WellFoundedInduction, TLAPS

(* Numbers *)

\* A nonempty set of natural numbers has a least element.
LEMMA LeastNat ==
    ASSUME NEW T \in SUBSET Nat, T # {} PROVE \E n \in T : \A m \in T : n <= m
  <1> DEFINE R == OpToRel(<, Nat)
  <1>1. IsWellFoundedOn(R, Nat)
    BY NatLessThanWellFounded, Zenon
  <1>2. \A x, y \in Nat : <<y, x>> \in R <=> y < x
    BY DEF OpToRel
  <1> HIDE DEF R
  <1>3. PICK x \in T : \A y \in T : ~(<<y, x>> \in R)
    BY <1>1, WFMin
  <1>4. \A y \in T : ~(y < x)
    BY <1>2, <1>3
  <1> QED
    BY <1>4

\* What holds of 0 and carries over from n to n + 1 holds of every number: T
\* are the numbers of which it does not.
LEMMA NoLeast ==
    ASSUME NEW T \in SUBSET Nat, 0 \notin T,
           \A n \in Nat : n + 1 \in T => n \in T
    PROVE  T = {}
  <1>1. SUFFICES ASSUME T # {} PROVE FALSE
    OBVIOUS
  <1>2. PICK n \in T : \A m \in T : n <= m
    BY <1>1, LeastNat
  <1>3. n # 0 /\ n - 1 \in Nat /\ (n - 1) + 1 = n
    BY <1>2
  <1>4. n - 1 \in T
    BY <1>2, <1>3
  <1> QED
    BY <1>2, <1>3, <1>4

---------------------------------------------------------------------------
(* Sorted names *)

\* s lists the numbers of S in their order.
Sorts(s, S) ==
    /\ s \in [1..Cardinality(S) -> S]
    /\ \A i, j \in 1..Cardinality(S) : i < j => s[i] < s[j]

\* Finite sets of numbers can be sorted.
LEMMA SortedExists ==
    ASSUME NEW S \in SUBSET Nat, IsFiniteSet(S) PROVE \E s : Sorts(s, S)
  <1> DEFINE T == {n \in Nat : \E U \in SUBSET Nat :
                      IsFiniteSet(U) /\ Cardinality(U) = n /\ ~ \E s : Sorts(s, U)}
  <1>1. 0 \notin T
    <2>1. SUFFICES ASSUME NEW U \in SUBSET Nat, IsFiniteSet(U), Cardinality(U) = 0
                   PROVE  \E s : Sorts(s, U)
      OBVIOUS
    <2>2. 1..Cardinality(U) = {}
      BY <2>1
    <2>3. Sorts([i \in {} |-> 0], U)
      BY <2>2 DEF Sorts
    <2> QED
      BY <2>3
  <1>2. ASSUME NEW n \in Nat, n + 1 \in T PROVE n \in T
    <2>1. PICK U \in SUBSET Nat : /\ IsFiniteSet(U) /\ Cardinality(U) = n + 1
                                  /\ ~ \E s : Sorts(s, U)
      BY <1>2
    <2>2. U # {}
      <3>1. U = {} => Cardinality(U) = 0
        BY FS_EmptySet
      <3> QED
        BY <2>1, <3>1
    <2>3. PICK a \in U : \A x \in U : a <= x
      BY <2>2, LeastNat
    <2> DEFINE V == U \ {a}
    <2>4. V \in SUBSET Nat /\ IsFiniteSet(V) /\ Cardinality(V) = n
      <3>1. IsFiniteSet(U \ {a}) /\ Cardinality(U \ {a}) = Cardinality(U) - 1
        BY <2>1, <2>3, FS_RemoveElement
      <3> QED
        BY <2>1, <3>1
    <2>5. ASSUME NEW v, Sorts(v, V) PROVE FALSE
      <3> DEFINE u == [i \in 1..(n + 1) |-> IF i = 1 THEN a ELSE v[i - 1]]
      <3>1. /\ \A i \in 1..n : v[i] \in V
            /\ \A i, j \in 1..n : i < j => v[i] < v[j]
        BY <2>4, <2>5 DEF Sorts
      <3>2. \A i \in 1..(n + 1) : i # 1 => i - 1 \in 1..n
        OBVIOUS
      <3>3. \A x \in V : x \in U /\ a < x
        BY <2>3, <2>4
      <3> HIDE DEF V
      <3>4. \A i \in 1..(n + 1) : u[i] \in U
        BY <3>1, <3>2, <3>3
      <3>5. ASSUME NEW i \in 1..(n + 1), NEW j \in 1..(n + 1), i < j PROVE u[i] < u[j]
        <4>1. j # 1 /\ j - 1 \in 1..n /\ u[j] = v[j - 1]
          BY <3>5, <3>2
        <4>2. CASE i = 1
          BY <4>1, <4>2, <3>1, <3>3
        <4>3. CASE i # 1
          <5>1. i - 1 \in 1..n /\ i - 1 < j - 1 /\ u[i] = v[i - 1]
            BY <4>3, <3>2, <3>5
          <5> QED
            BY <5>1, <4>1, <3>1
        <4> QED
          BY <4>2, <4>3
      <3>6. Sorts(u, U)
        BY <3>4, <3>5, <2>1 DEF Sorts
      <3> QED
        BY <3>6, <2>1
    <2> QED
      BY <2>4, <2>5
  <1>3. T = {}
    BY <1>1, <1>2, NoLeast
  <1>4. Cardinality(S) \in Nat
    BY FS_CardinalityType
  <1> QED
    BY <1>3, <1>4

\* Sorted lists the names of a finite set and no others.
LEMMA SortedIs ==
    ASSUME NEW S \in SUBSET Nat, IsFiniteSet(S)
    PROVE  Sorted(S) \in Seq(S) /\ Range(Sorted(S)) = S
  <1> DEFINE n == Cardinality(S)
             s == Sorted(S)
  <1>0. n \in Nat
    BY FS_CardinalityType
  <1>1. Sorts(s, S)
    <2>1. \E t \in [1..n -> S] : \A i, j \in 1..n : i < j => t[i] < t[j]
      BY SortedExists DEF Sorts
    <2> QED
      BY <2>1 DEF Sorted, Sorts
  <1> HIDE DEF s
  <1>2. s \in Injection(1..n, S)
    <2>1. s \in [1..n -> S]
      BY <1>1 DEF Sorts
    <2>2. ASSUME NEW i \in 1..n, NEW j \in 1..n, s[i] = s[j] PROVE i = j
      <3>1. s[i] \in Nat /\ s[j] \in Nat
        BY <2>1
      <3> QED
        BY <3>1, <2>2, <1>1 DEF Sorts
    <2>3. DOMAIN s = 1..n
      BY <2>1
    <2> QED
      BY <2>1, <2>2, <2>3 DEF Injection, IsInjective
  <1>3. Cardinality(1..n) = n
    BY <1>0, FS_Interval
  <1>4. s \in Surjection(1..n, S)
    BY <1>2, <1>3, FS_Injection
  <1>5. s \in [1..n -> S] /\ \A x \in S : \E i \in 1..n : s[i] = x
    BY <1>4 DEF Surjection
  <1>6. Range(s) = S
    BY <1>5 DEF Range
  <1>7. s \in Seq(S)
    BY <1>0, <1>5
  <1> QED
    BY <1>6, <1>7 DEF s

---------------------------------------------------------------------------
(* The loops of the planner *)

\* What one round of the loop makes of the list.
Step(f, path, list, n) ==
    IF list = Refused THEN list ELSE f[[name |-> n, ordered |-> list, path |-> path]]

\* it is the fold over the places of names, the last one first.
FoldsTo(it, f, path, base, names, k) ==
    it = [s \in SUBSET (1..k) |->
            IF s = {} THEN base ELSE Step(f, path, it[s \ {Max(s)}], names[Max(s)])]

\* A set of places has a last one.
LEMMA LastIs ==
    ASSUME NEW k \in Nat, NEW s \in SUBSET (1..k), s # {}
    PROVE  Max(s) \in s /\ \A i \in s : i <= Max(s)
  <1> DEFINE T == {k - i : i \in s}
  <1>1. T \in SUBSET Nat /\ T # {}
    OBVIOUS
  <1>2. PICK t \in T : \A u \in T : t <= u
    BY <1>1, LeastNat
  <1>3. PICK i \in s : t = k - i
    BY <1>2
  <1>4. \A j \in s : i >= j
    <2> TAKE j \in s
    <2>1. k - j \in T /\ i \in Nat /\ j \in Nat
      OBVIOUS
    <2>2. k - i <= k - j
      BY <1>2, <1>3, <2>1
    <2> QED
      BY <2>1, <2>2
  <1>5. \E x \in s : \A y \in s : x >= y
    BY <1>4
  <1> HIDE DEF T
  <1>6. Max(s) \in s /\ \A y \in s : Max(s) >= y
    BY <1>5 DEF Max
  <1> QED
    BY <1>6

\* The fold exists.
LEMMA FoldsExist ==
    ASSUME NEW f, NEW path, NEW base, NEW names, NEW n \in Nat
    PROVE  \E it : FoldsTo(it, f, path, base, names, n)
  <1> DEFINE T == {k \in Nat : ~ \E it : FoldsTo(it, f, path, base, names, k)}
             Body(it, s) == IF s = {} THEN base
                            ELSE Step(f, path, it[s \ {Max(s)}], names[Max(s)])
  <1>1. 0 \notin T
    <2> DEFINE it == [s \in SUBSET (1..0) |-> base]
    <2>1. \A s \in SUBSET (1..0) : s = {}
      OBVIOUS
    <2>2. it = [s \in SUBSET (1..0) |-> Body(it, s)]
      BY <2>1
    <2>3. FoldsTo(it, f, path, base, names, 0)
      BY <2>2, Zenon DEF FoldsTo
    <2> QED
      BY <2>3
  <1>2. ASSUME NEW k \in Nat, k \notin T PROVE k + 1 \notin T
    <2>1. PICK it : FoldsTo(it, f, path, base, names, k)
      BY <1>2
    <2> DEFINE K == SUBSET (1..(k + 1))
               ju == [s \in K |-> IF k + 1 \in s
                                  THEN Step(f, path, it[s \ {k + 1}], names[k + 1])
                                  ELSE it[s]]
    <2>2. \A s \in SUBSET (1..k) : it[s] = Body(it, s)
      BY <2>1, Zenon DEF FoldsTo
    <2>3. ASSUME NEW s \in K PROVE ju[s] = Body(ju, s)
      <3>1. CASE k + 1 \in s
        <4>1. Max(s) \in s /\ \A i \in s : i <= Max(s)
          <5>1. k + 1 \in Nat /\ s \in SUBSET (1..(k + 1)) /\ s # {}
            BY <3>1
          <5> QED
            BY <5>1, LastIs
        <4>2. Max(s) = k + 1
          <5>1. Max(s) \in 1..(k + 1) /\ k + 1 <= Max(s)
            BY <3>1, <4>1
          <5> QED
            BY <5>1
        <4>3. s \ {k + 1} \in K /\ k + 1 \notin s \ {k + 1}
          OBVIOUS
        <4>4. ju[s \ {k + 1}] = it[s \ {k + 1}]
          BY <4>3
        <4>5. ju[s] = Step(f, path, it[s \ {k + 1}], names[k + 1])
          BY <3>1
        <4> HIDE DEF ju
        <4> QED
          BY <3>1, <4>2, <4>4, <4>5
      <3>2. CASE k + 1 \notin s
        <4>1. s \in SUBSET (1..k)
          BY <3>2
        <4>2. ju[s] = Body(it, s)
          BY <3>2, <4>1, <2>2
        <4>3. s # {} => ju[s \ {Max(s)}] = it[s \ {Max(s)}]
          BY <3>2
        <4> HIDE DEF ju
        <4> QED
          BY <4>2, <4>3
      <3> QED
        BY <3>1, <3>2
    <2>4. ju = [s \in K |-> Body(ju, s)]
      <3> DEFINE h == [s \in K |-> Body(ju, s)]
      <3>1. \A s \in K : ju[s] = h[s]
        BY <2>3
      <3>2. ju = h
        BY <3>1
      <3> QED
        BY <3>2
    <2>5. FoldsTo(ju, f, path, base, names, k + 1)
      BY <2>4, Zenon DEF FoldsTo
    <2> QED
      BY <2>5
  <1>3. T = {}
    BY <1>1, <1>2, NoLeast
  <1> QED
    BY <1>3

\* g holds the list after every round of the loop.
Loop(g, f, path, base, names) ==
    /\ g[0] = base
    /\ \A k \in 1..Len(names) : g[k] = Step(f, path, g[k - 1], names[k])

\* A position of a list is one of the positions that the loop has passed, and
\* so is the one before it.
LEMMA InRange ==
    ASSUME NEW n \in Nat, NEW k \in 1..n
    PROVE  k \in Nat /\ 1 <= k /\ k <= n /\ k \in 0..n /\ k - 1 \in 0..n
  <1>1. k \in Nat /\ 1 <= k /\ k <= n
    OBVIOUS
  <1>2. k \in 0..n
    BY <1>1
  <1>3. k - 1 \in 0..n
    BY <1>1
  <1> QED
    BY <1>1, <1>2, <1>3

\* The positions up to k are those up to the one before it, and k.
LEMMA PositionsUpTo ==
    ASSUME NEW n \in Nat, NEW k \in Nat, 1 <= k, k <= n
    PROVE  /\ 1..k \in SUBSET (1..n) /\ 1..k # {}
           /\ (1..k) \ {k} = 1..(k - 1)
  <1>1. ASSUME NEW i \in 1..k PROVE i \in 1..n
    OBVIOUS
  <1>2. k \in 1..k
    OBVIOUS
  <1>3. ASSUME NEW i \in (1..k) \ {k} PROVE i \in 1..(k - 1)
    OBVIOUS
  <1>4. ASSUME NEW i \in 1..(k - 1) PROVE i \in (1..k) \ {k}
    OBVIOUS
  <1>5. (1..k) \ {k} = 1..(k - 1)
    BY <1>3, <1>4, Zenon
  <1> QED
    BY <1>1, <1>2, <1>5, Zenon

\* The last position of a prefix is its length.
LEMMA LastOfPrefix ==
    ASSUME NEW k \in Nat, 1 <= k, NEW m \in 1..k, \A i \in 1..k : i <= m
    PROVE  m = k
  <1>1. k \in 1..k
    OBVIOUS
  <1>2. k <= m
    BY <1>1
  <1> QED
    BY <1>2

\* The fold goes through the names from the first to the last.
LEMMA VisitAllIs ==
    ASSUME NEW f, NEW path, NEW base, NEW S, NEW names \in Seq(S)
    PROVE  \E g : Loop(g, f, path, base, names)
                  /\ VisitAll(f, path, base, names) = g[Len(names)]
  <1> DEFINE n == Len(names)
             it == CHOOSE it : FoldsTo(it, f, path, base, names, n)
             g == [k \in 0..n |-> it[1..k]]
  <1>1. n \in Nat /\ DOMAIN names = 1..n
    OBVIOUS
  <1>2. FoldsTo(it, f, path, base, names, n)
    BY <1>1, FoldsExist
  <1>3. VisitAll(f, path, base, names) = it[1..n]
    BY <1>1, Zenon DEF VisitAll, FoldLeft, MapThenFoldSet, FoldsTo, Step
  <1> HIDE DEF it
  <1>4. \A s \in SUBSET (1..n) : it[s] =
            IF s = {} THEN base ELSE Step(f, path, it[s \ {Max(s)}], names[Max(s)])
    BY <1>2, Zenon DEF FoldsTo
  <1>5. g[0] = base
    <2>1. 1..0 = {} /\ 1..0 \in SUBSET (1..n) /\ 0 \in 0..n
      BY <1>1
    <2> QED
      BY <2>1, <1>4
  <1>6. ASSUME NEW k \in 1..n PROVE g[k] = Step(f, path, g[k - 1], names[k])
    <2>0. /\ k \in Nat /\ n \in Nat /\ 1 <= k /\ k <= n
          /\ k \in 0..n /\ k - 1 \in 0..n
      BY <1>1, InRange, Zenon
    <2>1. /\ 1..k \in SUBSET (1..n) /\ 1..k # {}
          /\ (1..k) \ {k} = 1..(k - 1)
      BY <2>0, PositionsUpTo, Zenon
    <2>2. Max(1..k) \in 1..k /\ \A i \in 1..k : i <= Max(1..k)
      BY <1>1, <2>1, LastIs
    <2>3. Max(1..k) = k
      BY <2>0, <2>2, LastOfPrefix, Zenon
    <2>4. it[1..k] = Step(f, path, it[(1..k) \ {k}], names[k])
      BY <2>1, <2>3, <1>4
    <2> QED
      BY <2>0, <2>1, <2>4
  <1>7. g[n] = it[1..n]
    BY <1>1
  <1>8. Loop(g, f, path, base, names)
    BY <1>5, <1>6 DEF Loop
  <1> QED
    BY <1>3, <1>7, <1>8

---------------------------------------------------------------------------
(* The recursion of visit *)

\* The calls of visit over a manifest, and what they return.
Calls(m) == [name : DOMAIN m, ordered : Seq(DOMAIN m), path : SUBSET DOMAIN m]
Lists(m) == Seq(DOMAIN m) \cup {Refused}

\* A manifest as the planner gets it.
Listed(m) ==
    /\ DOMAIN m \subseteq Processes
    /\ \A p \in DOMAIN m : m[p].dependsOn \subseteq DOMAIN m

\* The names to go through are those of the set.
LEMMA NamesAre ==
    ASSUME NEW m, Listed(m), NEW S \in SUBSET DOMAIN m
    PROVE  /\ Sorted(S) \in Seq(S) /\ Range(Sorted(S)) = S
           /\ Sorted(S) \in Seq(DOMAIN m)
           /\ IsFiniteSet(S) /\ IsFiniteSet(DOMAIN m)
  <1>1. DOMAIN m \in SUBSET Processes /\ S \in SUBSET Processes /\ S \in SUBSET Nat
    BY ProcessAssumption DEF Listed
  <1>2. IsFiniteSet(S) /\ IsFiniteSet(DOMAIN m)
    BY <1>1, ProcessAssumption, FS_Subset
  <1>3. Sorted(S) \in Seq(S) /\ Range(Sorted(S)) = S
    BY <1>1, <1>2, SortedIs
  <1> QED
    BY <1>2, <1>3

\* A loop depends only on the answers to the calls it makes, and gives a list
\* when these are lists.
LEMMA LoopDepends ==
    ASSUME NEW m, NEW f, NEW h, NEW path \in SUBSET DOMAIN m,
           NEW base \in Seq(DOMAIN m), NEW names \in Seq(DOMAIN m),
           \A x \in Calls(m) : x.path = path => f[x] = h[x] /\ f[x] \in Lists(m)
    PROVE  /\ VisitAll(f, path, base, names) = VisitAll(h, path, base, names)
           /\ VisitAll(f, path, base, names) \in Lists(m)
  <1> DEFINE n == Len(names)
  <1>1. n \in Nat /\ \A k \in 1..n : names[k] \in DOMAIN m
    OBVIOUS
  <1>2. PICK g : /\ Loop(g, f, path, base, names)
                 /\ VisitAll(f, path, base, names) = g[n]
    BY VisitAllIs
  <1>3. PICK u : /\ Loop(u, h, path, base, names)
                 /\ VisitAll(h, path, base, names) = u[n]
    BY VisitAllIs
  <1> DEFINE T == {k \in Nat : k <= n /\ ~(g[k] = u[k] /\ g[k] \in Lists(m))}
  <1>4. 0 \notin T
    BY <1>2, <1>3 DEF Loop, Lists
  <1>5. ASSUME NEW k \in Nat, k + 1 \in T PROVE k \in T
    <2>1. SUFFICES ASSUME g[k] = u[k], g[k] \in Lists(m)
                   PROVE  g[k + 1] = u[k + 1] /\ g[k + 1] \in Lists(m)
      BY <1>1, <1>5
    <2>2. k + 1 \in 1..n /\ (k + 1) - 1 = k
      BY <1>1, <1>5
    <2>3. g[k + 1] = Step(f, path, g[k], names[k + 1]) /\
          u[k + 1] = Step(h, path, u[k], names[k + 1])
      <3>1. g[k + 1] = Step(f, path, g[(k + 1) - 1], names[k + 1]) /\
            u[k + 1] = Step(h, path, u[(k + 1) - 1], names[k + 1])
        BY <1>2, <1>3, <2>2 DEF Loop
      <3> QED
        BY <2>2, <3>1
    <2>4. CASE g[k] = Refused
      BY <2>1, <2>3, <2>4 DEF Step
    <2>5. CASE g[k] # Refused
      <3> DEFINE x == [name |-> names[k + 1], ordered |-> g[k], path |-> path]
      <3>1. x \in Calls(m) /\ x.path = path
        BY <1>1, <2>1, <2>2, <2>5 DEF Calls, Lists
      <3>2. g[k + 1] = f[x] /\ u[k + 1] = h[x]
        BY <2>1, <2>3, <2>5 DEF Step
      <3> QED
        BY <3>1, <3>2
    <2> QED
      BY <2>4, <2>5
  <1>6. T = {}
    BY <1>4, <1>5, NoLeast
  <1>7. g[n] = u[n] /\ g[n] \in Lists(m)
    BY <1>1, <1>6
  <1> QED
    BY <1>2, <1>3, <1>7

\* So does a visit, which makes its calls with one more name on the path.
LEMMA VisitDepends ==
    ASSUME NEW m, Listed(m), NEW f, NEW h, NEW x \in Calls(m),
           x.name \notin x.path =>
             \A y \in Calls(m) : y.path = x.path \cup {x.name} =>
                f[y] = h[y] /\ f[y] \in Lists(m)
    PROVE  Visit(m, f, x) = Visit(m, h, x) /\ Visit(m, f, x) \in Lists(m)
  <1> DEFINE names == Sorted(m[x.name].dependsOn)
             path == x.path \cup {x.name}
             list(v) == VisitAll(v, path, x.ordered, names)
  <1>1. /\ x.name \in DOMAIN m /\ x.ordered \in Seq(DOMAIN m) /\ x.path \in SUBSET DOMAIN m
        /\ path \in SUBSET DOMAIN m
    BY DEF Calls
  <1>2. names \in Seq(DOMAIN m)
    <2>1. m[x.name].dependsOn \in SUBSET DOMAIN m
      BY <1>1 DEF Listed
    <2> QED
      BY <2>1, NamesAre
  <1>3. CASE x.name \in x.path
    BY <1>3 DEF Visit, Lists
  <1>4. CASE x.name \notin x.path /\ x.name \in Range(x.ordered)
    BY <1>1, <1>4 DEF Visit, Lists
  <1>5. CASE x.name \notin x.path /\ x.name \notin Range(x.ordered)
    <2> HIDE DEF names, path
    <2>1. list(f) = list(h) /\ list(f) \in Lists(m)
      <3>1. \A y \in Calls(m) : y.path = path => f[y] = h[y] /\ f[y] \in Lists(m)
        BY <1>5 DEF path
      <3>2. x.ordered \in Seq(DOMAIN m)
        BY <1>1
      <3> QED
        BY <1>1, <1>2, <3>1, <3>2, LoopDepends, SMTT(30)
    <2>2. /\ Visit(m, f, x) = IF list(f) = Refused THEN Refused ELSE Append(list(f), x.name)
          /\ Visit(m, h, x) = IF list(h) = Refused THEN Refused ELSE Append(list(h), x.name)
      BY <1>5 DEF Visit, names, path
    <2> HIDE DEF list
    <2>3. list(f) # Refused => list(f) \in Seq(DOMAIN m)
      BY <2>1 DEF Lists
    <2>4. list(f) # Refused => Append(list(f), x.name) \in Seq(DOMAIN m)
      BY <1>1, <2>3
    <2> QED
      BY <2>1, <2>2, <2>4 DEF Lists
  <1> QED
    BY <1>3, <1>4, <1>5

\* The calls with at most n names that are not on the path.
Shallow(m, n) == {x \in Calls(m) : Cardinality(DOMAIN m \ x.path) <= n}

\* A call that goes on has fewer of them than the one it comes from.
LEMMA Deeper ==
    ASSUME NEW m, Listed(m), NEW x \in Calls(m), x.name \notin x.path
    PROVE  /\ Cardinality(DOMAIN m \ x.path) \in Nat \ {0}
           /\ \A y \in Calls(m) : y.path = x.path \cup {x.name} =>
                 Cardinality(DOMAIN m \ y.path) = Cardinality(DOMAIN m \ x.path) - 1
  <1> DEFINE rest == DOMAIN m \ x.path
  <1>1. x.name \in rest
    BY DEF Calls
  <1>2. IsFiniteSet(rest) /\ Cardinality(rest) \in Nat
    BY NamesAre, FS_CardinalityType
  <1>3. Cardinality(rest) # 0
    BY <1>1, <1>2, FS_EmptySet
  <1>4. Cardinality(rest \ {x.name}) = Cardinality(rest) - 1
    BY <1>1, <1>2, FS_RemoveElement
  <1>5. ASSUME NEW y \in Calls(m), y.path = x.path \cup {x.name}
        PROVE  DOMAIN m \ y.path = rest \ {x.name}
    BY <1>5
  <1> QED
    BY <1>2, <1>3, <1>4, <1>5

\* Every call has some number of names that are not on its path.
LEMMA Depth ==
    ASSUME NEW m, Listed(m), NEW x \in Calls(m)
    PROVE  /\ Cardinality(DOMAIN m \ x.path) \in Nat
           /\ Cardinality(DOMAIN m) \in Nat
           /\ Cardinality(DOMAIN m \ x.path) <= Cardinality(DOMAIN m)
  <1>1. IsFiniteSet(DOMAIN m)
    BY NamesAre
  <1>2. DOMAIN m \ x.path \in SUBSET DOMAIN m
    OBVIOUS
  <1> QED
    BY <1>1, <1>2, FS_Subset, FS_CardinalityType

\* v answers those calls as visit does.
Visits(v, m, n) ==
    /\ v = [x \in Shallow(m, n) |-> Visit(m, v, x)]
    /\ \A x \in Shallow(m, n) : v[x] \in Lists(m)

\* The recursion of visit ends: there is such a function.
LEMMA VisitsExist ==
    ASSUME NEW m, Listed(m), NEW N \in Nat PROVE \E v : Visits(v, m, N)
  <1> DEFINE T == {n \in Nat : ~ \E v : Visits(v, m, n)}
  <1>1. 0 \notin T
    <2> DEFINE v == [x \in Shallow(m, 0) |-> Refused]
    <2>1. ASSUME NEW x \in Shallow(m, 0) PROVE v[x] = Visit(m, v, x)
      <3>1. x \in Calls(m) /\ ~(Cardinality(DOMAIN m \ x.path) \in Nat \ {0})
        BY DEF Shallow
      <3>2. x.name \in x.path
        BY <3>1, Deeper
      <3> QED
        BY <3>2 DEF Visit
    <2>2. v = [x \in Shallow(m, 0) |-> Visit(m, v, x)]
      <3> DEFINE h == [x \in Shallow(m, 0) |-> Visit(m, v, x)]
      <3>1. \A x \in Shallow(m, 0) : v[x] = h[x]
        BY <2>1
      <3>2. v = h
        BY <3>1
      <3> QED
        BY <3>2
    <2>3. Visits(v, m, 0)
      BY <2>2 DEF Visits, Lists
    <2> QED
      BY <2>3
  <1>2. ASSUME NEW n \in Nat, n \notin T PROVE n + 1 \notin T
    <2>1. PICK v : Visits(v, m, n)
      BY <1>2
    <2> DEFINE D == Shallow(m, n)
               E == Shallow(m, n + 1)
               w == [x \in E |-> IF x \in D THEN v[x] ELSE Visit(m, v, x)]
    <2>2. \A x \in D : v[x] = Visit(m, v, x) /\ v[x] \in Lists(m)
      BY <2>1, Zenon DEF Visits
    <2>3. ASSUME NEW x \in D PROVE x \in E
      <3>1. x \in Calls(m) /\ Cardinality(DOMAIN m \ x.path) \in Nat
        BY Depth DEF Shallow
      <3> QED
        BY <3>1 DEF Shallow
    <2>4. \A x \in D : w[x] = v[x]
      BY <2>3
    <2>5. ASSUME NEW x \in E
          PROVE  Visit(m, v, x) = Visit(m, w, x) /\ Visit(m, v, x) \in Lists(m)
      <3>1. x \in Calls(m) /\ Cardinality(DOMAIN m \ x.path) <= n + 1
        BY DEF Shallow
      <3>2. ASSUME x.name \notin x.path, NEW y \in Calls(m), y.path = x.path \cup {x.name}
            PROVE  y \in D
        <4>1. /\ Cardinality(DOMAIN m \ x.path) \in Nat
              /\ Cardinality(DOMAIN m \ y.path) = Cardinality(DOMAIN m \ x.path) - 1
          BY <3>1, <3>2, Deeper
        <4>2. Cardinality(DOMAIN m \ y.path) <= n
          BY <3>1, <4>1
        <4> QED
          BY <4>2 DEF Shallow
      <3>3. x.name \notin x.path =>
              \A y \in Calls(m) : y.path = x.path \cup {x.name} =>
                v[y] = w[y] /\ v[y] \in Lists(m)
        BY <3>2, <2>2, <2>4
      <3> HIDE DEF w
      <3> QED
        BY <3>1, <3>3, VisitDepends
    <2>6. ASSUME NEW x \in E PROVE w[x] = Visit(m, w, x) /\ w[x] \in Lists(m)
      BY <2>2, <2>5
    <2>7. w = [x \in E |-> Visit(m, w, x)]
      <3> DEFINE h == [x \in E |-> Visit(m, w, x)]
      <3>1. \A x \in E : w[x] = h[x]
        BY <2>6
      <3>2. w = h
        BY <3>1
      <3> QED
        BY <3>2
    <2>8. Visits(w, m, n + 1)
      BY <2>6, <2>7 DEF Visits
    <2> QED
      BY <2>8
  <1>3. T = {}
    BY <1>1, <1>2, NoLeast
  <1> QED
    BY <1>3

\* So the search is a loop over the targets with a function that visits.
LEMMA VisitedIs ==
    ASSUME NEW m, Listed(m), NEW names
    PROVE  \E v : /\ \A x \in Calls(m) : v[x] = Visit(m, v, x)
                  /\ Visited(m, names) = VisitAll(v, {}, << >>, names)
  <1> DEFINE N == Cardinality(DOMAIN m)
             v == CHOOSE u : u = [x \in Calls(m) |-> Visit(m, u, x)]
  <1>1. N \in Nat
    BY NamesAre, FS_CardinalityType
  <1>2. Shallow(m, N) = Calls(m)
    <2>1. \A x \in Calls(m) : Cardinality(DOMAIN m \ x.path) <= N
      BY Depth
    <2> QED
      BY <2>1 DEF Shallow
  <1>3. \E u : u = [x \in Calls(m) |-> Visit(m, u, x)]
    <2>1. PICK u : Visits(u, m, N)
      BY <1>1, VisitsExist
    <2>2. u = [x \in Shallow(m, N) |-> Visit(m, u, x)]
      BY <2>1, Zenon DEF Visits
    <2> QED
      BY <2>2, <1>2, Zenon
  <1>4. v = [x \in Calls(m) |-> Visit(m, v, x)]
    BY <1>3, Zenon
  <1>5. Visited(m, names) = VisitAll(v, {}, << >>, names)
    BY Zenon DEF Visited, Calls
  <1> HIDE DEF v
  <1>6. \A x \in Calls(m) : v[x] = Visit(m, v, x)
    BY <1>4, Zenon
  <1> QED
    BY <1>5, <1>6

---------------------------------------------------------------------------
(* What a visit answers *)

\* A part of a plan: no process twice, and each after all it depends on.
Nice(m, o) ==
    /\ o \in Seq(DOMAIN m)
    /\ \A i, j \in DOMAIN o : i < j => o[i] # o[j]
    /\ \A j \in DOMAIN o : \A d \in m[o[j]].dependsOn : \E i \in DOMAIN o : i < j /\ o[i] = d

\* Whoever is on the path waits for another one there, or for n.
Waits(m, path, n) == \A p \in path : m[p].dependsOn \cap (path \cup {n}) # {}

\* What a visit may assume when N is what the targets need: ...
Asked(m, N, x) ==
    /\ x \in Calls(m)
    /\ Nice(m, x.ordered) /\ Range(x.ordered) \subseteq N
    /\ x.name \in N /\ x.path \subseteq N
    /\ Waits(m, x.path, x.name)

\* ... and what it answers: a longer list with the names asked for and none of
\* the path, or an error where there is a cycle.
Answers(m, N, path, ordered, names, r) ==
    \/ r = Refused /\ ~NoCycle(m, N)
    \/ /\ Nice(m, r) /\ Range(r) \subseteq N
       /\ Range(ordered) \cup names \subseteq Range(r)
       /\ Range(r) \cap path \subseteq Range(ordered)

\* A set that is needed with all it depends on.
Closed(m, N) ==
    N \subseteq DOMAIN m /\ \A p \in N : m[p].dependsOn \subseteq N

\* A refusal is no part of a plan.
LEMMA NotRefused ==
    ASSUME NEW m, Listed(m), NEW o, Nice(m, o) PROVE o # Refused
  <1>1. o \in Seq(DOMAIN m) /\ 0 \notin DOMAIN m
    BY ProcessAssumption DEF Nice, Listed
  <1>2. o = <<0>> => o[1] = 0 /\ 1 \in DOMAIN o
    OBVIOUS
  <1> QED
    BY <1>1, <1>2 DEF Refused

\* The loop of a visit, or that over the targets: when every call answers well
\* it does so too.
LEMMA LoopAnswers ==
    ASSUME NEW m, Listed(m), NEW N \in SUBSET DOMAIN m, NEW f, NEW path \in SUBSET N,
           NEW base, Nice(m, base), Range(base) \subseteq N,
           NEW names \in Seq(N),
           \A d \in Range(names) : Waits(m, path, d),
           \A x : Asked(m, N, x) /\ x.path = path
                    => Answers(m, N, path, x.ordered, {x.name}, f[x])
    PROVE  Answers(m, N, path, base, Range(names), VisitAll(f, path, base, names))
  <1> DEFINE n == Len(names)
             done(k) == {names[i] : i \in 1..k}
  <1>1. n \in Nat /\ (\A k \in 1..n : names[k] \in N) /\ DOMAIN names = 1..n
    OBVIOUS
  <1>2. PICK g : /\ Loop(g, f, path, base, names)
                 /\ VisitAll(f, path, base, names) = g[n]
    BY VisitAllIs
  <1> DEFINE T == {k \in Nat : k <= n /\ ~Answers(m, N, path, base, done(k), g[k])}
  <1>3. 0 \notin T
    <2>1. g[0] = base /\ done(0) = {}
      BY <1>2 DEF Loop
    <2>2. Answers(m, N, path, base, {}, base)
      BY DEF Answers
    <2> HIDE DEF done
    <2> QED
      BY <2>1, <2>2
  <1>4. ASSUME NEW k \in Nat, k + 1 \in T PROVE k \in T
    <2>1. SUFFICES ASSUME Answers(m, N, path, base, done(k), g[k])
                   PROVE  Answers(m, N, path, base, done(k + 1), g[k + 1])
      BY <1>1, <1>4
    <2>2. k + 1 \in 1..n /\ (k + 1) - 1 = k
      BY <1>1, <1>4
    <2>3. g[k + 1] = Step(f, path, g[k], names[k + 1])
      <3>1. g[k + 1] = Step(f, path, g[(k + 1) - 1], names[k + 1])
        BY <1>2, <2>2 DEF Loop
      <3> QED
        BY <2>2, <3>1
    <2>4. done(k + 1) = done(k) \cup {names[k + 1]}
      <3>1. 1..(k + 1) = 1..k \cup {k + 1}
        OBVIOUS
      <3> QED
        BY <3>1
    <2> HIDE DEF done
    <2>5. CASE g[k] = Refused
      <3>1. ~NoCycle(m, N)
        BY <2>1, <2>5, NotRefused DEF Answers
      <3> QED
        BY <3>1, <2>3, <2>5 DEF Step, Answers
    <2>6. CASE g[k] # Refused
      <3> DEFINE x == [name |-> names[k + 1], ordered |-> g[k], path |-> path]
      <3>1. /\ Nice(m, g[k]) /\ Range(g[k]) \subseteq N
            /\ Range(base) \cup done(k) \subseteq Range(g[k])
            /\ Range(g[k]) \cap path \subseteq Range(base)
        BY <2>1, <2>6 DEF Answers
      <3>2. names[k + 1] \in N /\ names[k + 1] \in Range(names)
        BY <1>1, <2>2 DEF Range
      <3>3. x.name = names[k + 1] /\ x.ordered = g[k] /\ x.path = path
        OBVIOUS
      <3>4. x \in Calls(m)
        BY <3>1, <3>2 DEF Calls, Nice
      <3>5. f[x] = g[k + 1]
        BY <2>3, <2>6 DEF Step
      <3> HIDE DEF x
      <3>6. Asked(m, N, x)
        BY <3>1, <3>2, <3>3, <3>4 DEF Asked
      <3>7. Answers(m, N, path, g[k], {names[k + 1]}, g[k + 1])
        BY <3>3, <3>5, <3>6
      <3> QED
        BY <3>1, <3>7, <2>4 DEF Answers
    <2> QED
      BY <2>5, <2>6
  <1>5. T = {}
    BY <1>3, <1>4, NoLeast
  <1>6. Answers(m, N, path, base, done(n), g[n])
    <2> HIDE DEF n, done
    <2>1. n \in Nat /\ n <= n
      BY <1>1
    <2>2. \A k \in Nat : k <= n => Answers(m, N, path, base, done(k), g[k])
      BY <1>5
    <2> QED
      BY <2>1, <2>2
  <1>7. done(n) = Range(names)
    BY <1>1 DEF Range
  <1> HIDE DEF done
  <1> QED
    BY <1>2, <1>6, <1>7

\* Appending a name whose dependencies are all in the list.
LEMMA NiceAppend ==
    ASSUME NEW m, NEW o, Nice(m, o), NEW a \in DOMAIN m, a \notin Range(o),
           m[a].dependsOn \subseteq Range(o)
    PROVE  Nice(m, Append(o, a)) /\ Range(Append(o, a)) = Range(o) \cup {a}
  <1> DEFINE n == Len(o)
             q == Append(o, a)
  <1>1. o \in Seq(DOMAIN m) /\ n \in Nat /\ DOMAIN o = 1..n
    BY DEF Nice
  <1>2. /\ q \in Seq(DOMAIN m) /\ DOMAIN q = 1..(n + 1)
        /\ q[n + 1] = a /\ \A i \in 1..n : q[i] = o[i]
    BY <1>1
  <1>3. 1..(n + 1) = 1..n \cup {n + 1}
    BY <1>1
  <1> HIDE DEF q
  <1>4. Range(q) = Range(o) \cup {a}
    BY <1>1, <1>2, <1>3 DEF Range
  <1>5. ASSUME NEW i \in 1..(n + 1), NEW j \in 1..(n + 1), i < j PROVE q[i] # q[j]
    <2>1. i \in 1..n /\ q[i] = o[i] /\ o[i] \in Range(o)
      <3>1. i \in 1..n
        BY <1>1, <1>5
      <3> QED
        BY <3>1, <1>1, <1>2 DEF Range
    <2>2. CASE j = n + 1
      BY <2>1, <2>2, <1>2
    <2>3. CASE j \in 1..n
      BY <2>1, <2>3, <1>1, <1>2, <1>5 DEF Nice
    <2> QED
      BY <1>3, <2>2, <2>3
  <1>6. ASSUME NEW j \in 1..(n + 1), NEW d \in m[q[j]].dependsOn
        PROVE  \E i \in 1..(n + 1) : i < j /\ q[i] = d
    <2>1. CASE j = n + 1
      <3>1. PICK i \in 1..n : o[i] = d
        BY <1>1, <1>2, <1>6, <2>1 DEF Range
      <3>2. i \in 1..(n + 1) /\ i < j /\ q[i] = d
        BY <3>1, <2>1, <1>1, <1>2
      <3> QED
        BY <3>2
    <2>2. CASE j \in 1..n
      <3>1. PICK i \in 1..n : i < j /\ o[i] = d
        BY <1>1, <1>2, <1>6, <2>2 DEF Nice
      <3>2. i \in 1..(n + 1) /\ i < j /\ q[i] = d
        BY <3>1, <1>2, <1>3
      <3> QED
        BY <3>2
    <2> QED
      BY <1>3, <2>1, <2>2
  <1>7. Nice(m, q)
    BY <1>2, <1>5, <1>6 DEF Nice
  <1> QED
    BY <1>4, <1>7 DEF q

\* A visit answers well when the calls it makes do.
LEMMA VisitAnswers ==
    ASSUME NEW m, Listed(m), NEW N, Closed(m, N), NEW f, NEW x, Asked(m, N, x),
           x.name \notin x.path =>
             \A y : Asked(m, N, y) /\ y.path = x.path \cup {x.name}
                      => Answers(m, N, y.path, y.ordered, {y.name}, f[y])
    PROVE  Answers(m, N, x.path, x.ordered, {x.name}, Visit(m, f, x))
  <1> DEFINE a == x.name
             path == x.path \cup {a}
             names == Sorted(m[a].dependsOn)
             list == VisitAll(f, path, x.ordered, names)
  <1>1. /\ a \in N /\ N \in SUBSET DOMAIN m /\ a \in DOMAIN m
        /\ path \in SUBSET N /\ x.path \in SUBSET N
        /\ Nice(m, x.ordered) /\ Range(x.ordered) \subseteq N
        /\ Waits(m, x.path, a)
    BY DEF Asked, Closed
  <1>2. CASE a \in x.path
    <2>1. x.path \in SUBSET N /\ x.path # {}
      BY <1>1, <1>2
    <2>2. \A p \in x.path : m[p].dependsOn \cap x.path # {}
      BY <1>1, <1>2 DEF Waits
    <2>3. ~NoCycle(m, N)
      BY <2>1, <2>2 DEF NoCycle
    <2>4. Visit(m, f, x) = Refused
      BY <1>2 DEF Visit
    <2> QED
      BY <2>3, <2>4 DEF Answers
  <1>3. CASE a \notin x.path /\ a \in Range(x.ordered)
    <2>1. Visit(m, f, x) = x.ordered
      BY <1>3 DEF Visit
    <2> QED
      BY <1>1, <1>3, <2>1 DEF Answers
  <1>4. CASE a \notin x.path /\ a \notin Range(x.ordered)
    <2>1. names \in Seq(N) /\ Range(names) = m[a].dependsOn
      <3>1. m[a].dependsOn \in SUBSET N /\ m[a].dependsOn \in SUBSET DOMAIN m
        BY <1>1 DEF Closed
      <3>2. names \in Seq(m[a].dependsOn) /\ Range(names) = m[a].dependsOn
        BY <3>1, NamesAre
      <3> QED
        BY <3>1, <3>2
    <2>2. Visit(m, f, x) = IF list = Refused THEN Refused ELSE Append(list, a)
      BY <1>4 DEF Visit
    <2>3. \A d \in Range(names) : Waits(m, path, d)
      BY <1>1, <2>1 DEF Waits
    <2>4. \A y : Asked(m, N, y) /\ y.path = path
                   => Answers(m, N, path, y.ordered, {y.name}, f[y])
      BY <1>4
    <2> HIDE DEF path, names
    <2>5. Answers(m, N, path, x.ordered, Range(names), list)
      BY <1>1, <2>1, <2>3, <2>4, LoopAnswers
    <2> HIDE DEF list
    <2>6. CASE list = Refused
      <3>1. ~NoCycle(m, N)
        BY <2>5, <2>6, NotRefused DEF Answers
      <3> QED
        BY <3>1, <2>2, <2>6 DEF Answers
    <2>7. CASE list # Refused
      <3>1. /\ Nice(m, list) /\ Range(list) \subseteq N
            /\ Range(x.ordered) \cup m[a].dependsOn \subseteq Range(list)
            /\ Range(list) \cap path \subseteq Range(x.ordered)
        BY <2>1, <2>5, <2>7 DEF Answers
      <3>2. a \notin Range(list)
        BY <3>1, <1>4 DEF path
      <3>3. Nice(m, Append(list, a)) /\ Range(Append(list, a)) = Range(list) \cup {a}
        BY <1>1, <3>1, <3>2, NiceAppend
      <3>4. Visit(m, f, x) = Append(list, a)
        BY <2>2, <2>7
      <3>5. (Range(list) \cup {a}) \cap x.path \subseteq Range(x.ordered)
        BY <3>1, <1>4 DEF path
      <3> QED
        BY <1>1, <3>1, <3>3, <3>4, <3>5 DEF Answers
    <2> QED
      BY <2>6, <2>7
  <1> QED
    BY <1>2, <1>3, <1>4

\* Every visit answers well.
LEMMA VisitsAnswer ==
    ASSUME NEW m, Listed(m), NEW N, Closed(m, N), NEW v,
           \A x \in Calls(m) : v[x] = Visit(m, v, x)
    PROVE  \A x : Asked(m, N, x) => Answers(m, N, x.path, x.ordered, {x.name}, v[x])
  <1> DEFINE Well(x) == Answers(m, N, x.path, x.ordered, {x.name}, v[x])
             T == {n \in Nat : \E x \in Shallow(m, n) : Asked(m, N, x) /\ ~Well(x)}
  <1>1. ASSUME NEW x, Asked(m, N, x),
               x.name \notin x.path =>
                 \A y : Asked(m, N, y) /\ y.path = x.path \cup {x.name} => Well(y)
        PROVE  Well(x)
    <2>1. v[x] = Visit(m, v, x)
      BY <1>1 DEF Asked
    <2>2. Answers(m, N, x.path, x.ordered, {x.name}, Visit(m, v, x))
      BY <1>1, VisitAnswers, Zenon
    <2> QED
      BY <2>1, <2>2
  <1> HIDE DEF Well
  <1>2. 0 \notin T
    <2>1. SUFFICES ASSUME NEW x \in Shallow(m, 0), Asked(m, N, x) PROVE Well(x)
      OBVIOUS
    <2>2. x \in Calls(m) /\ ~(Cardinality(DOMAIN m \ x.path) \in Nat \ {0})
      BY DEF Shallow
    <2>3. x.name \in x.path
      BY <2>2, Deeper
    <2> QED
      BY <1>1, <2>1, <2>3
  <1>3. ASSUME NEW n \in Nat, n + 1 \in T PROVE n \in T
    <2>1. PICK x \in Shallow(m, n + 1) : Asked(m, N, x) /\ ~Well(x)
      BY <1>3
    <2>2. x \in Calls(m) /\ Cardinality(DOMAIN m \ x.path) <= n + 1
      BY DEF Shallow
    <2>3. PICK y : /\ x.name \notin x.path
                   /\ Asked(m, N, y) /\ y.path = x.path \cup {x.name} /\ ~Well(y)
      BY <1>1, <2>1
    <2>4. y \in Calls(m)
      BY <2>3 DEF Asked
    <2>5. /\ Cardinality(DOMAIN m \ x.path) \in Nat
          /\ Cardinality(DOMAIN m \ y.path) = Cardinality(DOMAIN m \ x.path) - 1
      BY <2>2, <2>3, <2>4, Deeper
    <2>6. Cardinality(DOMAIN m \ y.path) <= n
      BY <2>2, <2>5
    <2>7. y \in Shallow(m, n)
      BY <2>4, <2>6 DEF Shallow
    <2> QED
      BY <2>3, <2>7
  <1>4. T = {}
    BY <1>2, <1>3, NoLeast
  <1>5. ASSUME NEW x, Asked(m, N, x) PROVE Well(x)
    <2> DEFINE n == Cardinality(DOMAIN m \ x.path)
    <2>1. x \in Calls(m)
      BY <1>5 DEF Asked
    <2>2. n \in Nat /\ n <= n
      BY <2>1, Depth
    <2>3. x \in Shallow(m, n)
      BY <2>1, <2>2 DEF Shallow
    <2> HIDE DEF n
    <2> QED
      BY <1>4, <1>5, <2>2, <2>3
  <1> QED
    BY <1>5 DEF Well

---------------------------------------------------------------------------
(* The plan *)

\* What is needed is the least closed set with the wanted processes.
LEMMA NeededIs ==
    ASSUME NEW m, Valid(m), NEW wanted \in SUBSET DOMAIN m
    PROVE  /\ Closed(m, Needed(m, wanted)) /\ wanted \subseteq Needed(m, wanted)
           /\ \A S : Closed(m, S) /\ wanted \subseteq S => Needed(m, wanted) \subseteq S
  <1> DEFINE closed == {S \in SUBSET DOMAIN m :
                          wanted \subseteq S /\ \A p \in S : m[p].dependsOn \subseteq S}
             N == Needed(m, wanted)
  <1>1. N = {p \in DOMAIN m : \A S \in closed : p \in S}
    BY DEF Needed
  <1> HIDE DEF N
  <1>2. wanted \subseteq N /\ N \subseteq DOMAIN m
    BY <1>1
  <1>3. ASSUME NEW p \in N PROVE m[p].dependsOn \subseteq N
    BY <1>1 DEF Valid
  <1>4. ASSUME NEW S, Closed(m, S), wanted \subseteq S PROVE N \subseteq S
    <2>1. S \in closed
      BY <1>4 DEF Closed
    <2> QED
      BY <1>1, <2>1
  <1> QED
    BY <1>2, <1>3, <1>4 DEF Closed, N

\* A list of what is needed in order shows that there is no cycle.
LEMMA NiceNoCycle ==
    ASSUME NEW m, NEW r, Nice(m, r) PROVE NoCycle(m, Range(r))
  <1> SUFFICES ASSUME NEW T \in SUBSET Range(r), T # {}
               PROVE  \E p \in T : m[p].dependsOn \cap T = {}
    BY DEF NoCycle
  <1> DEFINE places == {i \in DOMAIN r : r[i] \in T}
  <1>1. r \in Seq(DOMAIN m) /\ DOMAIN r = 1..Len(r) /\ DOMAIN r \in SUBSET Nat
    BY DEF Nice
  <1>2. places \in SUBSET Nat /\ places # {}
    BY <1>1 DEF Range
  <1>3. PICK i \in places : \A j \in places : i <= j
    BY <1>2, LeastNat
  <1>4. ASSUME NEW d \in m[r[i]].dependsOn, d \in T PROVE FALSE
    <2>1. PICK j \in DOMAIN r : j < i /\ r[j] = d
      BY <1>3, <1>4 DEF Nice
    <2>2. j \in places /\ j \in Nat /\ i \in Nat
      BY <1>1, <1>2, <1>4, <2>1
    <2>3. i <= j
      BY <1>3, <2>2
    <2> QED
      BY <2>1, <2>2, <2>3
  <1> QED
    BY <1>3, <1>4

\* BuildPlan refuses or plans what the targets need, dependencies first, for
\* every manifest and every set of targets.
LEMMA BuildPlanIs ==
    ASSUME NEW m, DOMAIN m \subseteq Processes, NEW t
    PROVE  /\ BuildPlan(m, t) \in Seq(Processes) \cup {Refused}
           /\ IsPlanOf(BuildPlan(m, t), m, t)
  <1> DEFINE wanted == IF t = {} THEN DOMAIN m ELSE t
             fits == /\ Valid(m) /\ wanted # {} /\ wanted \subseteq DOMAIN m
                     /\ NoCycle(m, Needed(m, wanted))
             r == BuildPlan(m, t)
  <1>0. IsPlanOf(r, m, t) <=>
          IF ~fits THEN r = Refused
          ELSE /\ Range(r) = Needed(m, wanted)
               /\ \A i, j \in DOMAIN r : i < j => r[i] # r[j] /\ r[j] \notin m[r[i]].dependsOn
    BY DEF IsPlanOf
  <1>1. CASE ~Valid(m) \/ ~(wanted \subseteq DOMAIN m) \/ wanted = {}
    <2>1. r = Refused
      BY <1>1 DEF BuildPlan
    <2> QED
      BY <1>0, <1>1, <2>1
  <1>2. CASE Valid(m) /\ wanted \subseteq DOMAIN m /\ wanted # {}
    <2> DEFINE N == Needed(m, wanted)
               names == Sorted(wanted)
    <2>1. r = Visited(m, names)
      BY <1>2 DEF BuildPlan
    <2> HIDE DEF wanted, r
    <2>2. Listed(m)
      BY <1>2 DEF Valid, Listed
    <2>3. /\ Closed(m, N) /\ wanted \subseteq N
          /\ \A S : Closed(m, S) /\ wanted \subseteq S => N \subseteq S
      BY <1>2, NeededIs
    <2> HIDE DEF N
    <2>4. N \in SUBSET DOMAIN m /\ {} \in SUBSET N
      BY <2>3 DEF Closed
    <2>5. names \in Seq(N) /\ Range(names) = wanted
      <3>1. wanted \in SUBSET DOMAIN m
        BY <1>2
      <3>2. names \in Seq(wanted) /\ Range(names) = wanted
        BY <2>2, <3>1, NamesAre
      <3> QED
        BY <2>3, <3>2
    <2> HIDE DEF names
    <2>6. PICK v : /\ \A x \in Calls(m) : v[x] = Visit(m, v, x)
                   /\ Visited(m, names) = VisitAll(v, {}, << >>, names)
      BY <2>2, VisitedIs
    <2>7. \A x : Asked(m, N, x) => Answers(m, N, x.path, x.ordered, {x.name}, v[x])
      BY <2>2, <2>3, <2>6, VisitsAnswer
    <2>8. Nice(m, << >>) /\ Range(<< >>) = {}
      BY DEF Nice, Range
    <2>9. Answers(m, N, {}, << >>, Range(names), r)
      <3>1. \A d \in Range(names) : Waits(m, {}, d)
        BY DEF Waits
      <3>2. \A x : Asked(m, N, x) /\ x.path = {}
                     => Answers(m, N, {}, x.ordered, {x.name}, v[x])
        BY <2>7
      <3>3. Range(<< >>) \subseteq N
        BY <2>8
      <3>4. Answers(m, N, {}, << >>, Range(names), VisitAll(v, {}, << >>, names))
        BY <2>2, <2>4, <2>5, <2>8, <3>1, <3>2, <3>3, LoopAnswers
      <3> QED
        BY <2>1, <2>6, <3>4
    <2>10. CASE r = Refused /\ ~NoCycle(m, N)
      BY <1>0, <2>10 DEF N, r
    <2>11. CASE Nice(m, r) /\ Range(r) \subseteq N /\ wanted \subseteq Range(r)
      <3>1. r \in Seq(DOMAIN m) /\ DOMAIN r = 1..Len(r) /\ DOMAIN r \in SUBSET Nat
        BY <2>11 DEF Nice
      <3>2. Closed(m, Range(r))
        <4>1. Range(r) \subseteq DOMAIN m
          BY <2>4, <2>11
        <4>2. ASSUME NEW p \in Range(r), NEW d \in m[p].dependsOn PROVE d \in Range(r)
          <5>1. PICK j \in DOMAIN r : r[j] = p
            BY DEF Range
          <5> QED
            BY <5>1, <4>2, <2>11 DEF Nice, Range
        <4> QED
          BY <4>1, <4>2 DEF Closed
      <3>3. Range(r) = N
        BY <2>3, <2>11, <3>2
      <3>4. NoCycle(m, N)
        BY <2>11, <3>3, NiceNoCycle
      <3>5. ASSUME NEW i \in DOMAIN r, NEW j \in DOMAIN r, i < j
            PROVE  r[i] # r[j] /\ r[j] \notin m[r[i]].dependsOn
        <4>1. r[i] # r[j]
          BY <2>11, <3>5 DEF Nice
        <4>2. SUFFICES ASSUME r[j] \in m[r[i]].dependsOn PROVE FALSE
          BY <4>1
        <4>3. PICK k \in DOMAIN r : k < i /\ r[k] = r[j]
          BY <2>11, <4>2 DEF Nice
        <4>4. k < j
          BY <3>1, <3>5, <4>3
        <4> QED
          BY <2>11, <4>3, <4>4 DEF Nice
      <3>6. r \in Seq(Processes)
        BY <3>1
      <3>7. fits
        BY <1>2, <3>4 DEF N
      <3> QED
        BY <1>0, <3>3, <3>5, <3>6, <3>7 DEF N, r
    <2> QED
      BY <2>5, <2>9, <2>10, <2>11 DEF Answers
  <1> QED
    BY <1>1, <1>2

\* A sequence of listed processes with all they depend on, dependencies first.
Planned(p, m) ==
    /\ p \in Seq(Processes)
    /\ \A i \in DOMAIN p :
          /\ p[i] \in DOMAIN m
          /\ \A d \in m[p[i]].dependsOn : d # p[i] /\ \E j \in DOMAIN p : p[j] = d
    /\ \A i, j \in DOMAIN p : i < j => p[i] # p[j] /\ p[j] \notin m[p[i]].dependsOn

\* Every manifest and every set of targets the runtime is given is planned or
\* refused as it should be.
LEMMA PlannerSound ==
    \A m \in Manifests, t \in Targets :
        /\ BuildPlan(m, t) \in Seq(Processes) \cup {Refused}
        /\ IsPlanOf(BuildPlan(m, t), m, t)
  <1> SUFFICES ASSUME NEW m \in Manifests, NEW t \in Targets
               PROVE  /\ BuildPlan(m, t) \in Seq(Processes) \cup {Refused}
                      /\ IsPlanOf(BuildPlan(m, t), m, t)
    OBVIOUS
  <1>1. DOMAIN m \subseteq Processes
    BY DevAssumption
  <1> QED
    BY <1>1, BuildPlanIs

\* What the targets need is listed and closed under dependencies.
LEMMA PlanIsPlanned ==
    ASSUME NEW m \in Manifests, NEW t \in Targets, BuildPlan(m, t) # Refused
    PROVE  Planned(BuildPlan(m, t), m)
  <1> DEFINE p == BuildPlan(m, t)
             wanted == IF t = {} THEN DOMAIN m ELSE t
             needed == Needed(m, wanted)
  <1>1. p \in Seq(Processes) /\ IsPlanOf(p, m, t) /\ p # Refused
    BY PlannerSound
  <1> HIDE DEF p
  <1>2. /\ Valid(m)
        /\ Range(p) = needed
        /\ \A i, j \in DOMAIN p : i < j => p[i] # p[j] /\ p[j] \notin m[p[i]].dependsOn
    BY <1>1 DEF IsPlanOf
  <1>3. ASSUME NEW q \in needed
        PROVE  q \in DOMAIN m /\ m[q].dependsOn \subseteq needed \ {q}
    BY <1>2 DEF Needed, Valid
  <1>4. ASSUME NEW i \in DOMAIN p
        PROVE  /\ p[i] \in DOMAIN m
               /\ \A d \in m[p[i]].dependsOn : d # p[i] /\ \E j \in DOMAIN p : p[j] = d
    <2>1. p[i] \in needed
      BY <1>2 DEF Range
    <2>2. \A d \in needed : \E j \in DOMAIN p : p[j] = d
      BY <1>2 DEF Range
    <2> HIDE DEF needed
    <2> QED
      BY <1>3, <2>1, <2>2
  <1> QED
    BY <1>1, <1>2, <1>4 DEF Planned, p

---------------------------------------------------------------------------
(* The inductive invariant *)

\* The commands that were started: the first ones of the plan.
Started == {plan[i] : i \in 1..handles}

\* While Run is at work, and whenever it started something, it has a plan.
PlanStands ==
    /\ manifest \in Manifests /\ targets \in Targets
    /\ pc = "plan" => plan = << >>
    /\ (pc \notin {"plan", "done"} \/ handles # 0) => Planned(plan, manifest)

\* How far Run is in the plan.
Positions ==
    /\ pc \in {"plan", "begin"} => handles = 0
    /\ pc = "spawn" => handles < Len(plan)
    /\ pc = "await" => handles # 0
    /\ pc = "running" => handles = Len(plan)
    /\ at <= handles
    /\ pc = "done" => at = 0
    /\ pc \in {"signalled", "killed"} => at # 0 /\ plan[at] \in told
    /\ pc = "killed" => plan[at] \in killed
    /\ pc \notin {"stop", "signalled", "killed", "done"} => told = {}

\* A command that was not started is not there, and one whose Wait returned
\* is gone with its helpers; the channel holds such commands only.
CommandsSound ==
    /\ \A p \in Processes :
        /\ leader[p] # "none" <=> p \in Started
        /\ helper[p] # "none" => leader[p] # "none"
        /\ p \in exited => leader[p] = "dead" /\ helper[p] = "none"
    /\ \A i \in DOMAIN exits : exits[i] \in exited

\* The state of the run in the report.
RunReported ==
    /\ pc \in {"plan", "begin"} => report = NoReport
    /\ pc \in {"next", "spawn", "await", "unready"} => report.run = "starting"
    /\ pc = "running" => report.run = "running"
    /\ pc \in {"exit", "stopping"} => report.run \in {"starting", "running"}
    /\ pc \in {"stop", "signalled", "killed"} => report.run = "stopping"
    /\ report.run = "running" => handles = Len(plan)
    /\ pc = "done" =>
        \/ report = NoReport
        \/ report = [NoReport EXCEPT !.run = "starting"] /\ handles = 0 /\ trigger
        \/ report.run = "failed"
        \/ report.run = "stopped" /\ ~trigger /\ ~shutdownErr

\* The states of the commands in the report.
CommandsReported ==
    \A p \in Processes :
        /\ report.process[p] = "failed" => trigger
        /\ report.process[p] = "starting" =>
              trigger \/ (pc = "spawn" /\ p = Following)
        /\ report.process[p] \in {"running", "ready", "stopping", "stopped"} =>
              p \in Started
        /\ report.process[p] = "ready" => p \in wasReady

\* A command the shutdown is through with.
Gone(p) ==
    /\ report.process[p] \in {"stopped", "failed"}
    /\ p \in exited \/ (p \in killed /\ shutdownErr)

\* The shutdown is through with the commands after the one it is at.
StopsInOrder ==
    pc \in {"stop", "signalled", "killed", "done"} =>
        \A i \in (at + 1)..handles : Gone(plan[i])

\* The loop goes on when the endpoint of a command has answered.
EndpointsAnswered ==
    /\ pc \in {"next", "spawn", "running"} =>
        \A i \in 1..handles : manifest[plan[i]].readiness => plan[i] \in wasReady
    /\ pc = "await" =>
        \A i \in 1..(handles - 1) : manifest[plan[i]].readiness => plan[i] \in wasReady

\* Without a failure the file holds what the memory holds.
SavedIsCurrent == faults = 0 => saved = report

\* An exit that was sent is in the channel or Run has it in its hands;
\* otherwise it ended the run, and is in the report.
ExitsHeard ==
    /\ pc \notin {"exit", "unready"} => heard = {}
    /\ \A p, q \in heard : p = q
    /\ \A p \in sent :
        \/ \E i \in DOMAIN exits : exits[i] = p
        \/ p \in heard
        \/ /\ pc \in {"stopping", "stop", "signalled", "killed", "done"}
           /\ report.process[p] = "failed" \/ report.run # "running"

\* The inductive invariant of the supervisor.
DevInv ==
    /\ TypeOK /\ PlanStands /\ Positions /\ CommandsSound /\ RunReported
    /\ CommandsReported /\ StopsInOrder /\ EndpointsAnswered /\ SavedIsCurrent
    /\ ExitsHeard

---------------------------------------------------------------------------
(* Every step keeps the invariant *)

\* The recorder's changes of the report.
LEMMA ProcessReport ==
    ASSUME NEW r \in Reports, NEW p \in Processes, NEW s \in ProcessStates
    PROVE  LET new == [r EXCEPT !.process[p] = s]
           IN  /\ new \in Reports
               /\ new.run = r.run
               /\ new.process[p] = s
               /\ \A q \in Processes : q # p => new.process[q] = r.process[q]
  BY DEF Reports

\* The same for the state of the run.
LEMMA RunReport ==
    ASSUME NEW r \in Reports,
           NEW s \in {"none", "starting", "running", "stopping", "stopped", "failed"}
    PROVE  LET new == [r EXCEPT !.run = s]
           IN  /\ new \in Reports
               /\ new.run = s
               /\ new.process = r.process
  BY DEF Reports

\* What persist() leaves behind.
LEMMA Persisted ==
    ASSUME report \in Reports, saved \in Reports, faults \in 0..MaxFaults,
           NEW new \in Reports, NEW ok \in BOOLEAN, Persist(new, ok)
    PROVE  /\ report' = new /\ saved' \in Reports /\ faults' \in 0..MaxFaults
           /\ faults' = 0 => saved' = new
  BY DevAssumption DEF Persist

\* A transition of one command in the report, and of the run.
LEMMA Transited ==
    ASSUME report \in Reports, saved \in Reports, faults \in 0..MaxFaults,
           NEW p \in Processes, NEW s \in ProcessStates, NEW ok \in BOOLEAN,
           Transition(p, s, ok)
    PROVE  /\ report' \in Reports /\ saved' \in Reports /\ faults' \in 0..MaxFaults
           /\ faults' = 0 => saved' = report'
           /\ report'.run = report.run
           /\ report'.process[p] = s
           /\ \A q \in Processes : q # p => report'.process[q] = report.process[q]
  <1> DEFINE new == [report EXCEPT !.process[p] = s]
  <1>1. /\ new \in Reports /\ new.run = report.run /\ new.process[p] = s
        /\ \A q \in Processes : q # p => new.process[q] = report.process[q]
    BY ProcessReport
  <1>2. Persist(new, ok)
    BY DEF Transition
  <1> HIDE DEF new
  <1> QED
    BY <1>1, <1>2, Persisted

\* The recorder's setState, in the same terms.
LEMMA StateSet ==
    ASSUME report \in Reports, saved \in Reports, faults \in 0..MaxFaults,
           NEW s \in {"none", "starting", "running", "stopping", "stopped", "failed"},
           NEW ok \in BOOLEAN, SetState(s, ok)
    PROVE  /\ report' \in Reports /\ saved' \in Reports /\ faults' \in 0..MaxFaults
           /\ faults' = 0 => saved' = report'
           /\ report'.run = s
           /\ report'.process = report.process
  <1> DEFINE new == [report EXCEPT !.run = s]
  <1>1. new \in Reports /\ new.run = s /\ new.process = report.process
    BY RunReport
  <1>2. Persist(new, ok)
    BY DEF SetState
  <1> HIDE DEF new
  <1> QED
    BY <1>1, <1>2, Persisted

\* The places in the plan that Run looks at are places of processes.
LEMMA Places ==
    ASSUME TypeOK, PlanStands, Positions
    PROVE  /\ handles \in Nat /\ at \in Nat /\ Len(plan) \in Nat
           /\ handles <= Len(plan) /\ at <= handles
           /\ DOMAIN plan = 1..Len(plan)
           /\ pc \notin {"plan", "done"} \/ handles # 0 =>
                 /\ plan \in Seq(Processes)
                 /\ \A i \in 1..Len(plan) : plan[i] \in Processes
                 /\ \A i, j \in 1..Len(plan) : i # j => plan[i] # plan[j]
           /\ exits # << >> => Head(exits) \in Processes
  <1>1. plan \in Seq(Processes) \/ plan = <<0>>
    BY DEF TypeOK, Refused
  <1>2. Len(plan) \in Nat /\ DOMAIN plan = 1..Len(plan)
    BY <1>1
  <1>3. /\ handles \in Nat /\ at \in Nat /\ handles <= Len(plan) /\ at <= handles
    <2>1. handles \in 0..Len(plan) /\ at \in 0..Len(plan)
      BY DEF TypeOK
    <2>2. at <= handles
      BY DEF Positions
    <2> QED
      BY <1>2, <2>1, <2>2
  <1>4. exits # << >> => Head(exits) \in Processes
    <2>1. exits \in Seq(Processes)
      BY DEF TypeOK
    <2> QED
      BY <2>1
  <1>5. ASSUME pc \notin {"plan", "done"} \/ handles # 0
        PROVE  /\ plan \in Seq(Processes)
               /\ \A i \in 1..Len(plan) : plan[i] \in Processes
               /\ \A i, j \in 1..Len(plan) : i # j => plan[i] # plan[j]
    <2>1. Planned(plan, manifest)
      BY <1>5 DEF PlanStands
    <2>2. plan \in Seq(Processes) /\ \A i, j \in 1..Len(plan) : i < j => plan[i] # plan[j]
      BY <2>1, <1>2 DEF Planned
    <2> QED
      BY <2>2, <1>2
  <1> QED
    BY <1>2, <1>3, <1>4, <1>5

\* Every step leaves reports, and without failures the file is current.
LEMMA RecordStep ==
    ASSUME TypeOK, PlanStands, Positions, SavedIsCurrent, [Next]_vars
    PROVE  /\ report' \in Reports /\ saved' \in Reports /\ faults' \in 0..MaxFaults
           /\ SavedIsCurrent'
  <1> DEFINE Good == /\ report' \in Reports /\ saved' \in Reports
                     /\ faults' \in 0..MaxFaults
                     /\ faults' = 0 => saved' = report'
  <1>a. report \in Reports /\ saved \in Reports /\ faults \in 0..MaxFaults
    BY DEF TypeOK
  <1>b. CASE UNCHANGED record
    BY <1>a, <1>b DEF SavedIsCurrent, record
  <1>c. ASSUME NEW p \in Processes, NEW s \in ProcessStates, NEW ok \in BOOLEAN,
               Transition(p, s, ok)
        PROVE  Good
    BY <1>a, <1>c, Transited
  <1>d. ASSUME NEW s \in {"starting", "running", "stopping", "stopped", "failed"},
               NEW ok \in BOOLEAN, SetState(s, ok)
        PROVE  Good
    BY <1>a, <1>d, StateSet
  <1>h. SUFFICES Good \/ UNCHANGED record
    BY <1>b DEF SavedIsCurrent
  <1>e. /\ {"starting", "running", "ready", "stopping", "stopped", "failed"}
              \subseteq ProcessStates
        /\ pc \in {"next", "spawn"} /\ handles < Len(plan) => Following \in Processes
        /\ pc \in {"next", "spawn"} /\ handles # Len(plan) => Following \in Processes
        /\ pc = "spawn" => handles < Len(plan)
        /\ pc = "await" => plan[handles] \in Processes
        /\ pc \in {"stop", "signalled", "killed"} /\ at # 0 => plan[at] \in Processes
        /\ pc \in {"signalled", "killed"} => at # 0
        /\ exits # << >> => Head(exits) \in Processes
    BY Places DEF ProcessStates, Following, Positions
  <1> HIDE DEF Good
  <1>f. CASE ActsOnExit
    <2>1. heard \subseteq Processes
      BY DEF TypeOK
    <2> QED
      BY <1>f, <1>c, <1>e, <2>1 DEF ActsOnExit
  <1>g. ASSUME NEW p \in Processes, NEW s \in {"stopping", "stopped"},
               NEW err \in BOOLEAN, Marks(p, s, err)
        PROVE  Good \/ UNCHANGED record
    BY <1>g, <1>c, <1>e DEF Marks
  <1>1. CASE Begin
    BY <1>1, <1>d DEF Begin
  <1>2. CASE NextCommand
    BY <1>2, <1>c, <1>e DEF NextCommand, TakesExit
  <1>3. CASE Spawn
    BY <1>3, <1>c, <1>e DEF Spawn
  <1>4. CASE SpawnFails
    BY <1>4, <1>c, <1>e DEF SpawnFails
  <1>5. CASE AwaitReady
    BY <1>5, <1>c, <1>e DEF AwaitReady
  <1>6. CASE AwaitFails
    <2>1. cancelled \in BOOLEAN
      BY DEF TypeOK
    <2> QED
      BY <1>6, <1>c, <1>e, <2>1 DEF AwaitFails, TakesExit
  <1>7. CASE AllStarted
    BY <1>7, <1>d DEF AllStarted
  <1>8. CASE Watch
    BY <1>8 DEF Watch, TakesExit
  <1>9. CASE StopBegins
    BY <1>9, <1>d DEF StopBegins
  <1>10. CASE Stop
    BY <1>10, <1>e, <1>g DEF Stop
  <1>11. CASE StopEnds
    BY <1>11, <1>e, <1>g DEF StopEnds
  <1>12. CASE KillFails
    BY <1>12, <1>e, <1>g DEF KillFails
  <1>13. CASE StopsDone
    BY <1>13, <1>d DEF StopsDone
  <1>14. CASE \/ PlanProcesses \/ Kill \/ CommandStep \/ Cancel \/ BudgetSpent
              \/ UNCHANGED vars
    BY <1>14 DEF PlanProcesses, Kill, CommandStep, Cancel, BudgetSpent, vars
  <1> QED
    BY <1>f, <1>1, <1>2, <1>3, <1>4, <1>5, <1>6, <1>7, <1>8, <1>9, <1>10, <1>11, <1>12,
       <1>13, <1>14 DEF Next, RunStep

\* Run has a plan from the moment it goes on, and keeps it.
LEMMA PlanStep ==
    ASSUME TypeOK, PlanStands, Positions, [Next]_vars
    PROVE  /\ PlanStands'
           /\ plan' \in Seq(Processes) \cup {Refused}
           /\ pc = "plan" \/ UNCHANGED fixed
  <1>1. CASE PlanProcesses
    <2>1. /\ pc = "plan" /\ handles' = 0
          /\ plan' = BuildPlan(manifest, targets)
          /\ pc' \in {"begin", "done"}
          /\ pc' = "begin" => plan' # Refused
          /\ manifest' = manifest /\ targets' = targets
      BY <1>1 DEF PlanProcesses, Positions
    <2>2. /\ manifest \in Manifests /\ targets \in Targets
      BY DEF PlanStands
    <2>3. plan' \in Seq(Processes) \cup {Refused}
      BY <2>1, <2>2, PlannerSound
    <2>4. pc' = "begin" => Planned(plan', manifest')
      BY <2>1, <2>2, PlanIsPlanned
    <2> QED
      BY <2>1, <2>2, <2>3, <2>4 DEF PlanStands
  <1>2. CASE /\ UNCHANGED fixed /\ pc # "plan" /\ pc' # "plan"
             /\ handles' = handles \/ pc # "done"
             /\ pc = "done" => pc' = "done"
    <2>1. UNCHANGED <<manifest, targets, plan>>
      BY <1>2 DEF fixed
    <2>2. (pc' \notin {"plan", "done"} \/ handles' # 0) => Planned(plan, manifest)
      BY <1>2 DEF PlanStands
    <2> QED
      BY <1>2, <2>1, <2>2 DEF PlanStands, TypeOK
  <1>3. CASE UNCHANGED fixed /\ UNCHANGED <<pc, handles>>
    BY <1>3 DEF PlanStands, TypeOK, fixed
  <1>4. CASE CommandStep \/ Cancel \/ BudgetSpent \/ UNCHANGED vars
    BY <1>4, <1>3 DEF CommandStep, Cancel, BudgetSpent, vars
  <1>5. CASE Begin \/ NextCommand \/ Spawn \/ SpawnFails \/ AwaitReady \/ AwaitFails
             \/ AllStarted \/ Watch \/ ActsOnExit
    BY <1>5, <1>2 DEF Begin, NextCommand, Spawn, SpawnFails, AwaitReady, AwaitFails,
                      AllStarted, Watch, ActsOnExit, TakesExit, Proceeds
  <1>6. CASE StopBegins \/ Stop \/ StopEnds \/ Kill \/ KillFails \/ StopsDone
    BY <1>6, <1>2 DEF StopBegins, Stop, StopEnds, Kill, KillFails, StopsDone
  <1> QED
    BY <1>1, <1>4, <1>5, <1>6 DEF Next, RunStep

\* How the places move.
LEMMA PositionsStep ==
    ASSUME TypeOK, PlanStands, Positions, [Next]_vars
    PROVE  Positions' /\ handles' \in 0..Len(plan') /\ at' \in 0..Len(plan')
  <1> USE DEF Positions
  <1>a. /\ handles \in Nat /\ at \in Nat /\ Len(plan) \in Nat
        /\ handles <= Len(plan) /\ at <= handles
    BY Places
  <1>b. /\ pc = "spawn" => handles < Len(plan)
        /\ pc \in {"plan", "begin"} => handles = 0
    OBVIOUS
  <1>1. CASE PlanProcesses
    <2>1. Len(plan') \in Nat
      BY <1>1
    <2> QED
      BY <1>1, <2>1, <1>a DEF PlanProcesses, stops
  <1>2. CASE Begin
    BY <1>2, <1>a DEF Begin, fixed, stops
  <1>3. CASE NextCommand
    BY <1>3, <1>a DEF NextCommand, TakesExit, Proceeds, fixed, stops
  <1>4. CASE Spawn
    BY <1>4, <1>a DEF Spawn, Proceeds, fixed, stops
  <1>5. CASE SpawnFails
    BY <1>5, <1>a DEF SpawnFails, Proceeds, fixed, stops
  <1>6. CASE AwaitReady \/ AwaitFails
    BY <1>6, <1>a DEF AwaitReady, AwaitFails, TakesExit, Proceeds, fixed, stops
  <1>7. CASE AllStarted \/ Watch \/ ActsOnExit
    BY <1>7, <1>a DEF AllStarted, Watch, ActsOnExit, TakesExit, Proceeds, fixed, stops
  <1>8. CASE StopBegins
    BY <1>8, <1>a DEF StopBegins, fixed
  <1>9. CASE Stop
    <2>1. /\ pc = "stop" /\ at # 0 /\ UNCHANGED <<plan, handles>>
          /\ \/ pc' = "stop" /\ at' = at - 1
             \/ pc' = "signalled" /\ at' = at /\ plan[at] \in told'
      BY <1>9 DEF Stop, fixed
    <2> QED
      BY <1>a, <2>1
  <1>10. CASE StopEnds
    BY <1>10, <1>a DEF StopEnds, fixed
  <1>11. CASE Kill
    BY <1>11, <1>a DEF Kill, fixed
  <1>12. CASE KillFails
    BY <1>12, <1>a DEF KillFails, fixed
  <1>13. CASE StopsDone
    BY <1>13, <1>a DEF StopsDone, fixed, stops
  <1>14. CASE CommandStep \/ Cancel \/ BudgetSpent \/ UNCHANGED vars
    BY <1>14, <1>a DEF CommandStep, Cancel, BudgetSpent, vars, fixed, stops
  <1> QED
    BY <1>1, <1>2, <1>3, <1>4, <1>5, <1>6, <1>7, <1>8, <1>9, <1>10, <1>11, <1>12,
       <1>13, <1>14 DEF Next, RunStep

\* A step of Run other than Spawn leaves the commands alone, and takes at
\* most one exit from the channel.
LEMMA RunLeavesCommands ==
    ASSUME [Next]_vars, ~Spawn, ~CommandStep
    PROVE  /\ UNCHANGED <<leader, helper, exited, sent>>
           /\ \/ exits' = exits /\ heard' \in {heard, {}}
              \/ exits # << >> /\ exits' = Tail(exits) /\ heard' = {Head(exits)}
  <1>1. CASE NextCommand \/ AwaitFails \/ Watch \/ ActsOnExit
    BY <1>1 DEF NextCommand, AwaitFails, Watch, ActsOnExit, TakesExit, commands, channel
  <1>2. CASE PlanProcesses \/ Begin \/ SpawnFails \/ AwaitReady \/ AllStarted
    BY <1>2 DEF PlanProcesses, Begin, SpawnFails, AwaitReady, AllStarted, commands, channel
  <1>3. CASE StopBegins \/ Stop \/ StopEnds \/ Kill \/ KillFails \/ StopsDone
    BY <1>3 DEF StopBegins, Stop, StopEnds, Kill, KillFails, StopsDone, commands, channel
  <1>4. CASE Cancel \/ BudgetSpent \/ UNCHANGED vars
    BY <1>4 DEF Cancel, BudgetSpent, vars, commands, channel
  <1> QED
    BY <1>1, <1>2, <1>3, <1>4 DEF Next, RunStep

\* Everything keeps its type.
LEMMA DevTypeStep ==
    ASSUME TypeOK, PlanStands, Positions, SavedIsCurrent, [Next]_vars
    PROVE  TypeOK'
  <1>1. /\ DOMAIN manifest' \subseteq Processes /\ targets' \subseteq Processes
        /\ plan' \in Seq(Processes) \cup {Refused}
    BY PlanStep, DevAssumption DEF PlanStands
  <1>2. handles' \in 0..Len(plan') /\ at' \in 0..Len(plan')
    BY PositionsStep
  <1>3. report' \in Reports /\ saved' \in Reports /\ faults' \in 0..MaxFaults
    BY RecordStep
  <1>a. /\ pc \in {"next", "spawn"} /\ handles < Len(plan) => Following \in Processes
        /\ pc = "spawn" => handles < Len(plan)
        /\ pc = "await" => plan[handles] \in Processes
        /\ pc \in {"stop", "signalled", "killed"} /\ at # 0 => plan[at] \in Processes
        /\ pc \in {"signalled", "killed"} => at # 0 /\ plan[at] \in told
    BY Places DEF Following, Positions
  <1>4. /\ pc' \in {"plan", "begin", "next", "spawn", "await", "running", "exit",
                    "unready", "stopping", "stop", "signalled", "killed", "done"}
        /\ trigger' \in BOOLEAN /\ shutdownErr' \in BOOLEAN
        /\ cancelled' \in BOOLEAN /\ late' \in BOOLEAN
    <2>1. /\ trigger \in BOOLEAN /\ shutdownErr \in BOOLEAN
          /\ cancelled \in BOOLEAN /\ late \in BOOLEAN
          /\ pc \in {"plan", "begin", "next", "spawn", "await", "running", "exit",
                    "unready", "stopping", "stop", "signalled", "killed", "done"}
      BY DEF TypeOK
    <2>2. CASE PlanProcesses \/ Begin
      BY <2>1, <2>2 DEF PlanProcesses, Begin, verdict
    <2>3. CASE \/ NextCommand \/ Spawn \/ SpawnFails \/ AwaitReady \/ AwaitFails
               \/ AllStarted \/ Watch \/ ActsOnExit
      BY <2>1, <2>3 DEF NextCommand, Spawn, SpawnFails, AwaitReady, AwaitFails,
                      AllStarted, Watch, ActsOnExit, TakesExit, Proceeds
    <2>4. CASE StopBegins \/ Stop \/ StopEnds \/ Kill \/ KillFails \/ StopsDone
      BY <2>1, <2>4 DEF StopBegins, Stop, StopEnds, Kill, KillFails, StopsDone,
         Marks, verdict
    <2>5. CASE CommandStep \/ Cancel \/ BudgetSpent \/ UNCHANGED vars
      BY <2>1, <2>5 DEF CommandStep, Cancel, BudgetSpent, vars, verdict
    <2> QED
      BY <2>2, <2>3, <2>4, <2>5 DEF Next, RunStep
  <1>5. /\ leader' \in [Processes -> {"none", "alive", "dead"}]
        /\ helper' \in [Processes -> {"none", "alive"}]
        /\ exited' \subseteq Processes /\ sent' \subseteq exited'
        /\ exits' \in Seq(Processes) /\ heard' \subseteq Processes
    <2>1. /\ leader \in [Processes -> {"none", "alive", "dead"}]
          /\ helper \in [Processes -> {"none", "alive"}]
          /\ exited \subseteq Processes /\ sent \subseteq exited
          /\ exits \in Seq(Processes) /\ heard \subseteq Processes
      BY DEF TypeOK
    <2>2. CASE Spawn
      BY <2>1, <2>2 DEF Spawn, channel
    <2>3. CASE CommandStep
      BY <2>1, <2>3 DEF CommandStep, LeaderExits, HelperStarts, HelperExits, WaitReturns,
                        SendsExit
    <2>4. CASE ~Spawn /\ ~CommandStep
      <3>1. /\ UNCHANGED <<leader, helper, exited, sent>>
            /\ \/ exits' = exits /\ heard' \in {heard, {}}
               \/ exits # << >> /\ exits' = Tail(exits) /\ heard' = {Head(exits)}
        BY <2>4, RunLeavesCommands
      <3> QED
        BY <2>1, <3>1
    <2> QED
      BY <2>2, <2>3, <2>4
  <1>6. /\ told' \subseteq Processes /\ killed' \subseteq told'
        /\ wasReady' \subseteq Processes
    <2>1. told \subseteq Processes /\ killed \subseteq told /\ wasReady \subseteq Processes
      BY DEF TypeOK
    <2>2. CASE Stop
      BY <1>a, <2>1, <2>2 DEF Stop
    <2>3. CASE Kill
      BY <1>a, <2>1, <2>3 DEF Kill
    <2>4. CASE AwaitReady
      BY <1>a, <2>1, <2>4 DEF AwaitReady, stops
    <2>5. CASE UNCHANGED <<told, killed, wasReady>>
      BY <2>1, <2>5
    <2>6. Stop \/ Kill \/ AwaitReady \/ UNCHANGED <<told, killed, wasReady>>
      BY DEF Next, RunStep, PlanProcesses, Begin, NextCommand, Spawn, SpawnFails,
             AwaitFails, AllStarted, Watch, ActsOnExit, StopBegins, StopEnds, KillFails,
             StopsDone, CommandStep, Cancel, BudgetSpent, vars, stops
    <2> QED
      BY <2>2, <2>3, <2>4, <2>5, <2>6
  <1> QED
    BY <1>1, <1>2, <1>3, <1>4, <1>5, <1>6 DEF TypeOK

\* Spawn starts the command that follows; nothing else starts one.
LEMMA StartedStep ==
    ASSUME TypeOK, PlanStands, Positions, [Next]_vars
    PROVE  /\ Spawn => /\ Started' = Started \cup {Following}
                       /\ Following \in Processes \ Started
           /\ ~Spawn => Started' = Started /\ handles' = handles
  <1>a. /\ handles \in Nat /\ Len(plan) \in Nat /\ handles <= Len(plan)
    BY Places
  <1>1. ASSUME Spawn PROVE /\ Started' = Started \cup {Following}
                           /\ Following \in Processes \ Started
    <2>1. handles' = handles + 1 /\ plan' = plan /\ handles < Len(plan) /\ pc = "spawn"
      BY <1>1 DEF Spawn, fixed, Positions
    <2>2. 1..(handles + 1) = (1..handles) \cup {handles + 1}
      BY <1>a
    <2>3. Started' = {plan[i] : i \in (1..handles) \cup {handles + 1}}
      BY <2>1, <2>2 DEF Started
    <2>4. \A i \in 1..handles : plan[i] # plan[handles + 1]
      BY <1>a, <2>1, Places
    <2>5. plan[handles + 1] \in Processes
      BY <1>a, <2>1, Places
    <2> QED
      BY <2>3, <2>4, <2>5 DEF Started, Following
  <1>2. ASSUME ~Spawn PROVE Started' = Started /\ handles' = handles
    <2>1. CASE PlanProcesses
      BY <2>1 DEF PlanProcesses, Positions, Started
    <2>2. ~PlanProcesses => UNCHANGED <<plan, handles>>
      BY <1>2 DEF Next, RunStep, Begin, NextCommand, SpawnFails, AwaitReady, AwaitFails,
             AllStarted, Watch, ActsOnExit, StopBegins, Stop, StopEnds, Kill, KillFails,
             StopsDone, CommandStep, Cancel, BudgetSpent, vars, fixed
    <2> QED
      BY <2>1, <2>2 DEF Started
  <1> QED
    BY <1>1, <1>2

\* Commands come and go as Run believes.
LEMMA CommandsStep ==
    ASSUME TypeOK, PlanStands, Positions, CommandsSound, [Next]_vars
    PROVE  CommandsSound'
  <1>a. /\ leader \in [Processes -> {"none", "alive", "dead"}]
        /\ helper \in [Processes -> {"none", "alive"}]
        /\ exits \in Seq(Processes)
    BY DEF TypeOK
  <1>1. CASE Spawn
    <2>1. /\ Started' = Started \cup {Following}
          /\ Following \in Processes \ Started
      BY <1>1, StartedStep
    <2>2. /\ leader' = [leader EXCEPT ![Following] = "alive"]
          /\ helper' = helper /\ exited' = exited /\ exits' = exits
      BY <1>1 DEF Spawn, channel
    <2>3. Following \notin exited
      BY <2>1 DEF CommandsSound
    <2> QED
      BY <1>a, <2>1, <2>2, <2>3 DEF CommandsSound
  <1>2. CASE CommandStep
    <2>1. Started' = Started
      BY <1>2 DEF CommandStep, Started, fixed
    <2>2. ASSUME NEW p \in Processes, LeaderExits(p) \/ HelperStarts(p) \/ HelperExits(p)
          PROVE  CommandsSound'
      BY <1>a, <2>1, <2>2 DEF LeaderExits, HelperStarts, HelperExits, CommandsSound
    <2>3. ASSUME NEW p \in Processes, WaitReturns(p) PROVE CommandsSound'
      BY <2>1, <2>3 DEF WaitReturns, CommandsSound
    <2>4. ASSUME NEW p \in Processes, SendsExit(p) PROVE CommandsSound'
      <3>1. /\ leader' = leader /\ helper' = helper /\ exited' = exited
            /\ exits' = Append(exits, p) /\ p \in exited
        BY <2>4 DEF SendsExit
      <3>2. \A i \in DOMAIN exits' : exits'[i] \in exited'
        BY <1>a, <3>1 DEF CommandsSound
      <3> QED
        BY <2>1, <3>1, <3>2 DEF CommandsSound
    <2> QED
      BY <1>2, <2>2, <2>3, <2>4 DEF CommandStep
  <1>3. CASE ~Spawn /\ ~CommandStep
    <2>1. Started' = Started
      BY <1>3, StartedStep
    <2>2. /\ UNCHANGED <<leader, helper, exited>>
          /\ exits' = exits \/ (exits # << >> /\ exits' = Tail(exits))
      BY <1>3, RunLeavesCommands
    <2>3. \A i \in DOMAIN exits' : exits'[i] \in exited
      <3>1. CASE exits' = exits
        BY <3>1 DEF CommandsSound
      <3>2. CASE exits # << >> /\ exits' = Tail(exits)
        <4>1. \A i \in DOMAIN Tail(exits) :
                 i + 1 \in DOMAIN exits /\ Tail(exits)[i] = exits[i + 1]
          BY <1>a, <3>2
        <4> QED
          BY <3>2, <4>1 DEF CommandsSound
      <3> QED
        BY <2>2, <3>1, <3>2
    <2> QED
      BY <2>1, <2>2, <2>3 DEF CommandsSound
  <1> QED
    BY <1>1, <1>2, <1>3

\* The places again, as the reports use them.
LEMMA PlacesOfRun ==
    ASSUME TypeOK, PlanStands, Positions
    PROVE  /\ pc \in {"next", "spawn"} /\ handles < Len(plan) => Following \in Processes
           /\ pc = "spawn" => handles < Len(plan)
           /\ pc = "await" => plan[handles] \in Processes /\ plan[handles] \in Started
           /\ pc \in {"stop", "signalled", "killed"} /\ at # 0 =>
                 plan[at] \in Processes /\ plan[at] \in Started
           /\ pc \in {"signalled", "killed"} => at # 0
           /\ exits # << >> => Head(exits) \in Processes
  BY Places DEF Following, Positions, Started

\* The run's state in the report goes with the place Run is at.
LEMMA RunReportedStep ==
    ASSUME TypeOK, PlanStands, Positions, RunReported, [Next]_vars
    PROVE  RunReported'
  <1> USE DEF RunReported
  <1>a. report \in Reports /\ saved \in Reports /\ faults \in 0..MaxFaults
    BY DEF TypeOK
  <1>b. /\ {"starting", "running", "ready", "stopping", "stopped", "failed"}
              \subseteq ProcessStates
        /\ handles \in Nat /\ Len(plan) \in Nat /\ handles <= Len(plan)
    BY Places DEF ProcessStates
  <1>c. ASSUME NEW p \in Processes, NEW s \in ProcessStates, NEW ok \in BOOLEAN,
               Transition(p, s, ok)
        PROVE  report'.run = report.run
    BY <1>a, <1>c, Transited
  <1>d. CASE ActsOnExit
    <2>1. heard \subseteq Processes
      BY DEF TypeOK
    <2>2. report'.run = report.run /\ pc' = "stopping" /\ pc \in {"exit", "unready"}
      BY <1>b, <1>c, <1>d, <2>1 DEF ActsOnExit, record
    <2> QED
      BY <1>d, <2>2 DEF ActsOnExit, fixed
  <1>e. ASSUME NEW p \in Processes, NEW s \in {"stopping", "stopped"},
               NEW err \in BOOLEAN, Marks(p, s, err)
        PROVE  report'.run = report.run
    BY <1>b, <1>c, <1>e DEF Marks, record
  <1>1. CASE PlanProcesses
    BY <1>1 DEF PlanProcesses, record, NoReport, Positions
  <1>2. CASE Begin
    <2>1. pc = "begin" /\ handles' = handles /\ plan' = plan /\ handles = 0
      BY <1>2 DEF Begin, fixed, Positions
    <2>2. CASE cancelled
      BY <1>2, <2>1, <2>2 DEF Begin, record, NoReport
    <2>3. CASE ~cancelled
      <3>1. PICK ok \in BOOLEAN : /\ SetState("starting", ok)
                                  /\ trigger' = ~ok
                                  /\ pc' = IF ok THEN "next" ELSE "done"
        BY <1>2, <2>3 DEF Begin
      <3>2. report' = [NoReport EXCEPT !.run = "starting"] /\ report'.run = "starting"
        BY <1>a, <2>1, <3>1, StateSet DEF SetState, Persist
      <3> QED
        BY <2>1, <3>1, <3>2
    <2> QED
      BY <2>2, <2>3
  <1>3. CASE NextCommand
    <2>1. report'.run = report.run
      BY <1>3, <1>b, <1>c, PlacesOfRun DEF NextCommand, TakesExit, record
    <2> QED
      BY <1>3, <2>1 DEF NextCommand, TakesExit, Proceeds, fixed
  <1>4. CASE Spawn
    <2>1. report'.run = report.run
      BY <1>4, <1>b, <1>c, PlacesOfRun DEF Spawn
    <2> QED
      BY <1>4, <2>1 DEF Spawn, Proceeds, fixed
  <1>5. CASE SpawnFails
    <2>1. report'.run = report.run
      BY <1>5, <1>b, <1>c, PlacesOfRun DEF SpawnFails
    <2> QED
      BY <1>5, <2>1 DEF SpawnFails, Proceeds, fixed
  <1>6. CASE AwaitReady
    <2>1. report'.run = report.run
      BY <1>6, <1>b, <1>c, PlacesOfRun DEF AwaitReady
    <2> QED
      BY <1>6, <2>1 DEF AwaitReady, Proceeds, fixed
  <1>7. CASE AwaitFails
    <2>1. cancelled \in BOOLEAN
      BY DEF TypeOK
    <2>2. report'.run = report.run
      BY <1>7, <2>1, <1>b, <1>c, PlacesOfRun DEF AwaitFails, TakesExit, record
    <2> QED
      BY <1>7, <2>1, <2>2 DEF AwaitFails, TakesExit, Proceeds, fixed
  <1>8. CASE AllStarted
    <2>1. pc = "next" /\ handles' = handles /\ plan' = plan /\ handles = Len(plan)
      BY <1>8 DEF AllStarted, fixed
    <2>2. CASE cancelled
      BY <1>8, <2>1, <2>2 DEF AllStarted, record
    <2>3. CASE ~cancelled
      <3>1. report'.run = "running" /\ pc' \in {"running", "stopping"}
        BY <1>8, <2>3, <1>a, StateSet DEF AllStarted, Proceeds
      <3> QED
        BY <2>1, <3>1
    <2> QED
      BY <2>2, <2>3
  <1>9. CASE Watch
    <2>1. report'.run = report.run /\ pc' \in {"exit", "stopping"}
      BY <1>9 DEF Watch, TakesExit, record
    <2> QED
      BY <1>9, <2>1 DEF Watch, fixed
  <1>10. CASE StopBegins
    <2>1. report'.run = "stopping" /\ pc' = "stop"
      BY <1>10, <1>a, StateSet DEF StopBegins
    <2> QED
      BY <1>10, <2>1 DEF StopBegins, fixed
  <1>11. CASE Stop
    <2>1. report'.run = report.run /\ pc' \in {"stop", "signalled"} /\ pc = "stop"
      BY <1>11, <1>e, PlacesOfRun DEF Stop
    <2> QED
      BY <2>1
  <1>12. CASE StopEnds \/ KillFails
    <2>1. report'.run = report.run /\ pc' = "stop" /\ pc \in {"signalled", "killed"}
      BY <1>12, <1>e, PlacesOfRun DEF StopEnds, KillFails
    <2> QED
      BY <2>1
  <1>13. CASE Kill
    BY <1>13 DEF Kill, record, fixed
  <1>14. CASE StopsDone
    <2>1. /\ pc' = "done" /\ trigger' = trigger /\ shutdownErr' = shutdownErr
          /\ report'.run = IF trigger \/ shutdownErr THEN "failed" ELSE "stopped"
      BY <1>14, <1>a, StateSet DEF StopsDone, verdict
    <2> QED
      BY <2>1
  <1>15. CASE CommandStep \/ Cancel \/ BudgetSpent \/ UNCHANGED vars
    BY <1>15 DEF CommandStep, Cancel, BudgetSpent, vars, fixed, record, verdict
  <1> QED
    BY <1>d, <1>1, <1>2, <1>3, <1>4, <1>5, <1>6, <1>7, <1>8, <1>9, <1>10, <1>11, <1>12,
       <1>13, <1>14, <1>15 DEF Next, RunStep

\* The report of one command changes.
LEMMA ReportedFrame ==
    ASSUME CommandsReported, NEW p,
           \A q \in Processes : q # p => report'.process[q] = report.process[q],
           trigger => trigger', Started \subseteq Started', wasReady \subseteq wasReady',
           pc = "spawn" => p = Following,
           p \in Processes =>
             /\ report'.process[p] = "failed" => trigger'
             /\ report'.process[p] = "starting" =>
                   trigger' \/ (pc' = "spawn" /\ p = Following')
             /\ report'.process[p] \in {"running", "ready", "stopping", "stopped"} =>
                   p \in Started'
             /\ report'.process[p] = "ready" => p \in wasReady'
    PROVE  CommandsReported'
  BY DEF CommandsReported

\* The report of no command changes.
LEMMA ReportedSame ==
    ASSUME CommandsReported, report'.process = report.process,
           trigger => trigger', Started \subseteq Started', wasReady \subseteq wasReady',
           pc # "spawn" \/ UNCHANGED <<pc, plan, handles>>
    PROVE  CommandsReported'
  BY DEF CommandsReported, Following

\* The commands' states in the report go with what became of them.
LEMMA CommandsReportedStep ==
    ASSUME TypeOK, PlanStands, Positions, CommandsSound, RunReported, CommandsReported,
           [Next]_vars
    PROVE  CommandsReported'
  <1>a. report \in Reports /\ saved \in Reports /\ faults \in 0..MaxFaults
    BY DEF TypeOK
  <1>b. {"starting", "running", "ready", "stopping", "stopped", "failed"}
           \subseteq ProcessStates
    BY DEF ProcessStates
  <1>c. ASSUME NEW p \in Processes, NEW s \in ProcessStates, NEW ok \in BOOLEAN,
               Transition(p, s, ok)
        PROVE  /\ report'.process[p] = s
               /\ \A q \in Processes : q # p => report'.process[q] = report.process[q]
    BY <1>a, <1>c, Transited
  <1>d. Started \subseteq Started'
    BY StartedStep
  <1>e. CASE ActsOnExit
    <2>1. UNCHANGED wasReady /\ pc # "spawn" /\ heard \subseteq Processes
      BY <1>e DEF ActsOnExit, TypeOK
    <2>2. CASE UNCHANGED <<record, trigger>>
      BY <1>d, <2>1, <2>2, ReportedSame DEF record
    <2>3. ASSUME NEW p \in heard, NEW ok \in BOOLEAN, Transition(p, "failed", ok), trigger'
          PROVE  CommandsReported'
      <3>1. /\ report'.process[p] = "failed"
            /\ \A q \in Processes : q # p => report'.process[q] = report.process[q]
        BY <1>b, <1>c, <2>1, <2>3
      <3> QED
        BY <1>d, <2>1, <2>3, <3>1, ReportedFrame
    <2> QED
      BY <1>e, <2>2, <2>3 DEF ActsOnExit
  <1>f. ASSUME NEW p \in Processes, NEW s \in {"stopping", "stopped"},
               NEW err \in BOOLEAN, Marks(p, s, err),
               UNCHANGED <<trigger, wasReady>>, pc # "spawn", p \in Started
        PROVE  CommandsReported'
    <2>1. CASE report.process[p] = "failed"
      BY <1>d, <1>f, <2>1, ReportedSame DEF Marks, record
    <2>2. CASE report.process[p] # "failed"
      <3>1. PICK ok \in BOOLEAN : Transition(p, s, ok)
        BY <1>f, <2>2 DEF Marks
      <3>2. /\ report'.process[p] = s
            /\ \A q \in Processes : q # p => report'.process[q] = report.process[q]
        BY <1>b, <1>c, <3>1
      <3> QED
        BY <1>d, <1>f, <3>2, ReportedFrame
    <2> QED
      BY <2>1, <2>2
  <1>1. CASE PlanProcesses \/ Kill \/ CommandStep \/ Cancel \/ BudgetSpent \/ UNCHANGED vars
    <2>1. /\ report' = report /\ trigger' = trigger /\ wasReady' = wasReady
          /\ pc # "spawn" \/ UNCHANGED <<pc, plan, handles>>
      BY <1>1 DEF PlanProcesses, Kill, CommandStep, Cancel, BudgetSpent, vars, fixed,
                  record, verdict
    <2> QED
      BY <1>d, <2>1, ReportedSame
  <1>2. CASE Begin
    <2>1. report = NoReport /\ pc = "begin"
      BY <1>2 DEF Begin, RunReported
    <2>2. report'.process = report.process
      BY <1>2, <1>a, StateSet DEF Begin, record
    <2>3. \A p \in Processes : report'.process[p] = "pending"
      BY <2>1, <2>2 DEF NoReport
    <2> QED
      BY <2>3 DEF CommandsReported
  <1>3. CASE NextCommand
    <2>1. /\ pc = "next" /\ handles < Len(plan) /\ UNCHANGED <<wasReady, plan, handles>>
      BY <1>3 DEF NextCommand, fixed
    <2>3. CASE UNCHANGED record /\ (trigger => trigger')
      BY <1>d, <2>1, <2>3, ReportedSame DEF record
    <2>4. ASSUME NEW ok \in BOOLEAN, Transition(Following, "starting", ok),
                 Proceeds(ok, "spawn")
          PROVE  CommandsReported'
      <3>1. /\ Following \in Processes /\ Following' = Following
            /\ trigger => trigger'
            /\ trigger' \/ pc' = "spawn"
        BY <2>1, <2>4, PlacesOfRun DEF Proceeds, Following
      <3>2. /\ report'.process[Following] = "starting"
            /\ \A q \in Processes : q # Following => report'.process[q] = report.process[q]
        BY <1>b, <1>c, <2>4, <3>1
      <3> QED
        BY <1>d, <2>1, <3>1, <3>2, ReportedFrame
    <2>5. \/ UNCHANGED record /\ (trigger => trigger')
          \/ \E ok \in BOOLEAN : Transition(Following, "starting", ok) /\ Proceeds(ok, "spawn")
      BY <1>3 DEF NextCommand, TakesExit, Proceeds
    <2> QED
      BY <2>3, <2>4, <2>5
  <1>4. CASE Spawn
    <2>1. PICK ok \in BOOLEAN :
             /\ Transition(Following, "running", ok)
             /\ Proceeds(ok, IF manifest[Following].readiness THEN "await" ELSE "next")
      BY <1>4 DEF Spawn
    <2>2. /\ Following \in Processes /\ Following \in Started'
      BY <1>4, StartedStep
    <2>3. /\ report'.process[Following] = "running"
          /\ \A q \in Processes : q # Following => report'.process[q] = report.process[q]
      BY <1>b, <1>c, <2>1, <2>2
    <2>4. (trigger => trigger') /\ wasReady' = wasReady
      BY <1>4, <2>1 DEF Spawn, Proceeds
    <2> QED
      BY <1>d, <2>2, <2>3, <2>4, ReportedFrame
  <1>5. CASE SpawnFails
    <2>1. PICK ok \in BOOLEAN : Transition(Following, "failed", ok)
      BY <1>5 DEF SpawnFails
    <2>2. Following \in Processes
      BY <1>5, PlacesOfRun DEF SpawnFails
    <2>3. /\ report'.process[Following] = "failed"
          /\ \A q \in Processes : q # Following => report'.process[q] = report.process[q]
      BY <1>b, <1>c, <2>1, <2>2
    <2>4. trigger' /\ wasReady' = wasReady
      BY <1>5 DEF SpawnFails, Proceeds
    <2> QED
      BY <1>d, <2>2, <2>3, <2>4, ReportedFrame
  <1>6. CASE AwaitReady
    <2>1. PICK ok \in BOOLEAN : Transition(plan[handles], "ready", ok) /\ Proceeds(ok, "next")
      BY <1>6 DEF AwaitReady
    <2>2. /\ plan[handles] \in Processes /\ plan[handles] \in Started' /\ pc # "spawn"
          /\ plan[handles] \in wasReady' /\ wasReady \subseteq wasReady'
      BY <1>6, <1>d, PlacesOfRun DEF AwaitReady
    <2>3. /\ report'.process[plan[handles]] = "ready"
          /\ \A q \in Processes : q # plan[handles] => report'.process[q] = report.process[q]
      BY <1>b, <1>c, <2>1, <2>2
    <2>4. trigger => trigger'
      BY <2>1 DEF Proceeds
    <2> QED
      BY <1>d, <2>2, <2>3, <2>4, ReportedFrame
  <1>7. CASE AwaitFails
    <2>1. pc = "await" /\ wasReady' = wasReady /\ cancelled \in BOOLEAN
      BY <1>7 DEF AwaitFails, TypeOK
    <2>3. ASSUME NEW ok \in BOOLEAN, Transition(plan[handles], "failed", ok),
                 Proceeds(FALSE, "next")
          PROVE  CommandsReported'
      <3>1. plan[handles] \in Processes /\ trigger'
        BY <2>1, <2>3, PlacesOfRun DEF Proceeds
      <3>2. /\ report'.process[plan[handles]] = "failed"
            /\ \A q \in Processes : q # plan[handles] => report'.process[q] = report.process[q]
        BY <1>b, <1>c, <2>3, <3>1
      <3> QED
        BY <1>d, <2>1, <3>1, <3>2, ReportedFrame
    <2>4. CASE UNCHANGED <<record, trigger>>
      BY <1>d, <2>1, <2>4, ReportedSame DEF record
    <2> QED
      BY <1>7, <2>3, <2>4 DEF AwaitFails, TakesExit
  <1>8. CASE AllStarted
    <2>1. pc = "next" /\ (trigger => trigger') /\ wasReady' = wasReady
      <3>1. UNCHANGED trigger \/ \E ok \in BOOLEAN : Proceeds(ok, "running")
        BY <1>8 DEF AllStarted
      <3>2. trigger => trigger'
        BY <3>1 DEF Proceeds
      <3> QED
        BY <1>8, <3>2 DEF AllStarted
    <2>2. report'.process = report.process
      BY <1>8, <1>a, StateSet DEF AllStarted, record
    <2> QED
      BY <1>d, <2>1, <2>2, ReportedSame
  <1>9. CASE Watch
    <2>1. pc = "running" /\ wasReady' = wasReady /\ UNCHANGED <<record, trigger>>
      BY <1>9 DEF Watch, TakesExit
    <2> QED
      BY <1>d, <2>1, ReportedSame DEF record
  <1>10. CASE StopBegins \/ StopsDone
    <2>1. /\ report'.process = report.process /\ pc # "spawn"
          /\ trigger' = trigger /\ wasReady' = wasReady
      BY <1>10, <1>a, StateSet DEF StopBegins, StopsDone, verdict
    <2> QED
      BY <1>d, <2>1, ReportedSame
  <1>11. CASE Stop \/ StopEnds \/ KillFails
    <2>1. /\ \E s \in {"stopping", "stopped"}, err \in BOOLEAN : Marks(plan[at], s, err)
          /\ UNCHANGED <<trigger, wasReady>> /\ pc # "spawn"
      BY <1>11 DEF Stop, StopEnds, KillFails
    <2>2. plan[at] \in Processes /\ plan[at] \in Started
      BY <1>11, PlacesOfRun DEF Stop, StopEnds, KillFails
    <2> QED
      BY <2>1, <2>2, <1>f
  <1> QED
    BY <1>e, <1>1, <1>2, <1>3, <1>4, <1>5, <1>6, <1>7, <1>8, <1>9, <1>10, <1>11
    DEF Next, RunStep

\* Signals, waiting and killing, from the last command to the first.
LEMMA StopsStep ==
    ASSUME TypeOK, PlanStands, Positions, RunReported, StopsInOrder, [Next]_vars
    PROVE  StopsInOrder'
  <1>a. report \in Reports /\ saved \in Reports /\ faults \in 0..MaxFaults
    BY DEF TypeOK
  <1>b. /\ {"starting", "running", "ready", "stopping", "stopped", "failed"}
              \subseteq ProcessStates
        /\ handles \in Nat /\ at \in Nat /\ Len(plan) \in Nat
        /\ at <= handles /\ handles <= Len(plan)
    BY Places DEF ProcessStates
  <1>c. ASSUME NEW p \in Processes, NEW s \in ProcessStates, NEW ok \in BOOLEAN,
               Transition(p, s, ok)
        PROVE  /\ report'.process[p] = s
               /\ \A q \in Processes : q # p => report'.process[q] = report.process[q]
    BY <1>a, <1>c, Transited
  <1>e. ASSUME pc \in {"stop", "signalled", "killed"}, at # 0,
               UNCHANGED <<plan, handles>>, NEW p, p = plan[at],
               \A q \in Processes : q # p => report'.process[q] = report.process[q],
               exited' = exited, killed \subseteq killed', shutdownErr => shutdownErr',
               at' = at \/ (at' = at - 1 /\ Gone(p)')
        PROVE  StopsInOrder'
    <2>1. /\ \A i \in 1..Len(plan) : plan[i] \in Processes
          /\ \A i, j \in 1..Len(plan) : i # j => plan[i] # plan[j]
      BY <1>e, Places
    <2>2. \A i \in (at + 1)..handles : Gone(plan[i])
      BY <1>e DEF StopsInOrder
    <2>3. ASSUME NEW i \in (at + 1)..handles, NEW q, q = plan[i] PROVE Gone(q)'
      <3>1. i \in 1..Len(plan) /\ at \in 1..Len(plan) /\ i # at
        BY <1>b, <1>e
      <3>2. q \in Processes /\ q # p
        BY <1>e, <2>1, <2>3, <3>1
      <3>3. report'.process[q] = report.process[q] /\ Gone(q)
        BY <1>e, <2>2, <2>3, <3>2
      <3> QED
        BY <1>e, <3>3 DEF Gone
    <2>4. ASSUME NEW i \in (at' + 1)..handles, NEW q, q = plan[i] PROVE Gone(q)'
      <3>1. i \in (at + 1)..handles \/ (i = at /\ at' = at - 1)
        BY <1>b, <1>e, <2>4
      <3>2. CASE i \in (at + 1)..handles
        BY <2>3, <2>4, <3>2
      <3>3. CASE i = at /\ at' = at - 1
        <4>1. q = p /\ at' # at
          BY <1>b, <1>e, <2>4, <3>3
        <4> QED
          BY <1>e, <4>1
      <3> QED
        BY <3>1, <3>2, <3>3
    <2> QED
      BY <1>e, <2>4 DEF StopsInOrder, Gone
  <1>f. ASSUME NEW p, p = plan[at], NEW s \in {"stopping", "stopped"},
               NEW err \in BOOLEAN, Marks(p, s, err),
               pc \in {"stop", "signalled", "killed"}, at # 0
        PROVE  /\ shutdownErr => shutdownErr'
               /\ err => shutdownErr'
               /\ \A q \in Processes : q # p => report'.process[q] = report.process[q]
               /\ s = "stopped" => report'.process[p] \in {"stopped", "failed"}
    <2>1. p \in Processes
      BY <1>f, PlacesOfRun
    <2>2. CASE report.process[p] = "failed"
      BY <1>f, <2>2 DEF Marks, record
    <2>3. CASE report.process[p] # "failed"
      <3>1. PICK ok \in BOOLEAN : /\ Transition(p, s, ok)
                                  /\ shutdownErr' = (shutdownErr \/ err \/ ~ok)
        BY <1>f, <2>3 DEF Marks
      <3>2. /\ report'.process[p] = s
            /\ \A q \in Processes : q # p => report'.process[q] = report.process[q]
        BY <1>b, <1>c, <2>1, <3>1
      <3>3. (shutdownErr => shutdownErr') /\ (err => shutdownErr')
        BY <3>1
      <3> QED
        BY <3>2, <3>3
    <2> QED
      BY <2>2, <2>3
  <1>1. CASE Stop
    <2>1. PICK p : p = plan[at]
      OBVIOUS
    <2>2. /\ pc = "stop" /\ at # 0 /\ UNCHANGED <<plan, handles, exited, killed>>
      BY <1>1 DEF Stop, fixed, commands
    <2>3. CASE /\ p \in exited
               /\ Marks(p, "stopped", FALSE)
               /\ at' = at - 1
      <3>1. /\ shutdownErr => shutdownErr'
            /\ \A q \in Processes : q # p => report'.process[q] = report.process[q]
            /\ report'.process[p] \in {"stopped", "failed"}
        BY <1>f, <2>1, <2>2, <2>3
      <3>2. Gone(p)'
        BY <2>2, <2>3, <3>1 DEF Gone
      <3> QED
        BY <1>e, <2>1, <2>2, <2>3, <3>1, <3>2
    <2>4. ASSUME NEW err \in BOOLEAN, Marks(p, "stopping", err), at' = at
          PROVE  StopsInOrder'
      <3>1. /\ shutdownErr => shutdownErr'
            /\ \A q \in Processes : q # p => report'.process[q] = report.process[q]
        BY <1>f, <2>1, <2>2, <2>4
      <3> QED
        BY <1>e, <2>1, <2>2, <2>4, <3>1
    <2> QED
      BY <1>1, <2>1, <2>3, <2>4 DEF Stop
  <1>2. CASE StopEnds
    <2>1. PICK p : p = plan[at]
      OBVIOUS
    <2>2. /\ pc \in {"signalled", "killed"} /\ at # 0
          /\ UNCHANGED <<plan, handles, exited, killed>>
          /\ p \in exited /\ Marks(p, "stopped", FALSE) /\ at' = at - 1
      BY <1>2, <2>1, PlacesOfRun DEF StopEnds, fixed, commands
    <2>3. /\ shutdownErr => shutdownErr'
          /\ \A q \in Processes : q # p => report'.process[q] = report.process[q]
          /\ report'.process[p] \in {"stopped", "failed"}
      BY <1>f, <2>1, <2>2
    <2>4. Gone(p)'
      BY <2>2, <2>3 DEF Gone
    <2> QED
      BY <1>e, <2>1, <2>2, <2>3, <2>4
  <1>3. CASE Kill
    <2>1. PICK p : p = plan[at]
      OBVIOUS
    <2>2. /\ pc = "signalled" /\ at # 0
          /\ UNCHANGED <<plan, handles, exited, report, at>>
          /\ killed \subseteq killed' /\ (shutdownErr => shutdownErr')
      BY <1>3, PlacesOfRun DEF Kill, fixed, commands, record
    <2> QED
      BY <1>e, <2>1, <2>2
  <1>4. CASE KillFails
    <2>1. PICK p : p = plan[at]
      OBVIOUS
    <2>2. /\ pc = "killed" /\ at # 0 /\ UNCHANGED <<plan, handles, exited, killed>>
          /\ Marks(p, "stopped", TRUE) /\ at' = at - 1 /\ p \in killed
      BY <1>4, <2>1, PlacesOfRun DEF KillFails, fixed, commands, Positions
    <2>3. /\ shutdownErr'
          /\ \A q \in Processes : q # p => report'.process[q] = report.process[q]
          /\ report'.process[p] \in {"stopped", "failed"}
      BY <1>f, <2>1, <2>2
    <2>4. Gone(p)'
      BY <2>2, <2>3 DEF Gone
    <2> QED
      BY <1>e, <2>1, <2>2, <2>3, <2>4
  <1>5. CASE StopBegins
    <2>1. at' = handles /\ handles' = handles
      BY <1>5 DEF StopBegins
    <2>2. (at' + 1)..handles' = {}
      BY <1>b, <2>1
    <2> QED
      BY <2>2 DEF StopsInOrder
  <1>6. CASE PlanProcesses \/ Begin
    <2>1. handles' = 0
      BY <1>6 DEF PlanProcesses, Begin, Positions
    <2>2. at' = at
      BY <1>6 DEF PlanProcesses, Begin, stops
    <2>3. (at' + 1)..handles' = {}
      BY <1>b, <2>1, <2>2
    <2> QED
      BY <2>3 DEF StopsInOrder
  <1>7. CASE \/ NextCommand \/ Spawn \/ SpawnFails \/ AwaitReady \/ AwaitFails
             \/ AllStarted \/ Watch \/ ActsOnExit
    <2>1. pc' \notin {"stop", "signalled", "killed", "done"}
      BY <1>7 DEF NextCommand, Spawn, SpawnFails, AwaitReady, AwaitFails, AllStarted,
                  Watch, ActsOnExit, TakesExit, Proceeds
    <2> QED
      BY <2>1 DEF StopsInOrder
  <1>g. ASSUME UNCHANGED <<plan, handles, at, killed, shutdownErr>>,
               exited \subseteq exited',
               report'.process = report.process,
               pc' \in {"stop", "signalled", "killed", "done"} =>
                  pc \in {"stop", "signalled", "killed", "done"}
        PROVE  StopsInOrder'
    BY <1>g DEF StopsInOrder, Gone
  <1>8. CASE StopsDone
    <2>1. /\ UNCHANGED <<plan, handles, at, killed, shutdownErr>> /\ exited' = exited
          /\ pc = "stop"
      BY <1>8 DEF StopsDone, fixed, stops, verdict, commands
    <2>2. report'.process = report.process
      BY <1>8, <1>a, StateSet DEF StopsDone
    <2> QED
      BY <1>g, <2>1, <2>2
  <1>9. CASE CommandStep \/ Cancel \/ BudgetSpent \/ UNCHANGED vars
    <2>1. /\ UNCHANGED <<plan, handles, at, killed, shutdownErr, report, pc>>
          /\ exited \subseteq exited'
      BY <1>9 DEF CommandStep, LeaderExits, HelperStarts, HelperExits, WaitReturns,
                  SendsExit, Cancel, BudgetSpent, vars, fixed, stops, verdict, record,
                  commands
    <2> QED
      BY <1>g, <2>1
  <1> QED
    BY <1>1, <1>2, <1>3, <1>4, <1>5, <1>6, <1>7, <1>8, <1>9 DEF Next, RunStep

\* The loop waits for every endpoint.
LEMMA EndpointsStep ==
    ASSUME TypeOK, PlanStands, Positions, EndpointsAnswered, [Next]_vars
    PROVE  EndpointsAnswered'
  <1>a. handles \in Nat /\ wasReady \subseteq wasReady'
    <2>1. wasReady \subseteq wasReady'
      BY DEF Next, RunStep, PlanProcesses, Begin, NextCommand, Spawn, SpawnFails,
             AwaitReady, AwaitFails, AllStarted, Watch, ActsOnExit, StopBegins, Stop,
             StopEnds, Kill, KillFails, StopsDone, CommandStep, Cancel, BudgetSpent, vars
    <2> QED
      BY <2>1, Places
  <1>b. ASSUME pc' \notin {"next", "spawn", "await", "running"} PROVE EndpointsAnswered'
    BY <1>b DEF EndpointsAnswered
  <1>c. ASSUME UNCHANGED <<manifest, plan, handles>>,
               pc \in {"next", "spawn", "running"} \/ pc' = pc, pc' # "await" \/ pc' = pc
        PROVE  EndpointsAnswered'
    BY <1>a, <1>c DEF EndpointsAnswered
  <1>1. CASE Spawn
    <2>1. /\ pc = "spawn" /\ UNCHANGED <<manifest, plan>> /\ handles' = handles + 1
          /\ wasReady' = wasReady
          /\ pc' \in {"stopping", "await", "next"}
          /\ pc' = "next" => ~manifest[plan[handles + 1]].readiness
      BY <1>1 DEF Spawn, fixed, Proceeds, Following
    <2>2. \A i \in 1..handles : manifest[plan[i]].readiness => plan[i] \in wasReady
      BY <2>1 DEF EndpointsAnswered
    <2>3. \A i \in 1..(handles + 1) : i \in 1..handles \/ i = handles + 1
      BY <1>a
    <2>4. (handles + 1) - 1 = handles
      BY <1>a
    <2> QED
      BY <2>1, <2>2, <2>3, <2>4 DEF EndpointsAnswered
  <1>2. CASE AwaitReady
    <2>1. /\ pc = "await" /\ UNCHANGED <<manifest, plan, handles>>
          /\ wasReady' = wasReady \cup {plan[handles]}
          /\ pc' \in {"stopping", "next"}
      BY <1>2 DEF AwaitReady, fixed, Proceeds
    <2>2. \A i \in 1..(handles - 1) : manifest[plan[i]].readiness => plan[i] \in wasReady
      BY <2>1 DEF EndpointsAnswered
    <2>3. \A i \in 1..handles : i \in 1..(handles - 1) \/ i = handles
      BY <1>a
    <2> QED
      BY <2>1, <2>2, <2>3 DEF EndpointsAnswered
  <1>3. CASE Begin
    <2>1. handles' = 0 /\ pc' # "await"
      BY <1>3 DEF Begin, Positions
    <2> QED
      BY <2>1 DEF EndpointsAnswered
  <1>4. CASE NextCommand \/ AllStarted
    <2>1. /\ UNCHANGED <<manifest, plan, handles>> /\ pc = "next" /\ pc' # "await"
      BY <1>4 DEF NextCommand, AllStarted, TakesExit, Proceeds, fixed
    <2> QED
      BY <1>c, <2>1
  <1>5. CASE PlanProcesses \/ SpawnFails \/ AwaitFails \/ Watch \/ ActsOnExit
    <2>1. pc' \notin {"next", "spawn", "await", "running"}
      BY <1>5 DEF PlanProcesses, SpawnFails, AwaitFails, Watch, ActsOnExit, TakesExit,
                  Proceeds
    <2> QED
      BY <1>b, <2>1
  <1>6. CASE StopBegins \/ Stop \/ StopEnds \/ Kill \/ KillFails \/ StopsDone
    <2>1. pc' \notin {"next", "spawn", "await", "running"}
      BY <1>6 DEF StopBegins, Stop, StopEnds, Kill, KillFails, StopsDone
    <2> QED
      BY <1>b, <2>1
  <1>7. CASE CommandStep \/ Cancel \/ BudgetSpent \/ UNCHANGED vars
    <2>1. UNCHANGED <<manifest, plan, handles, pc>>
      BY <1>7 DEF CommandStep, Cancel, BudgetSpent, vars, fixed
    <2> QED
      BY <1>c, <2>1
  <1> QED
    BY <1>1, <1>2, <1>3, <1>4, <1>5, <1>6, <1>7 DEF Next, RunStep

\* The exit that Run takes from the channel is the end of the run.
LEMMA ExitsStep ==
    ASSUME TypeOK, PlanStands, Positions, CommandsSound, RunReported, RunReported',
           ExitsHeard, [Next]_vars
    PROVE  ExitsHeard'
  <1>a. /\ report \in Reports /\ saved \in Reports /\ faults \in 0..MaxFaults
        /\ exits \in Seq(Processes) /\ exited \subseteq Processes
    BY DEF TypeOK
  <1>b. "failed" \in ProcessStates
    BY DEF ProcessStates
  <1> DEFINE Over == {"stopping", "stop", "signalled", "killed", "done"}
             InChannel(p, c) == \E i \in DOMAIN c : c[i] = p
  <1>c. ASSUME UNCHANGED <<sent, exits, heard>>, pc \in Over => pc' \in Over,
               pc' \in {"exit", "unready"} <=> pc \in {"exit", "unready"},
               report'.run = "running" =>
                  \/ report.run = "running" /\ report'.process = report.process
                  \/ pc \notin Over
        PROVE  ExitsHeard'
    BY <1>c DEF ExitsHeard
  <1>d. ASSUME pc \notin Over \cup {"exit", "unready"}, NEW next \in {"exit", "unready"},
               TakesExit(next), UNCHANGED sent
        PROVE  ExitsHeard'
    <2>1. exits # << >> /\ exits' = Tail(exits) /\ heard' = {Head(exits)} /\ pc' = next
      BY <1>d DEF TakesExit
    <2>2. SUFFICES ASSUME NEW p \in sent, ~InChannel(p, exits') PROVE p = Head(exits)
      BY <1>d, <2>1 DEF ExitsHeard
    <2>3. PICK i \in DOMAIN exits : exits[i] = p
      BY <1>d DEF ExitsHeard
    <2>4. i = 1
      <3>1. SUFFICES ASSUME i # 1 PROVE FALSE
        OBVIOUS
      <3>2. i - 1 \in DOMAIN Tail(exits) /\ Tail(exits)[i - 1] = p
        BY <1>a, <2>1, <2>3, <3>1
      <3> QED
        BY <2>1, <2>2, <3>2
    <2> QED
      BY <1>a, <2>1, <2>3, <2>4
  <1>1. CASE CommandStep
    <2>1. UNCHANGED <<pc, report, heard>>
      BY <1>1 DEF CommandStep, record
    <2>2. CASE UNCHANGED <<sent, exits>>
      BY <1>c, <2>1, <2>2
    <2>3. ASSUME NEW p \in Processes, SendsExit(p) PROVE ExitsHeard'
      <3>1. sent' = sent \cup {p} /\ exits' = Append(exits, p)
        BY <2>3 DEF SendsExit
      <3>2. /\ \A i \in DOMAIN exits : i \in DOMAIN exits' /\ exits'[i] = exits[i]
            /\ Len(exits) + 1 \in DOMAIN exits' /\ exits'[Len(exits) + 1] = p
        BY <1>a, <3>1
      <3> QED
        BY <2>1, <3>1, <3>2 DEF ExitsHeard
    <2> QED
      BY <1>1, <2>2, <2>3
      DEF CommandStep, LeaderExits, HelperStarts, HelperExits, WaitReturns
  <1>2. CASE NextCommand \/ AwaitFails \/ Watch
    <2>1. pc \notin Over \cup {"exit", "unready"} /\ UNCHANGED sent
      BY <1>2 DEF NextCommand, AwaitFails, Watch, commands
    <2>2. ASSUME NEW next \in {"exit", "unready"}, TakesExit(next) PROVE ExitsHeard'
      BY <1>d, <2>1, <2>2
    <2>3. CASE UNCHANGED <<exits, heard>> /\ pc' \notin {"exit", "unready"}
      BY <1>c, <2>1, <2>3
    <2> QED
      BY <1>2, <2>2, <2>3 DEF NextCommand, AwaitFails, Watch, Proceeds, channel
  <1>3. CASE ActsOnExit
    <2>1. /\ pc \in {"exit", "unready"} /\ pc' = "stopping" /\ heard' = {}
          /\ UNCHANGED <<sent, exits>>
      BY <1>3 DEF ActsOnExit, commands
    <2>2. SUFFICES ASSUME NEW p \in heard, report'.run = "running"
                   PROVE  report'.process[p] = "failed"
      BY <2>1 DEF ExitsHeard
    <2>3. PICK q \in heard, ok \in BOOLEAN : Transition(q, "failed", ok)
      <3>1. CASE UNCHANGED record /\ pc = "unready"
        BY <2>2, <3>1 DEF RunReported, record
      <3> QED
        BY <1>3, <3>1 DEF ActsOnExit
    <2>4. q \in Processes /\ q = p
      BY <2>2, <2>3 DEF ExitsHeard, TypeOK
    <2>5. report'.process[q] = "failed"
      BY <1>a, <1>b, <2>3, <2>4, Transited
    <2> QED
      BY <2>4, <2>5
  <1>4. CASE PlanProcesses \/ Begin \/ Spawn \/ SpawnFails \/ AwaitReady \/ AllStarted
    <2>1. /\ UNCHANGED <<sent, exits, heard>> /\ pc \notin Over \cup {"exit", "unready"}
          /\ pc' \notin {"exit", "unready"}
      BY <1>4 DEF PlanProcesses, Begin, Spawn, SpawnFails, AwaitReady, AllStarted, Proceeds,
                  commands, channel
    <2> QED
      BY <1>c, <2>1
  <1>5. CASE StopBegins \/ Stop \/ StopEnds \/ Kill \/ KillFails \/ StopsDone
    <2>1. /\ UNCHANGED <<sent, exits, heard>>
          /\ pc' \in {"stop", "signalled", "killed", "done"}
          /\ pc \in Over
      BY <1>5 DEF StopBegins, Stop, StopEnds, Kill, KillFails, StopsDone, commands, channel
    <2>2. report'.run # "running"
      BY <2>1 DEF RunReported, NoReport
    <2> QED
      BY <1>c, <2>1, <2>2
  <1>6. CASE Cancel \/ BudgetSpent \/ UNCHANGED vars
    <2>1. UNCHANGED <<sent, exits, heard, pc, report>>
      BY <1>6 DEF Cancel, BudgetSpent, vars, commands, channel, record
    <2> QED
      BY <1>c, <2>1
  <1> QED
    BY <1>1, <1>2, <1>3, <1>4, <1>5, <1>6 DEF Next, RunStep

---------------------------------------------------------------------------
(* What Run guarantees *)

\* The invariant of the supervisor, for every manifest, every set of targets
\* and every number of processes, failed writes and early exits.
THEOREM SupervisorSound == Spec => []DevInv
  <1>1. Init => DevInv
    <2> SUFFICES ASSUME Init PROVE DevInv
      OBVIOUS
    <2>1. NoReport \in Reports
      BY DEF NoReport, Reports, ProcessStates
    <2>2. TypeOK
      <3>1. /\ << >> \in Seq(Processes) /\ Len(<< >>) = 0
            /\ {FALSE} \subseteq BOOLEAN
        OBVIOUS
      <3>2. /\ DOMAIN manifest \subseteq Processes /\ targets \subseteq Processes
            /\ 0 \in 0..MaxFaults
        BY DevAssumption DEF Init
      <3>3. /\ leader \in [Processes -> {"none", "alive", "dead"}]
            /\ helper \in [Processes -> {"none", "alive"}]
            /\ {trigger, shutdownErr, cancelled, late} \subseteq BOOLEAN
        BY DEF Init
      <3>4. handles \in 0..Len(plan) /\ at \in 0..Len(plan)
        BY <3>1 DEF Init
      <3> QED
        BY <2>1, <3>1, <3>2, <3>3, <3>4 DEF Init, TypeOK
    <2>3. /\ Started = {} /\ exits = << >> /\ exited = {} /\ handles = 0 /\ at = 0
          /\ sent = {} /\ heard = {}
      BY DEF Init, Started
    <2>4. PlanStands /\ Positions /\ CommandsSound
      BY <2>3 DEF Init, PlanStands, Positions, CommandsSound
    <2>5. RunReported /\ CommandsReported
      BY DEF Init, RunReported, CommandsReported, NoReport
    <2>6. StopsInOrder /\ EndpointsAnswered /\ SavedIsCurrent /\ ExitsHeard
      BY <2>3 DEF Init, StopsInOrder, EndpointsAnswered, SavedIsCurrent, ExitsHeard
    <2> QED
      BY <2>2, <2>4, <2>5, <2>6 DEF DevInv
  <1>2. DevInv /\ [Next]_vars => DevInv'
    <2> SUFFICES ASSUME DevInv, [Next]_vars PROVE DevInv'
      OBVIOUS
    <2> USE DEF DevInv
    <2>1. TypeOK' /\ PlanStands' /\ Positions' /\ SavedIsCurrent'
      BY DevTypeStep, PlanStep, PositionsStep, RecordStep
    <2>2. CommandsSound' /\ RunReported'
      BY CommandsStep, RunReportedStep
    <2>3. CommandsReported' /\ StopsInOrder'
      BY CommandsReportedStep, StopsStep
    <2>4. EndpointsAnswered' /\ ExitsHeard'
      BY <2>2, EndpointsStep, ExitsStep
    <2> QED
      BY <2>1, <2>2, <2>3, <2>4
  <1> QED
    BY <1>1, <1>2, PTL DEF Spec

\* The plan is refused or closes the targets, dependencies first, for every
\* manifest and every set of targets (BuildPlanWithOptions).
THEOREM PlanClosed == Spec => []PlanClosesTargets
  <1> DEFINE Built == /\ manifest \in Manifests /\ targets \in Targets
                      /\ pc # "plan" => plan = BuildPlan(manifest, targets)
  <1>1. Init => Built
    BY DEF Init
  <1>2. DevInv /\ Built /\ [Next]_vars => Built'
    <2> SUFFICES ASSUME DevInv, Built, [Next]_vars PROVE Built'
      OBVIOUS
    <2>1. PlanStands' /\ (pc = "plan" \/ UNCHANGED fixed)
      BY PlanStep DEF DevInv
    <2>2. manifest' \in Manifests /\ targets' \in Targets
      BY <2>1 DEF PlanStands
    <2>3. CASE pc # "plan"
      BY <2>1, <2>2, <2>3 DEF fixed
    <2>4. CASE pc = "plan"
      <3>1. CASE PlanProcesses
        BY <2>2, <3>1 DEF PlanProcesses
      <3>2. CASE CommandStep \/ Cancel \/ BudgetSpent \/ UNCHANGED vars
        <4>1. pc' = "plan"
          BY <2>4, <3>2 DEF CommandStep, Cancel, BudgetSpent, vars
        <4> QED
          BY <2>2, <4>1
      <3>3. CASE Begin \/ NextCommand \/ Spawn \/ SpawnFails \/ AwaitReady \/ AwaitFails
                 \/ AllStarted \/ Watch \/ ActsOnExit \/ StopBegins \/ Stop \/ StopEnds
                 \/ Kill \/ KillFails \/ StopsDone
        BY <2>4, <3>3 DEF Begin, NextCommand, Spawn, SpawnFails, AwaitReady, AwaitFails,
                          AllStarted, Watch, ActsOnExit, StopBegins, Stop, StopEnds,
                          Kill, KillFails, StopsDone
      <3> QED
        BY <3>1, <3>2, <3>3 DEF Next, RunStep
    <2> QED
      BY <2>3, <2>4
  <1>3. Built => PlanClosesTargets
    BY PlannerSound DEF PlanClosesTargets
  <1> QED
    BY <1>1, <1>2, <1>3, SupervisorSound, PTL DEF Spec

\* Whatever fails on the way, when Run has returned nothing it started is
\* still there unless it says so, and the report tells how it ended.
THEOREM RunLeavesNothing == Spec => []NothingOutlivesRun
  <1>1. DevInv => NothingOutlivesRun
    <2> SUFFICES ASSUME DevInv, pc = "done", report.run # "none" PROVE NothingOutlivesRun!2
      BY DEF NothingOutlivesRun
    <2> USE DEF DevInv
    <2>1. /\ handles \in Nat /\ at = 0
          /\ \A p \in Processes : report.process[p] \in ProcessStates
          /\ leader \in [Processes -> {"none", "alive", "dead"}]
      BY Places DEF Positions, TypeOK, Reports
    <2>2. ASSUME NEW p \in Processes, p \in Started PROVE Gone(p)
      <3>1. PICK i \in 1..handles : plan[i] = p
        BY <2>2 DEF Started
      <3>2. i \in (at + 1)..handles
        BY <2>1
      <3> QED
        BY <3>1, <3>2 DEF StopsInOrder
    <2>3. \/ report = [NoReport EXCEPT !.run = "starting"] /\ handles = 0 /\ trigger
          \/ report.run = "failed"
          \/ report.run = "stopped" /\ ~trigger /\ ~shutdownErr
      BY DEF RunReported, NoReport
    <2>4. report.run = "starting" => handles = 0 /\ trigger
      BY <2>3
    <2>5. ASSUME report.run = "stopped", NEW p \in Processes
          PROVE  /\ leader[p] # "alive" /\ helper[p] = "none"
                 /\ report.process[p] \in {"pending", "stopped"}
      <3>1. ~trigger /\ ~shutdownErr
        BY <2>3, <2>5 DEF NoReport
      <3>2. report.process[p] \notin {"failed", "starting"}
        BY <3>1 DEF CommandsReported
      <3>3. CASE p \in Started
        <4>1. p \in exited /\ report.process[p] = "stopped"
          BY <2>2, <3>1, <3>2, <3>3 DEF Gone
        <4> QED
          BY <4>1 DEF CommandsSound
      <3>4. CASE p \notin Started
        <4>1. leader[p] = "none" /\ helper[p] = "none"
          BY <3>4 DEF CommandsSound
        <4>2. report.process[p] = "pending"
          BY <2>1, <3>2, <3>4 DEF CommandsReported, ProcessStates
        <4> QED
          BY <4>1, <4>2
      <3> QED
        BY <3>3, <3>4
    <2>6. ASSUME NEW p \in Processes
          PROVE  report.process[p] \notin {"running", "ready", "stopping"}
      BY <2>2 DEF CommandsReported, Gone
    <2>7. ASSUME NEW p \in Processes, report.process[p] = "failed"
          PROVE  report.run = "failed"
      <3>1. trigger
        BY <2>7 DEF CommandsReported
      <3>2. report # [NoReport EXCEPT !.run = "starting"]
        BY <2>7 DEF NoReport
      <3> QED
        BY <2>3, <3>1, <3>2
    <2> QED
      BY <2>4, <2>5, <2>6, <2>7
  <1> QED
    BY <1>1, SupervisorSound, PTL

\* A report on disk that passes for a complete closure tells of commands that
\* were all started and answered and that nobody was told to stop; an exit it
\* does not know of is in the channel or in the hands of Run, which is about to
\* record it.
THEOREM ClosureIsTrue == Spec => []ClosureIsUp
  <1>1. DevInv => ClosureIsUp
    <2> SUFFICES ASSUME DevInv, ClosureComplete, faults = 0
                 PROVE  ClosureIsUp!2
      BY DEF ClosureIsUp
    <2> USE DEF DevInv
    <2>1. saved = report /\ report.run = "running"
      BY DEF SavedIsCurrent, ClosureComplete
    <2>2. /\ handles = Len(plan) /\ pc \in {"running", "exit", "stopping"}
      <3>1. /\ NoReport.run = "none"
            /\ [NoReport EXCEPT !.run = "starting"].run = "starting"
        BY DEF NoReport
      <3>2. pc \notin {"plan", "begin", "next", "spawn", "await", "unready", "stop",
                       "signalled", "killed", "done"}
        BY <2>1, <3>1 DEF RunReported
      <3>3. pc \in {"running", "exit", "stopping"}
        BY <3>2 DEF TypeOK
      <3> QED
        BY <2>1, <3>3 DEF RunReported
    <2>3. DOMAIN plan = 1..Len(plan) /\ \A i \in 1..Len(plan) : plan[i] \in Processes
      BY <2>2, Places
    <2>4. told = {}
      BY <2>2 DEF Positions
    <2>5. ASSUME NEW p \in Range(plan)
          PROVE  /\ leader[p] # "none"
                 /\ manifest[p].readiness => p \in wasReady
                 /\ p \in sent => p \in Range(exits) \cup heard
      <3>1. p \in Started /\ p \in Processes
        BY <2>2, <2>3, <2>5 DEF Range, Started
      <3>2. report.process[p] \in
                (IF manifest[p].readiness THEN {"ready"} ELSE {"running", "ready"})
        BY <2>1, <2>5 DEF ClosureComplete
      <3>3. leader[p] # "none"
        BY <3>1 DEF CommandsSound
      <3>4. manifest[p].readiness => p \in wasReady
        BY <3>1, <3>2 DEF CommandsReported
      <3>5. p \in sent => p \in Range(exits) \cup heard
        BY <2>1, <3>2 DEF ExitsHeard, Range
      <3> QED
        BY <3>3, <3>4, <3>5
    <2> QED
      BY <2>4, <2>5
  <1> QED
    BY <1>1, SupervisorSound, PTL

\* Commands start after what they depend on, and answer for it, and are told
\* to stop before it.
THEOREM StartAndStopInOrder == Spec => DependencyOrder
  <1> DEFINE InOrder ==
        \A p \in Processes :
            /\ leader[p] = "none" /\ leader'[p] = "alive" =>
                \A d \in manifest[p].dependsOn :
                    leader[d] # "none" /\ (manifest[d].readiness => d \in wasReady)
            /\ p \in told' \ told =>
                \A q \in Range(plan) :
                    p \in manifest[q].dependsOn /\ leader[q] # "none"
                    => q \in exited \cup killed
  <1>1. ASSUME DevInv, Next PROVE InOrder
    <2>z. /\ TypeOK /\ PlanStands /\ Positions /\ CommandsSound
          /\ StopsInOrder /\ EndpointsAnswered
      BY <1>1 DEF DevInv
    <2>a. /\ handles \in Nat /\ at \in Nat /\ Len(plan) \in Nat
          /\ handles <= Len(plan) /\ at <= handles
          /\ DOMAIN plan = 1..Len(plan)
      BY <2>z, Places
    <2>1. ASSUME NEW p \in Processes, leader[p] = "none", leader'[p] = "alive",
                 NEW d \in manifest[p].dependsOn
          PROVE  leader[d] # "none" /\ (manifest[d].readiness => d \in wasReady)
      <3>1. Spawn
        <4>1. CASE CommandStep
          BY <2>z, <2>1, <4>1 DEF CommandStep, LeaderExits, HelperStarts,
             HelperExits, WaitReturns, SendsExit, TypeOK
        <4> QED
          BY <1>1, <2>1, <4>1, RunLeavesCommands
      <3>2. pc = "spawn" /\ handles < Len(plan) /\ p = plan[handles + 1]
        BY <2>z, <2>1, <3>1 DEF Spawn, Following, TypeOK, Positions
      <3>3. Planned(plan, manifest)
        BY <2>z, <3>2 DEF PlanStands
      <3>4. handles + 1 \in DOMAIN plan
        BY <2>a, <3>2
      <3>5. PICK j \in DOMAIN plan : plan[j] = d /\ d # p
        BY <2>1, <3>2, <3>3, <3>4 DEF Planned
      <3>6. ~(handles + 1 < j)
        BY <2>1, <3>2, <3>3, <3>4, <3>5 DEF Planned
      <3>7. j \in 1..handles
        BY <2>a, <3>2, <3>5, <3>6
      <3>8. d \in Processes /\ d \in Started
        BY <3>3, <3>5, <3>7 DEF Started, Planned
      <3> QED
        BY <2>z, <3>2, <3>5, <3>7, <3>8 DEF CommandsSound, EndpointsAnswered
    <2>2. ASSUME NEW p \in Processes, p \in told' \ told, NEW q \in Range(plan),
                 p \in manifest[q].dependsOn, leader[q] # "none"
          PROVE  q \in exited \cup killed
      <3>1. Stop /\ p = plan[at]
        BY <1>1, <2>2 DEF Next, RunStep, PlanProcesses, Begin, NextCommand, Spawn,
           SpawnFails, AwaitReady, AwaitFails, AllStarted, Watch, ActsOnExit, StopBegins,
           Stop, StopEnds, Kill, KillFails, StopsDone, CommandStep, Cancel, BudgetSpent,
           stops
      <3>2. pc = "stop" /\ at # 0
        BY <3>1 DEF Stop
      <3>3. Planned(plan, manifest)
        BY <2>z, <3>2 DEF PlanStands
      <3>4. q \in Processes
        BY <3>3 DEF Planned, Range
      <3>5. PICK j \in 1..handles : plan[j] = q
        BY <2>z, <2>2, <3>4 DEF CommandsSound, Started
      <3>6. at \in DOMAIN plan /\ j \in DOMAIN plan
        BY <2>a, <3>2
      <3>7. ~(j < at) /\ j # at
        BY <2>2, <3>1, <3>3, <3>5, <3>6 DEF Planned
      <3>8. j \in (at + 1)..handles
        BY <2>a, <3>7
      <3> QED
        BY <2>z, <3>2, <3>5, <3>8 DEF StopsInOrder, Gone
    <2> QED
      BY <2>1, <2>2
  <1>2. DevInv /\ [Next]_vars => [InOrder]_vars
    BY <1>1
  <1> QED
    BY <1>2, SupervisorSound, PTL DEF Spec, DependencyOrder
=============================================================================
