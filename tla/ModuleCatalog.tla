--------------------------- MODULE ModuleCatalog ---------------------------
(***************************************************************************)
(* The static catalog of module descriptors:                               *)
(* framework/core/modulecatalog/catalog.go.                                *)
(*                                                                         *)
(* Packages register descriptors; sealing resolves them once into the      *)
(* order in which the application builds and starts its modules.  Module   *)
(* names are numbers, in the order in which the code sorts the names.      *)
(***************************************************************************)
EXTENDS Naturals, Sequences, FiniteSets, FiniteSetsExt, SequencesExt

CONSTANTS
    Modules,        \* the module names
    Capabilities,   \* names of exported capabilities
    Resources,      \* names of databases and RPC targets
    Offered         \* [Modules -> SUBSET Descriptor]: what packages register

Descriptor == [dependsOn : SUBSET Modules,
               provides : SUBSET Capabilities,
               needs : SUBSET Resources]

ASSUME CatalogAssumption ==
    /\ Modules \subseteq Nat /\ IsFiniteSet(Modules)
    /\ Offered \in [Modules -> SUBSET Descriptor]

VARIABLES
    descriptors,    \* registered so far: a function on a set of modules
    sealed,         \* "open", "refused" after a Seal that failed, "sealed"
    plan            \* the resolved order, << >> before

catalogVars == <<descriptors, sealed, plan>>

CatalogTypeOK ==
    /\ DOMAIN descriptors \subseteq Modules
    /\ \A m \in DOMAIN descriptors : descriptors[m] \in Descriptor
    /\ sealed \in {"open", "refused", "sealed"}
    /\ plan \in Seq(Modules)

CatalogInit ==
    /\ descriptors = << >>
    /\ sealed = "open"
    /\ plan = << >>

\* A duplicate name, a module that depends on itself and a catalog that is
\* sealed are refused and change nothing.
Register(m) ==
    /\ sealed # "sealed"
    /\ m \notin DOMAIN descriptors
    /\ \E d \in Offered[m] :
        /\ m \notin d.dependsOn
        /\ descriptors' = [x \in DOMAIN descriptors \cup {m} |->
                            IF x = m THEN d ELSE descriptors[x]]
    /\ sealed' = "open"
    /\ UNCHANGED plan

---------------------------------------------------------------------------
(* resolvePlan *)

\* The in-degree of m as the code counts it: its declared dependencies.
Indegree(m) == Cardinality(descriptors[m].dependsOn)

\* What the two passes over the descriptors refuse.
Accepted ==
    /\ \A m, n \in DOMAIN descriptors :
        m # n => descriptors[m].provides \cap descriptors[n].provides = {}
    /\ \A m \in DOMAIN descriptors :
        descriptors[m].dependsOn \subseteq DOMAIN descriptors

\* Mutant: a dependent becomes ready with the first of its dependencies.
Round_FirstDependency(s) ==
    IF s.ready = {} THEN s ELSE
    LET name == Min(s.ready)
        dependents == {m \in DOMAIN descriptors : name \in descriptors[m].dependsOn}
    IN  [ordered |-> Append(s.ordered, name),
         indegree |-> s.indegree,
         ready |-> (s.ready \ {name}) \cup (dependents \ Range(s.ordered))]

\* One round of the loop: the first ready module is appended, and those whose
\* last dependency it was become ready.  `ready' is kept sorted and without
\* duplicates, so that the set says it all.
Round(s) ==
    IF s.ready = {} THEN s ELSE
    LET name == Min(s.ready)
        dependents == {m \in DOMAIN descriptors : name \in descriptors[m].dependsOn}
        indegree == [m \in DOMAIN s.indegree |->
                        s.indegree[m] - (IF m \in dependents THEN 1 ELSE 0)]
    IN  [ordered |-> Append(s.ordered, name),
         indegree |-> indegree,
         ready |-> (s.ready \ {name}) \cup {m \in dependents : indegree[m] = 0}]

\* The modules in the order found; some are missing when there is a cycle.
Ordered ==
    LET rounds[k \in 0..Cardinality(DOMAIN descriptors)] ==
            IF k = 0
            THEN [ordered |-> << >>,
                  indegree |-> [m \in DOMAIN descriptors |-> Indegree(m)],
                  ready |-> {m \in DOMAIN descriptors : Indegree(m) = 0}]
            ELSE Round(rounds[k - 1])
    IN  rounds[Cardinality(DOMAIN descriptors)].ordered

Resolves == Accepted /\ Len(Ordered) = Cardinality(DOMAIN descriptors)

\* A catalog that did not resolve stays open; sealing again a catalog that did
\* returns the same plan and changes nothing.
Seal ==
    /\ sealed # "sealed"
    /\ \/ /\ Resolves
          /\ sealed' = "sealed"
          /\ plan' = Ordered
       \/ /\ ~Resolves
          /\ sealed' = "refused"
          /\ UNCHANGED plan
    /\ UNCHANGED descriptors

\* Plan.Requirements: every database and RPC target, each once.
Required == UNION {descriptors[m].needs : m \in Range(plan)}

---------------------------------------------------------------------------
(* What the plan should be *)

\* No set of modules in which each waits for another one of the set.
Acyclic ==
    \A S \in SUBSET DOMAIN descriptors :
        S # {} => \E m \in S : descriptors[m].dependsOn \cap S = {}

\* p lists every registered module once, after all it depends on.
Topological(p) ==
    /\ Range(p) = DOMAIN descriptors
    /\ \A i, j \in DOMAIN p : i < j =>
        p[i] # p[j] /\ p[j] \notin descriptors[p[i]].dependsOn

\* p comes before q when names are compared one by one.
Precedes(p, q) ==
    \E i \in DOMAIN p : p[i] < q[i] /\ \A j \in 1..(i - 1) : p[j] = q[j]

\* Seal accepts exactly the catalogs that have an order, and of all orders it
\* gives the first: the order neither skips a module, nor repeats one, nor
\* depends on the order in which packages registered (resolvePlan).
PlanIsFirstOrder ==
    /\ sealed = "refused" => ~(Accepted /\ Acyclic)
    /\ sealed = "sealed" =>
        /\ Accepted /\ Acyclic /\ Topological(plan)
        /\ \A q \in [1..Len(plan) -> Modules] :
            Topological(q) => q = plan \/ Precedes(plan, q)
=============================================================================
