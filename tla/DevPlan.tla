------------------------------ MODULE DevPlan ------------------------------
(***************************************************************************)
(* The process plan of the development runtime: pkg/devruntime/manifest.go *)
(* and plan.go.                                                            *)
(*                                                                         *)
(* A manifest lists processes with their dependencies; the plan holds the  *)
(* targets and what they need, dependencies first.  Process names are      *)
(* numbers, in the order in which the code sorts the names.                *)
(***************************************************************************)
EXTENDS Naturals, Sequences, FiniteSets, SequencesExt

CONSTANT Processes      \* the process names

ASSUME ProcessAssumption == Processes \subseteq Nat \ {0} /\ IsFiniteSet(Processes)

\* What the supervisor needs of an entry: its dependencies, and whether a
\* readiness endpoint is configured.
Entry == [dependsOn : SUBSET Processes, readiness : BOOLEAN]

\* No plan: BuildPlan returned an error.  It is no sequence of processes.
Refused == <<0>>

\* Validate: dependencies are listed, and nothing depends on itself.
Valid(manifest) ==
    \A p \in DOMAIN manifest :
        manifest[p].dependsOn \subseteq DOMAIN manifest \ {p}

\* The names of S in their order.
Sorted(S) ==
    CHOOSE s \in [1..Cardinality(S) -> S] :
        \A i, j \in 1..Cardinality(S) : i < j => s[i] < s[j]

\* A loop that visits names one after the other, f[[name, ordered, path]] being
\* what a visit makes of the list.  It ends with the first error.
VisitAll(f, path, ordered, names) ==
    FoldLeft(LAMBDA list, n :
                IF list = Refused THEN list
                ELSE f[[name |-> n, ordered |-> list, path |-> path]],
             ordered, names)

\* Mutant: a process is put into the plan before what it depends on.
Visit_Before(manifest, f, x) ==
    IF x.name \in x.path THEN Refused
    ELSE IF x.name \in Range(x.ordered) THEN x.ordered
    ELSE VisitAll(f, x.path \cup {x.name}, Append(x.ordered, x.name),
                  Sorted(manifest[x.name].dependsOn))

\* visit of BuildPlanWithOptions, where f are the calls it makes.  `path' holds
\* the names in state 1, on the way to x.name, and `ordered' those in state 2.
Visit(manifest, f, x) ==
    IF x.name \in x.path THEN Refused
    ELSE IF x.name \in Range(x.ordered) THEN x.ordered
    ELSE LET list == VisitAll(f, x.path \cup {x.name}, x.ordered,
                              Sorted(manifest[x.name].dependsOn))
         IN  IF list = Refused THEN Refused ELSE Append(list, x.name)

\* The depth-first search.
Visited(manifest, names) ==
    LET visit[x \in [name : DOMAIN manifest, ordered : Seq(DOMAIN manifest),
                     path : SUBSET DOMAIN manifest]] == Visit(manifest, visit, x)
    IN  VisitAll(visit, {}, << >>, names)

\* Without targets everything is planned; an empty plan is refused.
BuildPlan(manifest, targets) ==
    LET wanted == IF targets = {} THEN DOMAIN manifest ELSE targets
    IN  IF ~Valid(manifest) \/ ~(wanted \subseteq DOMAIN manifest) \/ wanted = {}
        THEN Refused
        ELSE Visited(manifest, Sorted(wanted))

---------------------------------------------------------------------------
(* What the plan should be *)

\* The least set that holds the wanted processes and all they depend on.
Needed(manifest, wanted) ==
    LET closed == {S \in SUBSET DOMAIN manifest :
                    wanted \subseteq S /\ \A p \in S : manifest[p].dependsOn \subseteq S}
    IN  {p \in DOMAIN manifest : \A S \in closed : p \in S}

\* No set of processes in which each waits for another one of the set.
NoCycle(manifest, S) ==
    \A T \in SUBSET S : T # {} => \E p \in T : manifest[p].dependsOn \cap T = {}

\* The plan of what the targets need, or none when there can be none.
IsPlanOf(plan, manifest, targets) ==
    LET wanted == IF targets = {} THEN DOMAIN manifest ELSE targets
        fits == /\ Valid(manifest) /\ wanted # {} /\ wanted \subseteq DOMAIN manifest
                /\ NoCycle(manifest, Needed(manifest, wanted))
    IN  IF ~fits THEN plan = Refused
        ELSE /\ Range(plan) = Needed(manifest, wanted)
             /\ \A i, j \in DOMAIN plan : i < j =>
                    plan[i] # plan[j] /\ plan[j] \notin manifest[plan[i]].dependsOn
=============================================================================
