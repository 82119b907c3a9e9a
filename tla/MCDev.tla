------------------------------- MODULE MCDev -------------------------------
(***************************************************************************)
(* An instance of DevRuntime for TLC.                                      *)
(***************************************************************************)
EXTENDS DevRuntime

ThreeProcesses == 1..3

\* Everything that three names, or two of them, can be made to depend on.
EveryManifest ==
    UNION {{[p \in S |-> [dependsOn |-> deps[p], readiness |-> p # 2]] :
                deps \in [S -> SUBSET ThreeProcesses]} : S \in {1..2, 1..3}}

\* 2 comes first and has no endpoint, 1 needs it, and 3 needs both.
OneManifest ==
    {[p \in 1..3 |-> [dependsOn |-> CASE p = 1 -> {2} [] p = 2 -> {} [] p = 3 -> {1, 2},
                      readiness |-> p # 2]]}

SomeTargets == {{}, {1}}
=============================================================================
