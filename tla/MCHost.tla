------------------------------ MODULE MCHost ------------------------------
(***************************************************************************)
(* An instance of RuntimeHost for TLC: three modules, of which the second  *)
(* is registered in several ways; a gRPC server, another component and an  *)
(* HTTP server.                                                            *)
(***************************************************************************)
EXTENDS RuntimeHost

ThreeModules == 1..3

D(deps, caps, res) == [dependsOn |-> deps, provides |-> caps, needs |-> res]

\* In name order 1, 2, 3 with two resources; or 3 before 2; or 2 and 3 wait
\* for each other; or they provide the same capability.  Whatever is not
\* registered before main begins is missing.
Offers ==
    [m \in 1..3 |->
        CASE m = 1 -> {D({}, {}, {"db"})}
          [] m = 2 -> {D({1}, {"cap"}, {}), D({3}, {}, {"db"})}
          [] m = 3 -> {D({1, 2}, {}, {"rpc"}), D({}, {"cap"}, {})}]
=============================================================================
