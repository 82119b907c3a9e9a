----------------------------- MODULE MCSelector -----------------------------
(***************************************************************************)
(* An instance of AdaptiveSelector for TLC.                                *)
(***************************************************************************)
EXTENDS AdaptiveSelector, TLC

CONSTANTS n1, n2, n3, c1, c2, c3

ThreeNodes == {n1, n2, n3}
ThreeClients == {c1, c2, c3}

\* Nodes and clients are alike.
Symmetry == Permutations(ThreeNodes) \cup Permutations(ThreeClients)
=============================================================================
