---------------------------- MODULE MCDiscovery ----------------------------
(***************************************************************************)
(* An instance of RegistryCache for TLC.                                   *)
(***************************************************************************)
EXTENDS RegistryCache
=============================================================================
