------------------------------ MODULE Callers ------------------------------
(***************************************************************************)
(* The goroutines that call through one resilience policy.  Each makes one *)
(* call at a time and may call again.                                      *)
(***************************************************************************)
CONSTANT Calls
=============================================================================
