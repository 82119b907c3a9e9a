------------------------------- MODULE MCBus -------------------------------
(***************************************************************************)
(* An instance of EventBus for TLC.                                        *)
(***************************************************************************)
EXTENDS EventBus
=============================================================================
