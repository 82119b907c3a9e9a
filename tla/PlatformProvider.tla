------------------------- MODULE PlatformProvider -------------------------
(***************************************************************************)
(* The composition factory of one application: framework/platform/         *)
(* provider.go, which owns databases and RPC connections, or the           *)
(* StaticContextFactory of modulecatalog/descriptor.go, which owns none.   *)
(*                                                                         *)
(* Prepare holds the provider's lock, and the application calls Start and  *)
(* Shutdown under its own, so that each of them is one step here.          *)
(***************************************************************************)
EXTENDS ModuleCatalog

VARIABLES
    provider,   \* providerState, or "static" for a StaticContextFactory
    owned,      \* provider.resources: the names it is to close
    opened,     \* [Resources -> Nat]: how often each was opened ...
    closed      \* ... and closed

providerVars == <<provider, owned, opened, closed>>

ProviderTypeOK ==
    /\ provider \in {"static", "new", "prepared", "started", "stopped"}
    /\ owned \subseteq Resources
    /\ opened \in [Resources -> Nat]
    /\ closed \in [Resources -> Nat]

ProviderInit ==
    /\ provider \in {"static", "new"}
    /\ owned = {}
    /\ opened = [r \in Resources |-> 0]
    /\ closed = [r \in Resources |-> 0]

\* count with one more for every r of S.
Once(count, S) == [r \in Resources |-> count[r] + (IF r \in S THEN 1 ELSE 0)]

Prepare ==
    \/ /\ provider = "static"
       /\ UNCHANGED providerVars
    \/ /\ provider = "new"
       /\ provider' = "prepared"
       /\ owned' = Required
       /\ opened' = Once(opened, Required)
       /\ UNCHANGED closed

\* Something is not configured or cannot be opened: what was opened before it
\* is closed again, and the provider is as new.
PrepareFails ==
    /\ provider \in {"static", "new"}
    /\ \E S \in (IF provider = "static" THEN {{}} ELSE SUBSET Required) :
        /\ opened' = Once(opened, S)
        /\ closed' = Once(closed, S)
    /\ UNCHANGED <<provider, owned>>

\* Mutant: Start does not refuse a provider that was stopped.
ProviderStart_Again ==
    \/ /\ provider = "static"
       /\ UNCHANGED providerVars
    \/ /\ provider \in {"prepared", "stopped"}
       /\ provider' = "started"
       /\ UNCHANGED <<owned, opened, closed>>

ProviderStart ==
    \/ /\ provider = "static"
       /\ UNCHANGED providerVars
    \/ /\ provider = "prepared"
       /\ provider' = "started"
       /\ UNCHANGED <<owned, opened, closed>>

\* A resource does not start, and all are closed; or the provider was
\* stopped before.
ProviderStartFails ==
    \/ /\ provider = "prepared"
       /\ provider' = "stopped"
       /\ closed' = Once(closed, owned)
       /\ UNCHANGED <<owned, opened>>
    \/ /\ provider = "stopped"
       /\ UNCHANGED providerVars

ProviderShutdown ==
    \/ /\ provider \in {"static", "stopped"}
       /\ UNCHANGED providerVars
    \/ /\ provider \in {"new", "prepared", "started"}
       /\ provider' = "stopped"
       /\ closed' = Once(closed, owned)
       /\ UNCHANGED <<owned, opened>>

Open(r) == opened[r] > closed[r]
=============================================================================
