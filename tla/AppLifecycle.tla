--------------------------- MODULE AppLifecycle ---------------------------
(***************************************************************************)
(* One core.App from its construction to its end:                          *)
(* framework/core/application_options.go, application_lifecycle.go,        *)
(* runtime_component.go and application.go.                                *)
(*                                                                         *)
(* Start and Shutdown hold lifecycleMu from beginning to end.  The holder  *)
(* works through a list, `todo', of the parts that it still has to start   *)
(* or to stop.                                                             *)
(***************************************************************************)
EXTENDS PlatformProvider, Transports, DelayedWork

CONSTANTS
    Boot,           \* the goroutine that constructs and starts the App
    Stoppers,       \* goroutines that call Shutdown with a deadline
    Nobody          \* the lock is free

Callers == {Boot} \cup Stoppers

ASSUME CallerAssumption == Nobody \notin Callers /\ Boot \notin Stoppers

VARIABLES
    app,        \* AppState, "none" while there is no App
    built,      \* compositionModules
    module,     \* [Modules -> {"absent", "built", "up", "down"}]: up from its
                \* Start to its Shutdown
    holder,     \* who holds lifecycleMu
    phase,      \* what it does: "idle", "starting", "rollback", "stopping",
                \* or "discard" for a construction that failed
    todo,       \* the parts it has still to start or to stop
    expired,    \* whether the context it was given is done
    shutdown    \* [Callers -> {"idle", "waiting", "holding", "returned"}]

appVars == <<app, built, module, holder, phase, todo, expired, shutdown>>

\* The parts of an application, by kind and number.
M(m) == <<"module", m>>
C(c) == <<"component", c>>
Factory == <<"factory", 0>>
Bus == <<"bus", 0>>

\* A component, or the bus, whose shutdown has begun and not returned.
Draining(c) == <<"draining", c>>
BusClosing == <<"closing", 0>>

Parts == {M(m) : m \in Modules} \cup {C(c) : c \in Components}
           \cup {Draining(c) : c \in Components} \cup {Factory, Bus, BusClosing}

AppTypeOK ==
    /\ app \in {"none", "new", "initializing", "starting", "ready", "stopping",
                "stopped", "failed"}
    /\ built \in Seq(Modules)
    /\ module \in [Modules -> {"absent", "built", "up", "down"}]
    /\ holder \in Callers \cup {Nobody}
    /\ phase \in {"idle", "starting", "rollback", "stopping", "discard"}
    /\ todo \in Seq(Parts)
    /\ expired \in BOOLEAN
    /\ shutdown \in [Callers -> {"idle", "waiting", "holding", "returned"}]

AppInit ==
    /\ app = "none"
    /\ built = << >>
    /\ module = [m \in Modules |-> "absent"]
    /\ holder = Nobody
    /\ phase = "idle"
    /\ todo = << >>
    /\ expired = FALSE
    /\ shutdown = [p \in Callers |-> "idle"]

\* A sequence of numbers as parts of one kind, and backwards.
AsParts(s, Part(_)) == [i \in DOMAIN s |-> Part(s[i])]
Backwards(s, Part(_)) == AsParts(Reverse(s), Part)

ComponentList == [i \in Components |-> i]

\* Mutant: modules are shut down in the order in which they were started.
ShutdownComponents_InOrder == AsParts(built, M) \o <<Factory, Bus>>

\* App.shutdownComponents: every module, started or not, last one first.
ShutdownComponents == Backwards(built, M) \o <<Factory, Bus>>

Unwind(how, parts) ==
    /\ phase' = how
    /\ todo' = parts

---------------------------------------------------------------------------
(* Start *)

\* The lock is taken; an App that was stopped or has failed is refused.
StartBegins ==
    /\ holder = Nobody
    /\ app \notin {"ready", "stopping", "stopped", "failed"}
    /\ holder' = Boot
    /\ app' = "starting"
    /\ phase' = "starting"
    /\ todo' = <<Factory>> \o AsParts(built, M) \o AsParts(ComponentList, C)
    /\ expired' = FALSE
    /\ UNCHANGED <<built, module, shutdown>>

StartRefused ==
    /\ holder = Nobody
    /\ app \in {"stopping", "stopped", "failed"}
    /\ UNCHANGED appVars

Starts(part) ==
    /\ phase = "starting"
    /\ todo # << >>
    /\ Head(todo) = part

Started == todo' = Tail(todo) /\ UNCHANGED <<app, built, holder, phase, expired, shutdown>>

StartFactory ==
    /\ Starts(Factory)
    /\ \/ /\ ProviderStart
          /\ Started
       \/ /\ ProviderStartFails
          /\ Unwind("rollback", ShutdownComponents)
          /\ UNCHANGED <<app, built, holder, expired, shutdown>>
    /\ UNCHANGED <<catalogVars, serverVars, busVars, module>>

StartModule(m) ==
    /\ Starts(M(m))
    /\ \/ /\ module' = [module EXCEPT ![m] = "up"]
          /\ Started
       \/ /\ Unwind("rollback", ShutdownComponents)
          /\ UNCHANGED <<app, built, holder, expired, shutdown, module>>
    /\ UNCHANGED <<catalogVars, providerVars, serverVars, busVars>>

\* Mutant: the rollback leaves the components that were started alone.
StartComponent_NoRollback(c) ==
    /\ Starts(C(c))
    /\ \/ /\ ComponentStart(c)
          /\ Started
       \/ /\ ComponentStartFails(c)
          /\ Unwind("rollback", ShutdownComponents)
          /\ UNCHANGED <<app, built, holder, expired, shutdown>>
    /\ UNCHANGED <<catalogVars, providerVars, busVars, module>>

StartComponent(c) ==
    /\ Starts(C(c))
    /\ \/ /\ ComponentStart(c)
          /\ Started
       \/ /\ ComponentStartFails(c)
          /\ Unwind("rollback",
                    Backwards(SubSeq(ComponentList, 1, c), C) \o ShutdownComponents)
          /\ UNCHANGED <<app, built, holder, expired, shutdown>>
    /\ UNCHANGED <<catalogVars, providerVars, busVars, module>>

\* Everything is started.
StartEnds ==
    /\ phase = "starting"
    /\ todo = << >>
    /\ app' = "ready"
    /\ phase' = "idle"
    /\ holder' = Nobody
    /\ UNCHANGED <<built, module, todo, expired, shutdown>>

---------------------------------------------------------------------------
(* Shutdown, and what is stopped when a start or a construction fails *)

ShutdownCalled(p) ==
    /\ shutdown[p] = "idle"
    /\ shutdown' = [shutdown EXCEPT ![p] = "waiting"]
    /\ UNCHANGED <<app, built, module, holder, phase, todo, expired>>

\* A second Shutdown waits for the first and has nothing left to do.
ShutdownTakesLock(p) ==
    /\ shutdown[p] = "waiting"
    /\ holder = Nobody
    /\ IF app = "stopped"
       THEN /\ shutdown' = [shutdown EXCEPT ![p] = "returned"]
            /\ UNCHANGED <<app, holder, phase, todo, expired>>
       ELSE /\ shutdown' = [shutdown EXCEPT ![p] = "holding"]
            /\ app' = "stopping"
            /\ holder' = p
            /\ expired' = FALSE
            /\ Unwind("stopping", Backwards(ComponentList, C) \o ShutdownComponents)
    /\ UNCHANGED <<catalogVars, providerVars, serverVars, busVars, built, module>>

Stops(part) ==
    /\ phase \in {"rollback", "stopping", "discard"}
    /\ todo # << >>
    /\ Head(todo) = part

Stopped == todo' = Tail(todo) /\ UNCHANGED <<app, built, holder, phase, expired, shutdown>>

StopModule(m) ==
    /\ Stops(M(m))
    /\ module' = [module EXCEPT ![m] = "down"]
    /\ Stopped
    /\ UNCHANGED <<catalogVars, providerVars, serverVars, busVars>>

StopFactory ==
    /\ Stops(Factory)
    /\ ProviderShutdown
    /\ Stopped
    /\ UNCHANGED <<catalogVars, serverVars, busVars, module>>

\* The first shutdown() of a component begins; a later one only waits.
StopComponent(c) ==
    /\ Stops(C(c))
    /\ \/ /\ ShutdownBegins(c)
          /\ todo' = <<Draining(c)>> \o Tail(todo)
          /\ UNCHANGED <<app, built, holder, phase, expired, shutdown>>
       \/ /\ ShutdownAgain(c, expired)
          /\ Stopped
    /\ UNCHANGED <<catalogVars, providerVars, busVars, module>>

ComponentStops(c) ==
    /\ Stops(Draining(c))
    /\ ShutdownEnds(c, expired)
    /\ Stopped
    /\ UNCHANGED <<catalogVars, providerVars, busVars, module>>

\* The event bus is closed last, whatever time that takes.
CloseBus ==
    /\ Stops(Bus)
    /\ \/ /\ BusCloseBegins
          /\ todo' = <<BusClosing>> \o Tail(todo)
          /\ UNCHANGED <<app, built, holder, phase, expired, shutdown>>
       \/ /\ BusCloseAgain
          /\ Stopped
    /\ UNCHANGED <<catalogVars, providerVars, serverVars, module>>

BusCloses ==
    /\ Stops(BusClosing)
    /\ BusCloseEnds
    /\ Stopped
    /\ UNCHANGED <<catalogVars, providerVars, serverVars, module>>

\* Shutdown returns, or Start does with its error.
UnwindEnds ==
    /\ phase \in {"rollback", "stopping"}
    /\ todo = << >>
    /\ app' = IF phase = "stopping" THEN "stopped" ELSE "failed"
    /\ shutdown' = [p \in Callers |->
                        IF shutdown[p] = "holding" THEN "returned" ELSE shutdown[p]]
    /\ phase' = "idle"
    /\ holder' = Nobody
    /\ UNCHANGED <<built, module, todo, expired>>

\* The context given to Start or Shutdown ends; which of them ever does is the
\* caller's choice.
Expire ==
    /\ phase \in {"rollback", "stopping"}
    /\ ~expired
    /\ expired' = TRUE
    /\ UNCHANGED <<app, built, module, holder, phase, todo, shutdown>>

---------------------------------------------------------------------------
(* NewAppWithCapabilities: nobody else knows the App yet *)

\* compositionBuildError: the bus first, then modules, last one first, and the
\* factory.
BuildError == Unwind("discard", <<Bus>> \o Backwards(built, M) \o <<Factory>>)

\* The next module of the plan is built and kept, or the App is given up.
BuildModule ==
    /\ Len(built) < Len(plan)
    /\ \/ /\ built' = Append(built, plan[Len(built) + 1])
          /\ module' = [module EXCEPT ![plan[Len(built) + 1]] = "built"]
          /\ UNCHANGED <<phase, todo>>
       \/ /\ BuildError
          /\ UNCHANGED <<built, module>>
    /\ UNCHANGED <<app, holder, expired, shutdown>>

\* The modules export what their descriptors promised, or not.
CollectCapabilities ==
    /\ built = plan
    /\ \/ /\ app' = "new"
          /\ UNCHANGED <<phase, todo>>
       \/ /\ BuildError
          /\ UNCHANGED app
    /\ UNCHANGED <<built, module, holder, expired, shutdown>>

---------------------------------------------------------------------------
(* Steps of the holder of the lock, and of everybody else *)

HolderStep ==
    \/ StartFactory
    \/ \E m \in Modules : StartModule(m) \/ StopModule(m)
    \/ \E c \in Components : \/ StartComponent(c)
                             \/ StopComponent(c)
                             \/ ComponentStops(c)
    \/ StopFactory
    \/ CloseBus
    \/ BusCloses

ServerStep ==
    /\ \/ \E r \in Requests : Arrive(r) \/ Answer(r)
       \/ \E s \in Servers : ServeEnds(s) \/ ServeFails(s)
    /\ UNCHANGED <<catalogVars, providerVars, busVars, appVars>>

\* Modules and requests put publications off; timers go off.
BusStep ==
    /\ \E p \in Publications :
        \/ DelayPublish(p) /\ built # << >>
        \/ Fire(p)
        \/ Settle(p)
    /\ UNCHANGED <<catalogVars, providerVars, serverVars, appVars>>
=============================================================================
