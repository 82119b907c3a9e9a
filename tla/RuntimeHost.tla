---------------------------- MODULE RuntimeHost ----------------------------
(***************************************************************************)
(* A process: framework/runtimehost/host.go and framework/kernel/          *)
(* bootstrap.go, which listen, construct an App, start it and answer       *)
(* health probes; or App.Run of framework/core/application.go, with Debug  *)
(* waiting for signals beside it.                                          *)
(***************************************************************************)
EXTENDS AppLifecycle

VARIABLES
    way,        \* "bootstrap" or "run"
    boot,       \* how far Boot has come
    probe       \* a health probe: at, the next server it asks; ready, what
                \* it found so far; sound, what was so when it began

hostVars == <<way, boot>>
vars == <<catalogVars, providerVars, serverVars, busVars, appVars, hostVars, probe>>

NoProbe == [at |-> 0, ready |-> FALSE, sound |-> FALSE]

TypeOK ==
    /\ CatalogTypeOK /\ ProviderTypeOK /\ ServerTypeOK /\ BusTypeOK /\ AppTypeOK
    /\ way \in {"bootstrap", "run"}
    /\ boot \in {"register", "listen", "seal", "prepare", "build", "discard",
                 "wire", "start", "starting", "publish", "giveup", "up", "over",
                 "failed"}
    /\ probe \in [at : Servers \cup {0}, ready : BOOLEAN, sound : BOOLEAN]

Init ==
    /\ CatalogInit /\ ProviderInit /\ ServerInit /\ BusInit /\ AppInit
    /\ way \in {"bootstrap", "run"}
    /\ boot = "register"
    /\ probe = NoProbe

---------------------------------------------------------------------------
(* Boot, up to the start *)

\* Packages register their descriptors before main begins.
RegisterModule ==
    /\ boot = "register"
    /\ \E m \in Modules : Register(m)
    /\ UNCHANGED <<providerVars, serverVars, busVars, appVars, hostVars, probe>>

MainBegins ==
    /\ boot = "register"
    /\ boot' = "listen"
    /\ UNCHANGED <<catalogVars, providerVars, serverVars, busVars, appVars, way, probe>>

\* Both listeners, or none: when one cannot be had the other one is closed.
Listen ==
    /\ boot = "listen"
    /\ \/ /\ listener' = [s \in Servers |-> "open"]
          /\ boot' = "seal"
       \/ /\ \E S \in SUBSET Servers :
                /\ S # Servers
                /\ listener' = [s \in Servers |-> IF s \in S THEN "closed" ELSE "none"]
          /\ boot' = "failed"
    /\ UNCHANGED <<catalogVars, providerVars, busVars, appVars, way, probe>>
    /\ UNCHANGED <<started, stopping, exited, request, forced>>

\* The deferred function of Bootstrap, while the App does not own the
\* listeners.  Run's caller has no such function, and exits.
BootFails ==
    /\ boot' = "failed"
    /\ IF way = "bootstrap" THEN CloseListeners ELSE UNCHANGED listener
    /\ UNCHANGED <<started, stopping, exited, request, forced>>

SealCatalog ==
    /\ boot = "seal"
    /\ Seal
    /\ IF sealed' = "sealed"
       THEN boot' = "prepare" /\ UNCHANGED serverVars
       ELSE BootFails
    /\ UNCHANGED <<providerVars, busVars, appVars, way, probe>>

PrepareFactory ==
    /\ boot = "prepare"
    /\ \/ /\ Prepare
          /\ boot' = "build"
          /\ UNCHANGED appVars
       \/ /\ PrepareFails
          /\ BuildError
          /\ boot' = "discard"
          /\ UNCHANGED <<app, built, module, holder, expired, shutdown>>
    /\ UNCHANGED <<catalogVars, serverVars, busVars, way, probe>>

Build ==
    /\ boot = "build"
    /\ BuildModule \/ CollectCapabilities
    /\ boot' = CASE phase' = "discard" -> "discard"
                 [] app' = "new" -> "wire"
                 [] OTHER -> "build"
    /\ UNCHANGED <<catalogVars, providerVars, serverVars, busVars, way, probe>>

Discarded ==
    /\ boot = "discard"
    /\ todo = << >>
    /\ phase' = "idle"
    /\ BootFails
    /\ UNCHANGED <<catalogVars, providerVars, busVars, way, probe>>
    /\ UNCHANGED <<app, built, module, holder, todo, expired, shutdown>>

\* kernel.Bootstrap builds the applications and registers the transports; when
\* that fails the App is shut down before it was started.
Wire ==
    /\ boot = "wire" /\ way = "bootstrap"
    /\ \/ /\ boot' = "start"
          /\ UNCHANGED appVars
       \/ /\ ShutdownCalled(Boot)
          /\ boot' = "giveup"
    /\ UNCHANGED <<catalogVars, providerVars, serverVars, busVars, way, probe>>

\* Run stores the state without the lock, whatever it was.
RunBegins ==
    /\ boot = "wire" /\ way = "run"
    /\ app' = "initializing"
    /\ boot' = "start"
    /\ UNCHANGED <<built, module, holder, phase, todo, expired, shutdown>>
    /\ UNCHANGED <<catalogVars, providerVars, serverVars, busVars, way, probe>>

---------------------------------------------------------------------------
(* Boot, from the start *)

BootStarts ==
    /\ boot = "start"
    /\ \/ StartBegins /\ boot' = "starting"
       \/ StartRefused /\ boot' = "giveup"
    /\ UNCHANGED <<catalogVars, providerVars, serverVars, busVars, way, probe>>

BootStarted ==
    /\ boot = "starting"
    /\ StartEnds
    /\ boot' = IF way = "bootstrap" THEN "publish" ELSE "up"
    /\ UNCHANGED <<catalogVars, providerVars, serverVars, busVars, way, probe>>

\* Start or Shutdown unwound everything and lets go of the lock.
Unwound ==
    /\ UnwindEnds
    /\ boot' = IF holder = Boot /\ phase = "rollback" THEN "giveup" ELSE boot
    /\ UNCHANGED <<catalogVars, providerVars, serverVars, busVars, way, probe>>

\* The App gets to own the listeners; the diagnostics endpoint may refuse it.
Publish ==
    /\ boot = "publish"
    /\ \/ boot' = "up" /\ UNCHANGED appVars
       \/ boot' = "over" /\ ShutdownCalled(Boot)
    /\ UNCHANGED <<catalogVars, providerVars, serverVars, busVars, way, probe>>

\* Bootstrap returns its error; Run overwrites the state and panics.
GiveUp ==
    /\ boot = "giveup"
    /\ shutdown[Boot] \in {"idle", "returned"}
    /\ app' = IF way = "run" THEN "failed" ELSE app
    /\ BootFails
    /\ UNCHANGED <<built, module, holder, phase, todo, expired, shutdown>>
    /\ UNCHANGED <<catalogVars, providerVars, busVars, way, probe>>

\* Run's deferred Stop, when the function it was given returns.
RunReturns ==
    /\ boot = "up" /\ way = "run"
    /\ ShutdownCalled(Boot)
    /\ boot' = "over"
    /\ UNCHANGED <<catalogVars, providerVars, serverVars, busVars, way, probe>>

BootStep ==
    \/ MainBegins \/ Listen \/ SealCatalog \/ PrepareFactory \/ Build
    \/ Discarded \/ Wire \/ RunBegins \/ BootStarts \/ BootStarted
    \/ Publish \/ GiveUp

---------------------------------------------------------------------------
(* Everybody else *)

\* Whoever was given the App may stop it; Debug's signal handler has it as
\* soon as it exists.
CallShutdown(p) ==
    /\ boot = "up" \/ (way = "run" /\ app # "none")
    /\ ShutdownCalled(p)
    /\ UNCHANGED <<catalogVars, providerVars, serverVars, busVars, hostVars, probe>>

LockStep ==
    /\ \/ HolderStep
       \/ \E p \in Callers : ShutdownTakesLock(p)
    /\ UNCHANGED <<hostVars, probe>>

\* Every Shutdown is called with a timeout, and the caller of Bootstrap may end
\* the context that Start got; Run starts with one that never ends.
DeadlinePasses ==
    /\ phase = "rollback" => way = "bootstrap"
    /\ Expire
    /\ UNCHANGED <<catalogVars, providerVars, serverVars, busVars, hostVars, probe>>

EnvironmentStep ==
    /\ ServerStep \/ BusStep
    /\ UNCHANGED <<hostVars, probe>>

\* lateHealth and App.Health: the state is read once, then each server is
\* asked in turn; the answer goes out with the last one.
ProbeBegins ==
    /\ probe.at = 0
    /\ boot = "up"
    /\ app \notin {"stopped", "failed"}
    /\ probe' = [at |-> Min(Servers), ready |-> app = "ready",
                 sound |-> app = "ready" /\ \A s \in Servers : Serving(s)]
    /\ UNCHANGED <<catalogVars, providerVars, serverVars, busVars, appVars, hostVars>>

\* Mutant: the end of Serve is not looked at.
ProbeFinds_OnlyStarted(s) == probe.ready /\ s \in started

ProbeFinds(s) == probe.ready /\ Healthy(s)

ProbeAsks ==
    /\ probe.at \in Servers
    /\ probe' = IF probe.at = Max(Servers) THEN NoProbe
                ELSE [at |-> Min({s \in Servers : s > probe.at}),
                      ready |-> ProbeFinds(probe.at), sound |-> probe.sound]
    /\ UNCHANGED <<catalogVars, providerVars, serverVars, busVars, appVars, hostVars>>

Next ==
    \/ RegisterModule
    \/ BootStep
    \/ Unwound
    \/ RunReturns
    \/ \E p \in Stoppers : CallShutdown(p)
    \/ LockStep
    \/ DeadlinePasses
    \/ EnvironmentStep
    \/ ProbeBegins \/ ProbeAsks

Spec == Init /\ [][Next]_vars

\* The goroutines run; the timeout of a Shutdown passes; Serve ends when its
\* listener does; delayed handlers return.  Nothing makes request handlers
\* return or ends the context of a Start.
FairSpec ==
    /\ Spec
    /\ WF_vars(BootStep)
    /\ WF_vars(LockStep)
    /\ WF_vars(Unwound)
    /\ WF_vars(DeadlinePasses /\ phase = "stopping")
    /\ WF_vars(EnvironmentStep /\ \E s \in Servers : ServeEnds(s))
    /\ WF_vars(EnvironmentStep /\ \E p \in Publications : Settle(p))

---------------------------------------------------------------------------
(* Properties *)

\* While a module is up, everything it was built on is: the modules it
\* depends on and its databases and connections.  It takes the order of the
\* plan, of Start, of Shutdown and of every rollback together.
DependenciesOutlive ==
    \A m \in Modules : module[m] = "up" =>
        /\ \A d \in descriptors[m].dependsOn : module[d] = "up"
        /\ provider # "static" => \A r \in descriptors[m].needs : Open(r)

\* Nobody works on the App, and nobody will start it.
AtRest ==
    /\ holder = Nobody /\ phase = "idle"
    /\ \/ app \in {"stopped", "failed"}
       \/ boot = "failed"

\* An App that was stopped, or that failed to start or to be built, leaves
\* nothing behind: no module that was not shut down, no database or connection
\* that was not closed, and none that was closed twice (Prepare, Start and
\* Shutdown each close them), no component that was not told to stop, no
\* delayed handler, and no open listener unless Run's caller keeps it.
NothingLeftBehind ==
    AtRest =>
        /\ \A m \in Range(built) : module[m] = "down"
        /\ \A r \in Resources : opened[r] <= 1 /\ closed[r] = opened[r]
        /\ started \subseteq stopping
        /\ \A p \in Publications : delayed[p] \notin {"armed", "running"}
        /\ ((boot = "failed" /\ way = "bootstrap") \/ app = "stopped")
            => \A s \in Servers : listener[s] # "open"

\* While a request is in flight every module is up, unless the deadline of the
\* shutdown passed while it waited for the request.
RequestsFindModules ==
    (\E s \in Servers : InFlight(s)) /\ ~forced
    => \A m \in Range(built) : module[m] = "up"

\* A health probe that is told ready, by an App that is still so, was begun
\* while every server was serving (App.Health reads the state once, before it
\* asks the servers one by one).
ReadyMeansServing ==
    (probe.at = Max(Servers) /\ ProbeFinds(probe.at) /\ app = "ready")
    => probe.sound

\* With a platform provider no module is started after it was shut down, not
\* even by a Run that comes after a Stop and stores over its state.
NoSecondStart ==
    [][\A m \in Modules :
        (module[m] = "down" /\ provider # "static") => module'[m] = "down"]_vars

\* A Start that failed waits for a request on a server it had started.
RollbackWaits ==
    /\ phase = "rollback"
    /\ todo # << >>
    /\ \E s \in Servers : Head(todo) = Draining(s) /\ InFlight(s)

\* Every Shutdown returns, even when request handlers do not, with one
\* exception: a Start that failed rolls back under its own context, holding
\* the lock, and if that has no deadline (Run's has none) a request that is
\* never answered keeps it, and every Shutdown behind it, for ever.
ShutdownReturns ==
    \A p \in Callers :
        shutdown[p] = "waiting" ~> (shutdown[p] = "returned" \/ []RollbackWaits)

=============================================================================
