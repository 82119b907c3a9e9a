--------------------------- MODULE RegistryCache ---------------------------
(***************************************************************************)
(* The cached answer about one service: pkg/registry/cache/rcache.go over  *)
(* the etcd registry.                                                      *)
(*                                                                         *)
(* A lookup that misses asks the registry without the lock and stores what *)
(* it got later; watch loops apply events meanwhile, to whatever is cached *)
(* by then.  Lookups start a watch loop while none has marked the service  *)
(* as watched, so there may be several.                                    *)
(***************************************************************************)
EXTENDS EtcdRegistry

CONSTANTS
    Getters,        \* concurrent callers of GetService
    TTL             \* in ticks

ASSUME CacheAssumption == TTL \in Nat

VARIABLES
    entry,      \* the cached instances; none if the service is not cached
    age,        \* ticks since ttls[service] was set
    watched,
    loop,       \* where each watch loop is; the watchers are the loops' own
    getter,     \* where each lookup is
    found,      \* what it got from the registry
    exited      \* the exit channel is closed

cacheVars == <<entry, age, watched, loop, getter, found, exited>>
vars == <<registryVars, cacheVars>>

\* ttls holds the time of set plus TTL, and isValid allows TTL more.
Lifetime == 2 * TTL

TypeOK ==
    /\ RegistryTypeOK
    /\ entry \subseteq Instances
    /\ age \in 0..(Lifetime + 1)
    /\ watched \in BOOLEAN
    /\ loop \in [Watchers -> {"none", "begun", "head", "ready", "watching"}]
    /\ getter \in [Getters -> {"idle", "asks", "sets"}]
    /\ found \in [Getters -> SUBSET Instances]
    /\ exited \in BOOLEAN

Init ==
    /\ RegistryInit
    /\ entry = {}
    /\ age = 0
    /\ watched = FALSE
    /\ loop = [w \in Watchers |-> "none"]
    /\ getter = [g \in Getters |-> "idle"]
    /\ found = [g \in Getters |-> {}]
    /\ exited = FALSE

\* Mutant: an entry never grows old.
IsValid_Forever == entry # {}

IsValid == entry # {} /\ age <= Lifetime

Set(instances) == entry' = instances /\ age' = 0

---------------------------------------------------------------------------
(* Lookups.  One that finds a valid entry changes nothing. *)

\* Bound: a loop is started only if one of Watchers is free.
Miss(g) ==
    /\ getter[g] = "idle"
    /\ ~IsValid
    /\ getter' = [getter EXCEPT ![g] = "asks"]
    /\ \/ /\ ~watched
          /\ \E w \in Watchers : /\ loop[w] = "none"
                                 /\ loop' = [loop EXCEPT ![w] = "begun"]
       \/ /\ watched \/ \A w \in Watchers : loop[w] # "none"
          /\ UNCHANGED loop
    /\ UNCHANGED <<registryVars, entry, age, watched, found, exited>>

\* GetService answers, with ErrNotFound if there is nothing, or errs otherwise.
Ask(g) ==
    /\ getter[g] = "asks"
    /\ \/ /\ Registered # {}
          /\ found' = [found EXCEPT ![g] = Registered]
          /\ getter' = [getter EXCEPT ![g] = "sets"]
       \/ /\ getter' = [getter EXCEPT ![g] = "idle"]
          /\ UNCHANGED found
    /\ UNCHANGED <<registryVars, entry, age, watched, loop, exited>>

Store(g) ==
    /\ getter[g] = "sets"
    /\ Set(found[g])
    /\ getter' = [getter EXCEPT ![g] = "idle"]
    /\ found' = [found EXCEPT ![g] = {}]
    /\ UNCHANGED <<registryVars, watched, loop, exited>>

---------------------------------------------------------------------------
(* Events *)

CachedVersions == {i[1] : i \in entry}

\* The events of a service that is not cached are let go, and so is the
\* removal of a node in a version nobody has heard of.
Update(event) ==
    IF \/ entry = {}
       \/ event.action = "delete" /\ event.instance[1] \notin CachedVersions
    THEN UNCHANGED <<entry, age>>
    ELSE Set(IF event.action = "put" THEN entry \cup {event.instance}
                                     ELSE entry \ {event.instance})

---------------------------------------------------------------------------
(* The watch loop *)

Begin(w) ==
    /\ loop[w] = "begun"
    /\ watched' = TRUE
    /\ loop' = [loop EXCEPT ![w] = "head"]
    /\ UNCHANGED <<registryVars, entry, age, getter, found, exited>>

Quits(w) ==
    /\ loop' = [loop EXCEPT ![w] = "none"]
    /\ watched' = FALSE

AtHead(w) ==
    /\ loop[w] = "head"
    /\ IF exited
       THEN Quits(w)
       ELSE loop' = [loop EXCEPT ![w] = "ready"] /\ UNCHANGED watched
    /\ UNCHANGED <<registryVars, entry, age, getter, found, exited>>

\* After the jitter; exit may have been closed since.
OpensWatch(w) ==
    /\ loop[w] = "ready"
    /\ loop' = [loop EXCEPT ![w] = "watching"]
    /\ Watch(w)
    /\ UNCHANGED <<changes, entry, age, watched, getter, found, exited>>

Applies(w) ==
    /\ loop[w] = "watching"
    /\ \E many \in 1..Len(stream[w]) : Next(w, many)
    /\ Update(stream[w][1])
    /\ UNCHANGED <<watched, loop, getter, found, exited>>

\* The watcher fails: a new one is opened after a while.
Breaks(w) ==
    /\ loop[w] = "watching"
    /\ Changes
    /\ Unwatch(w)
    /\ loop' = [loop EXCEPT ![w] = "head"]
    /\ UNCHANGED <<entry, age, watched, getter, found, exited>>

\* Mutant: nobody stops the watcher of a loop that waits in Next.
Stopped_Unnoticed(w) ==
    /\ loop[w] = "watching"
    /\ exited
    /\ stream[w] # <<>>
    /\ Unwatch(w)
    /\ Quits(w)
    /\ UNCHANGED <<changes, entry, age, getter, found, exited>>

\* The goroutine beside the loop sees exit closed and stops the watcher: Next
\* returns an error, and the loop finds that it is to quit.
Stopped(w) ==
    /\ loop[w] = "watching"
    /\ exited
    /\ Unwatch(w)
    /\ Quits(w)
    /\ UNCHANGED <<changes, entry, age, getter, found, exited>>

Stop ==
    /\ ~exited
    /\ exited' = TRUE
    /\ UNCHANGED <<registryVars, entry, age, watched, loop, getter, found>>

Tick ==
    /\ entry # {} /\ age <= Lifetime
    /\ age' = age + 1
    /\ UNCHANGED <<registryVars, entry, watched, loop, getter, found, exited>>

Lookup(g) == Ask(g) \/ Store(g)
LoopStep(w) == Begin(w) \/ AtHead(w) \/ OpensWatch(w) \/ Applies(w) \/ Stopped(w)

CacheNext ==
    \/ ProcessNext /\ UNCHANGED cacheVars
    \/ \E g \in Getters : Miss(g) \/ Lookup(g)
    \/ \E w \in Watchers : LoopStep(w) \/ Breaks(w)
    \/ Stop
    \/ Tick

Spec == Init /\ [][CacheNext]_vars

\* Lookups and loops run on, leases and entries grow old.
FairSpec ==
    /\ Spec
    /\ RegistryFairness
    /\ \A g \in Getters : WF_vars(Lookup(g))
    /\ \A w \in Watchers : WF_vars(LoopStep(w))
    /\ WF_vars(Tick)

---------------------------------------------------------------------------
(* Properties *)

\* Whatever events were lost, doubled by a second loop, applied late or out
\* of order with a lookup, once the processes of the service and the network
\* have come to rest a valid entry is what is registered.
CacheConverges == <>[](IsValid => entry = Registered)

\* After Stop no loop stays behind in a watch, one that opens its watcher
\* while Stop is called included.
LoopsEnd == exited ~> [](\A w \in Watchers : loop[w] # "watching")

---------------------------------------------------------------------------
(* What they rest on *)

\* A process whose heartbeat finds its lease alive, and so puts nothing, has
\* its key in etcd, in the version it runs.
KeptKeysAreTheirs ==
    \A n \in held : process[n] # None /\ store[n] = process[n]

\* The event is the last pending one about its node.
LastAbout(events, i) ==
    \A j \in (i + 1)..Len(events) : events[j].instance[2] # events[i].instance[2]

\* What an event says of its node.
Says(event) == IF event.action = "put" THEN event.instance[1] ELSE None

\* Whatever a watcher has not been told yet ends with the truth: the last
\* pending event about a node says what is stored under its key.
StreamsEndInTruth ==
    \A w \in open : \A i \in 1..Len(stream[w]) :
        LastAbout(stream[w], i) =>
            store[stream[w][i].instance[2]] = Says(stream[w][i])

\* The loops and the watchers etcd serves belong together: no watcher is left
\* behind by its loop.
WatchersAreLoops ==
    /\ open = {w \in Watchers : loop[w] = "watching"}
    /\ \A w \in Watchers \ open : stream[w] = <<>>

\* A service that is marked as watched, for which lookups start no loop any
\* more, has one, although each of several loops sets and clears the mark.
WatchedHasLoop ==
    watched => \E w \in Watchers : loop[w] \in {"head", "ready", "watching"}
=============================================================================
