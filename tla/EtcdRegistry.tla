---------------------------- MODULE EtcdRegistry ----------------------------
(***************************************************************************)
(* The registrations of one service in etcd: pkg/registry/etcdv3.          *)
(*                                                                         *)
(* Each process of the service keeps one key, whose value names a version, *)
(* under a lease that its heartbeat (calls of Register) keeps alive.       *)
(* Watchers get the changes in order, but Next() returns only the first    *)
(* event of each response of etcd: the others of that response are lost.   *)
(***************************************************************************)
EXTENDS Naturals, Sequences, FiniteSets

CONSTANTS
    Nodes,          \* node IDs, one for each process
    Versions,
    None,
    Watchers,       \* as many watchers as there can be at a time
    MaxChanges      \* starts, stops and faults in a behaviour

ASSUME RegistryAssumption ==
    /\ None \notin Versions
    /\ MaxChanges \in Nat

VARIABLES
    process,    \* the version each process runs, None if it does not run
    held,       \* the processes that know the lease their key is under
    store,      \* the version under each key
    open,       \* the watchers etcd serves
    stream,     \* the events each of them has not taken yet
    changes

registryVars == <<process, held, store, open, stream, changes>>

\* A node of the service in one of its versions.
Instances == Versions \X Nodes
Events == [action : {"put", "delete"}, instance : Instances]

RegistryTypeOK ==
    /\ process \in [Nodes -> Versions \cup {None}]
    /\ store \in [Nodes -> Versions \cup {None}]
    /\ held \subseteq Nodes
    /\ open \subseteq Watchers
    /\ stream \in [Watchers -> Seq(Events)]
    /\ changes \in 0..MaxChanges

RegistryInit ==
    /\ process = [n \in Nodes |-> None]
    /\ store = [n \in Nodes |-> None]
    /\ held = {}
    /\ open = {}
    /\ stream = [w \in Watchers |-> <<>>]
    /\ changes = 0

\* What GetService returns.
Registered == {<<store[n], n>> : n \in {m \in Nodes : store[m] # None}}

Changes == changes < MaxChanges /\ changes' = changes + 1

Tell(action, instance) ==
    stream' = [w \in Watchers |->
                 IF w \in open
                 THEN Append(stream[w], [action |-> action, instance |-> instance])
                 ELSE stream[w]]

Put(n) ==
    /\ store' = [store EXCEPT ![n] = process[n]]
    /\ Tell("put", <<process[n], n>>)

Delete(n) ==
    /\ store' = [store EXCEPT ![n] = None]
    /\ IF store[n] = None
       THEN UNCHANGED stream
       ELSE Tell("delete", <<store[n], n>>)

---------------------------------------------------------------------------
(* Processes *)

\* A process with no memory of earlier registrations.
Start(n, v) ==
    /\ Changes
    /\ process[n] = None
    /\ process' = [process EXCEPT ![n] = v]
    /\ UNCHANGED <<held, store, open, stream>>

\* Register: with the lease alive and the service unchanged it does nothing;
\* otherwise it takes a new lease and puts the key under it.
Register(n) ==
    /\ process[n] # None
    /\ n \notin held
    /\ held' = held \cup {n}
    /\ Put(n)
    /\ UNCHANGED <<process, open, changes>>

\* The key is put, but the answer is lost and Register returns an error.
RegisterUnanswered(n) ==
    /\ Changes
    /\ process[n] # None
    /\ n \notin held
    /\ Put(n)
    /\ UNCHANGED <<process, held, open>>

Deregister(n) ==
    /\ Changes
    /\ process[n] # None
    /\ process' = [process EXCEPT ![n] = None]
    /\ held' = held \ {n}
    /\ Delete(n)
    /\ UNCHANGED open

\* The process crashes, or stops although its Deregister failed.
Vanish(n) ==
    /\ Changes
    /\ process[n] # None
    /\ process' = [process EXCEPT ![n] = None]
    /\ held' = held \ {n}
    /\ UNCHANGED <<store, open, stream>>

\* The lease of a key nobody keeps alive, or of one whose heartbeat is late.
LeaseExpires(n) ==
    /\ store[n] # None
    /\ IF n \in held THEN Changes ELSE UNCHANGED changes
    /\ held' = held \ {n}
    /\ Delete(n)
    /\ UNCHANGED <<process, open>>

ProcessNext ==
    \E n \in Nodes : \/ \E v \in Versions : Start(n, v)
                     \/ Register(n)
                     \/ RegisterUnanswered(n)
                     \/ Deregister(n)
                     \/ Vanish(n)
                     \/ LeaseExpires(n)

---------------------------------------------------------------------------
(* Watchers *)

Watch(w) ==
    /\ open' = open \cup {w}
    /\ stream' = [stream EXCEPT ![w] = <<>>]
    /\ UNCHANGED <<process, held, store>>

\* The watcher's Stop, once.  (Its test and its close are not under a lock: the
\* deferred call of a watch that failed and the one of the goroutine that saw
\* exit closed may both close, which panics; that race is left out here.)
Unwatch(w) ==
    /\ open' = open \ {w}
    /\ stream' = [stream EXCEPT ![w] = <<>>]
    /\ UNCHANGED <<process, held, store>>

\* Next: the first event of a response with `many' events.
Next(w, many) ==
    /\ many \in 1..Len(stream[w])
    /\ stream' = [stream EXCEPT ![w] = SubSeq(@, many + 1, Len(@))]
    /\ UNCHANGED <<process, held, store, open, changes>>

\* Running processes register and leases of dead ones run out.
RegistryFairness ==
    \A n \in Nodes : /\ WF_registryVars(Register(n))
                     /\ WF_registryVars(LeaseExpires(n) /\ UNCHANGED changes)
=============================================================================
