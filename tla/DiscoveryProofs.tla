-------------------------- MODULE DiscoveryProofs --------------------------
(***************************************************************************)
(* Theorems about RegistryCache and the registry under it, for any number  *)
(* of nodes, versions, watchers and lookups and any bound on the changes:  *)
(* what the convergence of the cache rests on.                             *)
(***************************************************************************)
EXTENDS RegistryCache, TLAPS

---------------------------------------------------------------------------
(* Streams of events *)

\* An event added at the end of a stream leaves the others where they are.
LEMMA Added ==
    ASSUME NEW S, NEW events \in Seq(S), NEW e \in S
    PROVE  /\ Append(events, e) \in Seq(S)
           /\ Len(events) \in Nat
           /\ Len(Append(events, e)) = Len(events) + 1
           /\ Append(events, e)[Len(events) + 1] = e
           /\ \A i \in 1..Len(events) : Append(events, e)[i] = events[i]
  OBVIOUS

\* Taking a response off a stream leaves the later events in their order.
LEMMA Taken ==
    ASSUME NEW S, NEW events \in Seq(S), NEW many \in 1..Len(events)
    PROVE  LET rest == SubSeq(events, many + 1, Len(events))
           IN  /\ rest \in Seq(S)
               /\ Len(events) \in Nat /\ many \in Nat
               /\ Len(rest) = Len(events) - many
               /\ \A i \in 1..Len(rest) :
                     i + many \in 1..Len(events) /\ rest[i] = events[i + many]
  <1>1. many \in Nat /\ Len(events) \in Nat /\ 1 <= many /\ many <= Len(events)
    OBVIOUS
  <1>2. \A i \in (many + 1)..Len(events) : events[i] \in S
    BY <1>1
  <1>3. SubSeq(events, many + 1, Len(events)) \in Seq(S)
    BY <1>1, <1>2
  <1>4. Len(SubSeq(events, many + 1, Len(events))) = Len(events) - many
    BY <1>1
  <1>5. ASSUME NEW i \in 1..(Len(events) - many)
        PROVE  /\ i + many \in 1..Len(events)
               /\ SubSeq(events, many + 1, Len(events))[i] = events[i + many]
    BY <1>1
  <1> QED
    BY <1>1, <1>3, <1>4, <1>5

---------------------------------------------------------------------------
(* Types *)

\* An event about a node of the service goes to every open watcher.
LEMMA TellType ==
    ASSUME stream \in [Watchers -> Seq(Events)], NEW action \in {"put", "delete"},
           NEW instance \in Instances, Tell(action, instance)
    PROVE  stream' \in [Watchers -> Seq(Events)]
  <1>1. [action |-> action, instance |-> instance] \in Events
    BY DEF Events
  <1>2. \A w \in Watchers :
           Append(stream[w], [action |-> action, instance |-> instance]) \in Seq(Events)
    BY <1>1
  <1> QED
    BY <1>2 DEF Tell

\* Putting and deleting a key keep the table and the streams well typed.
LEMMA KeyTypes ==
    ASSUME RegistryTypeOK, NEW n \in Nodes,
           (process[n] # None /\ Put(n)) \/ Delete(n)
    PROVE  /\ store' \in [Nodes -> Versions \cup {None}]
           /\ stream' \in [Watchers -> Seq(Events)]
  <1>a. /\ process[n] \in Versions \cup {None} /\ store[n] \in Versions \cup {None}
        /\ store \in [Nodes -> Versions \cup {None}]
        /\ stream \in [Watchers -> Seq(Events)]
    BY DEF RegistryTypeOK
  <1>1. CASE process[n] # None /\ Put(n)
    <2>1. <<process[n], n>> \in Instances /\ Tell("put", <<process[n], n>>)
      BY <1>1, <1>a DEF Put, Instances
    <2>2. stream' \in [Watchers -> Seq(Events)]
      BY <1>a, <2>1, TellType
    <2> QED
      BY <1>1, <1>a, <2>2 DEF Put
  <1>2. CASE Delete(n)
    <2>1. store' \in [Nodes -> Versions \cup {None}]
      BY <1>2, <1>a DEF Delete
    <2>2. CASE store[n] = None
      BY <1>2, <1>a, <2>1, <2>2 DEF Delete
    <2>3. CASE store[n] # None
      <3>1. <<store[n], n>> \in Instances /\ Tell("delete", <<store[n], n>>)
        BY <1>2, <1>a, <2>3 DEF Delete, Instances
      <3> QED
        BY <1>a, <2>1, <3>1, TellType
    <2> QED
      BY <2>2, <2>3
  <1> QED
    BY <1>1, <1>2

\* The count of the changes stays within its bound.
LEMMA ChangesType ==
    ASSUME changes \in 0..MaxChanges, Changes \/ UNCHANGED changes
    PROVE  changes' \in 0..MaxChanges
  BY RegistryAssumption DEF Changes

\* Processes keep the registry well typed.
LEMMA ProcessTypes ==
    ASSUME RegistryTypeOK, ProcessNext
    PROVE  RegistryTypeOK'
  <1>a. /\ process \in [Nodes -> Versions \cup {None}]
        /\ store \in [Nodes -> Versions \cup {None}]
        /\ held \subseteq Nodes
        /\ open \subseteq Watchers
        /\ stream \in [Watchers -> Seq(Events)]
        /\ changes \in 0..MaxChanges
    BY DEF RegistryTypeOK
  <1>b. PICK n \in Nodes : \/ \E v \in Versions : Start(n, v)
                           \/ Register(n)
                           \/ RegisterUnanswered(n)
                           \/ Deregister(n)
                           \/ Vanish(n)
                           \/ LeaseExpires(n)
    BY DEF ProcessNext
  <1>1. changes' \in 0..MaxChanges
    <2>1. Changes \/ UNCHANGED changes
      BY <1>b DEF Start, Register, RegisterUnanswered, Deregister, Vanish, LeaseExpires
    <2> QED
      BY <1>a, <2>1, ChangesType
  <1>2. process' \in [Nodes -> Versions \cup {None}] /\ held' \subseteq Nodes
    <2>1. ASSUME NEW v \in Versions, Start(n, v)
          PROVE  process' \in [Nodes -> Versions \cup {None}] /\ held' \subseteq Nodes
      BY <1>a, <2>1 DEF Start
    <2>2. CASE Register(n) \/ RegisterUnanswered(n) \/ LeaseExpires(n)
      BY <1>a, <2>2 DEF Register, RegisterUnanswered, LeaseExpires
    <2>3. CASE Deregister(n) \/ Vanish(n)
      BY <1>a, <2>3 DEF Deregister, Vanish
    <2> QED
      BY <1>b, <2>1, <2>2, <2>3
  <1>3. /\ store' \in [Nodes -> Versions \cup {None}]
        /\ stream' \in [Watchers -> Seq(Events)]
    <2>1. \/ UNCHANGED <<store, stream>>
          \/ (process[n] # None /\ Put(n)) \/ Delete(n)
      BY <1>b DEF Start, Register, RegisterUnanswered, Deregister, Vanish, LeaseExpires
    <2>2. CASE UNCHANGED <<store, stream>>
      BY <1>a, <2>2
    <2>3. CASE (process[n] # None /\ Put(n)) \/ Delete(n)
      BY <2>3, KeyTypes
    <2> QED
      BY <2>1, <2>2, <2>3
  <1>4. UNCHANGED open
    BY <1>b DEF Start, Register, RegisterUnanswered, Deregister, Vanish, LeaseExpires
  <1> QED
    BY <1>a, <1>1, <1>2, <1>3, <1>4 DEF RegistryTypeOK

\* Watchers keep the registry well typed.
LEMMA WatcherTypes ==
    ASSUME RegistryTypeOK, NEW w \in Watchers,
           \/ Watch(w) \/ Unwatch(w)
           \/ \E many \in 1..Len(stream[w]) : Next(w, many),
           Changes \/ UNCHANGED changes
    PROVE  RegistryTypeOK'
  <1>a. /\ process \in [Nodes -> Versions \cup {None}]
        /\ store \in [Nodes -> Versions \cup {None}]
        /\ held \subseteq Nodes
        /\ open \subseteq Watchers
        /\ stream \in [Watchers -> Seq(Events)]
        /\ changes \in 0..MaxChanges
    BY DEF RegistryTypeOK
  <1>1. changes' \in 0..MaxChanges
    BY <1>a, ChangesType
  <1>2. UNCHANGED <<process, held, store>> /\ open' \subseteq Watchers
    BY <1>a DEF Watch, Unwatch, Next
  <1>3. stream' \in [Watchers -> Seq(Events)]
    <2>1. CASE Watch(w) \/ Unwatch(w)
      <3>1. << >> \in Seq(Events)
        OBVIOUS
      <3> QED
        BY <1>a, <2>1, <3>1 DEF Watch, Unwatch
    <2>2. ASSUME NEW many \in 1..Len(stream[w]), Next(w, many)
          PROVE  stream' \in [Watchers -> Seq(Events)]
      <3>1. SubSeq(stream[w], many + 1, Len(stream[w])) \in Seq(Events)
        BY <1>a, Taken
      <3>2. stream' = [stream EXCEPT ![w] = SubSeq(stream[w], many + 1, Len(stream[w]))]
        BY <2>2 DEF Next
      <3> QED
        BY <1>a, <3>1, <3>2
    <2> QED
      BY <2>1, <2>2
  <1> QED
    BY <1>a, <1>1, <1>2, <1>3 DEF RegistryTypeOK

\* An event changes the entry by one instance.
LEMMA UpdateType ==
    ASSUME entry \subseteq Instances, age \in 0..(Lifetime + 1), NEW event \in Events,
           Update(event)
    PROVE  entry' \subseteq Instances /\ age' \in 0..(Lifetime + 1)
  <1>1. event.instance \in Instances
    BY DEF Events
  <1>2. \/ UNCHANGED <<entry, age>>
        \/ /\ age' = 0
           /\ entry' = entry \cup {event.instance} \/ entry' = entry \ {event.instance}
    BY DEF Update, Set
  <1>3. 0 \in 0..(Lifetime + 1)
    BY CacheAssumption DEF Lifetime
  <1>4. CASE UNCHANGED <<entry, age>>
    BY <1>4
  <1>5. CASE ~UNCHANGED <<entry, age>>
    BY <1>1, <1>2, <1>3, <1>5
  <1> QED
    BY <1>4, <1>5

\* What etcd returns are instances of the service.
LEMMA RegisteredType ==
    ASSUME RegistryTypeOK PROVE Registered \subseteq Instances
  BY DEF RegistryTypeOK, Registered, Instances

\* Every step keeps the types.
LEMMA TypeStep == TypeOK /\ [CacheNext]_vars => TypeOK'
  <1> SUFFICES ASSUME TypeOK, [CacheNext]_vars PROVE TypeOK'
    OBVIOUS
  <1>a. /\ RegistryTypeOK
        /\ entry \subseteq Instances
        /\ age \in 0..(Lifetime + 1)
        /\ watched \in BOOLEAN
        /\ loop \in [Watchers -> {"none", "begun", "head", "ready", "watching"}]
        /\ getter \in [Getters -> {"idle", "asks", "sets"}]
        /\ found \in [Getters -> SUBSET Instances]
        /\ exited \in BOOLEAN
    BY DEF TypeOK
  <1>b. UNCHANGED registryVars => RegistryTypeOK'
    BY <1>a DEF RegistryTypeOK, registryVars
  <1>c. Lifetime \in Nat /\ 0 \in 0..(Lifetime + 1)
    BY CacheAssumption DEF Lifetime
  <1>1. CASE ProcessNext /\ UNCHANGED cacheVars
    <2>1. RegistryTypeOK'
      BY <1>1, <1>a, ProcessTypes
    <2>2. UNCHANGED cacheVars
      BY <1>1
    <2> QED
      BY <1>a, <2>1, <2>2 DEF TypeOK, cacheVars
  <1>2. ASSUME NEW g \in Getters, Miss(g) PROVE TypeOK'
    <2>1. getter' \in [Getters -> {"idle", "asks", "sets"}]
      BY <1>2, <1>a DEF Miss
    <2>2. loop' \in [Watchers -> {"none", "begun", "head", "ready", "watching"}]
      BY <1>2, <1>a DEF Miss
    <2>3. UNCHANGED <<registryVars, entry, age, watched, found, exited>>
      BY <1>2 DEF Miss
    <2> QED
      BY <1>a, <1>b, <2>1, <2>2, <2>3 DEF TypeOK
  <1>3. ASSUME NEW g \in Getters, Ask(g) PROVE TypeOK'
    <2>1. getter' \in [Getters -> {"idle", "asks", "sets"}]
      BY <1>3, <1>a DEF Ask
    <2>2. found' \in [Getters -> SUBSET Instances]
      BY <1>3, <1>a, RegisteredType DEF Ask
    <2>3. UNCHANGED <<registryVars, entry, age, watched, loop, exited>>
      BY <1>3 DEF Ask
    <2> QED
      BY <1>a, <1>b, <2>1, <2>2, <2>3 DEF TypeOK
  <1>4. ASSUME NEW g \in Getters, Store(g) PROVE TypeOK'
    <2>1. getter' \in [Getters -> {"idle", "asks", "sets"}]
      BY <1>4, <1>a DEF Store
    <2>2. found' \in [Getters -> SUBSET Instances]
      BY <1>4, <1>a DEF Store
    <2>3. entry' = found[g] /\ age' = 0
      BY <1>4 DEF Store, Set
    <2>4. UNCHANGED <<registryVars, watched, loop, exited>>
      BY <1>4 DEF Store
    <2> QED
      BY <1>a, <1>b, <1>c, <2>1, <2>2, <2>3, <2>4 DEF TypeOK
  <1>5. ASSUME NEW w \in Watchers, Begin(w) \/ AtHead(w) PROVE TypeOK'
    <2>1. /\ watched' \in BOOLEAN
          /\ loop' \in [Watchers -> {"none", "begun", "head", "ready", "watching"}]
      BY <1>5, <1>a DEF Begin, AtHead, Quits
    <2>2. UNCHANGED <<registryVars, entry, age, getter, found, exited>>
      BY <1>5 DEF Begin, AtHead
    <2> QED
      BY <1>a, <1>b, <2>1, <2>2 DEF TypeOK
  <1>6. ASSUME NEW w \in Watchers, OpensWatch(w) \/ Breaks(w) \/ Stopped(w) PROVE TypeOK'
    <2>1. /\ Watch(w) \/ Unwatch(w)
          /\ Changes \/ UNCHANGED changes
          /\ UNCHANGED <<entry, age, getter, found, exited>>
      BY <1>6 DEF OpensWatch, Breaks, Stopped
    <2>2. RegistryTypeOK'
      BY <1>a, <2>1, WatcherTypes
    <2>3. /\ watched' \in BOOLEAN
          /\ loop' \in [Watchers -> {"none", "begun", "head", "ready", "watching"}]
      BY <1>6, <1>a DEF OpensWatch, Breaks, Stopped, Quits
    <2> QED
      BY <1>a, <2>1, <2>2, <2>3 DEF TypeOK
  <1>7. ASSUME NEW w \in Watchers, Applies(w) PROVE TypeOK'
    <2>1. PICK many \in 1..Len(stream[w]) : Next(w, many)
      BY <1>7 DEF Applies
    <2>2. RegistryTypeOK'
      BY <1>a, <2>1, WatcherTypes DEF Next
    <2>3. stream[w][1] \in Events
      <3>1. stream[w] \in Seq(Events)
        BY <1>a DEF RegistryTypeOK
      <3>2. Len(stream[w]) \in Nat /\ 1 <= Len(stream[w])
        BY <2>1, <3>1
      <3> QED
        BY <3>1, <3>2
    <2>4. entry' \subseteq Instances /\ age' \in 0..(Lifetime + 1)
      BY <1>7, <1>a, <2>3, UpdateType DEF Applies
    <2>5. UNCHANGED <<watched, loop, getter, found, exited>>
      BY <1>7 DEF Applies
    <2> QED
      BY <1>a, <2>2, <2>4, <2>5 DEF TypeOK
  <1>8. CASE Stop
    BY <1>8, <1>a, <1>b DEF Stop, TypeOK
  <1>9. CASE Tick
    <2>1. age' \in 0..(Lifetime + 1)
      BY <1>9, <1>a, <1>c DEF Tick
    <2> QED
      BY <1>9, <1>a, <1>b, <2>1 DEF Tick, TypeOK
  <1>10. CASE UNCHANGED vars
    BY <1>10, <1>a, <1>b DEF vars, cacheVars, TypeOK
  <1> QED
    BY <1>1, <1>2, <1>3, <1>4, <1>5, <1>6, <1>7, <1>8, <1>9, <1>10
    DEF CacheNext, Lookup, LoopStep

\* The types of the registry and of the cache.
THEOREM TypeCorrect == Spec => []TypeOK
  <1>1. Init => TypeOK
    <2> SUFFICES ASSUME Init PROVE TypeOK
      OBVIOUS
    <2>1. RegistryTypeOK
      <3>1. << >> \in Seq(Events)
        OBVIOUS
      <3>2. 0 \in 0..MaxChanges
        BY RegistryAssumption
      <3> QED
        BY <3>1, <3>2 DEF Init, RegistryInit, RegistryTypeOK
    <2>2. 0 \in 0..(Lifetime + 1)
      BY CacheAssumption DEF Lifetime
    <2> QED
      BY <2>1, <2>2 DEF Init, TypeOK
  <1> QED
    BY <1>1, TypeStep, PTL DEF Spec

---------------------------------------------------------------------------
(* Who changes what *)

\* The steps of the cache by what they do to the registry and to the loops.
LEMMA CacheSteps ==
    ASSUME [CacheNext]_vars
    PROVE  \/ ProcessNext /\ UNCHANGED <<loop, watched>>
           \/ UNCHANGED <<registryVars, loop, watched>>
           \/ \E w \in Watchers :
                 \/ /\ UNCHANGED <<registryVars, watched>>
                    /\ loop[w] = "none" /\ loop' = [loop EXCEPT ![w] = "begun"]
                 \/ UNCHANGED registryVars /\ Begin(w)
                 \/ UNCHANGED registryVars /\ AtHead(w)
                 \/ Watch(w) /\ OpensWatch(w)
                 \/ Unwatch(w) /\ (Breaks(w) \/ Stopped(w))
                 \/ /\ loop[w] = "watching"
                    /\ \E many \in 1..Len(stream[w]) : Next(w, many)
                    /\ UNCHANGED <<loop, watched>>
  <1>1. ASSUME NEW g \in Getters, Miss(g)
        PROVE  \/ UNCHANGED <<registryVars, loop, watched>>
               \/ \E w \in Watchers :
                     /\ UNCHANGED <<registryVars, watched>>
                     /\ loop[w] = "none" /\ loop' = [loop EXCEPT ![w] = "begun"]
    BY <1>1 DEF Miss
  <1>2. ASSUME NEW g \in Getters, Lookup(g)
        PROVE  UNCHANGED <<registryVars, loop, watched>>
    BY <1>2 DEF Lookup, Ask, Store
  <1>3. ASSUME NEW w \in Watchers, LoopStep(w) \/ Breaks(w)
        PROVE  \/ UNCHANGED registryVars /\ Begin(w)
               \/ UNCHANGED registryVars /\ AtHead(w)
               \/ Watch(w) /\ OpensWatch(w)
               \/ Unwatch(w) /\ (Breaks(w) \/ Stopped(w))
               \/ /\ loop[w] = "watching"
                  /\ \E many \in 1..Len(stream[w]) : Next(w, many)
                  /\ UNCHANGED <<loop, watched>>
    BY <1>3 DEF LoopStep, Begin, AtHead, OpensWatch, Breaks, Stopped, Applies
  <1>4. CASE Stop \/ Tick \/ UNCHANGED vars
    BY <1>4 DEF Stop, Tick, vars, cacheVars
  <1>5. CASE ProcessNext /\ UNCHANGED cacheVars
    BY <1>5 DEF cacheVars
  <1> QED
    BY <1>1, <1>2, <1>3, <1>4, <1>5 DEF CacheNext

---------------------------------------------------------------------------
(* Keys and their processes *)

\* A process that keeps its lease alive has its own version under its key.
THEOREM KeptKeys == Spec => []KeptKeysAreTheirs
  <1>1. Init => KeptKeysAreTheirs
    BY DEF Init, RegistryInit, KeptKeysAreTheirs
  <1>2. TypeOK /\ KeptKeysAreTheirs /\ [CacheNext]_vars => KeptKeysAreTheirs'
    <2> SUFFICES ASSUME TypeOK, KeptKeysAreTheirs, [CacheNext]_vars PROVE KeptKeysAreTheirs'
      OBVIOUS
    <2>1. CASE ProcessNext
      <3>1. PICK n \in Nodes : \/ \E v \in Versions : Start(n, v)
                               \/ Register(n)
                               \/ RegisterUnanswered(n)
                               \/ Deregister(n)
                               \/ Vanish(n)
                               \/ LeaseExpires(n)
        BY <2>1 DEF ProcessNext
      <3>2. process \in [Nodes -> Versions \cup {None}]
            /\ store \in [Nodes -> Versions \cup {None}] /\ held \subseteq Nodes
        BY DEF TypeOK, RegistryTypeOK
      <3>3. \A m \in Nodes \ {n} :
               /\ process'[m] = process[m] /\ store'[m] = store[m]
               /\ m \in held' => m \in held
        BY <3>1, <3>2 DEF Start, Register, RegisterUnanswered, Deregister, Vanish,
                          LeaseExpires, Put, Delete
      <3>4. n \in held' => process'[n] # None /\ store'[n] = process'[n]
        <4>1. CASE Register(n)
          BY <3>2, <4>1 DEF Register, Put
        <4>2. CASE RegisterUnanswered(n) \/ Deregister(n) \/ Vanish(n) \/ LeaseExpires(n)
          BY <4>2 DEF RegisterUnanswered, Deregister, Vanish, LeaseExpires
        <4>3. CASE \E v \in Versions : Start(n, v)
          <5>1. process[n] = None /\ held' = held
            BY <4>3 DEF Start
          <5> QED
            BY <5>1 DEF KeptKeysAreTheirs
        <4> QED
          BY <3>1, <4>1, <4>2, <4>3
      <3>5. held' \subseteq Nodes
        BY <3>1, <3>2 DEF Start, Register, RegisterUnanswered, Deregister, Vanish, LeaseExpires
      <3> QED
        BY <3>3, <3>4, <3>5 DEF KeptKeysAreTheirs
    <2>2. CASE UNCHANGED <<process, held, store>>
      BY <2>2 DEF KeptKeysAreTheirs
    <2> QED
      BY <2>1, <2>2, CacheSteps DEF Watch, Unwatch, Next, registryVars
  <1> QED
    BY <1>1, <1>2, TypeCorrect, PTL DEF Spec

---------------------------------------------------------------------------
(* Loops and their watchers *)

\* No watcher is left behind by its loop, and a watched service has a loop.
LEMMA LoopInv ==
    TypeOK /\ WatchersAreLoops /\ WatchedHasLoop /\ [CacheNext]_vars
        => (WatchersAreLoops /\ WatchedHasLoop)'
  <1> SUFFICES ASSUME TypeOK, WatchersAreLoops, WatchedHasLoop, [CacheNext]_vars
               PROVE  (WatchersAreLoops /\ WatchedHasLoop)'
    OBVIOUS
  <1>a. /\ open \subseteq Watchers
        /\ stream \in [Watchers -> Seq(Events)]
        /\ loop \in [Watchers -> {"none", "begun", "head", "ready", "watching"}]
    BY DEF TypeOK, RegistryTypeOK
  <1>b. /\ \A w \in Watchers : w \in open <=> loop[w] = "watching"
        /\ \A w \in Watchers : w \notin open => stream[w] = <<>>
    BY DEF WatchersAreLoops
  <1>c. ASSUME open' \subseteq Watchers,
               \A w \in Watchers : w \in open' <=> loop'[w] = "watching",
               \A w \in Watchers : w \notin open' => stream'[w] = <<>>
        PROVE  WatchersAreLoops'
    BY <1>c DEF WatchersAreLoops
  <1>1. CASE ProcessNext /\ UNCHANGED <<loop, watched>>
    <2>1. UNCHANGED open
      BY <1>1 DEF ProcessNext, Start, Register, RegisterUnanswered, Deregister, Vanish,
                  LeaseExpires
    <2>2. ASSUME NEW w \in Watchers, w \notin open PROVE stream'[w] = stream[w]
      BY <1>1, <2>2 DEF ProcessNext, Start, Register, RegisterUnanswered, Deregister, Vanish,
                        LeaseExpires, Put, Delete, Tell
    <2>3. WatchersAreLoops'
      BY <1>1, <1>a, <1>b, <1>c, <2>1, <2>2
    <2> QED
      BY <1>1, <2>3 DEF WatchedHasLoop
  <1>2. CASE UNCHANGED <<registryVars, loop, watched>>
    BY <1>2 DEF registryVars, WatchersAreLoops, WatchedHasLoop
  <1>3. ASSUME NEW w \in Watchers, UNCHANGED registryVars,
               \/ /\ UNCHANGED watched
                  /\ loop[w] = "none" /\ loop' = [loop EXCEPT ![w] = "begun"]
               \/ Begin(w)
               \/ AtHead(w)
        PROVE  (WatchersAreLoops /\ WatchedHasLoop)'
    <2>1. /\ loop[w] # "watching" /\ loop'[w] # "watching"
          /\ \A x \in Watchers \ {w} : loop'[x] = loop[x]
      BY <1>3, <1>a DEF Begin, AtHead, Quits
    <2>2. WatchersAreLoops'
      BY <1>3, <1>a, <1>b, <1>c, <2>1 DEF registryVars
    <2>3. WatchedHasLoop'
      <3>1. CASE loop[w] = "none" /\ UNCHANGED watched
        <4>1. loop[w] = "none"
          BY <3>1
        <4> QED
          BY <2>1, <3>1, <4>1 DEF WatchedHasLoop
      <3>2. CASE Begin(w)
        <4>1. loop'[w] = "head"
          BY <1>a, <3>2 DEF Begin
        <4> QED
          BY <4>1 DEF WatchedHasLoop
      <3>3. CASE AtHead(w)
        <4>1. \/ watched' = FALSE
              \/ UNCHANGED watched /\ loop'[w] = "ready"
          BY <1>a, <3>3 DEF AtHead, Quits
        <4> QED
          BY <4>1 DEF WatchedHasLoop
      <3> QED
        BY <1>3, <3>1, <3>2, <3>3
    <2> QED
      BY <2>2, <2>3
  <1>4. ASSUME NEW w \in Watchers, Watch(w), OpensWatch(w)
        PROVE  (WatchersAreLoops /\ WatchedHasLoop)'
    <2>1. /\ loop'[w] = "watching" /\ UNCHANGED watched
          /\ \A x \in Watchers \ {w} : loop'[x] = loop[x]
      BY <1>4, <1>a DEF OpensWatch
    <2>2. open' = open \cup {w} /\ \A x \in Watchers \ {w} : stream'[x] = stream[x]
      BY <1>4, <1>a DEF Watch
    <2>3. WatchersAreLoops'
      BY <1>a, <1>b, <1>c, <2>1, <2>2
    <2> QED
      BY <2>1, <2>3 DEF WatchedHasLoop
  <1>5. ASSUME NEW w \in Watchers, Unwatch(w), Breaks(w) \/ Stopped(w)
        PROVE  (WatchersAreLoops /\ WatchedHasLoop)'
    <2>1. /\ loop'[w] # "watching"
          /\ loop'[w] = "head" \/ watched' = FALSE
          /\ \A x \in Watchers \ {w} : loop'[x] = loop[x]
      BY <1>5, <1>a DEF Breaks, Stopped, Quits
    <2>2. /\ open' = open \ {w} /\ stream'[w] = <<>>
          /\ \A x \in Watchers \ {w} : stream'[x] = stream[x]
      BY <1>5, <1>a DEF Unwatch
    <2>3. WatchersAreLoops'
      BY <1>a, <1>b, <1>c, <2>1, <2>2
    <2> QED
      BY <2>1, <2>3 DEF WatchedHasLoop
  <1>6. ASSUME NEW w \in Watchers, loop[w] = "watching", UNCHANGED <<loop, watched>>,
               NEW many \in 1..Len(stream[w]), Next(w, many)
        PROVE  (WatchersAreLoops /\ WatchedHasLoop)'
    <2>1. UNCHANGED open /\ \A x \in Watchers \ {w} : stream'[x] = stream[x]
      BY <1>6, <1>a DEF Next
    <2>2. w \in open
      BY <1>6, <1>b
    <2>3. WatchersAreLoops'
      BY <1>6, <1>a, <1>b, <1>c, <2>1, <2>2
    <2> QED
      BY <1>6, <2>3 DEF WatchedHasLoop
  <1> QED
    BY <1>1, <1>2, <1>3, <1>4, <1>5, <1>6, CacheSteps

\* Every watcher that etcd serves belongs to a loop that waits for it, and a
\* service that lookups take for watched has a loop that goes on.
THEOREM LoopsAndWatchers == Spec => [](WatchersAreLoops /\ WatchedHasLoop)
  <1>1. Init => WatchersAreLoops /\ WatchedHasLoop
    BY DEF Init, RegistryInit, WatchersAreLoops, WatchedHasLoop
  <1> QED
    BY <1>1, LoopInv, TypeCorrect, PTL DEF Spec

---------------------------------------------------------------------------
(* Streams and the table *)

\* The last event about a node of a longer stream is the new one, or was the
\* last about its node before.
LEMMA LastAfterAdd ==
    ASSUME NEW events \in Seq(Events), NEW e \in Events,
           NEW i \in 1..Len(Append(events, e)), LastAbout(Append(events, e), i)
    PROVE  \/ i = Len(events) + 1 /\ Append(events, e)[i] = e
           \/ /\ i \in 1..Len(events) /\ Append(events, e)[i] = events[i]
              /\ LastAbout(events, i)
              /\ events[i].instance[2] # e.instance[2]
  <1> DEFINE longer == Append(events, e)
  <1>1. /\ Len(events) \in Nat /\ Len(longer) = Len(events) + 1
        /\ longer[Len(events) + 1] = e
        /\ \A j \in 1..Len(events) : longer[j] = events[j]
    BY Added
  <1> HIDE DEF longer
  <1>2. i \in Nat /\ 1 <= i /\ i <= Len(events) + 1
    BY <1>1 DEF longer
  <1>3. \A j \in (i + 1)..Len(longer) : longer[j].instance[2] # longer[i].instance[2]
    BY DEF LastAbout, longer
  <1>4. CASE i = Len(events) + 1
    BY <1>1, <1>4 DEF longer
  <1>5. CASE i # Len(events) + 1
    <2>1. i \in 1..Len(events) /\ Len(events) + 1 \in (i + 1)..Len(longer)
      BY <1>1, <1>2, <1>5
    <2>2. longer[i] = events[i]
      BY <1>1, <2>1
    <2>3. events[i].instance[2] # e.instance[2]
      BY <1>1, <1>3, <2>1, <2>2
    <2>4. ASSUME NEW j \in (i + 1)..Len(events)
          PROVE  events[j].instance[2] # events[i].instance[2]
      <3>1. j \in 1..Len(events) /\ j \in (i + 1)..Len(longer)
        BY <1>1, <1>2
      <3> QED
        BY <1>1, <1>3, <2>2, <3>1
    <2> QED
      BY <2>1, <2>2, <2>3, <2>4 DEF LastAbout, longer
  <1> QED
    BY <1>4, <1>5

\* The last event about a node of what is left of a stream was the last.
LEMMA LastAfterTake ==
    ASSUME NEW events \in Seq(Events), NEW many \in 1..Len(events),
           NEW i \in 1..Len(SubSeq(events, many + 1, Len(events))),
           LastAbout(SubSeq(events, many + 1, Len(events)), i)
    PROVE  /\ i + many \in 1..Len(events)
           /\ SubSeq(events, many + 1, Len(events))[i] = events[i + many]
           /\ LastAbout(events, i + many)
  <1> DEFINE rest == SubSeq(events, many + 1, Len(events))
  <1>1. /\ Len(events) \in Nat /\ many \in Nat /\ Len(rest) = Len(events) - many
        /\ \A j \in 1..Len(rest) :
              j + many \in 1..Len(events) /\ rest[j] = events[j + many]
    BY Taken
  <1> HIDE DEF rest
  <1>2. i \in 1..Len(rest) /\ i \in Nat
    BY DEF rest
  <1>3. \A j \in (i + 1)..Len(rest) : rest[j].instance[2] # rest[i].instance[2]
    BY DEF LastAbout, rest
  <1>4. ASSUME NEW j \in ((i + many) + 1)..Len(events)
        PROVE  events[j].instance[2] # events[i + many].instance[2]
    <2>1. j - many \in (i + 1)..Len(rest) /\ j - many \in 1..Len(rest)
      BY <1>1, <1>2
    <2>2. (j - many) + many = j
      BY <1>1
    <2>3. rest[j - many] = events[j]
      BY <1>1, <2>1, <2>2
    <2>4. rest[i] = events[i + many]
      BY <1>1, <1>2
    <2> QED
      BY <1>3, <2>1, <2>3, <2>4
  <1> QED
    BY <1>1, <1>2, <1>4 DEF LastAbout, rest

\* An event that is told as its key changes is the truth about it.
LEMMA TellsTheTruth ==
    ASSUME TypeOK, StreamsEndInTruth, NEW n \in Nodes, NEW v,
           NEW action \in {"put", "delete"}, <<v, n>> \in Instances,
           Tell(action, <<v, n>>), UNCHANGED open,
           store'[n] = IF action = "put" THEN v ELSE None,
           \A m \in Nodes \ {n} : store'[m] = store[m]
    PROVE  StreamsEndInTruth'
  <1> DEFINE e == [action |-> action, instance |-> <<v, n>>]
  <1>1. e \in Events /\ e.instance[2] = n /\ Says(e) = store'[n]
    BY DEF Events, Says
  <1> SUFFICES ASSUME NEW w \in open, NEW i \in 1..Len(stream'[w]),
                      LastAbout(stream'[w], i)
               PROVE  store'[stream'[w][i].instance[2]] = Says(stream'[w][i])
    BY DEF StreamsEndInTruth
  <1>2. w \in Watchers /\ stream[w] \in Seq(Events)
    BY DEF TypeOK, RegistryTypeOK
  <1>3. stream'[w] = Append(stream[w], e)
    BY <1>2 DEF Tell
  <1> HIDE DEF e
  <1>4. \/ stream'[w][i] = e
        \/ /\ i \in 1..Len(stream[w]) /\ stream'[w][i] = stream[w][i]
           /\ LastAbout(stream[w], i)
           /\ stream[w][i].instance[2] # n
    BY <1>1, <1>2, <1>3, LastAfterAdd
  <1>5. CASE stream'[w][i] = e
    BY <1>1, <1>5
  <1>6. CASE /\ i \in 1..Len(stream[w]) /\ stream'[w][i] = stream[w][i]
             /\ LastAbout(stream[w], i)
             /\ stream[w][i].instance[2] # n
    <2>1. store[stream[w][i].instance[2]] = Says(stream[w][i])
      BY <1>6 DEF StreamsEndInTruth
    <2>2. stream[w][i] \in Events
      BY <1>2, <1>6
    <2>3. stream[w][i].instance[2] \in Nodes
      BY <2>2 DEF Events, Instances
    <2>4. store'[stream[w][i].instance[2]] = store[stream[w][i].instance[2]]
      BY <1>6, <2>3
    <2> QED
      BY <1>6, <2>1, <2>4
  <1> QED
    BY <1>4, <1>5, <1>6

\* Each step of a process keeps the streams true.
LEMMA ProcessesTellTheTruth ==
    ASSUME TypeOK, StreamsEndInTruth, ProcessNext
    PROVE  StreamsEndInTruth'
  <1>1. PICK n \in Nodes : \/ \E v \in Versions : Start(n, v)
                           \/ Register(n)
                           \/ RegisterUnanswered(n)
                           \/ Deregister(n)
                           \/ Vanish(n)
                           \/ LeaseExpires(n)
    BY DEF ProcessNext
  <1>2. /\ UNCHANGED open
        /\ \/ UNCHANGED <<store, stream>>
           \/ process[n] # None /\ Put(n)
           \/ Delete(n)
    BY <1>1 DEF Start, Register, RegisterUnanswered, Deregister, Vanish, LeaseExpires
  <1>3. /\ process[n] \in Versions \cup {None} /\ store[n] \in Versions \cup {None}
        /\ store \in [Nodes -> Versions \cup {None}]
    BY DEF TypeOK, RegistryTypeOK
  <1>4. CASE UNCHANGED <<store, stream>>
    BY <1>2, <1>4 DEF StreamsEndInTruth
  <1>5. CASE process[n] # None /\ Put(n)
    <2>1. /\ store'[n] = process[n] /\ \A m \in Nodes \ {n} : store'[m] = store[m]
          /\ Tell("put", <<process[n], n>>)
      BY <1>3, <1>5 DEF Put
    <2>2. <<process[n], n>> \in Instances
      BY <1>3, <1>5 DEF Instances
    <2> QED
      BY <1>2, <2>1, <2>2, TellsTheTruth
  <1>6. CASE Delete(n) /\ store[n] # None
    <2>1. /\ store'[n] = None /\ \A m \in Nodes \ {n} : store'[m] = store[m]
          /\ Tell("delete", <<store[n], n>>)
      BY <1>3, <1>6 DEF Delete
    <2>2. <<store[n], n>> \in Instances
      BY <1>3, <1>6 DEF Instances
    <2> QED
      BY <1>2, <2>1, <2>2, TellsTheTruth
  <1>7. CASE Delete(n) /\ store[n] = None
    <2>1. UNCHANGED <<store, stream>>
      BY <1>3, <1>7 DEF Delete
    <2> QED
      BY <1>4, <2>1
  <1> QED
    BY <1>2, <1>4, <1>5, <1>6, <1>7

\* Each step of a watcher keeps the streams true: a new one has missed
\* nothing, and a response that is taken, its lost events included, leaves
\* the later events.
LEMMA WatchersKeepTheTruth ==
    ASSUME TypeOK, StreamsEndInTruth, NEW w \in Watchers,
           \/ Watch(w) \/ Unwatch(w)
           \/ \E many \in 1..Len(stream[w]) : Next(w, many)
    PROVE  StreamsEndInTruth'
  <1>a. stream \in [Watchers -> Seq(Events)] /\ open \subseteq Watchers
    BY DEF TypeOK, RegistryTypeOK
  <1>1. /\ UNCHANGED store /\ open' \subseteq open \cup {w}
        /\ \A x \in Watchers \ {w} : stream'[x] = stream[x]
    BY <1>a DEF Watch, Unwatch, Next
  <1> SUFFICES ASSUME NEW x \in open', NEW i \in 1..Len(stream'[x]),
                      LastAbout(stream'[x], i)
               PROVE  store[stream'[x][i].instance[2]] = Says(stream'[x][i])
    BY <1>1 DEF StreamsEndInTruth
  <1>2. x \in Watchers
    BY <1>a, <1>1
  <1>3. CASE x # w
    <2>1. x \in open /\ stream'[x] = stream[x]
      BY <1>1, <1>2, <1>3
    <2> QED
      BY <2>1 DEF StreamsEndInTruth
  <1>4. CASE x = w /\ (Watch(w) \/ Unwatch(w))
    <2>1. stream'[x] = <<>>
      BY <1>a, <1>4 DEF Watch, Unwatch
    <2>2. Len(stream'[x]) = 0
      BY <2>1
    <2>3. i \in 1..0
      BY <2>2
    <2> QED
      BY <2>3
  <1>5. ASSUME x = w, NEW many \in 1..Len(stream[w]), Next(w, many)
        PROVE  store[stream'[x][i].instance[2]] = Says(stream'[x][i])
    <2>1. x \in open /\ stream[w] \in Seq(Events)
          /\ stream'[w] = SubSeq(stream[w], many + 1, Len(stream[w]))
      BY <1>5, <1>a DEF Next
    <2>2. /\ i + many \in 1..Len(stream[w])
          /\ stream'[w][i] = stream[w][i + many]
          /\ LastAbout(stream[w], i + many)
      BY <1>5, <2>1, LastAfterTake
    <2>3. store[stream[w][i + many].instance[2]] = Says(stream[w][i + many])
      BY <1>5, <2>1, <2>2 DEF StreamsEndInTruth
    <2> QED
      BY <1>5, <2>2, <2>3
  <1> QED
    BY <1>3, <1>4, <1>5

\* However many processes come and go and however many events are lost, the
\* last event a watcher has still to take about a node is the truth about it.
THEOREM StreamsAreTrue == Spec => []StreamsEndInTruth
  <1>1. Init => StreamsEndInTruth
    BY DEF Init, RegistryInit, StreamsEndInTruth
  <1>2. TypeOK /\ StreamsEndInTruth /\ [CacheNext]_vars => StreamsEndInTruth'
    <2> SUFFICES ASSUME TypeOK, StreamsEndInTruth, [CacheNext]_vars
                 PROVE  StreamsEndInTruth'
      OBVIOUS
    <2>1. CASE UNCHANGED registryVars
      BY <2>1 DEF registryVars, StreamsEndInTruth
    <2> QED
      BY <2>1, CacheSteps, ProcessesTellTheTruth, WatchersKeepTheTruth
  <1> QED
    BY <1>1, <1>2, TypeCorrect, PTL DEF Spec
=============================================================================
