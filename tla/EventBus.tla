------------------------------ MODULE EventBus ------------------------------
(***************************************************************************)
(* The in-process event bus, framework/core/eventBus/trie_event_bus.go,    *)
(* and the broker on top of it, framework/event/local.go.                  *)
(*                                                                         *)
(* One topic of the bus; topics share nothing but the bus being closed.    *)
(* Each operation of the bus holds its lock from beginning to end, but for *)
(* Publish, which lets go of it before it calls the handlers, and Close,   *)
(* which lets go of it before it waits.                                    *)
(***************************************************************************)
EXTENDS Naturals, Sequences, SequencesExt

CONSTANTS
    Publications,   \* delayed publications
    Publishers,     \* goroutines that publish through the broker
    Subscriptions,  \* subscriptions through the broker
    Closers,        \* goroutines that close the bus
    MaxDestroys     \* bound on destroyed topics

ASSUME BusAssumption ==
    /\ MaxDestroys \in Nat
    /\ Publications \cap Publishers = {}

VARIABLES
    closed,         \* the bus is closed
    exists,         \* the topic is in the trie
    indexer,        \* ... and its counter
    handlers,       \* its subscriptions, newest first: [sub, index]
    publish,        \* [Publications \cup Publishers -> [pc, calls]]
    closer,         \* [Closers -> {"idle", "waiting", "returned"}]
    brokerClosed,
    subscription,   \* [Subscriptions -> [pc, index]]
    cancelled,      \* subscriptions whose context is done
    destroys

busVars == <<closed, exists, indexer, handlers, destroys>>
vars == <<busVars, publish, closer, brokerClosed, subscription, cancelled>>

TypeOK ==
    /\ {closed, exists, brokerClosed} \subseteq BOOLEAN
    /\ indexer \in Nat /\ destroys \in 0..MaxDestroys
    /\ handlers \in Seq([sub : Subscriptions, index : Nat])
    /\ publish \in [Publications \cup Publishers ->
                    [pc : {"idle", "armed", "checked", "calling", "over"},
                     calls : Seq(Subscriptions)]]
    /\ closer \in [Closers -> {"idle", "waiting", "returned"}]
    /\ subscription \in [Subscriptions ->
                    [pc : {"idle", "checked", "open", "closed", "refused"}, index : Nat]]
    /\ cancelled \subseteq Subscriptions

Init ==
    /\ closed = FALSE /\ exists = FALSE /\ indexer = 0 /\ handlers = << >>
    /\ destroys = 0
    /\ publish = [p \in Publications \cup Publishers |-> [pc |-> "idle", calls |-> << >>]]
    /\ closer = [c \in Closers |-> "idle"]
    /\ brokerClosed = FALSE
    /\ subscription = [s \in Subscriptions |-> [pc |-> "idle", index |-> 0]]
    /\ cancelled = {}

---------------------------------------------------------------------------
(* The bus *)

CreateTopic ==
    /\ ~closed /\ ~exists
    /\ exists' = TRUE
    /\ indexer' = 0
    /\ UNCHANGED <<closed, handlers, destroys>>

\* Every subscription goes with it, and a new topic counts from 1 again.
DestroyTopic ==
    /\ exists
    /\ destroys < MaxDestroys
    /\ destroys' = destroys + 1
    /\ exists' = FALSE
    /\ indexer' = 0
    /\ handlers' = << >>
    /\ UNCHANGED closed

Subscribe(s) ==
    /\ ~closed
    /\ exists' = TRUE
    /\ indexer' = indexer + 1
    /\ handlers' = <<[sub |-> s, index |-> indexer + 1]>> \o handlers
    /\ UNCHANGED <<closed, destroys>>

\* By index only; a bus that is closed does not mind.
UnSubscribe(index) ==
    /\ handlers' = SelectSeq(handlers, LAMBDA h : h.index # index)
    /\ UNCHANGED <<closed, exists, indexer, destroys>>

\* What a publication is going to call; on a closed bus, nothing.
Handlers == IF closed THEN << >> ELSE [i \in DOMAIN handlers |-> handlers[i].sub]

\* Publish has made its copy and let go of the locks.
Publishes(p) ==
    publish' = [publish EXCEPT ![p] =
                    [pc |-> IF Handlers = << >> THEN "over" ELSE "calling", calls |-> Handlers]]

\* One handler is called and returns; the broker's recovers its panics.
CallHandler(p) ==
    /\ publish[p].pc = "calling"
    /\ publish' = [publish EXCEPT ![p] =
            [pc |-> IF Len(@.calls) = 1 THEN "over" ELSE "calling", calls |-> Tail(@.calls)]]
    /\ UNCHANGED <<busVars, closer, brokerClosed, subscription, cancelled>>

DelayPublish(p) ==
    /\ ~closed
    /\ publish[p].pc = "idle"
    /\ publish' = [publish EXCEPT ![p].pc = "armed"]
    /\ UNCHANGED <<busVars, closer, brokerClosed, subscription, cancelled>>

TimerFires(p) ==
    /\ publish[p].pc = "armed"
    /\ Publishes(p)
    /\ UNCHANGED <<busVars, closer, brokerClosed, subscription, cancelled>>

DelayCancelled(p) ==
    /\ publish[p].pc = "armed"
    /\ closed
    /\ publish' = [publish EXCEPT ![p].pc = "over"]
    /\ UNCHANGED <<busVars, closer, brokerClosed, subscription, cancelled>>

\* Whoever closes the bus first waits for the delayed publications.
Close(c) ==
    /\ closer[c] = "idle"
    /\ closer' = [closer EXCEPT ![c] = IF closed THEN "returned" ELSE "waiting"]
    /\ closed' = TRUE
    /\ UNCHANGED <<exists, indexer, handlers, destroys>>

\* The wait group: delayed publications that are not over.
Pending(p) == publish[p].pc \in {"armed", "calling"}

\* Mutant: Close waits for timers and not for handlers.
CloseReturns_TimersOnly(c) ==
    /\ closer[c] = "waiting"
    /\ \A p \in Publications : publish[p].pc # "armed"
    /\ closer' = [closer EXCEPT ![c] = "returned"]
    /\ UNCHANGED <<busVars, publish, brokerClosed, subscription, cancelled>>

CloseReturns(c) ==
    /\ closer[c] = "waiting"
    /\ \A p \in Publications : ~Pending(p)
    /\ closer' = [closer EXCEPT ![c] = "returned"]
    /\ UNCHANGED <<busVars, publish, brokerClosed, subscription, cancelled>>

BusStep ==
    \/ /\ \/ CreateTopic
          \/ DestroyTopic
       /\ UNCHANGED <<publish, closer, brokerClosed, subscription, cancelled>>
    \/ \E c \in Closers :
        \/ Close(c) /\ UNCHANGED <<publish, brokerClosed, subscription, cancelled>>
        \/ CloseReturns(c)
    \/ \E p \in Publications : DelayPublish(p) \/ TimerFires(p) \/ DelayCancelled(p)

---------------------------------------------------------------------------
(* The broker *)

\* A broker, or a context, that is not done: checked here, used later.
SubscribeChecks(s) ==
    /\ subscription[s].pc = "idle"
    /\ subscription' = [subscription EXCEPT ![s].pc =
                            IF brokerClosed \/ s \in cancelled THEN "refused" ELSE "checked"]
    /\ UNCHANGED <<busVars, publish, closer, brokerClosed, cancelled>>

SubscribeEnds(s) ==
    /\ subscription[s].pc = "checked"
    /\ \/ /\ Subscribe(s)
          /\ subscription' = [subscription EXCEPT ![s] = [pc |-> "open", index |-> indexer']]
       \/ /\ closed
          /\ subscription' = [subscription EXCEPT ![s].pc = "refused"]
          /\ UNCHANGED busVars
    /\ UNCHANGED <<publish, closer, brokerClosed, cancelled>>

\* Once, by its owner ...
SubscriptionCloses(s) ==
    /\ subscription[s].pc = "open"
    /\ subscription' = [subscription EXCEPT ![s].pc = "closed"]
    /\ UnSubscribe(subscription[s].index)
    /\ UNCHANGED <<publish, closer, brokerClosed, cancelled>>

\* Mutant: the goroutine follows the subscriber's context only.
Abandoned_Context(s) == s \in cancelled

\* ... or by its goroutine, when the context or the broker is done.
Abandoned(s) == s \in cancelled \/ brokerClosed

ContextDone(s) ==
    /\ s \notin cancelled
    /\ cancelled' = cancelled \cup {s}
    /\ UNCHANGED <<busVars, publish, closer, brokerClosed, subscription>>

PublishChecks(p) ==
    /\ publish[p].pc = "idle"
    /\ publish' = [publish EXCEPT ![p].pc = IF brokerClosed THEN "over" ELSE "checked"]
    /\ UNCHANGED <<busVars, closer, brokerClosed, subscription, cancelled>>

PublishCopies(p) ==
    /\ publish[p].pc = "checked"
    /\ Publishes(p)
    /\ UNCHANGED <<busVars, closer, brokerClosed, subscription, cancelled>>

\* The bus is the application's: the broker leaves it open.
BrokerClose ==
    /\ ~brokerClosed
    /\ brokerClosed' = TRUE
    /\ UNCHANGED <<busVars, publish, closer, subscription, cancelled>>

SubscriptionStep(s) ==
    \/ SubscribeEnds(s)
    \/ Abandoned(s) /\ SubscriptionCloses(s)

BrokerStep ==
    \/ BrokerClose
    \/ \E p \in Publishers : PublishChecks(p) \/ PublishCopies(p)
    \/ \E s \in Subscriptions : \/ SubscribeChecks(s)
                                \/ SubscriptionStep(s)
                                \/ SubscriptionCloses(s)
                                \/ ContextDone(s)

Next ==
    \/ BusStep
    \/ BrokerStep
    \/ \E p \in Publications \cup Publishers : CallHandler(p)

Spec == Init /\ [][Next]_vars

\* Goroutines run; handlers return, timers go off.
FairSpec ==
    /\ Spec
    /\ \A s \in Subscriptions : WF_vars(SubscriptionStep(s))
    /\ \A p \in Publications \cup Publishers : WF_vars(CallHandler(p))
    /\ \A p \in Publications : WF_vars(TimerFires(p))
    /\ \A c \in Closers : WF_vars(CloseReturns(c))

---------------------------------------------------------------------------
(* Properties *)

\* What the application lifecycle relies on: of the delayed publications, none
\* begins once the bus is being closed, and none is under way when Close
\* returns to whoever closed it.
BusView ==
    CASE ~closed -> "open"
      [] \E c \in Closers : closer[c] = "waiting" -> "closing"
      [] OTHER -> "closed"

DelayedView ==
    [p \in Publications |->
        CASE publish[p].pc = "idle" -> "none"
          [] publish[p].pc = "calling" -> "running"
          [] OTHER -> publish[p].pc]

Contract == INSTANCE DelayedWork WITH bus <- BusView, delayed <- DelayedView

BusContract == Contract!BusSpec

\* A handler that was subscribed through a broker is off the bus for good some
\* time after the broker was closed, also when Subscribe had looked at the
\* broker before and reached the bus after.
Attached(s) == \E i \in DOMAIN handlers : handlers[i].sub = s

BrokerDetaches == brokerClosed ~> [](\A s \in Subscriptions : ~Attached(s))
=============================================================================
