----------------------------- MODULE BusProofs -----------------------------
(***************************************************************************)
(* The event bus keeps the promise on which the application lifecycle is   *)
(* built, for any number of publications, subscribers and closers: every   *)
(* step of EventBus is a step of DelayedWork, or none at all.              *)
(***************************************************************************)
EXTENDS EventBus, TLAPS

Everyone == Publications \cup Publishers

\* A publication is a position and the handlers still to be called.
PublishShape ==
    /\ publish = [p \in Everyone |-> [pc |-> publish[p].pc, calls |-> publish[p].calls]]
    /\ \A p \in Everyone : publish[p].pc \in {"idle", "armed", "checked", "calling", "over"}

\* Only Publish of the broker looks before it copies.
DelayedNeverChecks == \A p \in Publications : publish[p].pc # "checked"

\* One goroutine closes the bus, and it alone waits.
OneWaits ==
    /\ closed \in BOOLEAN
    /\ closer \in [Closers -> {"idle", "waiting", "returned"}]
    /\ ~closed => \A c \in Closers : closer[c] = "idle"
    /\ \A c, d \in Closers : closer[c] = "waiting" /\ closer[d] = "waiting" => c = d

ClosingInv == PublishShape /\ DelayedNeverChecks /\ OneWaits

\* What the three parts of the invariant and the views depend on.
closing == <<closed, publish, closer>>

---------------------------------------------------------------------------
(* The invariant *)

\* A publication that moves without any closer being involved.
LEMMA PublicationMoves ==
    ASSUME ClosingInv, NEW p \in Everyone, NEW q, NEW calls,
           q \in {"idle", "armed", "calling", "over"},
           publish' = [publish EXCEPT ![p] = [pc |-> q, calls |-> calls]],
           UNCHANGED <<closed, closer>>
    PROVE  ClosingInv'
<1>1. PublishShape'
  BY DEF ClosingInv, PublishShape
<1>2. DelayedNeverChecks'
  BY DEF ClosingInv, PublishShape, DelayedNeverChecks, Everyone
<1>3. OneWaits'
  BY DEF ClosingInv, OneWaits
<1> QED
  BY <1>1, <1>2, <1>3 DEF ClosingInv

\* Setting the position of a publication alone is such a move.
LEMMA PositionOnly ==
    ASSUME PublishShape, NEW p \in Everyone, NEW q
    PROVE  [publish EXCEPT ![p].pc = q]
              = [publish EXCEPT ![p] = [pc |-> q, calls |-> publish[p].calls]]
<1>1. publish[p] = [pc |-> publish[p].pc, calls |-> publish[p].calls]
  BY DEF PublishShape
<1>2. [publish[p] EXCEPT !.pc = q] = [pc |-> q, calls |-> publish[p].calls]
  BY <1>1
<1> QED
  BY <1>2

\* Publishing moves a publication to its handlers, or to its end.
LEMMA PublishingMoves ==
    ASSUME NEW p \in Everyone, Publishes(p)
    PROVE  /\ closed => publish' = [publish EXCEPT ![p] = [pc |-> "over", calls |-> << >>]]
           /\ \/ publish' = [publish EXCEPT ![p] = [pc |-> "over", calls |-> Handlers]]
              \/ publish' = [publish EXCEPT ![p] = [pc |-> "calling", calls |-> Handlers]]
<1>1. closed => Handlers = << >>
  BY DEF Handlers
<1> QED
  BY <1>1 DEF Publishes

\* A handler that returns leaves its publication calling, or over.
LEMMA CallingMoves ==
    ASSUME NEW p \in Everyone, CallHandler(p)
    PROVE  /\ publish[p].pc = "calling"
           /\ \/ publish' = [publish EXCEPT ![p] = [pc |-> "over", calls |-> Tail(publish[p].calls)]]
              \/ publish' = [publish EXCEPT ![p] = [pc |-> "calling", calls |-> Tail(publish[p].calls)]]
           /\ UNCHANGED <<closed, closer>>
  BY DEF CallHandler, busVars

\* Steps of topics, subscriptions and contexts touch nothing of it.
LEMMA QuietSteps ==
    ASSUME \/ CreateTopic /\ UNCHANGED <<publish, closer>>
           \/ DestroyTopic /\ UNCHANGED <<publish, closer>>
           \/ BrokerClose
           \/ \E s \in Subscriptions : \/ SubscribeChecks(s)
                                       \/ SubscriptionStep(s)
                                       \/ SubscriptionCloses(s)
                                       \/ ContextDone(s)
    PROVE  UNCHANGED closing
  BY DEF closing, busVars, CreateTopic, DestroyTopic, BrokerClose, SubscribeChecks,
         SubscriptionStep, SubscribeEnds, Subscribe, SubscriptionCloses, UnSubscribe,
         ContextDone

\* What a step may do to the bus, to its closers and to its publications.
LEMMA StepKinds ==
    ASSUME [Next]_vars
    PROVE  \/ UNCHANGED closing
           \/ \E c \in Closers : Close(c) /\ UNCHANGED publish
           \/ \E c \in Closers : CloseReturns(c)
           \/ \E p \in Publications : DelayPublish(p) \/ TimerFires(p) \/ DelayCancelled(p)
           \/ \E p \in Publishers : PublishChecks(p) \/ PublishCopies(p)
           \/ \E p \in Everyone : CallHandler(p)
<1>1. CASE UNCHANGED vars
  BY <1>1 DEF vars, busVars, closing
<1>2. CASE BusStep
  BY <1>2, QuietSteps DEF BusStep
<1>3. CASE BrokerStep
  BY <1>3, QuietSteps DEF BrokerStep
<1> QED
  BY <1>1, <1>2, <1>3 DEF Next, Everyone

LEMMA ClosingInvStep == ClosingInv /\ [Next]_vars => ClosingInv'
<1> SUFFICES ASSUME ClosingInv, [Next]_vars PROVE ClosingInv'
    OBVIOUS
<1>1. CASE UNCHANGED closing
  BY <1>1 DEF closing, ClosingInv, PublishShape, DelayedNeverChecks, OneWaits
<1>2. ASSUME NEW c \in Closers, Close(c), UNCHANGED publish PROVE ClosingInv'
  <2>1. PublishShape' /\ DelayedNeverChecks'
    BY <1>2 DEF ClosingInv, PublishShape, DelayedNeverChecks
  <2>2. OneWaits'
    BY <1>2 DEF ClosingInv, OneWaits, Close
  <2> QED
    BY <2>1, <2>2 DEF ClosingInv
<1>3. ASSUME NEW c \in Closers, CloseReturns(c) PROVE ClosingInv'
  <2>1. PublishShape' /\ DelayedNeverChecks'
    BY <1>3 DEF ClosingInv, PublishShape, DelayedNeverChecks, CloseReturns
  <2>2. OneWaits'
    BY <1>3 DEF ClosingInv, OneWaits, CloseReturns, busVars
  <2> QED
    BY <2>1, <2>2 DEF ClosingInv
<1>4. ASSUME NEW p \in Publications, DelayPublish(p) \/ DelayCancelled(p)
      PROVE  ClosingInv'
  <2>1. p \in Everyone /\ PublishShape
    BY DEF ClosingInv, Everyone
  <2>2. \/ publish' = [publish EXCEPT ![p] = [pc |-> "armed", calls |-> publish[p].calls]]
        \/ publish' = [publish EXCEPT ![p] = [pc |-> "over", calls |-> publish[p].calls]]
    BY <1>4, <2>1, PositionOnly DEF DelayPublish, DelayCancelled
  <2>3. UNCHANGED <<closed, closer>>
    BY <1>4 DEF DelayPublish, DelayCancelled, busVars
  <2> QED
    BY <2>1, <2>2, <2>3, PublicationMoves
<1>5. ASSUME NEW p \in Everyone, Publishes(p), UNCHANGED <<closed, closer>>
      PROVE  ClosingInv'
  BY <1>5, PublishingMoves, PublicationMoves
<1>6. ASSUME NEW p \in Publishers, PublishChecks(p) PROVE ClosingInv'
  <2> PICK q \in {"checked", "over"} : publish' = [publish EXCEPT ![p].pc = q]
    BY <1>6 DEF PublishChecks
  <2>0. publish' = [publish EXCEPT ![p] = [pc |-> q, calls |-> publish[p].calls]]
    BY PositionOnly DEF ClosingInv, Everyone
  <2>1. PublishShape'
    <3>1. p \in Everyone /\ q \in {"checked", "over"}
      BY DEF Everyone
    <3> QED
      BY <2>0, <3>1 DEF ClosingInv, PublishShape
  <2>2. DelayedNeverChecks'
    BY <2>0, BusAssumption DEF ClosingInv, PublishShape, DelayedNeverChecks, Everyone
  <2>3. OneWaits'
    BY <1>6 DEF PublishChecks, busVars, ClosingInv, OneWaits
  <2> QED
    BY <2>1, <2>2, <2>3 DEF ClosingInv
<1>7. ASSUME NEW p \in Everyone, CallHandler(p) PROVE ClosingInv'
  BY <1>7, CallingMoves, PublicationMoves
<1> QED
  BY <1>1, <1>2, <1>3, <1>4, <1>5, <1>6, <1>7, StepKinds
     DEF TimerFires, PublishCopies, busVars, Everyone

\* The bus is closed by one goroutine at most, which alone waits for the
\* delayed publications; whoever calls Close later returns at once.
THEOREM OneCloserWaits == Spec => []ClosingInv
<1>1. Init => ClosingInv
  <2> SUFFICES ASSUME Init PROVE ClosingInv
    OBVIOUS
  <2>1. \A p \in Everyone : publish[p] = [pc |-> "idle", calls |-> << >>]
    BY DEF Init, Everyone
  <2>2. publish = [p \in Everyone |-> [pc |-> "idle", calls |-> << >>]]
    BY DEF Init, Everyone
  <2>3. PublishShape
    BY <2>1, <2>2 DEF PublishShape
  <2>4. DelayedNeverChecks /\ OneWaits
    BY <2>1 DEF Init, DelayedNeverChecks, OneWaits, Everyone
  <2> QED
    BY <2>3, <2>4 DEF ClosingInv
<1> QED
  BY <1>1, ClosingInvStep, PTL DEF Spec

---------------------------------------------------------------------------
(* The refinement *)

\* How a position is seen.
Seen(q) == CASE q = "idle" -> "none" [] q = "calling" -> "running" [] OTHER -> q

\* The view of one publication moves with it and leaves the others alone.
LEMMA ViewMoves ==
    ASSUME PublishShape, NEW p \in Publications, NEW q, NEW calls,
           publish' = [publish EXCEPT ![p] = [pc |-> q, calls |-> calls]]
    PROVE  DelayedView' = [DelayedView EXCEPT ![p] = Seen(q)]
<1>1. \A r \in Publications :
          publish'[r] = IF r = p THEN [pc |-> q, calls |-> calls] ELSE publish[r]
  BY DEF PublishShape, Everyone
<1>2. publish'[p].pc = q /\ \A r \in Publications \ {p} : publish'[r].pc = publish[r].pc
  BY <1>1
<1> QED
  BY <1>2 DEF DelayedView, Seen

\* Publications of the broker are not in the view.
LEMMA ViewIgnoresPublishers ==
    ASSUME PublishShape, NEW p \in Publishers, NEW x,
           publish' = [publish EXCEPT ![p] = x]
    PROVE  UNCHANGED DelayedView
<1>1. \A r \in Publications : publish'[r] = publish[r]
  BY BusAssumption DEF PublishShape, Everyone
<1> QED
  BY <1>1 DEF DelayedView

\* While its closer waits the bus is closing, before that it is open.
LEMMA BusViewMeans ==
    ASSUME OneWaits
    PROVE  /\ BusView = "open" <=> ~closed
           /\ \A c \in Closers : closer[c] = "waiting" => BusView = "closing"
           /\ closed /\ (\A c \in Closers : closer[c] # "waiting") => BusView = "closed"
  BY DEF BusView, OneWaits

\* Every step of the bus is one that the lifecycle has been promised.
LEMMA StepKeepsContract ==
    ClosingInv /\ [Next]_vars => [Contract!BusNext]_(Contract!busVars)
<1> SUFFICES ASSUME ClosingInv, [Next]_vars
             PROVE  [Contract!BusNext]_<<BusView, DelayedView>>
    BY DEF Contract!busVars
<1>0. PublishShape /\ OneWaits /\ ClosingInv' /\ OneWaits'
  BY ClosingInvStep DEF ClosingInv
<1>a. (UNCHANGED <<closed, closer>>) => UNCHANGED BusView
  BY DEF BusView
<1>1. CASE UNCHANGED closing
  BY <1>1 DEF closing, BusView, DelayedView
<1>2. ASSUME NEW c \in Closers, Close(c), UNCHANGED publish
      PROVE  [Contract!BusNext]_<<BusView, DelayedView>>
  <2>1. UNCHANGED DelayedView
    BY <1>2 DEF DelayedView
  <2>2. CASE ~closed
    <3>1. BusView = "open" /\ BusView' = "closing"
      BY <1>0, <1>2, <2>2 DEF BusView, OneWaits, Close
    <3> QED
      BY <2>1, <3>1 DEF Contract!BusNext, Contract!BusCloseBegins
  <2>3. CASE closed
    <3>1. closed' /\ \A d \in Closers : closer'[d] = "waiting" <=> closer[d] = "waiting"
      BY <1>0, <1>2, <2>3 DEF OneWaits, Close
    <3>2. UNCHANGED BusView
      BY <2>3, <3>1 DEF BusView
    <3> QED
      BY <2>1, <3>2
  <2> QED
    BY <2>2, <2>3
<1>3. ASSUME NEW c \in Closers, CloseReturns(c)
      PROVE  [Contract!BusNext]_<<BusView, DelayedView>>
  <2>1. UNCHANGED DelayedView
    BY <1>3 DEF CloseReturns, DelayedView
  <2>2. closed /\ closed' /\ \A d \in Closers : closer'[d] # "waiting"
    BY <1>0, <1>3 DEF OneWaits, CloseReturns, busVars
  <2>3. BusView = "closing" /\ BusView' = "closed"
    BY <1>3, <2>2 DEF BusView, CloseReturns
  <2>4. \A p \in Publications : DelayedView[p] \notin {"armed", "running"}
    BY <1>0, <1>3 DEF CloseReturns, Pending, DelayedView, PublishShape, Everyone
  <2> QED
    BY <2>1, <2>3, <2>4 DEF Contract!BusNext, Contract!BusCloseEnds
<1>4. ASSUME NEW p \in Publications, DelayPublish(p)
      PROVE  [Contract!BusNext]_<<BusView, DelayedView>>
  <2>0. publish' = [publish EXCEPT ![p] = [pc |-> "armed", calls |-> publish[p].calls]]
    BY <1>0, <1>4, PositionOnly DEF DelayPublish, Everyone
  <2>1. DelayedView' = [DelayedView EXCEPT ![p] = "armed"]
    BY <1>0, <2>0, ViewMoves DEF Seen
  <2>2. BusView = "open" /\ UNCHANGED BusView
    <3>1. UNCHANGED <<closed, closer>> /\ ~closed
      BY <1>4 DEF DelayPublish, busVars
    <3> QED
      BY <1>0, <1>a, <3>1, BusViewMeans
  <2>3. DelayedView[p] = "none"
    BY <1>4 DEF DelayPublish, DelayedView
  <2> QED
    BY <2>1, <2>2, <2>3 DEF Contract!BusNext, Contract!DelayPublish
<1>5. ASSUME NEW p \in Publications, DelayCancelled(p)
      PROVE  [Contract!BusNext]_<<BusView, DelayedView>>
  <2>0. publish' = [publish EXCEPT ![p] = [pc |-> "over", calls |-> publish[p].calls]]
    BY <1>0, <1>5, PositionOnly DEF DelayCancelled, Everyone
  <2>1. DelayedView' = [DelayedView EXCEPT ![p] = "over"]
    BY <1>0, <2>0, ViewMoves DEF Seen
  <2>2. UNCHANGED BusView
    BY <1>5, <1>a DEF DelayCancelled, busVars
  <2>3. DelayedView[p] = "armed"
    BY <1>5 DEF DelayCancelled, DelayedView
  <2> QED
    BY <2>1, <2>2, <2>3 DEF Contract!BusNext, Contract!Settle
<1>6. ASSUME NEW p \in Publications, TimerFires(p)
      PROVE  [Contract!BusNext]_<<BusView, DelayedView>>
  <2>1. UNCHANGED BusView /\ DelayedView[p] = "armed"
    BY <1>6, <1>a DEF TimerFires, busVars, DelayedView
  <2>2. CASE DelayedView' = [DelayedView EXCEPT ![p] = "over"]
    BY <2>1, <2>2 DEF Contract!BusNext, Contract!Settle
  <2>3. CASE ~closed /\ DelayedView' = [DelayedView EXCEPT ![p] = "running"]
    <3>1. BusView = "open"
      BY <1>0, <2>3, BusViewMeans
    <3> QED
      BY <2>1, <2>3, <3>1 DEF Contract!BusNext, Contract!Fire
  <2>4. \/ publish' = [publish EXCEPT ![p] = [pc |-> "over", calls |-> << >>]]
        \/ publish' = [publish EXCEPT ![p] = [pc |-> "over", calls |-> Handlers]]
        \/ ~closed /\ publish' = [publish EXCEPT ![p] = [pc |-> "calling", calls |-> Handlers]]
    BY <1>0, <1>6, PublishingMoves DEF TimerFires, OneWaits, Everyone
  <2>5. Seen("over") = "over" /\ Seen("calling") = "running"
    BY DEF Seen
  <2>6. ASSUME NEW calls, publish' = [publish EXCEPT ![p] = [pc |-> "over", calls |-> calls]]
        PROVE  [Contract!BusNext]_<<BusView, DelayedView>>
    <3>1. DelayedView' = [DelayedView EXCEPT ![p] = Seen("over")]
      BY <1>0, <2>6, ViewMoves
    <3> QED
      BY <2>2, <2>5, <3>1
  <2>7. CASE ~closed /\ publish' = [publish EXCEPT ![p] = [pc |-> "calling", calls |-> Handlers]]
    <3>1. DelayedView' = [DelayedView EXCEPT ![p] = Seen("calling")]
      BY <1>0, <2>7, ViewMoves
    <3> QED
      BY <2>3, <2>5, <2>7, <3>1
  <2> QED
    BY <2>4, <2>6, <2>7
<1>7. ASSUME NEW p \in Publishers, PublishChecks(p) \/ PublishCopies(p)
      PROVE  [Contract!BusNext]_<<BusView, DelayedView>>
  <2>1. UNCHANGED BusView
    BY <1>7, <1>a DEF PublishChecks, PublishCopies, busVars
  <2>2. CASE PublishCopies(p)
    BY <1>0, <2>2, ViewIgnoresPublishers, <2>1 DEF PublishCopies, Publishes
  <2>3. CASE PublishChecks(p)
    <3>1. \E q : publish' = [publish EXCEPT ![p].pc = q]
      BY <2>3 DEF PublishChecks
    <3>2. PICK q : publish' = [publish EXCEPT ![p].pc = q]
      BY <3>1
    <3>3. publish' = [publish EXCEPT ![p] = [pc |-> q, calls |-> publish[p].calls]]
      BY <1>0, <3>2, PositionOnly DEF Everyone
    <3> QED
      BY <1>0, <2>1, <3>3, ViewIgnoresPublishers
  <2> QED
    BY <1>7, <2>2, <2>3
<1>8. ASSUME NEW p \in Everyone, CallHandler(p)
      PROVE  [Contract!BusNext]_<<BusView, DelayedView>>
  <2>1. UNCHANGED BusView
    BY <1>8, <1>a, CallingMoves
  <2>2. CASE p \in Publishers
    BY <1>0, <1>8, <2>1, <2>2, CallingMoves, ViewIgnoresPublishers
  <2>3. CASE p \in Publications
    <3>1. DelayedView[p] = "running"
      BY <1>8, <2>3 DEF CallHandler, DelayedView
    <3>2. CASE DelayedView' = [DelayedView EXCEPT ![p] = "over"]
      BY <2>1, <2>3, <3>1, <3>2 DEF Contract!BusNext, Contract!Settle
    <3>3. CASE DelayedView' = [DelayedView EXCEPT ![p] = "running"]
      <4>1. DelayedView' = DelayedView
        BY <2>3, <3>1, <3>3 DEF DelayedView
      <4> QED
        BY <2>1, <4>1
    <3>4. Seen("over") = "over" /\ Seen("calling") = "running"
      BY DEF Seen
    <3>5. CASE publish' = [publish EXCEPT ![p] = [pc |-> "over", calls |-> Tail(publish[p].calls)]]
      BY <1>0, <2>3, <3>2, <3>4, <3>5, ViewMoves
    <3>6. CASE publish' = [publish EXCEPT ![p] = [pc |-> "calling", calls |-> Tail(publish[p].calls)]]
      BY <1>0, <2>3, <3>3, <3>4, <3>6, ViewMoves
    <3> QED
      BY <1>8, <3>5, <3>6, CallingMoves
  <2> QED
    BY <2>2, <2>3 DEF Everyone
<1> QED
  BY <1>1, <1>2, <1>3, <1>4, <1>5, <1>6, <1>7, <1>8, StepKinds

\* The bus implements what closing it promises: a delayed publication begins
\* only while the bus is open, and none is armed or under way when Close
\* returns to the goroutine that closed the bus.
THEOREM BusKeepsContract == Spec => BusContract
<1>1. Init => Contract!BusInit
  BY DEF Init, Contract!BusInit, BusView, DelayedView
<1> QED
  BY <1>1, OneCloserWaits, StepKeepsContract, PTL DEF Spec, BusContract, Contract!BusSpec
=============================================================================
