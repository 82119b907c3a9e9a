---------------------------- MODULE PolicyProofs ----------------------------
(***************************************************************************)
(* Proofs about CircuitBreaker and LoadShedder, for any number of callers, *)
(* any thresholds and any limits their configurations let through, and     *)
(* about the policy that uses both as they are meant to be used: what is   *)
(* proved of each on its own holds inside the policy.                      *)
(***************************************************************************)
EXTENDS RPCPolicy, FiniteSetTheorems, TLAPS

---------------------------------------------------------------------------
(* The circuit breaker. *)

\* A step of a report is one of the three cases of complete().
LEMMA TypeStep == TypeOK /\ [Next]_vars => TypeOK'
<1> SUFFICES ASSUME TypeOK, [Next]_vars PROVE TypeOK'
    OBVIOUS
<1> USE BreakerAssumption DEF TypeOK, States, counters
<1>1. ASSUME NEW c \in Calls, Allow(c) PROVE TypeOK'
  <2>1. CASE AllowClosed(c)
    BY <1>1, <2>1 DEF Allow, AllowClosed
  <2>2. CASE AllowFirstProbe(c)
    BY <1>1, <2>2 DEF Allow, AllowFirstProbe
  <2>3. CASE AllowProbe(c)
    BY <1>1, <2>3 DEF Allow, AllowProbe
  <2> QED
    BY <1>1, <2>1, <2>2, <2>3 DEF Allow
<1>2. ASSUME NEW c \in Calls, NEW failed \in BOOLEAN, Complete(c, failed)
      PROVE  TypeOK'
  <2>1. /\ state' \in States
        /\ failures' \in 0..(FailureThreshold - 1)
        /\ successes' \in 0..(SuccessThreshold - 1)
        /\ halfOpenInFlight' \in 0..HalfOpenMaxRequests
        /\ sinceOpen' \in 0..OpenTimeout
    <3>1. CASE CompleteClosed(failed)
      BY <3>1 DEF CompleteClosed, OpenLocked
    <3>2. CASE CompleteHalfOpen(failed)
      BY <3>2 DEF CompleteHalfOpen, OpenLocked
    <3>3. CASE CompleteOpen
      BY <3>3 DEF CompleteOpen
    <3> QED
      BY <1>2, <3>1, <3>2, <3>3 DEF Complete
  <2>2. /\ running' \subseteq Calls
        /\ probes' \subseteq running'
        /\ stale' \in Nat
        /\ healthy' \in BOOLEAN
    BY <1>2 DEF Complete, Leaves
  <2> QED
    BY <2>1, <2>2
<1>3. CASE Tick
  BY <1>3 DEF Tick
<1>4. CASE Recover
  BY <1>4 DEF Recover
<1>5. CASE UNCHANGED vars
  BY <1>5 DEF vars
<1> QED
  BY <1>1, <1>2, <1>3, <1>4, <1>5 DEF Next, Panic

\* Whatever the interleaving of calls, the breaker's counters stay below the
\* thresholds at which allow() and complete() act on them.
THEOREM TypeCorrect == Spec => []TypeOK
<1>1. Init => TypeOK
  <2> SUFFICES ASSUME Init PROVE TypeOK
    OBVIOUS
  <2>1. /\ failures \in 0..(FailureThreshold - 1)
        /\ successes \in 0..(SuccessThreshold - 1)
        /\ halfOpenInFlight \in 0..HalfOpenMaxRequests
        /\ sinceOpen \in 0..OpenTimeout
        /\ stale \in Nat
    BY BreakerAssumption DEF Init
  <2>2. healthy \in BOOLEAN /\ state \in States
    BY DEF Init, States
  <2> QED
    BY <2>1, <2>2 DEF Init, TypeOK
<1> QED
  BY <1>1, TypeStep, PTL DEF Spec

---------------------------------------------------------------------------
(* Slots and probes *)

\* Finitely many calls run at a time, and ProbeInv.
SlotInv ==
    /\ IsFiniteSet(running)
    /\ ProbeInv

\* A set of probes that a call joins or leaves.
LEMMA ProbesFinite ==
    ASSUME TypeOK, IsFiniteSet(running)
    PROVE  IsFiniteSet(probes) /\ Cardinality(probes) \in Nat
BY FS_Subset, FS_CardinalityType DEF TypeOK

LEMMA AllowKeepsSlots ==
    ASSUME TypeOK, SlotInv, NEW c \in Calls, Allow(c)
    PROVE  SlotInv'
<1>1. IsFiniteSet(running)'
  BY FS_AddElement DEF Allow, SlotInv
<1>2. IsFiniteSet(probes) /\ Cardinality(probes) \in Nat
  BY ProbesFinite DEF SlotInv
<1>3. c \notin probes
  BY DEF Allow, TypeOK
<1>4. ProbeInv'
  <2>1. CASE AllowClosed(c)
    BY <2>1 DEF AllowClosed, ProbeInv
  <2>2. CASE AllowFirstProbe(c)
    <3>1. Cardinality({c}) = 1
      BY FS_Singleton
    <3> QED
      BY <2>2, <3>1 DEF AllowFirstProbe, ProbeInv
  <2>3. CASE AllowProbe(c)
    <3>1. Cardinality(probes \cup {c}) = Cardinality(probes) + 1
      BY <1>2, <1>3, FS_AddElement
    <3> QED
      BY <1>2, <2>3, <3>1 DEF AllowProbe, ProbeInv, SlotInv, TypeOK
  <2> QED
    BY <2>1, <2>2, <2>3 DEF Allow
<1> QED
  BY <1>1, <1>4 DEF SlotInv

LEMMA CompleteKeepsSlots ==
    ASSUME TypeOK, SlotInv, NEW c \in Calls, NEW failed \in BOOLEAN,
           Complete(c, failed)
    PROVE  SlotInv'
<1>1. IsFiniteSet(running)'
  BY FS_RemoveElement DEF Complete, Leaves, SlotInv
<1>2. IsFiniteSet(probes) /\ Cardinality(probes) \in Nat
  BY ProbesFinite DEF SlotInv
<1>3. ProbeInv'
  <2> SUFFICES ASSUME state' = "half-open" PROVE ProbeInv'
    BY DEF ProbeInv
  <2>1. /\ state = "half-open"
        /\ halfOpenInFlight' = IF halfOpenInFlight > 0
                               THEN halfOpenInFlight - 1 ELSE 0
    BY DEF Complete, CompleteClosed, CompleteHalfOpen, CompleteOpen,
           OpenLocked
  <2>2. /\ probes' = probes \ {c}
        /\ stale' = IF c \in probes THEN stale ELSE stale + 1
    BY DEF Complete, Leaves
  <2>3. Cardinality(probes') = IF c \in probes THEN Cardinality(probes) - 1
                               ELSE Cardinality(probes)
    BY <1>2, <2>2, FS_RemoveElement
  <2>4. c \in probes => Cardinality(probes) # 0
    BY <1>2, FS_EmptySet
  <2>5. /\ halfOpenInFlight <= Cardinality(probes)
        /\ Cardinality(probes) <= halfOpenInFlight + stale
    BY <2>1 DEF SlotInv, ProbeInv
  <2>6. halfOpenInFlight \in Nat /\ stale \in Nat
    BY BreakerAssumption DEF TypeOK
  <2>7. /\ halfOpenInFlight' <= Cardinality(probes')
        /\ Cardinality(probes') <= halfOpenInFlight' + stale'
    <3>1. CASE c \in probes
      BY <1>2, <2>1, <2>2, <2>3, <2>4, <2>5, <2>6, <3>1
    <3>2. CASE c \notin probes
      BY <1>2, <2>1, <2>2, <2>3, <2>5, <2>6, <3>2
    <3> QED
      BY <3>1, <3>2
  <2> QED
    BY <2>7 DEF ProbeInv
<1> QED
  BY <1>1, <1>3 DEF SlotInv

LEMMA SlotStep == TypeOK /\ SlotInv /\ [Next]_vars => SlotInv'
<1> SUFFICES ASSUME TypeOK, SlotInv, [Next]_vars PROVE SlotInv'
    OBVIOUS
<1>1. CASE Tick
  BY <1>1 DEF Tick, SlotInv, ProbeInv, counters
<1>2. CASE Recover
  BY <1>2 DEF Recover, SlotInv, ProbeInv, counters
<1>3. CASE UNCHANGED vars
  BY <1>3 DEF vars, SlotInv, ProbeInv, counters
<1> QED
  BY <1>1, <1>2, <1>3, AllowKeepsSlots, CompleteKeepsSlots DEF Next, Panic

\* Slots taken and probes under way differ by the late reports at most,
\* however calls of several open periods overlap.
THEOREM SlotsMatchProbes == Spec => []ProbeInv
<1>1. Init => SlotInv
  BY FS_EmptySet DEF Init, SlotInv, ProbeInv
<1>2. SlotInv => ProbeInv
  BY DEF SlotInv
<1> QED
  BY <1>1, <1>2, TypeCorrect, SlotStep, PTL DEF Spec

\* A half-open circuit turns calls away only while a probe is under way.
THEOREM SlotsAreNotLeaked == Spec => []NoLeakedSlot
<1>1. ProbeInv => NoLeakedSlot
  BY DEF ProbeInv, NoLeakedSlot
<1> QED
  BY <1>1, SlotsMatchProbes, PTL

\* A half-open circuit lets at most HalfOpenMaxRequests probes run, and one
\* more for each late report of a call from before it opened.
THEOREM ProbesAreBounded == Spec => []ProbesBounded
<1>1. TypeOK /\ SlotInv => ProbesBounded
  <2> SUFFICES ASSUME TypeOK, SlotInv, state = "half-open"
               PROVE  Cardinality(probes) <= HalfOpenMaxRequests + stale
    BY DEF ProbesBounded
  <2>1. Cardinality(probes) \in Nat
    BY ProbesFinite DEF SlotInv
  <2>2. Cardinality(probes) <= halfOpenInFlight + stale
    BY DEF SlotInv, ProbeInv
  <2> QED
    BY <2>1, <2>2, BreakerAssumption DEF TypeOK
<1>2. Init => SlotInv
  BY FS_EmptySet DEF Init, SlotInv, ProbeInv
<1> QED
  BY <1>1, <1>2, TypeCorrect, SlotStep, PTL DEF Spec

\* Reports to an open circuit change neither its counters nor its waiting
\* time; it is left only through a first probe after OpenTimeout.
THEOREM OpenCircuitWaits == Spec => OpenIgnoresReports
<1>1. ASSUME TypeOK, [Next]_vars, state = "open"
      PROVE  \/ state' = "open" /\ counters' = counters
                /\ sinceOpen' >= sinceOpen
             \/ state' = "half-open" /\ sinceOpen >= OpenTimeout
  <2> USE <1>1, BreakerAssumption DEF counters, TypeOK
  <2>1. ASSUME NEW c \in Calls, Allow(c)
        PROVE  state' = "half-open" /\ sinceOpen >= OpenTimeout
    BY <2>1 DEF Allow, AllowClosed, AllowFirstProbe, AllowProbe
  <2>2. ASSUME NEW c \in Calls, NEW failed \in BOOLEAN, Complete(c, failed)
        PROVE  state' = "open" /\ counters' = counters
               /\ sinceOpen' >= sinceOpen
    BY <2>2 DEF Complete, CompleteClosed, CompleteHalfOpen, CompleteOpen
  <2>3. CASE Tick
    BY <2>3 DEF Tick
  <2>4. CASE Recover
    BY <2>4 DEF Recover
  <2>5. CASE UNCHANGED vars
    BY <2>5 DEF vars
  <2>6. CASE \E c \in Calls : Allow(c)
    BY <2>1, <2>6
  <2>7. CASE \E c \in Calls, failed \in BOOLEAN : Complete(c, failed)
    BY <2>2, <2>7
  <2> HIDE DEF counters, TypeOK
  <2> QED
    BY <2>3, <2>4, <2>5, <2>6, <2>7 DEF Next, Panic
<1> QED
  BY <1>1, TypeCorrect, PTL DEF Spec, OpenIgnoresReports

---------------------------------------------------------------------------
(* The load shedder. *)

\* Decreasing the limit never takes it below MinLimit, nor up.
LEMMA DecreasedRange ==
    ASSUME limit \in MinLimit..Larger(MinLimit, MaxLimit)
    PROVE  Decreased \in MinLimit..Larger(MinLimit, MaxLimit)
<1>1. /\ MinLimit \in Nat /\ MaxLimit \in Nat /\ limit \in Nat
      /\ DecreaseNum \in Nat /\ DecreaseDen \in Nat \ {0}
      /\ DecreaseNum < DecreaseDen
  BY ShedderAssumption DEF Larger
<1> DEFINE q == (limit * DecreaseNum) \div DecreaseDen
<1>2. q \in Nat /\ q * DecreaseDen <= limit * DecreaseNum
  BY <1>1, SMTT(30)
<1>3. limit * DecreaseNum <= limit * DecreaseDen
  BY <1>1, SMTT(30)
<1>4. q * DecreaseDen <= limit * DecreaseDen
  <2> DEFINE a == q * DecreaseDen
             b == limit * DecreaseNum
             e == limit * DecreaseDen
  <2>1. a \in Nat /\ b \in Nat /\ e \in Nat
    BY <1>1, <1>2, SMTT(30)
  <2>2. a <= b /\ b <= e
    BY <1>2, <1>3
  <2> HIDE DEF a, b, e
  <2>3. a <= e
    BY <2>1, <2>2
  <2> QED
    BY <2>3 DEF a, e
<1> HIDE DEF q
<1>5. q <= limit
  BY <1>1, <1>2, <1>4, SMTT(30)
<1>6. Decreased = IF q >= MinLimit THEN q ELSE MinLimit
  BY DEF Decreased, Larger, q
<1> QED
  BY <1>1, <1>2, <1>5, <1>6 DEF Larger

LEMMA ShedTypeStep == ShedTypeOK /\ [ShedNext]_shedVars => ShedTypeOK'
<1> SUFFICES ASSUME ShedTypeOK, [ShedNext]_shedVars PROVE ShedTypeOK'
    OBVIOUS
<1> USE DEF ShedTypeOK
<1>1. ASSUME NEW c \in Calls, Acquire(c) PROVE ShedTypeOK'
  BY <1>1 DEF Acquire
<1>2. ASSUME NEW c \in Calls, ShedLeaves(c)
      PROVE  /\ inFlight' \in Nat
             /\ admitted' \subseteq Calls
  BY <1>2 DEF ShedLeaves
<1>3. ASSUME NEW c \in Calls, ReleaseOK(c) PROVE ShedTypeOK'
  <2>1. /\ limit' \in MinLimit..Larger(MinLimit, MaxLimit)
        /\ shedSuccesses' \in 0..IncreaseEvery
    BY <1>3, ShedderAssumption DEF ReleaseOK, Larger
  <2> QED
    BY <1>2, <1>3, <2>1 DEF ReleaseOK
<1>4. ASSUME NEW c \in Calls, ReleaseOverloaded(c) PROVE ShedTypeOK'
  <2>1. /\ limit' \in MinLimit..Larger(MinLimit, MaxLimit)
        /\ shedSuccesses' \in 0..IncreaseEvery
    BY <1>4, DecreasedRange, ShedderAssumption DEF ReleaseOverloaded
  <2> QED
    BY <1>2, <1>4, <2>1 DEF ReleaseOverloaded
<1>5. ASSUME NEW c \in Calls, ReleaseFailed(c) PROVE ShedTypeOK'
  <2>1. shedSuccesses' \in 0..IncreaseEvery
    BY <1>5, ShedderAssumption DEF ReleaseFailed
  <2> QED
    BY <1>2, <1>5, <2>1 DEF ReleaseFailed
<1>7. CASE UNCHANGED shedVars
  BY <1>7 DEF shedVars
<1> QED
  BY <1>1, <1>3, <1>4, <1>5, <1>7 DEF ShedNext, ShedPanic

\* The limit never leaves the range the configuration gives it.
THEOREM ShedTypeCorrect == ShedSpec => []ShedTypeOK
<1>1. ShedInit => ShedTypeOK
  <2> SUFFICES ASSUME ShedInit PROVE ShedTypeOK
    OBVIOUS
  <2>1. /\ limit \in MinLimit..Larger(MinLimit, MaxLimit)
        /\ inFlight \in Nat
        /\ shedSuccesses \in 0..IncreaseEvery
    BY ShedderAssumption DEF ShedInit, Larger
  <2> QED
    BY <2>1 DEF ShedInit, ShedTypeOK
<1> QED
  BY <1>1, ShedTypeStep, PTL DEF ShedSpec

---------------------------------------------------------------------------
(* The counter and the calls *)

\* Finitely many calls run at a time, and the counter says how many.
CountInv ==
    /\ IsFiniteSet(admitted)
    /\ InFlightExact

LEMMA AcquireCounts ==
    ASSUME CountInv, NEW c \in Calls, Acquire(c)
    PROVE  /\ CountInv'
           /\ Cardinality(admitted') = inFlight + 1
BY FS_AddElement DEF CountInv, InFlightExact, Acquire

LEMMA LeavesCounts ==
    ASSUME CountInv, NEW c \in Calls, ShedLeaves(c)
    PROVE  CountInv' /\ admitted' \subseteq admitted
<1>1. Cardinality(admitted) \in Nat /\ Cardinality(admitted) # 0
  BY FS_CardinalityType, FS_EmptySet DEF CountInv, ShedLeaves
<1>2. /\ IsFiniteSet(admitted \ {c})
      /\ Cardinality(admitted \ {c}) = Cardinality(admitted) - 1
  BY FS_RemoveElement DEF CountInv, ShedLeaves
<1> QED
  BY <1>1, <1>2 DEF CountInv, InFlightExact, ShedLeaves

\* Every step is an Acquire, or nobody gets in.
LEMMA CountStep ==
    ASSUME CountInv, [ShedNext]_shedVars
    PROVE  /\ CountInv'
           /\ \/ admitted' \subseteq admitted
              \/ inFlight < limit /\ Cardinality(admitted') = inFlight + 1
<1>1. ASSUME NEW c \in Calls, Acquire(c)
      PROVE  /\ CountInv'
             /\ inFlight < limit /\ Cardinality(admitted') = inFlight + 1
  BY <1>1, AcquireCounts DEF Acquire
<1>2. ASSUME NEW c \in Calls,
             ReleaseOK(c) \/ ReleaseOverloaded(c) \/ ReleaseFailed(c)
      PROVE  CountInv' /\ admitted' \subseteq admitted
  BY <1>2, LeavesCounts DEF ReleaseOK, ReleaseOverloaded, ReleaseFailed
<1>3. CASE UNCHANGED shedVars
  BY <1>3 DEF shedVars, CountInv, InFlightExact
<1>4. CASE \E c \in Calls : Acquire(c)
  BY <1>1, <1>4
<1>5. CASE \E c \in Calls :
              ReleaseOK(c) \/ ReleaseOverloaded(c) \/ ReleaseFailed(c)
  BY <1>2, <1>5
<1> QED
  BY <1>3, <1>4, <1>5 DEF ShedNext, ShedPanic

\* inFlight is the number of calls inside the handler, however they end.
THEOREM CounterIsExact == ShedSpec => []InFlightExact
<1>1. ShedInit => CountInv
  BY FS_EmptySet DEF ShedInit, CountInv, InFlightExact
<1>2. CountInv => InFlightExact
  BY DEF CountInv
<1>3. CountInv /\ [ShedNext]_shedVars => CountInv'
  BY CountStep
<1> QED
  BY <1>1, <1>2, <1>3, PTL DEF ShedSpec

\* A call gets in only if it fits under the current limit together with all
\* calls that are inside, also right after the limit was cut.
THEOREM LimitIsRespected == ShedSpec => AdmitsWithinLimit
<1>1. ShedInit => CountInv
  BY FS_EmptySet DEF ShedInit, CountInv, InFlightExact
<1>2. CountInv /\ [ShedNext]_shedVars => CountInv'
  BY CountStep
<1>3. ShedTypeOK /\ CountInv /\ [ShedNext]_shedVars =>
        [admitted' \subseteq admitted \/ Cardinality(admitted') <= limit]_shedVars
  <2> SUFFICES ASSUME ShedTypeOK, CountInv, [ShedNext]_shedVars
               PROVE  admitted' \subseteq admitted \/ Cardinality(admitted') <= limit
    OBVIOUS
  <2>1. inFlight \in Nat /\ limit \in Nat
    BY ShedderAssumption DEF ShedTypeOK, Larger
  <2> QED
    BY <2>1, CountStep
<1> QED
  BY <1>1, <1>2, <1>3, ShedTypeCorrect, PTL DEF ShedSpec, AdmitsWithinLimit

---------------------------------------------------------------------------
(* The policy. *)

\* Each step of a call through the policy is a step of the breaker, or none
\* of its business.
LEMMA BreakerStep == [PolicyNext]_policyVars => [Next]_vars
<1> SUFFICES ASSUME [PolicyNext]_policyVars PROVE Next \/ UNCHANGED vars
    OBVIOUS
<1> USE DEF Next
<1>1. ASSUME NEW c \in Calls,
             \/ Begin(c) \/ GiveUp(c) \/ TryAgain(c) \/ TakeToken(c)
             \/ Admit(c) \/ Shed(c) \/ TurnedAway(c) \/ ReleasesOK(c)
             \/ ReleasesError(c) \/ ReleasesPanic(c)
      PROVE  UNCHANGED vars
  BY <1>1 DEF Begin, GiveUp, TryAgain, TakeToken, Admit, Shed, TurnedAway,
              ReleasesOK, ReleasesError, ReleasesPanic
<1>2. ASSUME NEW c \in Calls, Dial(c) PROVE Next
  BY <1>2 DEF Dial
<1>3. ASSUME NEW c \in Calls, NEW r \in Results \ {"none"}, Reports(c, r)
      PROVE  Next
  <2>1. CASE r = "ok"
    <3>1. Complete(c, FALSE)
      BY <1>3, <2>1 DEF Reports
    <3> QED
      BY <3>1
  <2>2. CASE r = "error"
    BY <1>3, <2>2 DEF Reports
  <2>3. CASE r = "panic"
    BY <1>3, <2>3 DEF Reports
  <2> QED
    BY <2>1, <2>2, <2>3 DEF Results
<1>4. CASE Clock
  BY <1>4 DEF Clock
<1>5. CASE ServiceRecovers
  BY <1>5 DEF ServiceRecovers
<1>6. CASE UNCHANGED policyVars
  BY <1>6 DEF policyVars
<1> QED
  BY <1>1, <1>2, <1>3, <1>4, <1>5, <1>6 DEF PolicyNext, Step

\* The same for the shedder: one Acquire and one release for an attempt.
LEMMA ShedderStep == [PolicyNext]_policyVars => [ShedNext]_shedVars
<1> SUFFICES ASSUME [PolicyNext]_policyVars
             PROVE  ShedNext \/ UNCHANGED shedVars
    OBVIOUS
<1> USE DEF ShedNext
<1>1. ASSUME NEW c \in Calls,
             \/ Begin(c) \/ GiveUp(c) \/ TryAgain(c) \/ TakeToken(c)
             \/ Shed(c) \/ Dial(c) \/ TurnedAway(c)
             \/ \E r \in Results \ {"none"} : Reports(c, r)
      PROVE  UNCHANGED shedVars
  BY <1>1 DEF Begin, GiveUp, TryAgain, TakeToken, Shed, Dial, TurnedAway,
              Reports
<1>2. ASSUME NEW c \in Calls, Admit(c) PROVE ShedNext
  BY <1>2 DEF Admit
<1>3. ASSUME NEW c \in Calls,
             ReleasesOK(c) \/ ReleasesError(c) \/ ReleasesPanic(c)
      PROVE  ShedNext
  BY <1>3 DEF ReleasesOK, ReleasesError, ReleasesPanic
<1>4. CASE Clock \/ ServiceRecovers
  BY <1>4 DEF Clock, ServiceRecovers
<1>5. CASE UNCHANGED policyVars
  BY <1>5 DEF policyVars
<1> QED
  BY <1>1, <1>2, <1>3, <1>4, <1>5 DEF PolicyNext, Step

\* The policy runs its circuit breaker as a circuit breaker: one allow() and,
\* if it is granted, one complete() for each attempt.
THEOREM PolicyRunsBreaker == PolicySpec => Spec
<1>1. PolicyInit => Init
  BY DEF PolicyInit
<1> QED
  BY <1>1, BreakerStep, PTL DEF PolicySpec, Spec

\* The policy runs its load shedder as a load shedder.
THEOREM PolicyRunsShedder == PolicySpec => ShedSpec
<1>1. PolicyInit => ShedInit
  BY DEF PolicyInit
<1> QED
  BY <1>1, ShedderStep, PTL DEF PolicySpec, ShedSpec

\* Attempts of retried calls leak no slot of the half-open circuit, and
\* exceed its limit by no more than the late reports.
THEOREM PolicyProbes == PolicySpec => [](NoLeakedSlot /\ ProbesBounded)
BY PolicyRunsBreaker, SlotsAreNotLeaked, ProbesAreBounded, PTL

\* An open circuit takes no notice of the attempts that report late.
THEOREM PolicyOpenWaits == PolicySpec => OpenIgnoresReports
BY PolicyRunsBreaker, OpenCircuitWaits, PTL

\* The shedder counts the attempts that are inside, turned away by the
\* circuit or not, and lets none in over its limit.
THEOREM PolicyLoad == PolicySpec => []InFlightExact /\ AdmitsWithinLimit
BY PolicyRunsShedder, CounterIsExact, LimitIsRespected, PTL

---------------------------------------------------------------------------
(* Types *)

PipelineTypeOK ==
    /\ pc \in [Calls -> Places]
    /\ tries \in [Calls -> 0..MaxAttempts]
    /\ result \in [Calls -> Results]
    /\ tokens \in 0..Burst

\* A call waits only if it has an attempt left: without this the types of a
\* second attempt cannot be shown.
WaitsForMore == \A c \in Calls : pc[c] = "backoff" => tries[c] < MaxAttempts

PipelineInv == PipelineTypeOK /\ WaitsForMore

\* Going on to any place but a wait, and ending, keeps the invariant.
LEMMA MoveKeeps ==
    ASSUME PipelineInv, NEW c \in Calls, NEW p \in Places \ {"backoff"},
           MoveTo(c, p), tokens' \in 0..Burst
    PROVE  PipelineInv'
BY PolicyAssumption
   DEF PipelineInv, PipelineTypeOK, WaitsForMore, MoveTo, Places, Results

LEMMA FailedKeeps ==
    ASSUME PipelineInv, NEW c \in Calls, Failed(c), tokens' \in 0..Burst
    PROVE  PipelineInv'
<1>1. CASE Ends(c)
  BY <1>1, MoveKeeps DEF Ends, Places
<1>2. CASE tries[c] < MaxAttempts /\ MoveTo(c, "backoff")
  BY <1>2, PolicyAssumption
     DEF PipelineInv, PipelineTypeOK, WaitsForMore, MoveTo, Places, Results
<1> QED
  BY <1>1, <1>2 DEF Failed

LEMMA ReportedKeeps ==
    ASSUME PipelineInv, NEW c \in Calls, NEW r \in Results,
           pc' = [pc EXCEPT ![c] = "reported"],
           result' = [result EXCEPT ![c] = r], UNCHANGED <<tries, tokens>>
    PROVE  PipelineInv'
BY DEF PipelineInv, PipelineTypeOK, WaitsForMore, Places

LEMMA PipelineStep == PipelineInv /\ [PolicyNext]_policyVars => PipelineInv'
<1> SUFFICES ASSUME PipelineInv, [PolicyNext]_policyVars PROVE PipelineInv'
    OBVIOUS
<1>0. tokens \in 0..Burst
  BY DEF PipelineInv, PipelineTypeOK
<1>1. ASSUME NEW c \in Calls, Begin(c) PROVE PipelineInv'
  BY <1>1, PolicyAssumption
     DEF Begin, PipelineInv, PipelineTypeOK, WaitsForMore, Places
<1>2. ASSUME NEW c \in Calls, GiveUp(c) PROVE PipelineInv'
  BY <1>0, <1>2, MoveKeeps DEF GiveUp, Ends, Places
<1>3. ASSUME NEW c \in Calls, TryAgain(c) PROVE PipelineInv'
  BY <1>3, PolicyAssumption
     DEF TryAgain, PipelineInv, PipelineTypeOK, WaitsForMore, Places
<1>4. ASSUME NEW c \in Calls, TakeToken(c) PROVE PipelineInv'
  <2>1. tokens' \in 0..Burst
    BY <1>0, <1>4, PolicyAssumption DEF TakeToken
  <2> QED
    BY <1>4, <2>1, MoveKeeps, FailedKeeps DEF TakeToken, Places
<1>5. ASSUME NEW c \in Calls, Admit(c) \/ Dial(c) PROVE PipelineInv'
  BY <1>0, <1>5, MoveKeeps DEF Admit, Dial, Places
<1>6. ASSUME NEW c \in Calls, Shed(c) \/ ReleasesError(c) PROVE PipelineInv'
  BY <1>0, <1>6, FailedKeeps DEF Shed, ReleasesError
<1>7. ASSUME NEW c \in Calls, TurnedAway(c) PROVE PipelineInv'
  BY <1>7, ReportedKeeps DEF TurnedAway, Results
<1>8. ASSUME NEW c \in Calls, NEW r \in Results \ {"none"}, Reports(c, r)
      PROVE  PipelineInv'
  BY <1>8, ReportedKeeps DEF Reports
<1>9. ASSUME NEW c \in Calls, ReleasesOK(c) \/ ReleasesPanic(c)
      PROVE  PipelineInv'
  BY <1>0, <1>9, MoveKeeps DEF ReleasesOK, ReleasesPanic, Ends, Places
<1>10. CASE Clock
  <2>1. tokens' \in 0..Burst
    BY <1>0, <1>10, PolicyAssumption DEF Clock
  <2>2. UNCHANGED pipeline
    BY <1>10 DEF Clock
  <2> QED
    BY <2>1, <2>2 DEF pipeline, PipelineInv, PipelineTypeOK, WaitsForMore
<1>11. CASE ServiceRecovers \/ UNCHANGED policyVars
  BY <1>11 DEF ServiceRecovers, policyVars, pipeline, PipelineInv,
               PipelineTypeOK, WaitsForMore
<1> QED
  BY <1>1, <1>2, <1>3, <1>4, <1>5, <1>6, <1>7, <1>8, <1>9, <1>10, <1>11
     DEF PolicyNext, Step

\* No call makes more than MaxAttempts attempts, and the bucket holds between
\* no token and a full burst of them.
THEOREM PolicyTypeCorrect == PolicySpec => []PolicyTypeOK
<1>1. PolicyInit => PipelineInv
  BY PolicyAssumption DEF PolicyInit, PipelineInv, PipelineTypeOK,
                          WaitsForMore, Places, Results
<1>2. PipelineInv /\ TypeOK /\ ShedTypeOK => PolicyTypeOK
  BY DEF PipelineInv, PipelineTypeOK, PolicyTypeOK
<1> QED
  BY <1>1, <1>2, PipelineStep, PolicyRunsBreaker, PolicyRunsShedder,
     TypeCorrect, ShedTypeCorrect, PTL DEF PolicySpec
=============================================================================
