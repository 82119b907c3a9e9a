--------------------------- MODULE CircuitBreaker ---------------------------
(***************************************************************************)
(* One circuit breaker: framework/core/resilience/breaker.go.              *)
(*                                                                         *)
(* A call asks allow(), runs the next handler without the mutex, and       *)
(* reports to complete().  The circuit may open, half-open and close any   *)
(* number of times while a call runs, and complete() does not know in      *)
(* which state the call was let through.                                   *)
(***************************************************************************)
EXTENDS Callers, Naturals, FiniteSets

CONSTANTS
    FailureThreshold,
    SuccessThreshold,
    OpenTimeout,            \* in ticks
    HalfOpenMaxRequests

ASSUME BreakerAssumption ==
    {FailureThreshold, SuccessThreshold, OpenTimeout, HalfOpenMaxRequests}
        \subseteq Nat \ {0}

VARIABLES
    state, failures, successes, halfOpenInFlight,
    sinceOpen,      \* now - openedAt, no further than OpenTimeout
    running,        \* the calls that are inside the next handler
    probes,         \* history: those let through since the circuit half-opened
    stale,          \* history: how many others have reported since then
    healthy         \* whether the downstream service has recovered for good

counters == <<failures, successes, halfOpenInFlight>>
vars == <<state, counters, sinceOpen, running, probes, stale, healthy>>

States == {"closed", "open", "half-open"}

\* The counters never sit at their threshold between two calls.
TypeOK ==
    /\ state \in States
    /\ failures \in 0..(FailureThreshold - 1)
    /\ successes \in 0..(SuccessThreshold - 1)
    /\ halfOpenInFlight \in 0..HalfOpenMaxRequests
    /\ sinceOpen \in 0..OpenTimeout
    /\ running \subseteq Calls
    /\ probes \subseteq running
    /\ stale \in Nat
    /\ healthy \in BOOLEAN

Init ==
    /\ state = "closed"
    /\ failures = 0
    /\ successes = 0
    /\ halfOpenInFlight = 0
    /\ sinceOpen = 0
    /\ running = {}
    /\ probes = {}
    /\ stale = 0
    /\ healthy = FALSE

---------------------------------------------------------------------------
(* allow *)

AllowClosed(c) ==
    /\ state = "closed"
    /\ UNCHANGED <<state, counters, probes, stale>>

\* The first call after the timeout finds the circuit open and probes it.
AllowFirstProbe(c) ==
    /\ state = "open"
    /\ sinceOpen >= OpenTimeout
    /\ state' = "half-open"
    /\ successes' = 0
    /\ halfOpenInFlight' = 1
    /\ probes' = {c}
    /\ stale' = 0
    /\ UNCHANGED failures

\* Mutant: one probe too many.
AllowProbe_OffByOne(c) ==
    /\ state = "half-open"
    /\ halfOpenInFlight <= HalfOpenMaxRequests
    /\ halfOpenInFlight' = halfOpenInFlight + 1
    /\ probes' = probes \cup {c}
    /\ UNCHANGED <<state, failures, successes, stale>>

AllowProbe(c) ==
    /\ state = "half-open"
    /\ halfOpenInFlight < HalfOpenMaxRequests
    /\ halfOpenInFlight' = halfOpenInFlight + 1
    /\ probes' = probes \cup {c}
    /\ UNCHANGED <<state, failures, successes, stale>>

\* A call that is turned away (ErrCircuitOpen) leaves no trace.
Allow(c) ==
    /\ c \notin running
    /\ AllowClosed(c) \/ AllowFirstProbe(c) \/ AllowProbe(c)
    /\ running' = running \cup {c}
    /\ UNCHANGED <<sinceOpen, healthy>>

---------------------------------------------------------------------------
(* complete *)

OpenLocked ==
    /\ state' = "open"
    /\ sinceOpen' = 0
    /\ failures' = 0
    /\ successes' = 0
    /\ halfOpenInFlight' = 0

CompleteClosed(failed) ==
    /\ state = "closed"
    /\ IF failed /\ failures + 1 >= FailureThreshold
       THEN OpenLocked
       ELSE /\ failures' = IF failed THEN failures + 1 ELSE 0
            /\ successes' = IF failed THEN 0 ELSE successes
            /\ UNCHANGED <<state, halfOpenInFlight, sinceOpen>>

\* Mutant: only a failure gives the slot of the probe back.
CompleteHalfOpen_KeepsSlot(failed) ==
    /\ state = "half-open"
    /\ IF failed
       THEN OpenLocked
       ELSE /\ UNCHANGED <<failures, halfOpenInFlight>>
            /\ IF successes + 1 >= SuccessThreshold
               THEN state' = "closed" /\ successes' = 0 /\ sinceOpen' = 0
               ELSE /\ successes' = successes + 1
                    /\ UNCHANGED <<state, sinceOpen>>

\* Whoever reports gives a slot back, a probe or not.
CompleteHalfOpen(failed) ==
    /\ state = "half-open"
    /\ IF failed
       THEN OpenLocked
       ELSE /\ halfOpenInFlight' = IF halfOpenInFlight > 0
                                   THEN halfOpenInFlight - 1 ELSE 0
            /\ IF successes + 1 >= SuccessThreshold
               THEN /\ state' = "closed"
                    /\ failures' = 0
                    /\ successes' = 0
                    /\ sinceOpen' = 0
               ELSE /\ successes' = successes + 1
                    /\ UNCHANGED <<state, failures, sinceOpen>>

\* Mutant: a late report opens the circuit again.
CompleteOpen_Reopens ==
    /\ state = "open"
    /\ OpenLocked

\* A report to an open circuit counts for nothing.
CompleteOpen ==
    /\ state = "open"
    /\ UNCHANGED <<state, counters, sinceOpen>>

\* The call is no longer running, and the history follows the circuit.
Leaves(c) ==
    /\ c \in running
    /\ running' = running \ {c}
    /\ probes' = IF state' = "half-open" THEN probes \ {c} ELSE {}
    /\ stale' = CASE state' # "half-open" -> 0
                  [] c \in probes -> stale
                  [] OTHER -> stale + 1
    /\ UNCHANGED healthy

Complete(c, failed) ==
    /\ failed => ~healthy
    /\ CompleteClosed(failed) \/ CompleteHalfOpen(failed) \/ CompleteOpen
    /\ Leaves(c)

\* Mutant: Execute has no deferred recover.
Panic_NotRecovered(c) ==
    /\ ~healthy
    /\ UNCHANGED <<state, counters, sinceOpen>>
    /\ Leaves(c)

\* Execute recovers the panic of the next handler, reports a failure and
\* panics again.
Panic(c) == Complete(c, TRUE)

---------------------------------------------------------------------------
(* Surroundings *)

Tick ==
    /\ state = "open"
    /\ sinceOpen < OpenTimeout
    /\ sinceOpen' = sinceOpen + 1
    /\ UNCHANGED <<state, counters, running, probes, stale, healthy>>

\* The outage is over: no call fails any more.
Recover ==
    /\ ~healthy
    /\ healthy' = TRUE
    /\ UNCHANGED <<state, counters, sinceOpen, running, probes, stale>>

Next ==
    \/ \E c \in Calls : Allow(c) \/ Panic(c)
    \/ \E c \in Calls, failed \in BOOLEAN : Complete(c, failed)
    \/ Tick
    \/ Recover

Spec == Init /\ [][Next]_vars

---------------------------------------------------------------------------
(* Properties *)

\* A slot of the half-open circuit is never leaked: each slot that is taken
\* belongs to a probe that is still running and will give it back, so a
\* half-open circuit turns calls away only while a probe is under way.
NoLeakedSlot ==
    state = "half-open" => halfOpenInFlight <= Cardinality(probes)

\* The half-open limit holds up to late reports: calls let through before the
\* circuit opened give back slots they never took, one each, and no other
\* way leads to more than HalfOpenMaxRequests probes at a time.
ProbesBounded ==
    state = "half-open" => Cardinality(probes) <= HalfOpenMaxRequests + stale

\* Reports that come in while the circuit is open neither close it, nor
\* start the waiting time again, nor are remembered for later.
OpenIgnoresReports ==
    [][state = "open" =>
          \/ state' = "open" /\ counters' = counters /\ sinceOpen' >= sinceOpen
          \/ state' = "half-open" /\ sinceOpen >= OpenTimeout]_vars

\* Once the downstream service has recovered the circuit closes for good.
RecoversAfterOutage == healthy ~> [](state = "closed")

\* Why the two bounds on probes hold: slots taken and probes under way differ
\* by the late reports at most.
ProbeInv ==
    state = "half-open" =>
        /\ halfOpenInFlight <= Cardinality(probes)
        /\ Cardinality(probes) <= halfOpenInFlight + stale
=============================================================================
