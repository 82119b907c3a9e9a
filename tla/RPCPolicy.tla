----------------------------- MODULE RPCPolicy -----------------------------
(***************************************************************************)
(* The calls of one RPCPolicy: framework/core/resilience/policy.go, with   *)
(* retry.go, timeout.go and ratelimit.go.                                  *)
(*                                                                         *)
(* A call runs through timeout budget, retry, rate limit, load shedder and *)
(* circuit breaker to the transport and back.  Retry is outside the last   *)
(* three, so each attempt takes a token, a place in the shedder and the    *)
(* breaker's leave of its own, and gives the last two back before it waits *)
(* for the next attempt.  The mutexes of the three are taken one after the *)
(* other: other calls, and the clock, get in between.                      *)
(*                                                                         *)
(* Deadlines are not kept: while the service is ill any call may find its  *)
(* context done at the points where the code asks for it.                  *)
(***************************************************************************)
EXTENDS CircuitBreaker, LoadShedder

CONSTANTS
    Idempotent,     \* the callers whose operation may be repeated
    MaxAttempts,
    Burst           \* of the rate limiter; its Rate is a token a tick

ASSUME PolicyAssumption ==
    /\ Idempotent \subseteq Calls
    /\ MaxAttempts \in Nat \ {0}
    /\ Burst \in Nat \ {0}

VARIABLES
    pc,         \* where each call is
    tries,      \* attempts it has begun
    result,     \* what the breaker's Execute returns to the shedder
    tokens

pipeline == <<pc, tries, result>>
policyVars == <<vars, shedVars, pipeline, tokens>>

Places == {"idle", "attempt", "limited", "acquired", "running", "reported",
           "backoff"}
Results == {"none", "ok", "error", "panic"}

PolicyTypeOK ==
    /\ TypeOK
    /\ ShedTypeOK
    /\ pc \in [Calls -> Places]
    /\ tries \in [Calls -> 0..MaxAttempts]
    /\ result \in [Calls -> Results]
    /\ tokens \in 0..Burst

PolicyInit ==
    /\ Init
    /\ ShedInit
    /\ pc = [c \in Calls |-> "idle"]
    /\ tries = [c \in Calls |-> 0]
    /\ result = [c \in Calls |-> "none"]
    /\ tokens = Burst

MoveTo(c, place) ==
    /\ pc' = [pc EXCEPT ![c] = place]
    /\ tries' = IF place = "idle" THEN [tries EXCEPT ![c] = 0] ELSE tries
    /\ result' = [result EXCEPT ![c] = "none"]

Ends(c) == MoveTo(c, "idle")

\* What Retry does with the error of an attempt: returns it, or waits.
Failed(c) ==
    \/ Ends(c)
    \/ c \in Idempotent /\ tries[c] < MaxAttempts /\ MoveTo(c, "backoff")

---------------------------------------------------------------------------
(* On the way in *)

\* TimeoutBudget lets the call through and Retry makes its first attempt.
Begin(c) ==
    /\ pc[c] = "idle"
    /\ pc' = [pc EXCEPT ![c] = "attempt"]
    /\ tries' = [tries EXCEPT ![c] = 1]
    /\ UNCHANGED <<vars, shedVars, result, tokens>>

\* The context is done when Retry asks for it, before an attempt or in a
\* wait.
GiveUp(c) ==
    /\ ~healthy
    /\ c \in Idempotent
    /\ pc[c] \in {"attempt", "backoff"}
    /\ Ends(c)
    /\ UNCHANGED <<vars, shedVars, tokens>>

\* Mutant: the loop does not count its attempts.
TryAgain_Uncounted(c) ==
    /\ pc[c] = "backoff"
    /\ pc' = [pc EXCEPT ![c] = "attempt"]
    /\ UNCHANGED <<vars, shedVars, tries, result, tokens>>

\* The wait is over.
TryAgain(c) ==
    /\ pc[c] = "backoff"
    /\ pc' = [pc EXCEPT ![c] = "attempt"]
    /\ tries' = [tries EXCEPT ![c] = @ + 1]
    /\ UNCHANGED <<vars, shedVars, result, tokens>>

\* TokenBucket.Allow
TakeToken(c) ==
    /\ pc[c] = "attempt"
    /\ \/ tokens > 0 /\ tokens' = tokens - 1 /\ MoveTo(c, "limited")
       \/ tokens = 0 /\ Failed(c) /\ UNCHANGED tokens
    /\ UNCHANGED <<vars, shedVars>>

Admit(c) ==
    /\ pc[c] = "limited"
    /\ Acquire(c)
    /\ MoveTo(c, "acquired")
    /\ UNCHANGED <<vars, tokens>>

\* Over the limit, or less deadline left than MinimumBudget.
Shed(c) ==
    /\ pc[c] = "limited"
    /\ inFlight >= limit \/ ~healthy
    /\ Failed(c)
    /\ UNCHANGED <<vars, shedVars, tokens>>

Dial(c) ==
    /\ pc[c] = "acquired"
    /\ Allow(c)
    /\ MoveTo(c, "running")
    /\ UNCHANGED <<shedVars, tokens>>

\* ErrCircuitOpen is an error of the shedder's next handler.
TurnedAway(c) ==
    /\ pc[c] = "acquired"
    /\ \/ state = "open" /\ sinceOpen < OpenTimeout
       \/ state = "half-open" /\ halfOpenInFlight >= HalfOpenMaxRequests
    /\ pc' = [pc EXCEPT ![c] = "reported"]
    /\ result' = [result EXCEPT ![c] = "error"]
    /\ UNCHANGED <<vars, shedVars, tries, tokens>>

---------------------------------------------------------------------------
(* On the way back *)

\* The transport has answered and the breaker takes notice.  An error the
\* breaker does not take for a failure is one all the same.
Reports(c, r) ==
    /\ pc[c] = "running"
    /\ r # "ok" => ~healthy
    /\ CASE r = "ok"    -> Complete(c, FALSE)
         [] r = "error" -> \E failed \in BOOLEAN : Complete(c, failed)
         [] r = "panic" -> Panic(c)
    /\ pc' = [pc EXCEPT ![c] = "reported"]
    /\ result' = [result EXCEPT ![c] = r]
    /\ UNCHANGED <<shedVars, tries, tokens>>

\* A success ends the call.  It may have been slow while the service is ill.
ReleasesOK(c) ==
    /\ pc[c] = "reported"
    /\ result[c] = "ok"
    /\ ReleaseOK(c) \/ (~healthy /\ ReleaseOverloaded(c))
    /\ Ends(c)
    /\ UNCHANGED <<vars, tokens>>

ReleasesError(c) ==
    /\ pc[c] = "reported"
    /\ result[c] = "error"
    /\ ReleaseFailed(c) \/ (~healthy /\ ReleaseOverloaded(c))
    /\ Failed(c)
    /\ UNCHANGED <<vars, tokens>>

\* A panic goes through Retry and TimeoutBudget to the caller.
ReleasesPanic(c) ==
    /\ pc[c] = "reported"
    /\ result[c] = "panic"
    /\ ShedPanic(c)
    /\ Ends(c)
    /\ UNCHANGED <<vars, tokens>>

---------------------------------------------------------------------------
(* Surroundings *)

\* A tick brings a token, and an open circuit nearer to its first probe.
Clock ==
    /\ \/ Tick
       \/ /\ state # "open" \/ sinceOpen >= OpenTimeout
          /\ tokens < Burst
          /\ UNCHANGED vars
    /\ tokens' = IF tokens < Burst THEN tokens + 1 ELSE tokens
    /\ UNCHANGED <<shedVars, pipeline>>

ServiceRecovers ==
    /\ Recover
    /\ UNCHANGED <<shedVars, pipeline, tokens>>

Step(c) ==
    \/ GiveUp(c) \/ TryAgain(c) \/ TakeToken(c) \/ Admit(c) \/ Shed(c)
    \/ Dial(c) \/ TurnedAway(c) \/ \E r \in Results \ {"none"} : Reports(c, r)
    \/ ReleasesOK(c) \/ ReleasesError(c) \/ ReleasesPanic(c)

PolicyNext ==
    \/ \E c \in Calls : Begin(c) \/ Step(c)
    \/ Clock
    \/ ServiceRecovers

PolicySpec == PolicyInit /\ [][PolicyNext]_policyVars

\* Calls run on, somebody keeps calling and time passes.
PolicyFair ==
    /\ PolicySpec
    /\ WF_policyVars(\E c \in Calls : Begin(c))
    /\ \A c \in Calls : WF_policyVars(Step(c))
    /\ WF_policyVars(Clock)

---------------------------------------------------------------------------
(* Properties *)

\* Whatever turns its attempts away, and however often it is repeated, every
\* call comes to an end.
EveryCallReturns == \A c \in Calls : pc[c] # "idle" ~> pc[c] = "idle"

\* Once the service is well again the limit climbs back to its maximum,
\* although calls that an open circuit turned away count as failed ones.
Regrows == healthy ~> limit >= MaxLimit
=============================================================================
