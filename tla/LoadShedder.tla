---------------------------- MODULE LoadShedder ----------------------------
(***************************************************************************)
(* One adaptive load shedder: framework/core/resilience/loadshed.go.       *)
(*                                                                         *)
(* acquire() admits a call while fewer than `limit' are in flight;         *)
(* release() takes it out again and moves the limit: multiplicatively down *)
(* after an overloaded call, up by one after a run of good ones.           *)
(***************************************************************************)
EXTENDS Callers, Naturals, FiniteSets

CONSTANTS
    MinLimit, MaxLimit, InitialLimit,
    IncreaseEvery,
    DecreaseNum, DecreaseDen    \* DecreaseFactor, a fraction

\* Larger(a, b) is the greater of the two.
Larger(a, b) == IF a >= b THEN a ELSE b

\* normalizeLoadShedConfig does not ask for MinLimit <= MaxLimit.
ASSUME ShedderAssumption ==
    /\ {MinLimit, MaxLimit, InitialLimit, IncreaseEvery, DecreaseNum,
        DecreaseDen} \subseteq Nat \ {0}
    /\ MinLimit <= InitialLimit
    /\ InitialLimit <= Larger(MinLimit, MaxLimit)
    /\ DecreaseNum < DecreaseDen

VARIABLES
    limit,
    inFlight,
    shedSuccesses,  \* no further than IncreaseEvery
    admitted        \* the calls that are inside the next handler

shedVars == <<limit, inFlight, shedSuccesses, admitted>>

ShedTypeOK ==
    /\ limit \in MinLimit..Larger(MinLimit, MaxLimit)
    /\ inFlight \in Nat
    /\ shedSuccesses \in 0..IncreaseEvery
    /\ admitted \subseteq Calls

ShedInit ==
    /\ limit = InitialLimit
    /\ inFlight = 0
    /\ shedSuccesses = 0
    /\ admitted = {}

\* Mutant: one call too many.
Acquire_OffByOne(c) ==
    /\ c \notin admitted
    /\ inFlight <= limit
    /\ inFlight' = inFlight + 1
    /\ admitted' = admitted \cup {c}
    /\ UNCHANGED <<limit, shedSuccesses>>

\* A call with too little deadline left, or over the limit, leaves no trace.
Acquire(c) ==
    /\ c \notin admitted
    /\ inFlight < limit
    /\ inFlight' = inFlight + 1
    /\ admitted' = admitted \cup {c}
    /\ UNCHANGED <<limit, shedSuccesses>>

Decreased == Larger((limit * DecreaseNum) \div DecreaseDen, MinLimit)

ShedLeaves(c) ==
    /\ c \in admitted
    /\ admitted' = admitted \ {c}
    /\ inFlight' = IF inFlight > 0 THEN inFlight - 1 ELSE 0

\* The call was slow, or the Overload predicate takes its error for one.
ReleaseOverloaded(c) ==
    /\ limit' = Decreased
    /\ shedSuccesses' = 0
    /\ ShedLeaves(c)

\* The call failed in some other way.
ReleaseFailed(c) ==
    /\ shedSuccesses' = 0
    /\ UNCHANGED limit
    /\ ShedLeaves(c)

\* Mutant: the counter of good calls starts again at every one of them.
ReleaseOK_Restarts(c) ==
    /\ IF 1 >= IncreaseEvery /\ limit < MaxLimit
       THEN limit' = limit + 1 /\ shedSuccesses' = 0
       ELSE shedSuccesses' = 0 /\ UNCHANGED limit
    /\ ShedLeaves(c)

ReleaseOK(c) ==
    /\ IF shedSuccesses + 1 >= IncreaseEvery /\ limit < MaxLimit
       THEN limit' = limit + 1 /\ shedSuccesses' = 0
       ELSE /\ shedSuccesses' = IF shedSuccesses < IncreaseEvery
                                THEN shedSuccesses + 1 ELSE shedSuccesses
            /\ UNCHANGED limit
    /\ ShedLeaves(c)

\* Mutant: Execute has no deferred recover.
ShedPanic_NotRecovered(c) ==
    /\ c \in admitted
    /\ admitted' = admitted \ {c}
    /\ UNCHANGED <<limit, inFlight, shedSuccesses>>

\* A panic is released as ErrLoadShed, which may count as overload or not.
ShedPanic(c) == ReleaseOverloaded(c) \/ ReleaseFailed(c)

ShedNext ==
    \E c \in Calls : \/ Acquire(c)
                     \/ ReleaseOK(c)
                     \/ ReleaseOverloaded(c)
                     \/ ReleaseFailed(c)
                     \/ ShedPanic(c)

ShedSpec == ShedInit /\ [][ShedNext]_shedVars

---------------------------------------------------------------------------
(* Properties *)

\* The counter is the number of calls inside the handler: whatever way a call
\* ends it gives back the one slot it took.
InFlightExact == inFlight = Cardinality(admitted)

\* However fast the limit falls under calls that are already in, no further
\* call gets in before as many have left that it fits under the new limit.
AdmitsWithinLimit ==
    [][admitted' \subseteq admitted \/ Cardinality(admitted') <= limit]_shedVars
=============================================================================
