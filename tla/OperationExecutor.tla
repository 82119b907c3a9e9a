-------------------------- MODULE OperationExecutor --------------------------
(***************************************************************************)
(* Executor.Execute for an operation with required idempotency:            *)
(* framework/operation/executor.go over framework/execution (scope,        *)
(* idempotency), idempotencygorm and the GORM unit of work.                *)
(*                                                                         *)
(* A call claims the idempotency row of its key, opens a transaction, runs *)
(* the application, stages the success marker in that transaction and      *)
(* commits.  The claim is made outside the transaction, is a lease, and    *)
(* may be taken over by another call while its owner is still at work.     *)
(* Plans with required idempotency have transaction "local":               *)
(* operationplan.Validate rejects the others.                              *)
(***************************************************************************)
EXTENDS Naturals, FiniteSets

CONSTANTS
    Calls,      \* calls of Execute; each draws an attempt token of its own
    Keys,       \* tenant, operation and idempotency key
    KeyOf,      \* the key of each call
    NoCall,
    Store,      \* "gorm": leases and MarkTx; "memory": neither
    Lease,
    ClaimTries, \* rounds of Store.Claim before it gives up
    MaxClock,   \* bound on the clock
    MaxFaults   \* bound on crashes, failed calls and lost answers

ASSUME ExecutorAssumption ==
    /\ KeyOf \in [Calls -> Keys]
    /\ NoCall \notin Calls
    /\ Store \in {"gorm", "memory"}
    /\ {Lease, ClaimTries} \subseteq Nat \ {0}
    /\ {MaxClock, MaxFaults} \subseteq Nat

\* coordinator.SupportsAtomicCompletion
Atomic == Store = "gorm"

VARIABLES
    clock,
    row,        \* the committed idempotency row of each key
    lock,       \* the call whose open transaction has updated the row
    applied,    \* the calls whose business transaction was committed
    pc,         \* where each call of Execute is
    readNow,    \* the `now' of the current round of Claim
    seen,       \* the row that round has looked up
    rounds,     \* the rounds Claim has lost
    told,       \* what Execute returned
    faults

claimVars == <<readNow, seen, rounds>>
vars == <<clock, row, lock, applied, pc, claimVars, told, faults>>

States == {"absent", "running", "succeeded", "failed"}
Rows == [state : States, attempt : Calls \cup {NoCall}, leaseUntil : Nat]
NoRow == [state |-> "absent", attempt |-> NoCall, leaseUntil |-> 0]
PCs == {"idle", "insert", "lookup", "takeover", "scope", "invoke", "stage",
        "commit", "finalize", "fail", "done"}
Answers == {"none", "ok", "completed", "in-progress", "error", "lost"}

TypeOK ==
    /\ clock \in Nat
    /\ row \in [Keys -> Rows]
    /\ lock \in [Keys -> Calls \cup {NoCall}]
    /\ applied \in [Keys -> SUBSET Calls]
    /\ pc \in [Calls -> PCs]
    /\ readNow \in [Calls -> Nat]
    /\ seen \in [Calls -> Rows]
    /\ rounds \in [Calls -> Nat]
    /\ told \in [Calls -> Answers]
    /\ faults \in Nat

Init ==
    /\ clock = 0
    /\ row = [k \in Keys |-> NoRow]
    /\ lock = [k \in Keys |-> NoCall]
    /\ applied = [k \in Keys |-> {}]
    /\ pc = [c \in Calls |-> "idle"]
    /\ readNow = [c \in Calls |-> 0]
    /\ seen = [c \in Calls |-> NoRow]
    /\ rounds = [c \in Calls |-> 0]
    /\ told = [c \in Calls |-> "none"]
    /\ faults = 0

RowOf(c) == row[KeyOf[c]]

Goto(c, next) == pc' = [pc EXCEPT ![c] = next]

\* What Claim remembered is of no use once it has returned.
ForgetClaim(c) ==
    /\ readNow' = [readNow EXCEPT ![c] = 0]
    /\ seen' = [seen EXCEPT ![c] = NoRow]
    /\ rounds' = [rounds EXCEPT ![c] = 0]

Return(c, answer) ==
    /\ Goto(c, "done")
    /\ told' = [told EXCEPT ![c] = answer]
    /\ ForgetClaim(c)

Fault == faults < MaxFaults /\ faults' = faults + 1

---------------------------------------------------------------------------
(* Before the claim *)

\* A call comes in; security, or a missing key, may turn it away.
Execute(c) ==
    /\ pc[c] = "idle"
    /\ \/ Goto(c, "insert") /\ UNCHANGED <<told, claimVars>>
       \/ Return(c, "error")
    /\ UNCHANGED <<clock, row, lock, applied, faults>>

---------------------------------------------------------------------------
(* Store.Claim *)

Claimed(c, now) ==
    [row EXCEPT ![KeyOf[c]] = [state |-> "running", attempt |-> c,
                               leaseUntil |-> now + Lease]]

\* INSERT ... ON CONFLICT DO NOTHING.
ClaimInsert(c) ==
    /\ Store = "gorm"
    /\ pc[c] = "insert"
    /\ IF RowOf(c).state = "absent"
       THEN /\ row' = Claimed(c, clock)
            /\ Goto(c, "scope")
            /\ ForgetClaim(c)
       ELSE /\ Goto(c, "lookup")
            /\ readNow' = [readNow EXCEPT ![c] = clock]
            /\ UNCHANGED <<row, seen, rounds>>
    /\ UNCHANGED <<clock, lock, applied, told, faults>>

\* Mutant: a completed operation may be claimed again.
ClaimLookup_IgnoresSucceeded(c) ==
    /\ pc[c] = "lookup"
    /\ IF RowOf(c).state = "running" /\ RowOf(c).leaseUntil > readNow[c]
       THEN Return(c, "in-progress")
       ELSE /\ Goto(c, "takeover")
            /\ seen' = [seen EXCEPT ![c] = RowOf(c)]
            /\ UNCHANGED <<readNow, rounds, told>>
    /\ UNCHANGED <<clock, row, lock, applied, faults>>

\* The SELECT, and what it decides.
ClaimLookup(c) ==
    /\ pc[c] = "lookup"
    /\ CASE RowOf(c).state = "succeeded" -> Return(c, "completed")
         [] RowOf(c).state = "running" /\ RowOf(c).leaseUntil > readNow[c] ->
              Return(c, "in-progress")
         [] OTHER -> /\ Goto(c, "takeover")
                     /\ seen' = [seen EXCEPT ![c] = RowOf(c)]
                     /\ UNCHANGED <<readNow, rounds, told>>
    /\ UNCHANGED <<clock, row, lock, applied, faults>>

\* The row is still the one the round has seen: state and attempt agree.
StillSeen(c) ==
    /\ RowOf(c).state = seen[c].state
    /\ RowOf(c).attempt = seen[c].attempt

\* UPDATE ... WHERE state = ? AND attempt = ?; it waits for the row lock.
ClaimTakeover(c) ==
    /\ pc[c] = "takeover"
    /\ lock[KeyOf[c]] = NoCall
    /\ IF StillSeen(c)
       THEN /\ row' = Claimed(c, readNow[c])
            /\ Goto(c, "scope")
            /\ ForgetClaim(c)
            /\ UNCHANGED told
       ELSE /\ UNCHANGED row
            /\ IF rounds[c] + 1 < ClaimTries
               THEN /\ Goto(c, "insert")
                    /\ rounds' = [rounds EXCEPT ![c] = @ + 1]
                    /\ UNCHANGED <<readNow, seen, told>>
               ELSE Return(c, "in-progress")
    /\ UNCHANGED <<clock, lock, applied, faults>>

\* A statement of Claim errs, possibly after it took effect.
ClaimErrs(c) ==
    /\ Store = "gorm"
    /\ pc[c] \in {"insert", "lookup", "takeover"}
    /\ Fault
    /\ \/ UNCHANGED row
       \/ /\ pc[c] = "insert"
          /\ RowOf(c).state = "absent"
          /\ row' = Claimed(c, clock)
       \/ /\ pc[c] = "takeover"
          /\ lock[KeyOf[c]] = NoCall
          /\ StillSeen(c)
          /\ row' = Claimed(c, readNow[c])
    /\ Return(c, "error")
    /\ UNCHANGED <<clock, lock, applied>>

\* Mutant: a completed operation may be claimed again.
ClaimMemory_IgnoresSucceeded(c) ==
    /\ Store = "memory"
    /\ pc[c] = "insert"
    /\ IF RowOf(c).state = "running"
       THEN Return(c, "in-progress") /\ UNCHANGED row
       ELSE /\ row' = Claimed(c, clock)
            /\ Goto(c, "scope")
            /\ UNCHANGED <<claimVars, told>>
    /\ UNCHANGED <<clock, lock, applied, faults>>

\* Mutant: a claim that is under way is not respected.
ClaimMemory_IgnoresRunning(c) ==
    /\ Store = "memory"
    /\ pc[c] = "insert"
    /\ IF RowOf(c).state = "succeeded"
       THEN Return(c, "completed") /\ UNCHANGED row
       ELSE /\ row' = Claimed(c, clock)
            /\ Goto(c, "scope")
            /\ UNCHANGED <<claimVars, told>>
    /\ UNCHANGED <<clock, lock, applied, faults>>

\* The memory store decides under its mutex, and its claims never expire.
ClaimMemory(c) ==
    /\ Store = "memory"
    /\ pc[c] = "insert"
    /\ CASE RowOf(c).state = "succeeded" ->
              Return(c, "completed") /\ UNCHANGED row
         [] RowOf(c).state = "running" ->
              Return(c, "in-progress") /\ UNCHANGED row
         [] OTHER -> /\ row' = Claimed(c, clock)
                     /\ Goto(c, "scope")
                     /\ UNCHANGED <<claimVars, told>>
    /\ UNCHANGED <<clock, lock, applied, faults>>

---------------------------------------------------------------------------
(* The execution scope and the application *)

BeginRoot(c) ==
    /\ pc[c] = "scope"
    /\ \/ Goto(c, "invoke") /\ UNCHANGED faults
       \/ Goto(c, "fail") /\ Fault
    /\ UNCHANGED <<clock, row, lock, applied, claimVars, told>>

\* The application writes into the open transaction; an error or a panic
\* rolls it back before the claim is failed.
Invoke(c) ==
    /\ pc[c] = "invoke"
    /\ Goto(c, "stage") \/ Goto(c, "fail")
    /\ UNCHANGED <<clock, row, lock, applied, claimVars, told, faults>>

---------------------------------------------------------------------------
(* Store.Mark and Store.MarkTx *)

\* The WHERE clause of the update.
Holds(c) == RowOf(c).state = "running" /\ RowOf(c).attempt = c

\* lease_until of a terminal row is never looked at.
Marked(c, state) ==
    [row EXCEPT ![KeyOf[c]] = [@ EXCEPT !.state = state, !.leaseUntil = 0]]

\* GORM also takes a repeated mark of the same attempt for a success.
MarkOK(c, state) ==
    \/ Holds(c)
    \/ Store = "gorm" /\ RowOf(c).attempt = c /\ RowOf(c).state = state

\* Mutant: the marker is written with the base handle, not the transaction.
StageAtomicIdempotency_BaseHandle(c) ==
    /\ pc[c] = "stage"
    /\ lock[KeyOf[c]] = NoCall
    /\ IF MarkOK(c, "succeeded")
       THEN row' = Marked(c, "succeeded") /\ Goto(c, "commit")
       ELSE UNCHANGED row /\ Goto(c, "fail")
    /\ UNCHANGED <<clock, lock, applied, claimVars, told, faults>>

\* stageAtomicIdempotency: the success marker is written in the transaction
\* and keeps the row locked.  A lost lease or an error rolls back.
StageAtomicIdempotency(c) ==
    /\ pc[c] = "stage"
    /\ IF Atomic
       THEN /\ lock[KeyOf[c]] = NoCall
            /\ \/ /\ MarkOK(c, "succeeded")
                  /\ lock' = [lock EXCEPT ![KeyOf[c]] = c]
                  /\ Goto(c, "commit")
                  /\ UNCHANGED faults
               \/ /\ ~MarkOK(c, "succeeded")
                  /\ Goto(c, "fail")
                  /\ UNCHANGED <<lock, faults>>
               \/ /\ Fault
                  /\ Goto(c, "fail")
                  /\ UNCHANGED lock
       ELSE Goto(c, "commit") /\ UNCHANGED <<lock, faults>>
    /\ UNCHANGED <<clock, row, applied, claimVars, told>>

---------------------------------------------------------------------------
(* Root.Commit and the end of the call *)

\* The end of a transaction lets go of the rows it has updated.
Unlocked(c) ==
    [lock EXCEPT ![KeyOf[c]] = IF @ = c THEN NoCall ELSE @]

Committed(c) ==
    /\ applied' = [applied EXCEPT ![KeyOf[c]] = @ \cup {c}]
    /\ row' = IF lock[KeyOf[c]] = c THEN Marked(c, "succeeded") ELSE row
    /\ lock' = Unlocked(c)

\* Mutant: a failed commit is not rolled back.
Commit_KeepsTransaction(c) ==
    /\ pc[c] = "commit"
    /\ \/ Committed(c) /\ Goto(c, "finalize") /\ UNCHANGED faults
       \/ Committed(c) /\ Goto(c, "fail") /\ Fault
       \/ Goto(c, "fail") /\ Fault /\ UNCHANGED <<applied, row, lock>>
    /\ UNCHANGED <<clock, claimVars, told>>

\* The database commits and says so; commits and the answer is lost; or does
\* not commit, and the unit of work is rolled back and closed.
Commit(c) ==
    /\ pc[c] = "commit"
    /\ \/ Committed(c) /\ Goto(c, "finalize") /\ UNCHANGED faults
       \/ Committed(c) /\ Goto(c, "fail") /\ Fault
       \/ /\ Goto(c, "fail")
          /\ Fault
          /\ lock' = Unlocked(c)
          /\ UNCHANGED <<applied, row>>
    /\ UNCHANGED <<clock, claimVars, told>>

\* coordinator.Complete, when the marker was not part of the transaction.
Finalize(c) ==
    /\ pc[c] = "finalize"
    /\ IF Atomic \/ MarkOK(c, "succeeded")
       THEN Return(c, "ok")
       ELSE Return(c, "error")
    /\ row' = IF ~Atomic /\ Holds(c) THEN Marked(c, "succeeded") ELSE row
    /\ UNCHANGED <<clock, lock, applied, faults>>

\* coordinator.Fail; its update waits for the row lock and its errors are
\* part of the error the call returns anyway.
Fail(c) ==
    /\ pc[c] = "fail"
    /\ \/ /\ lock[KeyOf[c]] = NoCall
          /\ row' = IF Holds(c) THEN Marked(c, "failed") ELSE row
          /\ UNCHANGED faults
       \/ Store = "gorm" /\ Fault /\ UNCHANGED row
    /\ Return(c, "error")
    /\ UNCHANGED <<clock, lock, applied>>

\* The process dies and the database rolls its transaction back.
Crash(c) ==
    /\ Store = "gorm"
    /\ pc[c] \notin {"idle", "done"}
    /\ Fault
    /\ lock' = Unlocked(c)
    /\ Return(c, "lost")
    /\ UNCHANGED <<clock, row, applied>>

Tick ==
    /\ clock < MaxClock
    /\ clock' = clock + 1
    /\ UNCHANGED <<row, lock, applied, pc, claimVars, told, faults>>

---------------------------------------------------------------------------

Step(c) ==
    \/ ClaimInsert(c) \/ ClaimLookup(c) \/ ClaimTakeover(c) \/ ClaimMemory(c)
    \/ BeginRoot(c) \/ Invoke(c) \/ StageAtomicIdempotency(c)
    \/ Commit(c) \/ Finalize(c) \/ Fail(c)

Next ==
    \/ \E c \in Calls : Execute(c) \/ Step(c) \/ ClaimErrs(c) \/ Crash(c)
    \/ Tick

Spec == Init /\ [][Next]_vars

\* A goroutine that can go on does, and the database ends its transactions.
FairSpec == Spec /\ \A c \in Calls : WF_vars(Step(c))

---------------------------------------------------------------------------
(* Properties *)

\* With the durable store an operation is performed at most once per key,
\* although claims expire under calls that are still at work, commits fail
\* with their outcome unknown and calls crash at any point.
AtMostOnce ==
    \A k \in Keys : Cardinality(applied[k]) <= 1

\* No answer is wrong: "ok" goes to one call per key, whose transaction was
\* committed, and "completed" is only said of an operation that was.
AnswersAreTrue ==
    \A c \in Calls :
        /\ told[c] = "ok" =>
              /\ c \in applied[KeyOf[c]]
              /\ \A d \in Calls : (told[d] = "ok" /\ KeyOf[d] = KeyOf[c]) => d = c
        /\ told[c] = "completed" => applied[KeyOf[c]] # {}

\* A completed operation stays completed: not even the Fail that follows a
\* commit with a lost answer makes it retryable.
SucceededIsFinal ==
    [][\A k \in Keys :
          row[k].state = "succeeded" => row'[k] = row[k]]_vars

\* The memory store cannot tell a commit whose answer was lost from one that
\* failed, and lets the operation be performed again; but it is never
\* performed again without such a fault.
RepeatedOnlyAfterFaults ==
    \A k \in Keys : Cardinality(applied[k]) <= faults + 1

\* Every call returns: Claim gives up, and no call waits for ever for a row
\* that another call's transaction has locked.
EveryCallReturns ==
    \A c \in Calls : pc[c] # "idle" ~> pc[c] = "done"

---------------------------------------------------------------------------
(* Why an operation is performed at most once *)

\* The success marker and the business transaction are committed together.
MarkerIsEffect ==
    \A k \in Keys :
        applied[k] = IF row[k].state = "succeeded" THEN {row[k].attempt} ELSE {}

\* A call commits only while it holds the row, running and its own.
CommitHoldsRow ==
    /\ \A c \in Calls : pc[c] = "commit" => lock[KeyOf[c]] = c
    /\ \A k \in Keys :
          lock[k] # NoCall =>
              /\ pc[lock[k]] = "commit"
              /\ KeyOf[lock[k]] = k
              /\ row[k].state = "running"
              /\ row[k].attempt = lock[k]

\* A call that has not reached its commit has not performed anything.
NotYetApplied ==
    \A c \in Calls :
        c \in applied[KeyOf[c]] => pc[c] \in {"finalize", "fail", "done"}

\* Answers, and calls about to give one, agree with the row.
AnswersMatchRow ==
    \A c \in Calls :
        /\ pc[c] # "done" => told[c] = "none"
        /\ (pc[c] = "finalize" \/ told[c] = "ok") => c \in applied[KeyOf[c]]
        /\ told[c] = "completed" => applied[KeyOf[c]] # {}

\* Claim never sets out to take over a completed row.
TakesOverOpenRow ==
    \A c \in Calls : pc[c] = "takeover" => seen[c].state # "succeeded"

\* The inductive invariant of the durable store.
OnceInv ==
    /\ MarkerIsEffect
    /\ CommitHoldsRow
    /\ NotYetApplied
    /\ AnswersMatchRow
    /\ TakesOverOpenRow

---------------------------------------------------------------------------
(* What the memory store keeps instead *)

\* One call is at work per key: a claim never expires, so nobody takes it over
\* and nobody looks a row up to do so.
OneAtWork ==
    /\ \A k \in Keys : lock[k] = NoCall
    /\ \A c \in Calls :
          /\ pc[c] \notin {"lookup", "takeover"}
          /\ pc[c] \in {"scope", "invoke", "stage", "commit", "finalize", "fail"} =>
                Holds(c)

\* A row is only marked, and an answer only given, after the commit.
MarkFollowsCommit ==
    /\ \A k \in Keys : row[k].state = "succeeded" => row[k].attempt \in applied[k]
    /\ \A c \in Calls :
          /\ pc[c] # "done" => told[c] = "none"
          /\ pc[c] = "finalize" => c \in applied[KeyOf[c]]
          /\ told[c] = "ok" => RowOf(c).state = "succeeded" /\ RowOf(c).attempt = c
          /\ told[c] = "completed" => RowOf(c).state = "succeeded"

\* The inductive invariant of the memory store.
MemoryInv == OneAtWork /\ MarkFollowsCommit

\* The last commit of the key was answered.
Confirmed(k) ==
    \/ row[k].state = "succeeded"
    \/ \E c \in Calls : KeyOf[c] = k /\ pc[c] = "finalize"

\* Every commit of a key but a confirmed one lost its answer.
CommitsCounted ==
    \A k \in Keys :
        /\ IsFiniteSet(applied[k])
        /\ Cardinality(applied[k]) <= faults + (IF Confirmed(k) THEN 1 ELSE 0)

Contract == INSTANCE OncePerKey WITH done <- applied, answer <- told

\* Every step of every call is one the callers' contract allows.
PerformedOnce == Contract!Spec
=============================================================================
