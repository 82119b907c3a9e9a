--------------------------- MODULE ExecutorProofs ---------------------------
(***************************************************************************)
(* Theorems about OperationExecutor: type correctness and true answers for *)
(* either store, at-most-once execution with the durable one, and what a   *)
(* repetition costs with the memory store.                                 *)
(***************************************************************************)
EXTENDS OperationExecutor, FiniteSetTheorems, TLAPS

---------------------------------------------------------------------------
(* Types *)

LEMMA NoRowType == NoRow \in Rows
  BY DEF NoRow, Rows, States

LEMMA RowOfType ==
    ASSUME TypeOK, NEW c \in Calls
    PROVE  KeyOf[c] \in Keys /\ RowOf(c) \in Rows
  BY ExecutorAssumption DEF TypeOK, RowOf

\* A claim leaves a row that runs for the claiming call.
LEMMA ClaimedType ==
    ASSUME TypeOK, NEW c \in Calls, NEW now \in Nat
    PROVE  Claimed(c, now) \in [Keys -> Rows]
  <1>1. [state |-> "running", attempt |-> c, leaseUntil |-> now + Lease] \in Rows
    BY ExecutorAssumption DEF Rows, States
  <1>2. QED
    BY <1>1 DEF Claimed, TypeOK

LEMMA MarkedType ==
    ASSUME TypeOK, NEW c \in Calls, NEW s \in States
    PROVE  Marked(c, s) \in [Keys -> Rows]
  <1>1. [RowOf(c) EXCEPT !.state = s, !.leaseUntil = 0] \in Rows
    BY RowOfType DEF Rows
  <1>2. QED
    BY <1>1, RowOfType DEF Marked, TypeOK, RowOf

LEMMA UnlockedType ==
    ASSUME TypeOK, NEW c \in Calls
    PROVE  Unlocked(c) \in [Keys -> Calls \cup {NoCall}]
  BY DEF Unlocked, TypeOK

LEMMA ReturnType ==
    ASSUME TypeOK, NEW c \in Calls, NEW a \in Answers, Return(c, a)
    PROVE  /\ pc' \in [Calls -> PCs]
           /\ told' \in [Calls -> Answers]
           /\ readNow' \in [Calls -> Nat]
           /\ seen' \in [Calls -> Rows]
           /\ rounds' \in [Calls -> Nat]
  BY NoRowType DEF Return, Goto, ForgetClaim, TypeOK, PCs

LEMMA ForgetType ==
    ASSUME TypeOK, NEW c \in Calls, ForgetClaim(c)
    PROVE  /\ readNow' \in [Calls -> Nat]
           /\ seen' \in [Calls -> Rows]
           /\ rounds' \in [Calls -> Nat]
  BY NoRowType DEF ForgetClaim, TypeOK

LEMMA GotoType ==
    ASSUME TypeOK, NEW c \in Calls, NEW p \in PCs, Goto(c, p)
    PROVE  pc' \in [Calls -> PCs]
  BY DEF Goto, TypeOK

\* Every step keeps every variable in its type.
LEMMA TypeStep == TypeOK /\ [Next]_vars => TypeOK'
  <1> SUFFICES ASSUME TypeOK, [Next]_vars PROVE TypeOK'
    OBVIOUS
  <1> USE DEF claimVars
  <1>1. ASSUME NEW c \in Calls, Execute(c) PROVE TypeOK'
    <2>1. CASE Goto(c, "insert") /\ UNCHANGED <<told, claimVars>>
      BY <1>1, <2>1, GotoType DEF Execute, TypeOK, PCs
    <2>2. CASE Return(c, "error")
      BY <1>1, <2>2, ReturnType DEF Execute, TypeOK, Answers
    <2>3. QED
      BY <1>1, <2>1, <2>2 DEF Execute
  <1>2. ASSUME NEW c \in Calls, ClaimInsert(c) PROVE TypeOK'
    <2>1. CASE RowOf(c).state = "absent"
      <3>1. row' \in [Keys -> Rows]
        BY <1>2, <2>1, ClaimedType DEF ClaimInsert, TypeOK
      <3>2. Goto(c, "scope") /\ ForgetClaim(c)
        BY <1>2, <2>1 DEF ClaimInsert
      <3>3. QED
        BY <1>2, <3>1, <3>2, ForgetType, GotoType
        DEF ClaimInsert, TypeOK, PCs
    <2>2. CASE RowOf(c).state # "absent"
      BY <1>2, <2>2, GotoType DEF ClaimInsert, TypeOK, PCs
    <2>3. QED
      BY <2>1, <2>2
  <1>3. ASSUME NEW c \in Calls, ClaimLookup(c) PROVE TypeOK'
    <2>1. \/ Return(c, "completed")
          \/ Return(c, "in-progress")
          \/ /\ Goto(c, "takeover")
             /\ seen' = [seen EXCEPT ![c] = RowOf(c)]
             /\ UNCHANGED <<readNow, rounds, told>>
      BY <1>3 DEF ClaimLookup
    <2>2. UNCHANGED <<clock, row, lock, applied, faults>>
      BY <1>3 DEF ClaimLookup
    <2>3. CASE Return(c, "completed") \/ Return(c, "in-progress")
      BY <2>2, <2>3, ReturnType DEF TypeOK, Answers
    <2>4. CASE /\ Goto(c, "takeover")
               /\ seen' = [seen EXCEPT ![c] = RowOf(c)]
               /\ UNCHANGED <<readNow, rounds, told>>
      BY <2>2, <2>4, GotoType, RowOfType DEF TypeOK, PCs
    <2>5. QED
      BY <2>1, <2>3, <2>4
  <1>4. ASSUME NEW c \in Calls, ClaimTakeover(c) PROVE TypeOK'
    <2>1. CASE StillSeen(c)
      <3>1. row' \in [Keys -> Rows]
        BY <1>4, <2>1, ClaimedType DEF ClaimTakeover, TypeOK
      <3>2. Goto(c, "scope") /\ ForgetClaim(c) /\ UNCHANGED told
        BY <1>4, <2>1 DEF ClaimTakeover
      <3>3. QED
        BY <1>4, <3>1, <3>2, ForgetType, GotoType
        DEF ClaimTakeover, TypeOK, PCs
    <2>2. CASE ~StillSeen(c) /\ rounds[c] + 1 < ClaimTries
      <3>1. /\ Goto(c, "insert")
            /\ rounds' = [rounds EXCEPT ![c] = @ + 1]
            /\ UNCHANGED <<clock, lock, applied, faults, row, readNow, seen, told>>
        BY <1>4, <2>2 DEF ClaimTakeover
      <3>2. QED
        BY <3>1, GotoType DEF TypeOK, PCs
    <2>3. CASE ~StillSeen(c) /\ ~(rounds[c] + 1 < ClaimTries)
      <3>1. /\ Return(c, "in-progress")
            /\ UNCHANGED <<clock, lock, applied, faults, row>>
        BY <1>4, <2>3 DEF ClaimTakeover
      <3>2. QED
        BY <3>1, ReturnType DEF TypeOK, Answers
    <2>4. QED
      BY <2>1, <2>2, <2>3
  <1>5. ASSUME NEW c \in Calls, ClaimErrs(c) PROVE TypeOK'
    <2>1. row' \in [Keys -> Rows]
      BY <1>5, ClaimedType DEF ClaimErrs, TypeOK
    <2>2. faults' \in Nat
      BY <1>5 DEF ClaimErrs, Fault, TypeOK
    <2>3. QED
      BY <1>5, <2>1, <2>2, ReturnType DEF ClaimErrs, TypeOK, Answers
  <1>6. ASSUME NEW c \in Calls, ClaimMemory(c) PROVE TypeOK'
    <2>1. UNCHANGED <<clock, lock, applied, faults>>
      BY <1>6 DEF ClaimMemory
    <2>2. \/ Return(c, "completed") /\ UNCHANGED row
          \/ Return(c, "in-progress") /\ UNCHANGED row
          \/ /\ row' = Claimed(c, clock)
             /\ Goto(c, "scope")
             /\ UNCHANGED <<claimVars, told>>
      BY <1>6 DEF ClaimMemory
    <2>3. CASE (Return(c, "completed") \/ Return(c, "in-progress")) /\ UNCHANGED row
      BY <2>1, <2>3, ReturnType DEF TypeOK, Answers
    <2>4. CASE /\ row' = Claimed(c, clock)
               /\ Goto(c, "scope")
               /\ UNCHANGED <<claimVars, told>>
      <3>1. row' \in [Keys -> Rows]
        BY <2>4, ClaimedType DEF TypeOK
      <3>2. QED
        BY <2>1, <2>4, <3>1, GotoType DEF TypeOK, PCs
    <2>5. QED
      BY <2>2, <2>3, <2>4
  <1>7. ASSUME NEW c \in Calls, BeginRoot(c) PROVE TypeOK'
    BY <1>7, GotoType DEF BeginRoot, TypeOK, PCs, Fault
  <1>8. ASSUME NEW c \in Calls, Invoke(c) PROVE TypeOK'
    BY <1>8, GotoType DEF Invoke, TypeOK, PCs
  <1>9. ASSUME NEW c \in Calls, StageAtomicIdempotency(c) PROVE TypeOK'
    <2>1. /\ UNCHANGED <<clock, row, applied, claimVars, told>>
          /\ lock' \in [Keys -> Calls \cup {NoCall}]
          /\ Goto(c, "commit") \/ Goto(c, "fail")
          /\ faults' \in Nat
      BY <1>9 DEF StageAtomicIdempotency, TypeOK, Fault
    <2>2. QED
      BY <2>1, GotoType DEF TypeOK, PCs
  <1>10. ASSUME NEW c \in Calls, Commit(c) PROVE TypeOK'
    <2>1. row' \in [Keys -> Rows]
      BY <1>10, MarkedType DEF Commit, Committed, TypeOK, States
    <2>2. lock' \in [Keys -> Calls \cup {NoCall}]
      BY <1>10, UnlockedType DEF Commit, Committed
    <2>3. applied' \in [Keys -> SUBSET Calls]
      BY <1>10 DEF Commit, Committed, TypeOK
    <2>4. QED
      BY <1>10, <2>1, <2>2, <2>3, GotoType DEF Commit, TypeOK, Fault, PCs
  <1>11. ASSUME NEW c \in Calls, Finalize(c) PROVE TypeOK'
    <2>1. row' \in [Keys -> Rows]
      BY <1>11, MarkedType DEF Finalize, TypeOK, States
    <2>2. Return(c, "ok") \/ Return(c, "error")
      BY <1>11 DEF Finalize
    <2>3. QED
      BY <1>11, <2>1, <2>2, ReturnType DEF Finalize, TypeOK, Answers
  <1>12. ASSUME NEW c \in Calls, Fail(c) PROVE TypeOK'
    <2>1. row' \in [Keys -> Rows]
      BY <1>12, MarkedType DEF Fail, TypeOK, States
    <2>2. faults' \in Nat
      BY <1>12 DEF Fail, TypeOK, Fault
    <2>3. QED
      BY <1>12, <2>1, <2>2, ReturnType DEF Fail, TypeOK, Answers
  <1>13. ASSUME NEW c \in Calls, Crash(c) PROVE TypeOK'
    <2>1. faults' \in Nat
      BY <1>13 DEF Crash, TypeOK, Fault
    <2>2. QED
      BY <1>13, <2>1, UnlockedType, ReturnType DEF Crash, TypeOK, Answers
  <1>14. CASE Tick
    BY <1>14 DEF Tick, TypeOK
  <1>15. CASE UNCHANGED vars
    BY <1>15 DEF vars, TypeOK
  <1>16. QED
    BY <1>1, <1>2, <1>3, <1>4, <1>5, <1>6, <1>7, <1>8, <1>9, <1>10, <1>11,
       <1>12, <1>13, <1>14, <1>15 DEF Next, Step

\* Type correctness of the executor, with either store.
THEOREM TypeCorrect == Spec => []TypeOK
  <1>1. Init => TypeOK
    BY NoRowType DEF Init, TypeOK, PCs, Answers
  <1>2. QED
    BY <1>1, TypeStep, PTL DEF Spec

---------------------------------------------------------------------------
(* At most once *)

\* What the steps of a call outside its commit have in common: they touch no
\* lock and no business data, and change a row only while it is unlocked and
\* not succeeded, into one that is not succeeded either.
Quiet(c) ==
    /\ \A d \in Calls \ {c} :
          pc'[d] = pc[d] /\ told'[d] = told[d] /\ seen'[d] = seen[d]
    /\ pc[c] # "commit"
    /\ pc'[c] \notin {"commit", "finalize"}
    /\ UNCHANGED <<lock, applied>>
    /\ \A k \in Keys :
          \/ row'[k] = row[k]
          \/ /\ lock[k] = NoCall
             /\ row[k].state # "succeeded"
             /\ row'[k].state # "succeeded"
    /\ pc'[c] # "done" => told'[c] = "none"
    /\ told'[c] = "ok" => c \in applied[KeyOf[c]]
    /\ told'[c] = "completed" => applied[KeyOf[c]] # {}
    /\ c \in applied[KeyOf[c]] => pc'[c] \in {"fail", "done"}
    /\ pc'[c] = "takeover" => seen'[c].state # "succeeded"

LEMMA QuietKeepsInv ==
    ASSUME TypeOK, OnceInv, NEW c \in Calls, Quiet(c)
    PROVE  OnceInv'
  <1> USE ExecutorAssumption
  <1>1. MarkerIsEffect'
    <2>1. ASSUME NEW k \in Keys
          PROVE  applied'[k] = IF row'[k].state = "succeeded"
                               THEN {row'[k].attempt} ELSE {}
      <3>1. applied'[k] = applied[k]
        BY DEF Quiet
      <3>2. applied[k] = IF row[k].state = "succeeded"
                         THEN {row[k].attempt} ELSE {}
        BY DEF OnceInv, MarkerIsEffect
      <3>3. \/ row'[k] = row[k]
            \/ row[k].state # "succeeded" /\ row'[k].state # "succeeded"
        BY DEF Quiet
      <3>4. QED
        BY <3>1, <3>2, <3>3
    <2>2. QED
      BY <2>1 DEF MarkerIsEffect
  <1>2. CommitHoldsRow'
    <2>1. ASSUME NEW d \in Calls, pc'[d] = "commit" PROVE lock'[KeyOf[d]] = d
      BY <2>1 DEF OnceInv, CommitHoldsRow, Quiet
    <2>2. ASSUME NEW k \in Keys, lock'[k] # NoCall
          PROVE  /\ pc'[lock'[k]] = "commit"
                 /\ KeyOf[lock'[k]] = k
                 /\ row'[k].state = "running"
                 /\ row'[k].attempt = lock'[k]
      <3>1. lock[k] \in Calls /\ lock'[k] = lock[k] /\ row'[k] = row[k]
        BY <2>2 DEF Quiet, TypeOK
      <3>2. lock[k] # c
        BY <2>2, <3>1 DEF OnceInv, CommitHoldsRow, Quiet
      <3>3. QED
        BY <2>2, <3>1, <3>2 DEF OnceInv, CommitHoldsRow, Quiet
    <2>3. QED
      BY <2>1, <2>2 DEF CommitHoldsRow
  <1>3. NotYetApplied'
    BY DEF OnceInv, NotYetApplied, Quiet
  <1>4. AnswersMatchRow'
    BY DEF OnceInv, AnswersMatchRow, Quiet
  <1>5. TakesOverOpenRow'
    BY DEF OnceInv, TakesOverOpenRow, Quiet
  <1>6. QED
    BY <1>1, <1>2, <1>3, <1>4, <1>5 DEF OnceInv

\* How Return and Goto show in the variables the invariant reads.
LEMMA ReturnEffect ==
    ASSUME TypeOK, NEW c \in Calls, NEW a, Return(c, a)
    PROVE  /\ pc'[c] = "done" /\ told'[c] = a
           /\ \A d \in Calls \ {c} :
                 pc'[d] = pc[d] /\ told'[d] = told[d] /\ seen'[d] = seen[d]
  BY DEF Return, Goto, ForgetClaim, TypeOK

LEMMA GotoEffect ==
    ASSUME TypeOK, NEW c \in Calls, NEW p, Goto(c, p)
    PROVE  pc'[c] = p /\ \A d \in Calls \ {c} : pc'[d] = pc[d]
  BY DEF Goto, TypeOK

LEMMA ClaimedEffect ==
    ASSUME TypeOK, NEW c \in Calls, NEW now, row' = Claimed(c, now)
    PROVE  \A k \in Keys : /\ k # KeyOf[c] => row'[k] = row[k]
                           /\ k = KeyOf[c] => row'[k].state = "running"
  BY DEF Claimed, TypeOK

LEMMA MarkedEffect ==
    ASSUME TypeOK, NEW c \in Calls, NEW s, row' = Marked(c, s)
    PROVE  \A k \in Keys :
             /\ k # KeyOf[c] => row'[k] = row[k]
             /\ k = KeyOf[c] => /\ row'[k].state = s
                                /\ row'[k].attempt = row[k].attempt
  BY DEF Marked, TypeOK, Rows

\* A call that has not committed yet and the row of its key.
LEMMA BeforeCommit ==
    ASSUME TypeOK, OnceInv, NEW c \in Calls,
           pc[c] \notin {"commit", "finalize", "fail", "done"}
    PROVE  /\ c \notin applied[KeyOf[c]]
           /\ told[c] = "none"
  BY DEF OnceInv, NotYetApplied, AnswersMatchRow

\* A row that is not running is not locked.
LEMMA LockedRuns ==
    ASSUME TypeOK, OnceInv, NEW k \in Keys, row[k].state # "running"
    PROVE  lock[k] = NoCall
  BY DEF OnceInv, CommitHoldsRow

LEMMA ClaimIsQuiet ==
    ASSUME TypeOK, OnceInv, Atomic, NEW c \in Calls,
           \/ Execute(c) \/ ClaimInsert(c) \/ ClaimLookup(c)
           \/ ClaimTakeover(c) \/ ClaimErrs(c)
    PROVE  Quiet(c)
  <1> USE ExecutorAssumption
  <1>1. pc[c] \in {"idle", "insert", "lookup", "takeover"}
    BY DEF Execute, ClaimInsert, ClaimLookup, ClaimTakeover, ClaimErrs
  <1>2. c \notin applied[KeyOf[c]] /\ told[c] = "none"
    BY <1>1, BeforeCommit
  <1>3. UNCHANGED <<lock, applied>>
    BY DEF Execute, ClaimInsert, ClaimLookup, ClaimTakeover, ClaimErrs
  <1>4. \A k \in Keys :
          \/ row'[k] = row[k]
          \/ /\ lock[k] = NoCall
             /\ row[k].state # "succeeded"
             /\ row'[k].state # "succeeded"
    <2>1. CASE UNCHANGED row
      BY <2>1
    <2>2. CASE RowOf(c).state = "absent" /\ row' = Claimed(c, clock)
      BY <2>2, ClaimedEffect, LockedRuns DEF RowOf
    <2>3. CASE /\ pc[c] = "takeover" /\ lock[KeyOf[c]] = NoCall
               /\ StillSeen(c) /\ row' = Claimed(c, readNow[c])
      <3>1. RowOf(c).state # "succeeded"
        BY <2>3 DEF OnceInv, TakesOverOpenRow, StillSeen
      <3>2. QED
        BY <2>3, <3>1, ClaimedEffect DEF RowOf
    <2>4. QED
      BY <2>1, <2>2, <2>3
      DEF Execute, ClaimInsert, ClaimLookup, ClaimTakeover, ClaimErrs
  <1>5. CASE \E a \in {"error", "in-progress", "completed"} :
               /\ Return(c, a)
               /\ a = "completed" => RowOf(c).state = "succeeded"
    <2>1. PICK a \in {"error", "in-progress", "completed"} :
               /\ Return(c, a)
               /\ a = "completed" => RowOf(c).state = "succeeded"
      BY <1>5
    <2>2. a = "completed" => applied[KeyOf[c]] # {}
      BY <2>1 DEF OnceInv, MarkerIsEffect, RowOf
    <2>3. /\ pc'[c] = "done" /\ told'[c] = a
          /\ \A d \in Calls \ {c} :
                pc'[d] = pc[d] /\ told'[d] = told[d] /\ seen'[d] = seen[d]
      BY <2>1, ReturnEffect
    <2>4. QED
      BY <1>1, <1>2, <1>3, <1>4, <2>2, <2>3 DEF Quiet
  <1>6. CASE /\ UNCHANGED told
             /\ \/ Goto(c, "insert") /\ UNCHANGED seen
                \/ Goto(c, "scope") /\ ForgetClaim(c)
                \/ Goto(c, "lookup") /\ UNCHANGED seen
                \/ /\ Goto(c, "takeover")
                   /\ seen' = [seen EXCEPT ![c] = RowOf(c)]
                   /\ RowOf(c).state # "succeeded"
    <2>1. \A d \in Calls \ {c} : seen'[d] = seen[d]
      BY <1>6 DEF TypeOK, ForgetClaim
    <2>2. /\ pc'[c] \in {"insert", "scope", "lookup", "takeover"}
          /\ \A d \in Calls \ {c} : pc'[d] = pc[d]
      BY <1>6, GotoEffect
    <2>3. pc'[c] = "takeover" => seen'[c].state # "succeeded"
      BY <1>6, GotoEffect DEF TypeOK
    <2>4. QED
      BY <1>1, <1>2, <1>3, <1>4, <1>6, <2>1, <2>2, <2>3 DEF Quiet
  <1>7. CASE Execute(c)
    BY <1>5, <1>6, <1>7 DEF Execute, claimVars
  <1>8. CASE ClaimInsert(c)
    BY <1>6, <1>8 DEF ClaimInsert
  <1>9. CASE ClaimLookup(c)
    <2>1. CASE RowOf(c).state = "succeeded"
      BY <1>5, <1>9, <2>1 DEF ClaimLookup
    <2>2. CASE RowOf(c).state = "running" /\ RowOf(c).leaseUntil > readNow[c]
      <3>1. Return(c, "in-progress")
        BY <1>9, <2>2 DEF ClaimLookup
      <3>2. QED
        BY <1>5, <3>1
    <2>3. CASE /\ RowOf(c).state # "succeeded"
               /\ ~(RowOf(c).state = "running" /\ RowOf(c).leaseUntil > readNow[c])
      <3>1. /\ Goto(c, "takeover")
            /\ seen' = [seen EXCEPT ![c] = RowOf(c)]
            /\ UNCHANGED told
        BY <1>9, <2>3 DEF ClaimLookup
      <3>2. QED
        BY <1>6, <2>3, <3>1
    <2>4. QED
      BY <2>1, <2>2, <2>3
  <1>10. CASE ClaimTakeover(c)
    <2>1. CASE StillSeen(c)
      BY <1>6, <1>10, <2>1 DEF ClaimTakeover
    <2>2. CASE ~StillSeen(c) /\ rounds[c] + 1 < ClaimTries
      BY <1>6, <1>10, <2>2 DEF ClaimTakeover
    <2>3. CASE ~StillSeen(c) /\ ~(rounds[c] + 1 < ClaimTries)
      BY <1>5, <1>10, <2>3 DEF ClaimTakeover
    <2>4. QED
      BY <2>1, <2>2, <2>3
  <1>11. CASE ClaimErrs(c)
    BY <1>5, <1>11 DEF ClaimErrs
  <1>12. QED
    BY <1>7, <1>8, <1>9, <1>10, <1>11

LEMMA ScopeIsQuiet ==
    ASSUME TypeOK, OnceInv, NEW c \in Calls,
           BeginRoot(c) \/ Invoke(c)
    PROVE  Quiet(c)
  <1>1. pc[c] \in {"scope", "invoke"}
    BY DEF BeginRoot, Invoke
  <1>2. c \notin applied[KeyOf[c]] /\ told[c] = "none"
    BY <1>1, BeforeCommit
  <1>3. /\ Goto(c, "invoke") \/ Goto(c, "stage") \/ Goto(c, "fail")
        /\ UNCHANGED <<row, lock, applied, seen, told>>
    BY DEF BeginRoot, Invoke, claimVars
  <1>4. /\ pc'[c] \in {"invoke", "stage", "fail"}
        /\ \A d \in Calls \ {c} : pc'[d] = pc[d]
    BY <1>3, GotoEffect
  <1>5. QED
    BY <1>1, <1>2, <1>3, <1>4 DEF Quiet

LEMMA FinalizeIsQuiet ==
    ASSUME TypeOK, OnceInv, Atomic, NEW c \in Calls, Finalize(c)
    PROVE  Quiet(c)
  <1>1. pc[c] = "finalize" /\ Return(c, "ok") /\ UNCHANGED <<row, lock, applied>>
    BY DEF Finalize
  <1>2. c \in applied[KeyOf[c]]
    BY <1>1 DEF OnceInv, AnswersMatchRow
  <1>3. QED
    BY <1>1, <1>2, ReturnEffect DEF Quiet

LEMMA FailIsQuiet ==
    ASSUME TypeOK, OnceInv, NEW c \in Calls, Fail(c)
    PROVE  Quiet(c)
  <1>1. pc[c] = "fail" /\ Return(c, "error") /\ UNCHANGED <<lock, applied>>
    BY DEF Fail
  <1>2. \A k \in Keys :
          \/ row'[k] = row[k]
          \/ /\ lock[k] = NoCall
             /\ row[k].state # "succeeded"
             /\ row'[k].state # "succeeded"
    <2>1. CASE UNCHANGED row
      BY <2>1
    <2>2. CASE lock[KeyOf[c]] = NoCall /\ Holds(c) /\ row' = Marked(c, "failed")
      BY <2>2, MarkedEffect, RowOfType DEF Holds, RowOf
    <2>3. QED
      BY <2>1, <2>2 DEF Fail
  <1>3. QED
    BY <1>1, <1>2, ReturnEffect DEF Quiet

\* Staging the marker locks the row for the commit of its owner.
LEMMA StageKeepsInv ==
    ASSUME TypeOK, OnceInv, Atomic, NEW c \in Calls, StageAtomicIdempotency(c)
    PROVE  OnceInv'
  <1> USE ExecutorAssumption
  <1>1. /\ pc[c] = "stage" /\ lock[KeyOf[c]] = NoCall
        /\ UNCHANGED <<row, applied, seen, told>>
    BY DEF StageAtomicIdempotency, claimVars
  <1>2. c \notin applied[KeyOf[c]] /\ told[c] = "none"
    BY <1>1, BeforeCommit
  <1>3. CASE Goto(c, "fail") /\ UNCHANGED lock
    <2>1. Quiet(c)
      BY <1>1, <1>2, <1>3, GotoEffect DEF Quiet
    <2>2. QED
      BY <2>1, QuietKeepsInv
  <1>4. CASE /\ MarkOK(c, "succeeded")
             /\ lock' = [lock EXCEPT ![KeyOf[c]] = c]
             /\ Goto(c, "commit")
    <2>1. KeyOf[c] \in Keys
      OBVIOUS
    <2>2. RowOf(c).attempt = c /\ RowOf(c).state = "running"
      <3>1. ~(RowOf(c).attempt = c /\ RowOf(c).state = "succeeded")
        BY <1>2, <2>1 DEF OnceInv, MarkerIsEffect, RowOf
      <3>2. QED
        BY <1>4, <3>1 DEF MarkOK, Holds
    <2>3. pc'[c] = "commit" /\ \A d \in Calls \ {c} : pc'[d] = pc[d]
      BY <1>4, GotoEffect
    <2>4. /\ lock'[KeyOf[c]] = c
          /\ \A k \in Keys \ {KeyOf[c]} : lock'[k] = lock[k]
      BY <1>4 DEF TypeOK
    <2>5. MarkerIsEffect'
      BY <1>1 DEF OnceInv, MarkerIsEffect
    <2>6. CommitHoldsRow'
      <3>1. ASSUME NEW d \in Calls, pc'[d] = "commit" PROVE lock'[KeyOf[d]] = d
        <4>1. CASE d = c
          BY <2>4, <4>1
        <4>2. CASE d # c
          <5>1. lock[KeyOf[d]] = d
            BY <2>3, <3>1, <4>2 DEF OnceInv, CommitHoldsRow
          <5>2. KeyOf[d] # KeyOf[c]
            BY <1>1, <5>1
          <5>3. QED
            BY <2>4, <5>1, <5>2
        <4>3. QED
          BY <4>1, <4>2
      <3>2. ASSUME NEW k \in Keys, lock'[k] # NoCall
            PROVE  /\ pc'[lock'[k]] = "commit"
                   /\ KeyOf[lock'[k]] = k
                   /\ row'[k].state = "running"
                   /\ row'[k].attempt = lock'[k]
        <4>1. CASE k = KeyOf[c]
          BY <1>1, <2>2, <2>3, <2>4, <4>1 DEF RowOf
        <4>2. CASE k # KeyOf[c]
          <5>1. lock'[k] = lock[k] /\ lock[k] \in Calls
            BY <2>4, <3>2, <4>2 DEF TypeOK
          <5>2. lock[k] # c
            BY <1>1, <3>2, <5>1 DEF OnceInv, CommitHoldsRow
          <5>3. QED
            BY <1>1, <2>3, <3>2, <5>1, <5>2 DEF OnceInv, CommitHoldsRow
        <4>3. QED
          BY <4>1, <4>2
      <3>3. QED
        BY <3>1, <3>2 DEF CommitHoldsRow
    <2>7. NotYetApplied'
      BY <1>1, <1>2, <2>3 DEF OnceInv, NotYetApplied
    <2>8. AnswersMatchRow'
      BY <1>1, <1>2, <2>3 DEF OnceInv, AnswersMatchRow
    <2>9. TakesOverOpenRow'
      BY <1>1, <2>3 DEF OnceInv, TakesOverOpenRow
    <2>10. QED
      BY <2>5, <2>6, <2>7, <2>8, <2>9 DEF OnceInv
  <1>5. QED
    BY <1>3, <1>4 DEF StageAtomicIdempotency

\* The end of a call's own transaction, committed or not, frees its row.
LEMMA UnlockedEffect ==
    ASSUME TypeOK, NEW c \in Calls, lock' = Unlocked(c)
    PROVE  \A k \in Keys :
             lock'[k] = IF k = KeyOf[c] /\ lock[k] = c THEN NoCall ELSE lock[k]
  BY DEF Unlocked, TypeOK

\* A step that ends the transaction of a call without committing it.
LEMMA AbortKeepsInv ==
    ASSUME TypeOK, OnceInv, NEW c \in Calls,
           lock' = Unlocked(c), UNCHANGED <<row, applied>>,
           \A d \in Calls \ {c} :
              pc'[d] = pc[d] /\ told'[d] = told[d] /\ seen'[d] = seen[d],
           \/ pc'[c] = "fail" /\ told'[c] = told[c] /\ pc[c] = "commit"
           \/ pc'[c] = "done" /\ told'[c] \in {"lost", "error"}
    PROVE  OnceInv'
  <1> USE ExecutorAssumption
  <1>1. \A k \in Keys :
          lock'[k] = IF k = KeyOf[c] /\ lock[k] = c THEN NoCall ELSE lock[k]
    BY UnlockedEffect
  <1>2. MarkerIsEffect'
    BY DEF OnceInv, MarkerIsEffect
  <1>3. CommitHoldsRow'
    <2>1. ASSUME NEW d \in Calls, pc'[d] = "commit" PROVE lock'[KeyOf[d]] = d
      <3>1. d # c /\ lock[KeyOf[d]] = d
        BY <2>1 DEF OnceInv, CommitHoldsRow
      <3>2. QED
        BY <1>1, <3>1
    <2>2. ASSUME NEW k \in Keys, lock'[k] # NoCall
          PROVE  /\ pc'[lock'[k]] = "commit"
                 /\ KeyOf[lock'[k]] = k
                 /\ row'[k].state = "running"
                 /\ row'[k].attempt = lock'[k]
      <3>1. lock'[k] = lock[k] /\ lock[k] \in Calls
        BY <1>1, <2>2 DEF TypeOK
      <3>2. /\ pc[lock[k]] = "commit" /\ KeyOf[lock[k]] = k
            /\ row[k].state = "running" /\ row[k].attempt = lock[k]
        BY <2>2, <3>1 DEF OnceInv, CommitHoldsRow
      <3>3. lock[k] # c
        BY <1>1, <2>2, <3>1, <3>2
      <3>4. QED
        BY <3>1, <3>2, <3>3
    <2>3. QED
      BY <2>1, <2>2 DEF CommitHoldsRow
  <1>4. NotYetApplied'
    BY DEF OnceInv, NotYetApplied
  <1>5. AnswersMatchRow'
    BY DEF OnceInv, AnswersMatchRow
  <1>6. TakesOverOpenRow'
    BY DEF OnceInv, TakesOverOpenRow
  <1>7. QED
    BY <1>2, <1>3, <1>4, <1>5, <1>6 DEF OnceInv

\* The commit itself: marker and business data at once.
LEMMA CommittedEffect ==
    ASSUME TypeOK, OnceInv, NEW c \in Calls, pc[c] = "commit", Committed(c)
    PROVE  /\ applied[KeyOf[c]] = {}
           /\ applied' = [applied EXCEPT ![KeyOf[c]] = {c}]
           /\ row' = Marked(c, "succeeded")
           /\ row[KeyOf[c]].state = "running"
           /\ row[KeyOf[c]].attempt = c
           /\ lock[KeyOf[c]] = c
           /\ lock' = Unlocked(c)
  <1> USE ExecutorAssumption
  <1>1. lock[KeyOf[c]] = c /\ KeyOf[c] \in Keys
    BY DEF OnceInv, CommitHoldsRow
  <1>2. row[KeyOf[c]].state = "running" /\ row[KeyOf[c]].attempt = c
    BY <1>1 DEF OnceInv, CommitHoldsRow
  <1>3. applied[KeyOf[c]] = {}
    BY <1>1, <1>2 DEF OnceInv, MarkerIsEffect
  <1>4. QED
    BY <1>1, <1>2, <1>3 DEF Committed

LEMMA CommitKeepsInv ==
    ASSUME TypeOK, OnceInv, NEW c \in Calls, Commit(c)
    PROVE  OnceInv'
  <1> USE ExecutorAssumption
  <1>1. pc[c] = "commit" /\ UNCHANGED <<seen, told>> /\ told[c] = "none"
    BY DEF Commit, claimVars, OnceInv, AnswersMatchRow
  <1>2. CASE Committed(c) /\ (Goto(c, "finalize") \/ Goto(c, "fail"))
    <2>1. pc'[c] \in {"finalize", "fail"} /\ \A d \in Calls \ {c} : pc'[d] = pc[d]
      BY <1>2, GotoEffect
    <2>2. /\ applied[KeyOf[c]] = {}
          /\ applied' = [applied EXCEPT ![KeyOf[c]] = {c}]
          /\ row' = Marked(c, "succeeded")
          /\ row[KeyOf[c]].attempt = c
          /\ lock[KeyOf[c]] = c
          /\ lock' = Unlocked(c)
      BY <1>1, <1>2, CommittedEffect
    <2>3. \A k \in Keys :
            /\ applied'[k] = IF k = KeyOf[c] THEN {c} ELSE applied[k]
            /\ k # KeyOf[c] => row'[k] = row[k]
            /\ k = KeyOf[c] => row'[k].state = "succeeded" /\ row'[k].attempt = c
      BY <2>2, MarkedEffect DEF TypeOK
    <2>4. \A k \in Keys :
            lock'[k] = IF k = KeyOf[c] THEN NoCall ELSE lock[k]
      BY <2>2, UnlockedEffect
    <2>5. MarkerIsEffect'
      <3>1. ASSUME NEW k \in Keys
            PROVE  applied'[k] = IF row'[k].state = "succeeded"
                                 THEN {row'[k].attempt} ELSE {}
        <4>1. CASE k = KeyOf[c]
          BY <2>3, <4>1
        <4>2. CASE k # KeyOf[c]
          <5>1. applied[k] = IF row[k].state = "succeeded" THEN {row[k].attempt} ELSE {}
            BY DEF OnceInv, MarkerIsEffect
          <5>2. applied'[k] = applied[k] /\ row'[k] = row[k]
            BY <2>3, <4>2
          <5> QED
            BY <5>1, <5>2
        <4>3. QED
          BY <4>1, <4>2
      <3>2. QED
        BY <3>1 DEF MarkerIsEffect
    <2>6. CommitHoldsRow'
      <3>1. ASSUME NEW d \in Calls, pc'[d] = "commit" PROVE lock'[KeyOf[d]] = d
        <4>1. d # c /\ lock[KeyOf[d]] = d
          BY <2>1, <3>1 DEF OnceInv, CommitHoldsRow
        <4>2. KeyOf[d] # KeyOf[c]
          BY <2>2, <4>1
        <4>3. QED
          BY <2>4, <4>1, <4>2
      <3>2. ASSUME NEW k \in Keys, lock'[k] # NoCall
            PROVE  /\ pc'[lock'[k]] = "commit"
                   /\ KeyOf[lock'[k]] = k
                   /\ row'[k].state = "running"
                   /\ row'[k].attempt = lock'[k]
        <4>1. k # KeyOf[c] /\ lock'[k] = lock[k] /\ lock[k] \in Calls
          BY <2>4, <3>2 DEF TypeOK
        <4>2. /\ pc[lock[k]] = "commit" /\ KeyOf[lock[k]] = k
              /\ row[k].state = "running" /\ row[k].attempt = lock[k]
          BY <3>2, <4>1 DEF OnceInv, CommitHoldsRow
        <4>3. QED
          BY <2>1, <2>3, <4>1, <4>2
      <3>3. QED
        BY <3>1, <3>2 DEF CommitHoldsRow
    <2>7. NotYetApplied'
      BY <2>1, <2>3 DEF OnceInv, NotYetApplied
    <2>8. AnswersMatchRow'
      <3>1. ASSUME NEW d \in Calls
            PROVE  /\ pc'[d] # "done" => told'[d] = "none"
                   /\ (pc'[d] = "finalize" \/ told'[d] = "ok")
                         => d \in applied'[KeyOf[d]]
                   /\ told'[d] = "completed" => applied'[KeyOf[d]] # {}
        <4>1. CASE d = c
          BY <1>1, <2>1, <2>3, <4>1
        <4>2. CASE d # c
          <5>1. /\ pc[d] # "done" => told[d] = "none"
                /\ (pc[d] = "finalize" \/ told[d] = "ok")
                      => d \in applied[KeyOf[d]]
                /\ told[d] = "completed" => applied[KeyOf[d]] # {}
            BY DEF OnceInv, AnswersMatchRow
          <5>2. d \notin applied[KeyOf[c]]
            BY <2>2
          <5>3. QED
            BY <1>1, <2>1, <2>2, <2>3, <4>2, <5>1, <5>2
        <4>3. QED
          BY <4>1, <4>2
      <3>2. QED
        BY <3>1 DEF AnswersMatchRow
    <2>9. TakesOverOpenRow'
      BY <1>1, <2>1 DEF OnceInv, TakesOverOpenRow
    <2>10. QED
      BY <2>5, <2>6, <2>7, <2>8, <2>9 DEF OnceInv
  <1>3. CASE Goto(c, "fail") /\ lock' = Unlocked(c) /\ UNCHANGED <<applied, row>>
    BY <1>1, <1>3, GotoEffect, AbortKeepsInv
  <1>4. QED
    BY <1>2, <1>3 DEF Commit

LEMMA CrashKeepsInv ==
    ASSUME TypeOK, OnceInv, NEW c \in Calls, Crash(c)
    PROVE  OnceInv'
  <1>1. lock' = Unlocked(c) /\ UNCHANGED <<row, applied>> /\ Return(c, "lost")
    BY DEF Crash
  <1>2. QED
    BY <1>1, ReturnEffect, AbortKeepsInv

\* The invariant of the durable store is inductive.
LEMMA OnceStep ==
    ASSUME Atomic PROVE TypeOK /\ OnceInv /\ [Next]_vars => OnceInv'
  <1> SUFFICES ASSUME TypeOK, OnceInv, [Next]_vars PROVE OnceInv'
    OBVIOUS
  <1>1. ASSUME NEW c \in Calls,
               \/ Execute(c) \/ ClaimInsert(c) \/ ClaimLookup(c)
               \/ ClaimTakeover(c) \/ ClaimErrs(c)
        PROVE  OnceInv'
    BY <1>1, ClaimIsQuiet, QuietKeepsInv
  <1>2. ASSUME NEW c \in Calls, BeginRoot(c) \/ Invoke(c) PROVE OnceInv'
    BY <1>2, ScopeIsQuiet, QuietKeepsInv
  <1>3. ASSUME NEW c \in Calls, Finalize(c) PROVE OnceInv'
    BY <1>3, FinalizeIsQuiet, QuietKeepsInv
  <1>4. ASSUME NEW c \in Calls, Fail(c) PROVE OnceInv'
    BY <1>4, FailIsQuiet, QuietKeepsInv
  <1>5. ASSUME NEW c \in Calls, ClaimMemory(c) PROVE FALSE
    BY <1>5 DEF ClaimMemory, Atomic
  <1>6. CASE Tick \/ UNCHANGED vars
    <2>1. UNCHANGED <<row, lock, applied, pc, seen, told>>
      BY <1>6 DEF Tick, vars, claimVars
    <2>2. QED
      BY <2>1 DEF OnceInv, MarkerIsEffect, CommitHoldsRow, NotYetApplied,
                  AnswersMatchRow, TakesOverOpenRow
  <1>7. QED
    BY <1>1, <1>2, <1>3, <1>4, <1>5, <1>6, StageKeepsInv, CommitKeepsInv,
       CrashKeepsInv DEF Next, Step

\* With the durable store the invariant always holds.
THEOREM OnceInvariant == ASSUME Atomic PROVE Spec => []OnceInv
  <1>1. Init => OnceInv
    BY ExecutorAssumption
    DEF Init, OnceInv, MarkerIsEffect, CommitHoldsRow, NotYetApplied,
        AnswersMatchRow, TakesOverOpenRow, NoRow
  <1>2. QED
    BY <1>1, OnceStep, TypeCorrect, PTL DEF Spec

\* An operation with a durable idempotency store is performed at most once
\* per key, for any number of calls, faults and lease takeovers.
THEOREM PerformedAtMostOnce == ASSUME Atomic PROVE Spec => []AtMostOnce
  <1>1. OnceInv => AtMostOnce
    <2> SUFFICES ASSUME OnceInv, NEW k \in Keys
                 PROVE  Cardinality(applied[k]) <= 1
      BY DEF AtMostOnce
    <2>1. applied[k] = {} \/ applied[k] = {row[k].attempt}
      BY DEF OnceInv, MarkerIsEffect
    <2>2. CASE applied[k] = {}
      <3>1. Cardinality({}) = 0
        BY FS_EmptySet
      <3>2. QED
        BY <2>2, <3>1
    <2>3. CASE applied[k] = {row[k].attempt}
      <3>1. Cardinality({row[k].attempt}) = 1
        BY FS_Singleton
      <3>2. QED
        BY <2>3, <3>1
    <2>4. QED
      BY <2>1, <2>2, <2>3
  <1>2. QED
    BY <1>1, OnceInvariant, PTL

\* No caller is told a success that is not its own, or a completion that
\* did not happen.
THEOREM AnswersHold == ASSUME Atomic PROVE Spec => []AnswersAreTrue
  <1>1. OnceInv => AnswersAreTrue
    <2> SUFFICES ASSUME OnceInv, NEW c \in Calls
                 PROVE  /\ told[c] = "ok" =>
                             /\ c \in applied[KeyOf[c]]
                             /\ \A d \in Calls :
                                  (told[d] = "ok" /\ KeyOf[d] = KeyOf[c]) => d = c
                        /\ told[c] = "completed" => applied[KeyOf[c]] # {}
      BY DEF AnswersAreTrue
    <2>1. /\ told[c] = "ok" => c \in applied[KeyOf[c]]
          /\ told[c] = "completed" => applied[KeyOf[c]] # {}
      BY DEF OnceInv, AnswersMatchRow
    <2>2. ASSUME NEW d \in Calls, told[c] = "ok", told[d] = "ok",
                 KeyOf[d] = KeyOf[c]
          PROVE  d = c
      <3>1. c \in applied[KeyOf[c]] /\ d \in applied[KeyOf[c]]
        BY <2>2 DEF OnceInv, AnswersMatchRow
      <3>2. KeyOf[c] \in Keys
        BY ExecutorAssumption
      <3>3. applied[KeyOf[c]] = {} \/ applied[KeyOf[c]] = {row[KeyOf[c]].attempt}
        BY <3>2 DEF OnceInv, MarkerIsEffect
      <3>4. QED
        BY <3>1, <3>3
    <2>3. QED
      BY <2>1, <2>2
  <1>2. QED
    BY <1>1, OnceInvariant, PTL

\* A completed operation is never opened again.
THEOREM CompletionIsFinal == ASSUME Atomic PROVE Spec => SucceededIsFinal
  <1>1. TypeOK /\ OnceInv /\ [Next]_vars =>
          \A k \in Keys : row[k].state = "succeeded" => row'[k] = row[k]
    <2> SUFFICES ASSUME TypeOK, OnceInv, [Next]_vars, NEW k \in Keys,
                        row[k].state = "succeeded"
                 PROVE  row'[k] = row[k]
      OBVIOUS
    <2>1. ASSUME NEW c \in Calls, Quiet(c) PROVE row'[k] = row[k]
      BY <2>1 DEF Quiet
    <2>2. ASSUME NEW c \in Calls, Commit(c) PROVE row'[k] = row[k]
      <3>1. CASE UNCHANGED row
        BY <3>1
      <3>2. CASE Committed(c)
        <4>1. pc[c] = "commit"
          BY <2>2 DEF Commit
        <4>2. row' = Marked(c, "succeeded") /\ row[KeyOf[c]].state = "running"
          BY <3>2, <4>1, CommittedEffect
        <4>3. QED
          BY <4>2, MarkedEffect
      <3>3. QED
        BY <2>2, <3>1, <3>2 DEF Commit
    <2>3. ASSUME NEW c \in Calls, ClaimMemory(c) PROVE FALSE
      BY <2>3 DEF ClaimMemory, Atomic
    <2>4. ASSUME NEW c \in Calls, StageAtomicIdempotency(c) \/ Crash(c)
          PROVE  row' = row
      BY <2>4 DEF StageAtomicIdempotency, Crash
    <2>5. CASE Tick \/ UNCHANGED vars
      BY <2>5 DEF Tick, vars
    <2>6. QED
      BY <2>1, <2>2, <2>3, <2>4, <2>5, ClaimIsQuiet, ScopeIsQuiet,
         FinalizeIsQuiet, FailIsQuiet DEF Next, Step
  <1>2. QED
    BY <1>1, OnceInvariant, TypeCorrect, PTL DEF Spec, SucceededIsFinal

---------------------------------------------------------------------------
(* The callers' contract *)

\* A call returns at most once.
LEMMA ReturnAnswers ==
    ASSUME TypeOK, OnceInv, NEW c \in Calls, NEW a, Return(c, a),
           pc[c] # "done", UNCHANGED applied,
           \/ a \in {"in-progress", "error", "lost"}
           \/ a = "ok" /\ applied[KeyOf[c]] = {c}
           \/ /\ a = "completed"
              /\ applied[KeyOf[c]] # {} /\ c \notin applied[KeyOf[c]]
    PROVE  \/ Contract!AnswerUnknown(c)
           \/ Contract!AnswerOK(c)
           \/ Contract!AnswerCompleted(c)
  <1>1. told[c] = "none" /\ told' = [told EXCEPT ![c] = a]
    BY DEF OnceInv, AnswersMatchRow, Return
  <1>2. QED
    BY <1>1 DEF Contract!AnswerUnknown, Contract!AnswerOK,
                Contract!AnswerCompleted

\* Every step of the executor is a step of the contract or invisible to it.
LEMMA ContractStep ==
    ASSUME Atomic
    PROVE  TypeOK /\ OnceInv /\ [Next]_vars
             => Contract!Next \/ UNCHANGED <<applied, told>>
  <1> SUFFICES ASSUME TypeOK, OnceInv, [Next]_vars
               PROVE  Contract!Next \/ UNCHANGED <<applied, told>>
    OBVIOUS
  <1> USE ExecutorAssumption
  <1>1. ASSUME NEW c \in Calls, NEW a, Return(c, a), UNCHANGED applied,
               pc[c] # "done",
               \/ a \in {"in-progress", "error", "lost"}
               \/ a = "ok" /\ applied[KeyOf[c]] = {c}
               \/ /\ a = "completed"
                  /\ applied[KeyOf[c]] # {} /\ c \notin applied[KeyOf[c]]
        PROVE  Contract!Next
    BY <1>1, ReturnAnswers DEF Contract!Next
  <1>2. ASSUME NEW c \in Calls, Execute(c) \/ ClaimTakeover(c) \/ ClaimErrs(c)
        PROVE  Contract!Next \/ UNCHANGED <<applied, told>>
    <2>1. pc[c] # "done" /\ UNCHANGED applied
      BY <1>2 DEF Execute, ClaimTakeover, ClaimErrs
    <2>2. Return(c, "error") \/ Return(c, "in-progress") \/ UNCHANGED told
      BY <1>2 DEF Execute, ClaimTakeover, ClaimErrs
    <2>3. QED
      BY <1>1, <2>1, <2>2
  <1>3. ASSUME NEW c \in Calls, ClaimLookup(c)
        PROVE  Contract!Next \/ UNCHANGED <<applied, told>>
    <2>1. pc[c] = "lookup" /\ UNCHANGED applied /\ c \notin applied[KeyOf[c]]
      BY <1>3, BeforeCommit DEF ClaimLookup
    <2>2. \/ Return(c, "completed") /\ RowOf(c).state = "succeeded"
          \/ Return(c, "in-progress")
          \/ UNCHANGED told
      BY <1>3 DEF ClaimLookup
    <2>3. RowOf(c).state = "succeeded" => applied[KeyOf[c]] # {}
      BY DEF OnceInv, MarkerIsEffect, RowOf
    <2>4. CASE Return(c, "completed") /\ RowOf(c).state = "succeeded"
      BY <1>1, <2>1, <2>3, <2>4
    <2>5. QED
      BY <1>1, <2>1, <2>2, <2>4
  <1>4. ASSUME NEW c \in Calls, Finalize(c)
        PROVE  Contract!Next
    <2>1. pc[c] = "finalize" /\ Return(c, "ok") /\ UNCHANGED applied
      BY <1>4 DEF Finalize
    <2>2. KeyOf[c] \in Keys /\ c \in applied[KeyOf[c]]
      BY <2>1 DEF OnceInv, AnswersMatchRow
    <2>3. \/ applied[KeyOf[c]] = {}
          \/ applied[KeyOf[c]] = {row[KeyOf[c]].attempt}
      BY <2>2 DEF OnceInv, MarkerIsEffect
    <2>4. applied[KeyOf[c]] = {c}
      BY <2>2, <2>3
    <2>5. QED
      BY <1>1, <2>1, <2>4
  <1>5. ASSUME NEW c \in Calls, Fail(c) \/ Crash(c)
        PROVE  Contract!Next
    <2>1. pc[c] # "done" /\ UNCHANGED applied
      BY <1>5 DEF Fail, Crash
    <2>2. Return(c, "error") \/ Return(c, "lost")
      BY <1>5 DEF Fail, Crash
    <2>3. QED
      BY <1>1, <2>1, <2>2
  <1>6. ASSUME NEW c \in Calls, Commit(c)
        PROVE  Contract!Next \/ UNCHANGED <<applied, told>>
    <2>1. pc[c] = "commit" /\ UNCHANGED told
      BY <1>6 DEF Commit
    <2>2. CASE Committed(c)
      BY <2>1, <2>2, CommittedEffect DEF Contract!Next, Contract!Perform
    <2>3. QED
      BY <1>6, <2>1, <2>2 DEF Commit
  <1>7. ASSUME NEW c \in Calls, ClaimMemory(c) PROVE FALSE
    BY <1>7 DEF ClaimMemory, Atomic
  <1>8. ASSUME NEW c \in Calls,
               \/ ClaimInsert(c) \/ BeginRoot(c) \/ Invoke(c)
               \/ StageAtomicIdempotency(c)
        PROVE  UNCHANGED <<applied, told>>
    BY <1>8 DEF ClaimInsert, BeginRoot, Invoke, StageAtomicIdempotency
  <1>9. CASE Tick \/ UNCHANGED vars
    BY <1>9 DEF Tick, vars
  <1>10. QED
    BY <1>2, <1>3, <1>4, <1>5, <1>6, <1>7, <1>8, <1>9 DEF Next, Step

\* The executor with a durable store implements the contract of its callers.
THEOREM ContractHolds == ASSUME Atomic PROVE Spec => PerformedOnce
  <1>1. Init => Contract!Init
    BY DEF Init, Contract!Init
  <1>2. TypeOK /\ OnceInv /\ [Next]_vars => [Contract!Next]_(Contract!vars)
    BY ContractStep DEF Contract!vars
  <1>3. QED
    BY <1>1, <1>2, TypeCorrect, OnceInvariant, PTL
    DEF Spec, PerformedOnce, Contract!Spec

---------------------------------------------------------------------------
(* The memory store *)

\* What every step of a call has in common: it changes no row but its own
\* key's, and that one only when no other call is at work on it and it has not
\* succeeded; what was performed stays performed.
OwnRow(c) ==
    /\ UNCHANGED lock
    /\ \A d \in Calls \ {c} : pc'[d] = pc[d] /\ told'[d] = told[d]
    /\ \A k \in Keys : applied[k] \subseteq applied'[k]
    /\ \A k \in Keys :
          \/ row'[k] = row[k]
          \/ /\ k = KeyOf[c]
             /\ row[k].state # "succeeded"
             /\ row[k].state = "running" => row[k].attempt = c
             /\ row'[k].state = "succeeded" => row'[k].attempt \in applied'[k]
    /\ pc'[c] \notin {"lookup", "takeover"}
    /\ pc'[c] \in {"scope", "invoke", "stage", "commit", "finalize", "fail"} =>
          row'[KeyOf[c]].state = "running" /\ row'[KeyOf[c]].attempt = c
    /\ pc'[c] # "done" => told'[c] = "none"
    /\ pc'[c] = "finalize" => c \in applied'[KeyOf[c]]
    /\ told'[c] = "ok" =>
          row'[KeyOf[c]].state = "succeeded" /\ row'[KeyOf[c]].attempt = c
    /\ told'[c] = "completed" => row'[KeyOf[c]].state = "succeeded"

\* Such a step keeps the invariant of the memory store.
LEMMA OwnRowKeepsInv ==
    ASSUME TypeOK, MemoryInv, NEW c \in Calls, OwnRow(c)
    PROVE  MemoryInv'
  <1> USE ExecutorAssumption
  <1>1. \A k \in Keys : lock'[k] = NoCall
    BY DEF OwnRow, MemoryInv, OneAtWork
  <1>2. ASSUME NEW d \in Calls, d # c,
               row[KeyOf[d]].state = "succeeded" \/ row[KeyOf[d]].attempt = d
        PROVE  \/ row'[KeyOf[d]] = row[KeyOf[d]]
               \/ row[KeyOf[d]].state \notin {"running", "succeeded"}
    <2>1. KeyOf[d] \in Keys
      OBVIOUS
    <2> QED
      BY <1>2, <2>1 DEF OwnRow
  <1>3. ASSUME NEW d \in Calls
        PROVE  /\ pc'[d] \notin {"lookup", "takeover"}
               /\ pc'[d] \in {"scope", "invoke", "stage", "commit", "finalize", "fail"} =>
                     row'[KeyOf[d]].state = "running" /\ row'[KeyOf[d]].attempt = d
    <2>1. CASE d = c
      BY <2>1 DEF OwnRow
    <2>2. CASE d # c
      <3>1. pc'[d] = pc[d] /\ pc[d] \notin {"lookup", "takeover"}
        BY <2>2 DEF OwnRow, MemoryInv, OneAtWork
      <3>2. pc[d] \in {"scope", "invoke", "stage", "commit", "finalize", "fail"} =>
               row[KeyOf[d]].state = "running" /\ row[KeyOf[d]].attempt = d
        BY DEF MemoryInv, OneAtWork, Holds, RowOf
      <3> QED
        BY <1>2, <2>2, <3>1, <3>2
    <2> QED
      BY <2>1, <2>2
  <1>4. ASSUME NEW k \in Keys, row'[k].state = "succeeded"
        PROVE  row'[k].attempt \in applied'[k]
    <2>1. CASE row'[k] = row[k]
      <3>1. row[k].attempt \in applied[k]
        BY <1>4, <2>1 DEF MemoryInv, MarkFollowsCommit
      <3>2. applied[k] \subseteq applied'[k]
        BY DEF OwnRow
      <3> QED
        BY <2>1, <3>1, <3>2
    <2>2. CASE row'[k] # row[k]
      BY <1>4, <2>2 DEF OwnRow
    <2> QED
      BY <2>1, <2>2
  <1>5. ASSUME NEW d \in Calls
        PROVE  /\ pc'[d] # "done" => told'[d] = "none"
               /\ pc'[d] = "finalize" => d \in applied'[KeyOf[d]]
               /\ told'[d] = "ok" =>
                     row'[KeyOf[d]].state = "succeeded" /\ row'[KeyOf[d]].attempt = d
               /\ told'[d] = "completed" => row'[KeyOf[d]].state = "succeeded"
    <2>1. CASE d = c
      BY <2>1 DEF OwnRow
    <2>2. CASE d # c
      <3>1. pc'[d] = pc[d] /\ told'[d] = told[d]
        BY <2>2 DEF OwnRow
      <3>2. /\ pc[d] # "done" => told[d] = "none"
            /\ pc[d] = "finalize" => d \in applied[KeyOf[d]]
            /\ told[d] = "ok" => row[KeyOf[d]].state = "succeeded" /\ row[KeyOf[d]].attempt = d
            /\ told[d] = "completed" => row[KeyOf[d]].state = "succeeded"
        BY DEF MemoryInv, MarkFollowsCommit, RowOf
      <3>3. KeyOf[d] \in Keys /\ applied[KeyOf[d]] \subseteq applied'[KeyOf[d]]
        BY DEF OwnRow
      <3>4. row[KeyOf[d]].state = "succeeded" => row'[KeyOf[d]] = row[KeyOf[d]]
        BY <1>2, <2>2
      <3> QED
        BY <3>1, <3>2, <3>3, <3>4
    <2> QED
      BY <2>1, <2>2
  <1>6. OneAtWork'
    BY <1>1, <1>3 DEF OneAtWork, Holds, RowOf
  <1>7. MarkFollowsCommit'
    BY <1>4, <1>5 DEF MarkFollowsCommit, RowOf
  <1> QED
    BY <1>6, <1>7 DEF MemoryInv

\* A claim of the memory store: the row is the caller's and runs.
LEMMA MemoryClaimEffect ==
    ASSUME TypeOK, NEW c \in Calls, NEW now, row' = Claimed(c, now)
    PROVE  row'[KeyOf[c]].state = "running" /\ row'[KeyOf[c]].attempt = c
  BY ExecutorAssumption DEF Claimed, TypeOK

\* Each step of a call, with the memory store, changes at most its own row.
LEMMA MemoryStepIsOwn ==
    ASSUME ~Atomic, TypeOK, MemoryInv, NEW c \in Calls,
           Execute(c) \/ Step(c) \/ ClaimErrs(c) \/ Crash(c)
    PROVE  OwnRow(c)
  <1> USE ExecutorAssumption
  <1>a. KeyOf[c] \in Keys /\ lock[KeyOf[c]] = NoCall /\ lock[KeyOf[c]] # c
    BY DEF MemoryInv, OneAtWork
  <1>b. /\ pc[c] \notin {"lookup", "takeover"}
        /\ pc[c] \in {"scope", "invoke", "stage", "commit", "finalize", "fail"} =>
              row[KeyOf[c]].state = "running" /\ row[KeyOf[c]].attempt = c
        /\ pc[c] # "done" => told[c] = "none"
        /\ pc[c] = "finalize" => c \in applied[KeyOf[c]]
    BY DEF MemoryInv, OneAtWork, MarkFollowsCommit, Holds, RowOf
  <1>c. ASSUME NEW a, Return(c, a)
        PROVE  /\ pc'[c] = "done" /\ told'[c] = a
               /\ \A d \in Calls \ {c} : pc'[d] = pc[d] /\ told'[d] = told[d]
    BY <1>c, ReturnEffect
  <1>d. ASSUME NEW p, Goto(c, p), UNCHANGED told
        PROVE  /\ pc'[c] = p /\ told'[c] = told[c]
               /\ \A d \in Calls \ {c} : pc'[d] = pc[d] /\ told'[d] = told[d]
    BY <1>d, GotoEffect
  <1>1. CASE Execute(c)
    <2>1. UNCHANGED <<lock, applied, row>> /\ pc[c] = "idle"
      BY <1>1 DEF Execute
    <2>2. CASE Goto(c, "insert") /\ UNCHANGED told
      BY <1>b, <1>d, <2>1, <2>2 DEF OwnRow
    <2>3. CASE Return(c, "error")
      BY <1>c, <2>1, <2>3 DEF OwnRow
    <2> QED
      BY <1>1, <2>2, <2>3 DEF Execute
  <1>2. CASE ClaimMemory(c)
    <2>1. UNCHANGED <<lock, applied>> /\ pc[c] = "insert"
      BY <1>2 DEF ClaimMemory
    <2>2. CASE /\ RowOf(c).state = "succeeded"
               /\ Return(c, "completed") /\ UNCHANGED row
      BY <1>c, <2>1, <2>2 DEF OwnRow, RowOf
    <2>3. CASE Return(c, "in-progress") /\ UNCHANGED row
      BY <1>c, <2>1, <2>3 DEF OwnRow
    <2>4. CASE /\ RowOf(c).state \notin {"succeeded", "running"}
               /\ row' = Claimed(c, clock) /\ Goto(c, "scope") /\ UNCHANGED told
      <3>1. row'[KeyOf[c]].state = "running" /\ row'[KeyOf[c]].attempt = c
        BY <2>4, MemoryClaimEffect
      <3>2. \A k \in Keys : k # KeyOf[c] => row'[k] = row[k]
        BY <2>4, ClaimedEffect
      <3>3. row[KeyOf[c]].state \notin {"succeeded", "running"}
        BY <2>4 DEF RowOf
      <3>4. /\ pc'[c] = "scope" /\ told'[c] = "none"
            /\ \A d \in Calls \ {c} : pc'[d] = pc[d] /\ told'[d] = told[d]
        BY <1>b, <1>d, <2>1, <2>4
      <3> QED
        BY <2>1, <3>1, <3>2, <3>3, <3>4 DEF OwnRow
    <2> QED
      BY <1>2, <2>2, <2>3, <2>4 DEF ClaimMemory
  <1>3. CASE BeginRoot(c) \/ Invoke(c) \/ StageAtomicIdempotency(c)
    <2>1. /\ UNCHANGED <<lock, applied, row, told>>
          /\ pc[c] \in {"scope", "invoke", "stage"}
          /\ \E p \in {"invoke", "stage", "fail", "commit"} : Goto(c, p)
      BY <1>3 DEF BeginRoot, Invoke, StageAtomicIdempotency
    <2>2. /\ pc'[c] \in {"invoke", "stage", "fail", "commit"} /\ told'[c] = told[c]
          /\ \A d \in Calls \ {c} : pc'[d] = pc[d] /\ told'[d] = told[d]
      BY <1>d, <2>1
    <2> QED
      BY <1>b, <2>1, <2>2 DEF OwnRow
  <1>4. CASE Commit(c)
    <2>1. /\ pc[c] = "commit" /\ UNCHANGED told
          /\ \/ Committed(c) /\ Goto(c, "finalize")
             \/ Committed(c) /\ Goto(c, "fail")
             \/ Goto(c, "fail") /\ lock' = Unlocked(c) /\ UNCHANGED <<applied, row>>
      BY <1>4 DEF Commit
    <2>2. UNCHANGED lock
      <3>1. lock' = Unlocked(c)
        BY <2>1 DEF Committed
      <3> QED
        BY <1>a, <3>1 DEF Unlocked, TypeOK
    <2>3. CASE Committed(c)
      <3>1. UNCHANGED row /\ applied' = [applied EXCEPT ![KeyOf[c]] = @ \cup {c}]
        BY <1>a, <2>3 DEF Committed
      <3>2. c \in applied'[KeyOf[c]] /\ \A k \in Keys : applied[k] \subseteq applied'[k]
        BY <1>a, <3>1 DEF TypeOK
      <3>3. /\ pc'[c] \in {"finalize", "fail"} /\ told'[c] = "none"
            /\ \A d \in Calls \ {c} : pc'[d] = pc[d] /\ told'[d] = told[d]
        BY <1>b, <1>d, <2>1
      <3> QED
        BY <1>b, <2>1, <2>2, <3>1, <3>2, <3>3 DEF OwnRow
    <2>4. CASE Goto(c, "fail") /\ UNCHANGED <<applied, row>>
      BY <1>b, <1>d, <2>1, <2>2, <2>4 DEF OwnRow
    <2> QED
      BY <2>1, <2>3, <2>4
  <1>5. CASE Finalize(c)
    <2>1. pc[c] = "finalize" /\ UNCHANGED <<lock, applied>>
      BY <1>5 DEF Finalize
    <2>2. Holds(c) /\ MarkOK(c, "succeeded")
      BY <1>b, <2>1 DEF Holds, MarkOK, RowOf
    <2>3. Return(c, "ok") /\ row' = Marked(c, "succeeded")
      BY <1>5, <2>2 DEF Finalize
    <2>4. /\ row'[KeyOf[c]].state = "succeeded" /\ row'[KeyOf[c]].attempt = c
          /\ \A k \in Keys : k # KeyOf[c] => row'[k] = row[k]
      BY <1>a, <1>b, <2>1, <2>3, MarkedEffect
    <2>5. /\ pc'[c] = "done" /\ told'[c] = "ok"
          /\ \A d \in Calls \ {c} : pc'[d] = pc[d] /\ told'[d] = told[d]
      BY <1>c, <2>3
    <2> QED
      BY <1>b, <2>1, <2>4, <2>5 DEF OwnRow
  <1>6. CASE Fail(c)
    <2>1. pc[c] = "fail" /\ UNCHANGED <<lock, applied>> /\ Return(c, "error")
      BY <1>6 DEF Fail
    <2>2. row' = Marked(c, "failed")
      BY <1>6, <1>b, <2>1 DEF Fail, Holds, RowOf, Atomic
    <2>3. /\ row'[KeyOf[c]].state = "failed"
          /\ \A k \in Keys : k # KeyOf[c] => row'[k] = row[k]
      BY <1>a, <2>2, MarkedEffect
    <2>4. /\ pc'[c] = "done" /\ told'[c] = "error"
          /\ \A d \in Calls \ {c} : pc'[d] = pc[d] /\ told'[d] = told[d]
      BY <1>c, <2>1
    <2> QED
      BY <1>b, <2>1, <2>3, <2>4 DEF OwnRow
  <1>7. ~(ClaimInsert(c) \/ ClaimErrs(c) \/ Crash(c))
    BY DEF ClaimInsert, ClaimErrs, Crash, Atomic
  <1>8. ~(ClaimLookup(c) \/ ClaimTakeover(c))
    BY <1>b DEF ClaimLookup, ClaimTakeover
  <1> QED
    BY <1>1, <1>2, <1>3, <1>4, <1>5, <1>6, <1>7, <1>8 DEF Step

\* The invariant of the memory store is inductive.
LEMMA MemoryStep ==
    ASSUME ~Atomic PROVE TypeOK /\ MemoryInv /\ [Next]_vars => MemoryInv'
  <1> SUFFICES ASSUME TypeOK, MemoryInv, [Next]_vars PROVE MemoryInv'
    OBVIOUS
  <1>1. ASSUME NEW c \in Calls, Execute(c) \/ Step(c) \/ ClaimErrs(c) \/ Crash(c)
        PROVE  MemoryInv'
    BY <1>1, MemoryStepIsOwn, OwnRowKeepsInv
  <1>2. CASE Tick \/ UNCHANGED vars
    <2>1. UNCHANGED <<row, lock, applied, pc, told>>
      BY <1>2 DEF Tick, vars
    <2> QED
      BY <2>1 DEF MemoryInv, OneAtWork, MarkFollowsCommit, Holds, RowOf
  <1> QED
    BY <1>1, <1>2 DEF Next

\* With the memory store one call per key is at work at a time, and a row is
\* marked by the call whose commit it stands for.
THEOREM MemoryInvariant == ASSUME ~Atomic PROVE Spec => []MemoryInv
  <1>1. Init => MemoryInv
    BY ExecutorAssumption
    DEF Init, MemoryInv, OneAtWork, MarkFollowsCommit, Holds, RowOf, NoRow
  <1> QED
    BY <1>1, MemoryStep, TypeCorrect, PTL DEF Spec

\* Whatever the store, no caller is told a success that is not its own, or a
\* completion that did not happen.
THEOREM AnswersHoldForEitherStore == Spec => []AnswersAreTrue
  <1>1. CASE Atomic
    BY <1>1, AnswersHold
  <1>2. CASE ~Atomic
    <2>1. MemoryInv => AnswersAreTrue
      <3> SUFFICES ASSUME MemoryInv, NEW c \in Calls
                   PROVE  /\ told[c] = "ok" =>
                               /\ c \in applied[KeyOf[c]]
                               /\ \A d \in Calls :
                                    (told[d] = "ok" /\ KeyOf[d] = KeyOf[c]) => d = c
                          /\ told[c] = "completed" => applied[KeyOf[c]] # {}
        BY DEF AnswersAreTrue
      <3>1. KeyOf[c] \in Keys
        BY ExecutorAssumption
      <3>2. row[KeyOf[c]].state = "succeeded" =>
               row[KeyOf[c]].attempt \in applied[KeyOf[c]]
        BY <3>1 DEF MemoryInv, MarkFollowsCommit
      <3>3. \A d \in Calls :
               /\ told[d] = "ok" =>
                     row[KeyOf[d]].state = "succeeded" /\ row[KeyOf[d]].attempt = d
               /\ told[d] = "completed" => row[KeyOf[d]].state = "succeeded"
        BY DEF MemoryInv, MarkFollowsCommit, RowOf
      <3>4. ASSUME NEW d \in Calls, told[c] = "ok", told[d] = "ok", KeyOf[d] = KeyOf[c]
            PROVE  d = c
        BY <3>3, <3>4
      <3> QED
        BY <3>2, <3>3, <3>4
    <2> QED
      BY <1>2, <2>1, MemoryInvariant, PTL
  <1> QED
    BY <1>1, <1>2

\* Whatever the store, a completed operation is never opened again.
THEOREM CompletionIsFinalForEitherStore == Spec => SucceededIsFinal
  <1>1. CASE Atomic
    BY <1>1, CompletionIsFinal
  <1>2. CASE ~Atomic
    <2>1. TypeOK /\ MemoryInv /\ [Next]_vars =>
            \A k \in Keys : row[k].state = "succeeded" => row'[k] = row[k]
      <3> SUFFICES ASSUME TypeOK, MemoryInv, [Next]_vars, NEW k \in Keys,
                          row[k].state = "succeeded"
                   PROVE  row'[k] = row[k]
        OBVIOUS
      <3>1. ASSUME NEW c \in Calls, OwnRow(c) PROVE row'[k] = row[k]
        BY <3>1 DEF OwnRow
      <3>2. CASE Tick \/ UNCHANGED vars
        BY <3>2 DEF Tick, vars
      <3> QED
        BY <1>2, <3>1, <3>2, MemoryStepIsOwn DEF Next
    <2> QED
      BY <1>2, <2>1, MemoryInvariant, TypeCorrect, PTL DEF Spec, SucceededIsFinal
  <1> QED
    BY <1>1, <1>2

\* A step that performs nothing keeps the count of the commits.
LEMMA NothingPerformed ==
    ASSUME CommitsCounted, UNCHANGED applied, faults \in Nat, faults' \in Nat,
           faults <= faults', \A k \in Keys : Confirmed(k) => Confirmed(k)'
    PROVE  CommitsCounted'
  <1> SUFFICES ASSUME NEW k \in Keys
               PROVE  /\ IsFiniteSet(applied'[k])
                      /\ Cardinality(applied'[k]) <=
                            faults' + (IF Confirmed(k)' THEN 1 ELSE 0)
    BY DEF CommitsCounted
  <1>1. /\ IsFiniteSet(applied[k])
        /\ Cardinality(applied[k]) <= faults + (IF Confirmed(k) THEN 1 ELSE 0)
    BY DEF CommitsCounted
  <1>2. Cardinality(applied[k]) \in Nat
    BY <1>1, FS_CardinalityType
  <1>3. Confirmed(k) => Confirmed(k)'
    OBVIOUS
  <1>4. applied'[k] = applied[k]
    OBVIOUS
  <1>5. CASE Confirmed(k)
    <2>1. /\ Cardinality(applied[k]) <= faults + 1
          /\ faults' + (IF Confirmed(k)' THEN 1 ELSE 0) = faults' + 1
      BY <1>1, <1>3, <1>5
    <2> QED
      BY <1>1, <1>2, <1>4, <2>1
  <1>6. CASE ~Confirmed(k)
    <2>1. Cardinality(applied[k]) <= faults
      BY <1>1, <1>6
    <2>2. /\ (IF Confirmed(k)' THEN 1 ELSE 0) \in Nat
          /\ 0 <= (IF Confirmed(k)' THEN 1 ELSE 0)
      OBVIOUS
    <2> QED
      BY <1>1, <1>2, <1>4, <2>1, <2>2
  <1> QED
    BY <1>5, <1>6

\* The commit of one call counts once for its key.
LEMMA CommitCounts ==
    ASSUME ~Atomic, TypeOK, MemoryInv, CommitsCounted, NEW c \in Calls, Commit(c),
           Committed(c)
    PROVE  CommitsCounted'
  <1> USE ExecutorAssumption
  <1> DEFINE K == KeyOf[c]
  <1>1. /\ K \in Keys /\ pc[c] = "commit" /\ lock[K] = NoCall /\ lock[K] # c
        /\ row[K].state = "running" /\ row[K].attempt = c
    BY DEF Commit, MemoryInv, OneAtWork, Holds, RowOf
  <1>2. UNCHANGED row /\ applied' = [applied EXCEPT ![K] = @ \cup {c}]
    BY <1>1 DEF Committed
  <1>3. ~Confirmed(K)
    <2>1. ASSUME NEW d \in Calls, KeyOf[d] = K, pc[d] = "finalize" PROVE FALSE
      <3>1. row[KeyOf[d]].attempt = d
        BY <2>1 DEF MemoryInv, OneAtWork, Holds, RowOf
      <3>2. d = c
        BY <1>1, <2>1, <3>1
      <3> QED
        BY <1>1, <2>1, <3>2
    <2> QED
      BY <1>1, <2>1 DEF Confirmed
  <1>4. \/ Goto(c, "finalize") /\ UNCHANGED faults
        \/ faults' = faults + 1 /\ Goto(c, "fail")
        \/ faults' = faults + 1 /\ UNCHANGED applied
    BY DEF Commit, Fault
  <1>5. faults \in Nat
    BY DEF TypeOK
  <1>6. IsFiniteSet(applied[K]) /\ Cardinality(applied[K]) <= faults
    BY <1>1, <1>3, <1>5 DEF CommitsCounted
  <1>7. /\ IsFiniteSet(applied'[K]) /\ applied'[K] = applied[K] \cup {c}
        /\ Cardinality(applied'[K]) <= faults + 1
    <2>1. applied'[K] = applied[K] \cup {c}
      BY <1>1, <1>2 DEF TypeOK
    <2>2. /\ IsFiniteSet(applied[K] \cup {c})
          /\ Cardinality(applied[K] \cup {c}) =
                IF c \in applied[K] THEN Cardinality(applied[K])
                ELSE Cardinality(applied[K]) + 1
      BY <1>6, FS_AddElement
    <2>3. Cardinality(applied[K]) \in Nat
      BY <1>6, FS_CardinalityType
    <2>4. Cardinality(applied[K] \cup {c}) <= faults + 1
      BY <1>5, <1>6, <2>2, <2>3
    <2> QED
      BY <2>1, <2>2, <2>4
  <1>8. Cardinality(applied'[K]) \in Nat
    BY <1>7, FS_CardinalityType
  <1>9. Cardinality(applied'[K]) <= faults' + (IF Confirmed(K)' THEN 1 ELSE 0)
    <2>1. CASE Goto(c, "finalize") /\ UNCHANGED faults
      <3>1. pc'[c] = "finalize"
        BY <2>1, GotoEffect
      <3>2. Confirmed(K)'
        BY <3>1 DEF Confirmed
      <3> QED
        BY <1>5, <1>7, <2>1, <3>2
    <2>2. CASE faults' = faults + 1
      <3>1. Cardinality(applied'[K]) <= faults'
        BY <1>7, <2>2
      <3>2. (IF Confirmed(K)' THEN 1 ELSE 0) \in {0, 1}
        OBVIOUS
      <3> QED
        BY <1>5, <1>8, <2>2, <3>1, <3>2
    <2> QED
      BY <1>4, <2>1, <2>2
  <1>10. ASSUME NEW k \in Keys, k # K
         PROVE  /\ IsFiniteSet(applied'[k])
                /\ Cardinality(applied'[k]) <= faults' + (IF Confirmed(k)' THEN 1 ELSE 0)
    <2>1. applied'[k] = applied[k]
      BY <1>2, <1>10 DEF TypeOK
    <2>2. Confirmed(k) => Confirmed(k)'
      <3>1. \A d \in Calls : KeyOf[d] = k => pc'[d] = pc[d]
        BY <1>4, <1>10, GotoEffect DEF Commit
      <3> QED
        BY <1>2, <3>1 DEF Confirmed
    <2>3. /\ IsFiniteSet(applied[k]) /\ Cardinality(applied[k]) \in Nat
          /\ Cardinality(applied[k]) <= faults + (IF Confirmed(k) THEN 1 ELSE 0)
      BY FS_CardinalityType DEF CommitsCounted
    <2>4. faults' \in Nat /\ faults <= faults'
      BY <1>4, <1>5
    <2>5. CASE Confirmed(k)
      <3>1. (IF Confirmed(k)' THEN 1 ELSE 0) = 1 /\ Cardinality(applied[k]) <= faults + 1
        BY <2>2, <2>3, <2>5
      <3> QED
        BY <1>5, <2>1, <2>3, <2>4, <3>1
    <2>6. CASE ~Confirmed(k)
      <3>1. Cardinality(applied[k]) <= faults
        BY <1>5, <2>3, <2>6
      <3>2. (IF Confirmed(k)' THEN 1 ELSE 0) \in {0, 1}
        OBVIOUS
      <3> QED
        BY <1>5, <2>1, <2>3, <2>4, <3>1, <3>2
    <2> QED
      BY <2>5, <2>6
  <1> HIDE DEF K
  <1> QED
    BY <1>7, <1>9, <1>10 DEF CommitsCounted

\* The count of the commits is kept by every step.
LEMMA CountStep ==
    ASSUME ~Atomic
    PROVE  TypeOK /\ MemoryInv /\ CommitsCounted /\ [Next]_vars /\ TypeOK' => CommitsCounted'
  <1> SUFFICES ASSUME TypeOK, MemoryInv, CommitsCounted, [Next]_vars, TypeOK'
               PROVE  CommitsCounted'
    OBVIOUS
  <1>1. faults \in Nat /\ faults' \in Nat
    BY DEF TypeOK
  <1>2. ASSUME NEW c \in Calls, Execute(c) \/ Step(c) \/ ClaimErrs(c) \/ Crash(c)
        PROVE  CommitsCounted'
    <2>1. OwnRow(c)
      BY <1>2, MemoryStepIsOwn
    <2>2. CASE Commit(c) /\ Committed(c)
      BY <2>2, CommitCounts
    <2>3. CASE ~(Commit(c) /\ Committed(c))
      <3>1. UNCHANGED applied
        BY <1>2, <2>3 DEF Execute, Step, ClaimInsert, ClaimLookup, ClaimTakeover, ClaimMemory,
           BeginRoot, Invoke, StageAtomicIdempotency, Commit, Finalize, Fail, ClaimErrs, Crash
      <3>2. faults' = faults \/ faults' = faults + 1
        BY <1>2 DEF Execute, Step, ClaimInsert, ClaimLookup, ClaimTakeover, ClaimMemory,
           BeginRoot, Invoke, StageAtomicIdempotency, Commit, Finalize, Fail, ClaimErrs, Crash,
           Fault
      <3>3. faults <= faults'
        BY <1>1, <3>2
      <3>4. pc[c] = "finalize" => row'[KeyOf[c]].state = "succeeded"
        <4>1. SUFFICES ASSUME pc[c] = "finalize" PROVE row'[KeyOf[c]].state = "succeeded"
          OBVIOUS
        <4>2. Finalize(c)
          BY <1>2, <4>1 DEF Execute, Step, ClaimInsert, ClaimLookup, ClaimTakeover,
             ClaimMemory, BeginRoot, Invoke, StageAtomicIdempotency, Commit, Fail, ClaimErrs,
             Crash, Atomic
        <4>3. Holds(c)
          BY <4>1 DEF MemoryInv, OneAtWork
        <4>4. row' = Marked(c, "succeeded")
          BY <4>2, <4>3 DEF Finalize
        <4> QED
          BY <4>4, MarkedEffect, ExecutorAssumption
      <3>5. ASSUME NEW k \in Keys, Confirmed(k) PROVE Confirmed(k)'
        <4>1. CASE row[k].state = "succeeded"
          <5>1. row'[k] = row[k]
            BY <2>1, <4>1 DEF OwnRow
          <5> QED
            BY <4>1, <5>1 DEF Confirmed
        <4>2. ASSUME NEW d \in Calls, KeyOf[d] = k, pc[d] = "finalize" PROVE Confirmed(k)'
          <5>1. CASE d = c
            BY <3>4, <4>2, <5>1 DEF Confirmed
          <5>2. CASE d # c
            <6>1. pc'[d] = "finalize"
              BY <2>1, <4>2, <5>2 DEF OwnRow
            <6> QED
              BY <4>2, <6>1 DEF Confirmed
          <5> QED
            BY <5>1, <5>2
        <4> QED
          BY <3>5, <4>1, <4>2 DEF Confirmed
      <3> QED
        BY <1>1, <3>1, <3>3, <3>5, NothingPerformed
    <2> QED
      BY <2>2, <2>3
  <1>3. CASE Tick \/ UNCHANGED vars
    <2>1. UNCHANGED <<row, applied, pc, faults>>
      BY <1>3 DEF Tick, vars
    <2> QED
      BY <2>1 DEF CommitsCounted, Confirmed
  <1> QED
    BY <1>2, <1>3 DEF Next

\* The memory store lets an operation be performed again only after a fault:
\* each commit but a confirmed one lost its answer.
THEOREM RepeatsAreFaults == ASSUME ~Atomic PROVE Spec => []RepeatedOnlyAfterFaults
  <1>1. Init => CommitsCounted
    <2> SUFFICES ASSUME Init, NEW k \in Keys
                 PROVE  /\ IsFiniteSet(applied[k])
                        /\ Cardinality(applied[k]) <=
                              faults + (IF Confirmed(k) THEN 1 ELSE 0)
      BY DEF CommitsCounted
    <2>1. applied[k] = {} /\ faults = 0
      BY DEF Init
    <2>2. IsFiniteSet({}) /\ Cardinality({}) = 0
      BY FS_EmptySet
    <2>3. (IF Confirmed(k) THEN 1 ELSE 0) \in {0, 1}
      OBVIOUS
    <2> QED
      BY <2>1, <2>2, <2>3
  <1>2. TypeOK /\ CommitsCounted => RepeatedOnlyAfterFaults
    <2> SUFFICES ASSUME TypeOK, CommitsCounted, NEW k \in Keys
                 PROVE  Cardinality(applied[k]) <= faults + 1
      BY DEF RepeatedOnlyAfterFaults
    <2>1. /\ IsFiniteSet(applied[k])
          /\ Cardinality(applied[k]) <= faults + (IF Confirmed(k) THEN 1 ELSE 0)
      BY DEF CommitsCounted
    <2>2. Cardinality(applied[k]) \in Nat /\ faults \in Nat
      BY <2>1, FS_CardinalityType DEF TypeOK
    <2>3. (IF Confirmed(k) THEN 1 ELSE 0) \in {0, 1}
      OBVIOUS
    <2> QED
      BY <2>1, <2>2, <2>3
  <1> QED
    BY <1>1, <1>2, CountStep, TypeCorrect, MemoryInvariant, PTL DEF Spec
=============================================================================
