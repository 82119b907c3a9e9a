---------------------------- MODULE OutboxProofs ----------------------------
(***************************************************************************)
(* Machine-checked proofs about OutboxDispatcher for any number of events, *)
(* dispatchers, loops and purgers and any configuration the dispatcher     *)
(* accepts.                                                                *)
(***************************************************************************)
EXTENDS OutboxDispatcher, FiniteSetTheorems, TLAPS

---------------------------------------------------------------------------
(* The store operators keep the table a table. *)

\* The row that stands for a missing ID is a row.
LEMMA NoRowType == NoRow \in Row
  BY DEF NoRow, Row, Status

\* Enqueue leaves a table.
LEMMA InsertType ==
    ASSUME NEW tbl \in [Events -> Row], NEW e \in Events, NEW now \in Nat
    PROVE  Insert(tbl, e, now) \in [Events -> Row]
  BY NoRowType DEF Insert, NoRow, Row, Status

\* Claim leaves a table.
LEMMA ClaimType ==
    ASSUME NEW tbl \in [Events -> Row], NEW batch, NEW owner \in Owners,
           NEW now \in Nat, NEW lease \in Nat
    PROVE  Claim(tbl, batch, owner, now, lease) \in [Events -> Row]
  <1>1. ASSUME NEW e \in Events
        PROVE  [tbl[e] EXCEPT !.status     = "in-flight",
                              !.attempts   = @ + 1,
                              !.leaseOwner = owner,
                              !.leaseUntil = now + lease] \in Row
    <2>1. tbl[e] \in Row /\ tbl[e].attempts + 1 \in Nat /\ now + lease \in Nat
      BY DEF Row
    <2>2. QED
      BY <2>1 DEF Row, Status
  <1>2. QED
    BY <1>1 DEF Claim

\* updateOwned leaves a table.
LEMMA UpdateOwnedType ==
    ASSUME NEW tbl \in [Events -> Row], NEW e \in Events, NEW owner,
           NEW row \in Row
    PROVE  UpdateOwned(tbl, e, owner, row) \in [Events -> Row]
  BY DEF UpdateOwned, Row, Status

\* PurgePublished leaves a table.
LEMMA DeleteType ==
    ASSUME NEW tbl \in [Events -> Row], NEW ids
    PROVE  Delete(tbl, ids) \in [Events -> Row]
  BY NoRowType DEF Delete

\* MarkPublished leaves a table.
LEMMA MarkPublishedType ==
    ASSUME NEW tbl \in [Events -> Row], NEW e \in Events, NEW owner,
           NEW at \in Nat
    PROVE  MarkPublished(tbl, e, owner, at) \in [Events -> Row]
  <1> DEFINE row == [tbl[e] EXCEPT !.status = "published", !.publishedAt = at]
  <1>1. row \in Row
    BY DEF Row, Status
  <1> HIDE DEF row
  <1>2. UpdateOwned(tbl, e, owner, row) \in [Events -> Row]
    BY <1>1, UpdateOwnedType
  <1>3. QED
    BY <1>2 DEF MarkPublished, row

\* Retry leaves a table.
LEMMA RetryType ==
    ASSUME NEW tbl \in [Events -> Row], NEW e \in Events, NEW owner,
           NEW next \in Nat
    PROVE  Retry(tbl, e, owner, next) \in [Events -> Row]
  <1> DEFINE row == [tbl[e] EXCEPT !.status = "pending", !.nextAt = next]
  <1>1. row \in Row
    BY DEF Row, Status
  <1> HIDE DEF row
  <1>2. UpdateOwned(tbl, e, owner, row) \in [Events -> Row]
    BY <1>1, UpdateOwnedType
  <1>3. QED
    BY <1>2 DEF Retry, row

\* DeadLetter leaves a table.
LEMMA DeadLetterType ==
    ASSUME NEW tbl \in [Events -> Row], NEW e \in Events, NEW owner
    PROVE  DeadLetter(tbl, e, owner) \in [Events -> Row]
  <1> DEFINE row == [tbl[e] EXCEPT !.status = "dead-letter"]
  <1>1. row \in Row
    BY DEF Row, Status
  <1> HIDE DEF row
  <1>2. UpdateOwned(tbl, e, owner, row) \in [Events -> Row]
    BY <1>1, UpdateOwnedType
  <1>3. QED
    BY <1>2 DEF DeadLetter, row

\* Every report of a task leaves a table.
LEMMA OutcomesType ==
    ASSUME TypeOK, NEW l \in Loops, NEW e \in Events
    PROVE  Outcomes(l, e) \subseteq [Events -> Row]
  <1>1. task[l][e].sentAt \in Nat
    BY DEF TypeOK, Tasks
  <1>2. Backoff(task[l][e].attempts) \subseteq Nat
    BY DispatcherAssumption DEF Backoff
  <1>3. records \in [Events -> Row]
    BY DEF TypeOK
  <1>4. QED
    BY <1>1, <1>2, <1>3, MarkPublishedType, RetryType, DeadLetterType
    DEF Outcomes

---------------------------------------------------------------------------
(* Type correctness *)

\* Replacing one goroutine keeps the goroutine table well typed.
LEMMA TaskUpdateType ==
    ASSUME NEW tk \in [Loops -> [Events -> Tasks]], NEW l \in Loops,
           NEW e \in Events, NEW t \in Tasks
    PROVE  [tk EXCEPT ![l][e] = t] \in [Loops -> [Events -> Tasks]]
  OBVIOUS

LEMMA NoTaskType == NoTask \in Tasks
  BY DEF NoTask, Tasks, TaskPCs

\* Every step of producers, dispatchers, goroutines, purgers and the clock
\* keeps the types.
LEMMA TypeStep == TypeOK /\ [Next]_vars => TypeOK'
  <1> SUFFICES ASSUME TypeOK, [Next]_vars
               PROVE  TypeOK'
    OBVIOUS
  <1>a. /\ records \in [Events -> Row]
        /\ clock \in Nat
        /\ task \in [Loops -> [Events -> Tasks]]
        /\ failures \in [Dispatchers -> Nat]
        /\ spent \in [faults : Nat, stops : Nat, cancels : Nat]
    BY DEF TypeOK
  <1>b. \A l \in Loops : /\ DispatcherOf(l) \in Dispatchers
                         /\ OwnerOf(l) \in Owners
                         /\ Now(DispatcherOf(l)) \in Nat
                         /\ readNow[l] \in Nat
    BY DispatcherAssumption DEF DispatcherOf, OwnerOf, Loops, Now, TypeOK
  <1>c. \A d \in Dispatchers, g \in Gens : <<d, g>> \in Loops
    BY DEF Loops
  <1>d. Fault => spent' \in [faults : Nat, stops : Nat, cancels : Nat]
    BY <1>a DEF Fault
  <1>e. ASSUME NEW l \in Loops, NEW failed, RecordLoop(l, failed)
        PROVE  /\ failures' \in [Dispatchers -> Nat]
               /\ phase' \in [Loops -> Phases]
               /\ readNow' \in [Loops -> Nat]
    BY <1>e, <1>b, DispatcherAssumption
    DEF RecordLoop, TypeOK, Least, Phases
  <1>1. ASSUME NEW e \in Events, Enqueue(e) PROVE TypeOK'
    BY <1>1, <1>a, InsertType
    DEF Enqueue, TypeOK, ctlVars, loopVars
  <1>2. ASSUME NEW d \in Dispatchers, Start(d) PROVE TypeOK'
    BY <1>2, <1>c DEF Start, TypeOK, storeVars, Phases
  <1>3. ASSUME NEW d \in Dispatchers, Shutdown(d) PROVE TypeOK'
    <2>1. spent' \in [faults : Nat, stops : Nat, cancels : Nat]
      BY <1>3, <1>a DEF Shutdown
    <2>2. cancelling' \subseteq Loops
      BY <1>3, <1>c DEF Shutdown, TypeOK
    <2>3. QED
      BY <1>3, <2>1, <2>2 DEF Shutdown, TypeOK, storeVars, loopVars
  <1>4. ASSUME NEW d \in Dispatchers, ParentCancel(d) PROVE TypeOK'
    <2>1. spent' \in [faults : Nat, stops : Nat, cancels : Nat]
      BY <1>4, <1>a DEF ParentCancel
    <2>2. ctxDone' \in [Loops -> BOOLEAN]
      BY <1>4, <1>c DEF ParentCancel, TypeOK
    <2>3. QED
      BY <1>4, <2>1, <2>2 DEF ParentCancel, TypeOK, storeVars
  <1>5. ASSUME NEW d \in Dispatchers, Crash(d) PROVE TypeOK'
    <2>1. /\ phase' \in [Loops -> Phases]
          /\ task' \in [Loops -> [Events -> Tasks]]
      BY <1>5, NoTaskType DEF Crash, TypeOK, Phases
    <2>2. /\ ctxDone' \in [Loops -> BOOLEAN]
          /\ batchErr' \in [Loops -> BOOLEAN]
      BY <1>5 DEF Crash, TypeOK
    <2>3. QED
      BY <1>5, <1>d, <2>1, <2>2 DEF Crash, TypeOK, storeVars
  <1>6. ASSUME NEW l \in Loops, RunOnce(l) PROVE TypeOK'
    <2>1. /\ failures' \in [Dispatchers -> Nat]
          /\ phase' \in [Loops -> Phases]
          /\ readNow' \in [Loops -> Nat]
      <3>1. CASE ctxDone[l]
        BY <1>6, <1>e, <3>1 DEF RunOnce, TypeOK
      <3>2. CASE ~ctxDone[l]
        BY <1>6, <1>b, <3>2 DEF RunOnce, TypeOK, Phases
      <3>3. QED
        BY <3>1, <3>2
    <2>2. QED
      BY <1>6, <2>1 DEF RunOnce, TypeOK, storeVars
  <1>7. ASSUME NEW l \in Loops, ClaimOK(l) PROVE TypeOK'
    <2>1. PICK locked \in LockedRows(l) : ClaimOK(l)!2!(locked)
      BY <1>7 DEF ClaimOK
    <2> DEFINE batch == ClaimBatch(records, readNow[l], BatchSize, locked)
               claimed == Claimed(l, batch)
    <2>2. claimed \in [Events -> Row]
      BY <1>a, <1>b, ClaimType, DispatcherAssumption DEF Claimed
    <2> HIDE DEF batch
    <2>3. \A e \in Events : claimed[e].attempts \in Nat
      BY <2>2 DEF Row
    <2> HIDE DEF claimed
    <2>4. CASE batch = {}
      BY <1>7, <2>1, <2>4, <1>e DEF ClaimOK, TypeOK, batch, claimed
    <2>5. CASE batch # {}
      <3>1. /\ records' = claimed
            /\ task' = [task EXCEPT ![l] = [e \in Events |->
                  IF e \in batch
                  THEN [NoTask EXCEPT !.pc = "queued",
                                      !.attempts = claimed[e].attempts]
                  ELSE NoTask]]
            /\ batchErr' = [batchErr EXCEPT ![l] = FALSE]
            /\ phase' = [phase EXCEPT ![l] = "batch"]
            /\ UNCHANGED <<failures, readNow>>
        BY <2>1, <2>5 DEF batch, claimed
      <3>2. task' \in [Loops -> [Events -> Tasks]]
        BY <3>1, <2>3, <1>a DEF NoTask, Tasks, TaskPCs
      <3>3. QED
        BY <1>7, <3>1, <3>2, <2>2 DEF ClaimOK, TypeOK, Phases
    <2>6. QED
      BY <2>4, <2>5
  <1>8. ASSUME NEW l \in Loops, ClaimFails(l) PROVE TypeOK'
    <2>1. records' \in [Events -> Row]
      <3>1. \A batch : Claimed(l, batch) \in [Events -> Row]
        BY <1>a, <1>b, ClaimType, DispatcherAssumption DEF Claimed
      <3>2. \/ UNCHANGED records
            \/ \E batch : records' = Claimed(l, batch)
        BY <1>8 DEF ClaimFails
      <3>3. QED
        BY <1>a, <3>1, <3>2
    <2>2. spent' \in [faults : Nat, stops : Nat, cancels : Nat]
      BY <1>8, <1>a, <1>d DEF ClaimFails
    <2>3. QED
      BY <1>8, <1>e, <2>1, <2>2 DEF ClaimFails, TypeOK
  <1>9. ASSUME NEW l \in Loops, RunOnceReturns(l) PROVE TypeOK'
    BY <1>9, <1>e DEF RunOnceReturns, TypeOK, storeVars
  <1>10. ASSUME NEW l \in Loops, ShutdownCancels(l) PROVE TypeOK'
    BY <1>10 DEF ShutdownCancels, TypeOK, storeVars
  <1>11. ASSUME NEW l \in Loops, LoopExits(l) PROVE TypeOK'
    BY <1>11 DEF LoopExits, TypeOK, storeVars, ctlVars, Phases
  <1>12. ASSUME NEW l \in Loops, NEW e \in Events, Acquire(l, e)
         PROVE  TypeOK'
    <2>1. task[l][e] \in Tasks
      BY <1>a
    <2>2. Deadline \in Nat
      BY <1>a, DispatcherAssumption DEF Deadline
    <2>3. task' \in [Loops -> [Events -> Tasks]]
      BY <1>12, <1>a, <2>1, <2>2 DEF Acquire, Tasks, TaskPCs
    <2>4. QED
      BY <1>12, <2>3 DEF Acquire, TypeOK, storeVars, ctlVars
  <1>13. ASSUME NEW l \in Loops, NEW e \in Events, Abandon(l, e)
         PROVE  TypeOK'
    BY <1>13, <1>a, NoTaskType DEF Abandon, TypeOK, storeVars, ctlVars
  <1>14. ASSUME NEW l \in Loops, NEW e \in Events, Publish(l, e)
         PROVE  TypeOK'
    <2>1. task[l][e] \in Tasks
      BY <1>a
    <2>2. task' \in [Loops -> [Events -> Tasks]]
      <3>1. PICK pc \in {"ok", "fail"} : Returned(l, e, pc)
        BY <1>14 DEF Publish
      <3>2. [task[l][e] EXCEPT !.pc = pc, !.deadline = 0] \in Tasks
        BY <2>1 DEF Tasks, TaskPCs
      <3>3. QED
        BY <1>a, <3>1, <3>2, TaskUpdateType DEF Returned
    <2>3. accepted' \in [Events -> SUBSET Nat]
      <3>1. task[l][e].attempts \in Nat
        BY <2>1 DEF Tasks
      <3>2. accepted[e] \cup {task[l][e].attempts} \in SUBSET Nat
        BY <3>1 DEF TypeOK
      <3>3. QED
        BY <1>14, <3>2 DEF Publish, TypeOK
    <2>4. QED
      BY <1>14, <2>2, <2>3 DEF Publish, TypeOK, ctlVars
  <1>15. ASSUME NEW l \in Loops, NEW e \in Events, Settle(l, e)
         PROVE  TypeOK'
    <2>1. records' \in [Events -> Row]
      BY <1>15, OutcomesType DEF Settle
    <2>2. batchErr' \in [Loops -> BOOLEAN]
      BY <1>15 DEF Settle, TypeOK
    <2>3. spent' \in [faults : Nat, stops : Nat, cancels : Nat]
      BY <1>15, <1>d DEF Settle, TypeOK
    <2>4. QED
      BY <1>15, <1>a, <2>1, <2>2, <2>3, NoTaskType DEF Settle, TypeOK, ctlVars
  <1>16. ASSUME NEW l \in Loops, NEW e \in Events, SettleFails(l, e)
         PROVE  TypeOK'
    BY <1>16, <1>a, <1>d, NoTaskType
    DEF SettleFails, TypeOK, storeVars, ctlVars
  <1>17. ASSUME NEW p \in Purgers, PurgeSelect(p) PROVE TypeOK'
    <2>1. PurgeBatch(records, clock, PurgeLimit) \subseteq Events
      BY DEF PurgeBatch, Purgeable
    <2>2. QED
      BY <1>17, <2>1
      DEF PurgeSelect, TypeOK, storeVars, ctlVars, loopVars
  <1>18. ASSUME NEW p \in Purgers, PurgeDelete(p) PROVE TypeOK'
    BY <1>18, <1>a, DeleteType DEF PurgeDelete, TypeOK, ctlVars, loopVars
  <1>19. ASSUME NEW p \in Purgers, PurgeMemory(p) PROVE TypeOK'
    BY <1>19, <1>a, DeleteType DEF PurgeMemory, TypeOK, ctlVars, loopVars
  <1>20. CASE Tick
    BY <1>20 DEF Tick, TypeOK, storeVars, ctlVars, loopVars
  <1>21. CASE UNCHANGED vars
    BY <1>21 DEF vars, TypeOK, storeVars, ctlVars, loopVars
  <1>22. ASSUME NEW l \in Loops, NEW e \in Events, Report(l, e)
         PROVE  TypeOK'
    <2>1. [task[l][e] EXCEPT !.sentAt = Now(DispatcherOf(l))] \in Tasks
      BY <1>a, <1>b DEF Tasks
    <2>2. task' \in [Loops -> [Events -> Tasks]]
      BY <1>22, <1>a, <2>1, TaskUpdateType DEF Report
    <2>3. QED
      BY <1>22, <2>2 DEF Report, TypeOK, storeVars, ctlVars
  <1>23. QED
    BY <1>1, <1>2, <1>3, <1>4, <1>5, <1>6, <1>7, <1>8, <1>9, <1>10, <1>11,
       <1>12, <1>13, <1>14, <1>15, <1>16, <1>17, <1>18, <1>19, <1>20, <1>21,
       <1>22
    DEF Next, LoopStep, TaskStep

\* Every reachable state of the dispatchers and their table is well typed.
THEOREM TypeCorrect == Spec => []TypeOK
  <1>1. Init => TypeOK
    BY DispatcherAssumption, NoRowType, NoTaskType
    DEF Init, TypeOK, Phases
  <1>2. QED
    BY <1>1, TypeStep, PTL DEF Spec

\* The context check of a report only stamps the task.
LEMMA ReportStamps ==
    ASSUME TypeOK, NEW l \in Loops, NEW e \in Events, Report(l, e)
    PROVE  /\ UNCHANGED <<clock, records, accepted, phase, readNow>>
           /\ \A m \in Loops, f \in Events :
                 /\ task'[m][f].pc = task[m][f].pc
                 /\ task'[m][f].attempts = task[m][f].attempts
                 /\ task'[m][f].deadline = task[m][f].deadline
           /\ HasOutcome(l, e)
           /\ \A m \in Loops, f \in Events :
                 <<m, f>> # <<l, e>> => task'[m][f] = task[m][f]
  <1> DEFINE t == [task[l][e] EXCEPT !.sentAt = Now(DispatcherOf(l))]
  <1>1. /\ t.pc = task[l][e].pc /\ t.attempts = task[l][e].attempts
        /\ t.deadline = task[l][e].deadline
    BY DEF TypeOK, Tasks
  <1>2. /\ task' = [task EXCEPT ![l][e] = t]
        /\ HasOutcome(l, e)
        /\ UNCHANGED <<clock, records, accepted, phase, readNow>>
    BY DEF Report, storeVars
  <1> HIDE DEF t
  <1>3. /\ task'[l][e] = t
        /\ \A m \in Loops, f \in Events :
              <<m, f>> # <<l, e>> => task'[m][f] = task[m][f]
    BY <1>2 DEF TypeOK
  <1>4. QED
    BY <1>1, <1>2, <1>3

\* The steps that change rows or the history of publications.
LEMMA StoreSteps ==
    ASSUME [Next]_vars
    PROVE  \/ \E e \in Events : Enqueue(e)
           \/ \E l \in Loops : ClaimOK(l) \/ ClaimFails(l)
           \/ \E l \in Loops, e \in Events : Publish(l, e) \/ Settle(l, e)
           \/ \E p \in Purgers : PurgeDelete(p) \/ PurgeMemory(p)
           \/ UNCHANGED <<records, accepted>>
  <1>1. ASSUME NEW d \in Dispatchers,
               Start(d) \/ Shutdown(d) \/ ParentCancel(d) \/ Crash(d)
        PROVE  UNCHANGED <<records, accepted>>
    BY <1>1 DEF Start, Shutdown, ParentCancel, Crash, storeVars
  <1>2. ASSUME NEW l \in Loops,
               ShutdownCancels(l) \/ RunOnce(l) \/ RunOnceReturns(l) \/ LoopExits(l)
        PROVE  UNCHANGED <<records, accepted>>
    BY <1>2 DEF ShutdownCancels, RunOnce, RunOnceReturns, LoopExits, storeVars
  <1>3. ASSUME NEW l \in Loops, NEW e \in Events,
               Acquire(l, e) \/ Abandon(l, e) \/ Report(l, e) \/ SettleFails(l, e)
        PROVE  UNCHANGED <<records, accepted>> \/ Settle(l, e)
    BY <1>3 DEF Acquire, Abandon, Report, SettleFails, storeVars
  <1>4. ASSUME \/ \E p \in Purgers : PurgeSelect(p)
               \/ Tick
               \/ UNCHANGED vars
        PROVE  UNCHANGED <<records, accepted>>
    BY <1>4 DEF PurgeSelect, Tick, vars, storeVars
  <1> QED
    BY <1>1, <1>2, <1>3, <1>4 DEF Next, LoopStep, TaskStep

\* The steps that change what a purger has selected.
LEMMA PurgeSteps ==
    ASSUME [Next]_vars
    PROVE  \/ \E p \in Purgers : PurgeSelect(p) \/ PurgeDelete(p) \/ PurgeMemory(p)
           \/ UNCHANGED purging
  <1>1. ASSUME NEW d \in Dispatchers,
               Start(d) \/ Shutdown(d) \/ ParentCancel(d) \/ Crash(d)
        PROVE  UNCHANGED purging
    BY <1>1 DEF Start, Shutdown, ParentCancel, Crash
  <1>2. ASSUME NEW l \in Loops,
               ShutdownCancels(l) \/ LoopStep(l) \/ ClaimFails(l)
        PROVE  UNCHANGED purging
    BY <1>2 DEF LoopStep, ShutdownCancels, RunOnce, ClaimOK, ClaimFails,
                RunOnceReturns, LoopExits
  <1>3. ASSUME NEW l \in Loops, NEW e \in Events,
               TaskStep(l, e) \/ SettleFails(l, e)
        PROVE  UNCHANGED purging
    BY <1>3 DEF TaskStep, Acquire, Abandon, Publish, Report, Settle, SettleFails
  <1>4. ASSUME \/ \E e \in Events : Enqueue(e)
               \/ Tick
               \/ UNCHANGED vars
        PROVE  UNCHANGED purging
    BY <1>4 DEF Enqueue, Tick, vars
  <1> QED
    BY <1>1, <1>2, <1>3, <1>4 DEF Next

---------------------------------------------------------------------------
(* Fencing *)

\* A claim gives a row to the claiming loop.
LEMMA ClaimedRows ==
    ASSUME TypeOK, NEW l \in Loops, NEW batch, NEW e \in Events
    PROVE  LET r == Claimed(l, batch)[e]
           IN  /\ e \in batch => /\ r.status = "in-flight"
                                 /\ r.attempts = records[e].attempts + 1
                                 /\ r.leaseOwner = OwnerOf(l)
               /\ e \notin batch => r = records[e]
  <1>1. records[e] \in Row
    BY DEF TypeOK
  <1>2. QED
    BY <1>1 DEF Claimed, Claim, Row

\* A claim takes only rows that are pending or in flight.
LEMMA BatchStatus ==
    ASSUME NEW now, NEW limit, NEW locked,
           NEW e \in ClaimBatch(records, now, limit, locked)
    PROVE  e \in Events /\ records[e].status \in {"pending", "in-flight"}
  BY DEF ClaimBatch, Eligible, ReadyPending, LeaseExpired

\* A step that leaves the table, the broker's memory and the goroutines alone
\* keeps the invariant.
LEMMA FencingFrame ==
    ASSUME FencingInv, UNCHANGED <<records, accepted, task>>,
           \A l \in Loops : phase[l] = "batch" => phase'[l] = "batch"
    PROVE  FencingInv'
  <1>1. TasksInBatch'
    BY DEF FencingInv, TasksInBatch
  <1>2. TaskHoldsItsClaim'
    BY DEF FencingInv, TaskHoldsItsClaim, Owns
  <1>3. (PublishedWasAccepted /\ DeadLetterExhausted)'
    BY DEF FencingInv, PublishedWasAccepted, DeadLetterExhausted
  <1>4. QED
    BY <1>1, <1>2, <1>3 DEF FencingInv

\* Enqueue inserts a pending row or does nothing.
LEMMA FencingEnqueue ==
    ASSUME TypeOK, FencingInv, NEW e \in Events, Enqueue(e)
    PROVE  FencingInv'
  <1>1. CASE Exists(records, e)
    BY <1>1, FencingFrame DEF Enqueue, Insert, loopVars
  <1>2. CASE ~Exists(records, e)
    <2>1. /\ records'[e].status = "pending"
          /\ \A f \in Events : f # e => /\ records'[f] = records[f]
                                        /\ accepted'[f] = accepted[f]
      BY <1>2 DEF Enqueue, Insert, NoRow, TypeOK
    <2>2. UNCHANGED <<phase, task>>
      BY DEF Enqueue, loopVars
    <2>3. TasksInBatch'
      BY <2>2 DEF FencingInv, TasksInBatch
    <2>4. TaskHoldsItsClaim'
      BY <2>1, <2>2 DEF FencingInv, TaskHoldsItsClaim, Owns
    <2>5. (PublishedWasAccepted /\ DeadLetterExhausted)'
      BY <2>1 DEF FencingInv, PublishedWasAccepted, DeadLetterExhausted
    <2>6. QED
      BY <2>3, <2>4, <2>5 DEF FencingInv
  <1>3. QED
    BY <1>1, <1>2

\* A crash ends every goroutine of the process.
LEMMA FencingCrash ==
    ASSUME TypeOK, FencingInv, NEW d \in Dispatchers, Crash(d)
    PROVE  FencingInv'
  <1>1. UNCHANGED <<records, accepted>>
    BY DEF Crash, storeVars
  <1>2. \A l \in Loops :
           \/ \A e \in Events : task'[l][e].pc = "none"
           \/ task'[l] = task[l] /\ phase'[l] = phase[l]
    BY DEF Crash, NoTask
  <1>3. TasksInBatch'
    BY <1>2 DEF FencingInv, TasksInBatch
  <1>4. TaskHoldsItsClaim'
    BY <1>1, <1>2 DEF FencingInv, TaskHoldsItsClaim, Owns
  <1>5. (PublishedWasAccepted /\ DeadLetterExhausted)'
    BY <1>1 DEF FencingInv, PublishedWasAccepted, DeadLetterExhausted
  <1>6. QED
    BY <1>3, <1>4, <1>5 DEF FencingInv

\* A committed claim, whether or not the answer reaches the loop: the rows
\* it leases go to a loop that has no goroutines yet.
LEMMA FencingClaim ==
    ASSUME TypeOK, FencingInv, DistinctWorkerIDs, NEW l \in Loops, NEW batch,
           \A e \in batch : records[e].status \in {"pending", "in-flight"},
           records' = Claimed(l, batch),
           UNCHANGED accepted,
           \A m \in Loops : m # l => task'[m] = task[m] /\ phase'[m] = phase[m],
           \A e \in Events : task'[l][e].pc # "none" =>
              /\ task'[l][e].pc = "queued"
              /\ task'[l][e].attempts = records'[e].attempts
              /\ phase'[l] = "batch"
    PROVE  FencingInv'
  <1>1. \A e \in Events :
           /\ e \in batch => /\ records'[e].status = "in-flight"
                             /\ records'[e].leaseOwner = OwnerOf(l)
           /\ e \notin batch => records'[e] = records[e]
    BY ClaimedRows
  <1>3. TasksInBatch'
    BY DEF FencingInv, TasksInBatch
  <1>4. TaskHoldsItsClaim'
    <2> SUFFICES ASSUME NEW m \in Loops, NEW e \in Events,
                        task'[m][e].pc # "none",
                        Owns(records', e, OwnerOf(m))
                 PROVE  /\ task'[m][e].attempts = records'[e].attempts
                        /\ task'[m][e].pc = "ok" => accepted'[e] # {}
                        /\ task'[m][e].pc = "exhausted"
                              => task'[m][e].attempts > MaxAttempts
      BY DEF TaskHoldsItsClaim
    <2>1. CASE m = l
      BY <2>1
    <2>2. CASE m # l
      <3>1. e \notin batch
        <4>1. SUFFICES ASSUME e \in batch PROVE FALSE
          OBVIOUS
        <4>2. OwnerOf(m) = OwnerOf(l)
          BY <4>1, <1>1 DEF Owns
        <4>3. QED
          BY <4>2, <2>2 DEF DistinctWorkerIDs
      <3>2. QED
        BY <3>1, <1>1, <2>2 DEF FencingInv, TaskHoldsItsClaim, Owns
    <2>3. QED
      BY <2>1, <2>2
  <1>5. (PublishedWasAccepted /\ DeadLetterExhausted)'
    BY <1>1 DEF FencingInv, PublishedWasAccepted, DeadLetterExhausted
  <1>6. QED
    BY <1>3, <1>4, <1>5 DEF FencingInv

LEMMA FencingClaimOK ==
    ASSUME TypeOK, FencingInv, DistinctWorkerIDs, NEW l \in Loops, ClaimOK(l)
    PROVE  FencingInv'
  <1>1. PICK locked \in LockedRows(l) : ClaimOK(l)!2!(locked)
    BY DEF ClaimOK
  <1> DEFINE batch == ClaimBatch(records, readNow[l], BatchSize, locked)
             claimed == Claimed(l, batch)
  <1>2. /\ phase[l] = "claim"
        /\ UNCHANGED accepted
    BY DEF ClaimOK
  <1>3. \A e \in batch : records[e].status \in {"pending", "in-flight"}
    BY BatchStatus
  <1> HIDE DEF batch, claimed
  <1>4. CASE batch = {}
    <2>1. /\ RecordLoop(l, FALSE)
          /\ UNCHANGED <<records, task, batchErr>>
      BY <1>1, <1>4 DEF batch, claimed
    <2>2. \A m \in Loops : phase[m] = "batch" => phase'[m] = "batch"
      BY <2>1, <1>2 DEF RecordLoop, TypeOK
    <2>3. QED
      BY <1>2, <2>1, <2>2, FencingFrame
  <1>5. CASE batch # {}
    <2>1. /\ records' = claimed
          /\ task' = [task EXCEPT ![l] = [e \in Events |->
                IF e \in batch
                THEN [NoTask EXCEPT !.pc = "queued",
                                    !.attempts = claimed[e].attempts]
                ELSE NoTask]]
          /\ phase' = [phase EXCEPT ![l] = "batch"]
      BY <1>1, <1>5 DEF batch, claimed
    <2>2. \A m \in Loops : m # l => task'[m] = task[m] /\ phase'[m] = phase[m]
      BY <2>1 DEF TypeOK
    <2>3. \A e \in Events : task'[l][e].pc # "none" =>
              /\ task'[l][e].pc = "queued"
              /\ task'[l][e].attempts = records'[e].attempts
              /\ phase'[l] = "batch"
      BY <2>1 DEF TypeOK, NoTask
    <2>4. records' = Claimed(l, batch)
      BY <2>1 DEF claimed
    <2>5. QED
      BY <1>2, <1>3, <2>2, <2>3, <2>4, FencingClaim
  <1>6. QED
    BY <1>4, <1>5

LEMMA FencingClaimFails ==
    ASSUME TypeOK, FencingInv, DistinctWorkerIDs, NEW l \in Loops, ClaimFails(l)
    PROVE  FencingInv'
  <1>1. /\ phase[l] = "claim"
        /\ phase' = [phase EXCEPT ![l] = "wait"]
        /\ UNCHANGED <<accepted, task>>
    BY DEF ClaimFails, RecordLoop
  <1>2. \A m \in Loops : m # l => phase'[m] = phase[m]
    BY <1>1 DEF TypeOK
  <1>3. \A e \in Events : task[l][e].pc = "none"
    BY <1>1 DEF FencingInv, TasksInBatch
  <1>4. CASE UNCHANGED records
    BY <1>1, <1>2, <1>4, FencingFrame
  <1>5. CASE records' = Claimed(l,
                ClaimBatch(records, readNow[l], BatchSize, {}))
    <2> DEFINE batch == ClaimBatch(records, readNow[l], BatchSize, {})
    <2>1. \A e \in batch : records[e].status \in {"pending", "in-flight"}
      BY BatchStatus
    <2>2. records' = Claimed(l, batch)
      BY <1>5
    <2> HIDE DEF batch
    <2>3. QED
      BY <1>1, <1>2, <1>3, <1>5, <2>1, <2>2, FencingClaim
  <1>6. QED
    BY <1>4, <1>5 DEF ClaimFails

\* A goroutine that ends without a report, or only moves on inside process.
LEMMA FencingTask ==
    ASSUME TypeOK, FencingInv, NEW l \in Loops, NEW e \in Events,
           task[l][e].pc # "none",
           UNCHANGED <<records, phase>>,
           \A f \in Events : accepted[f] \subseteq accepted'[f],
           NEW t, task' = [task EXCEPT ![l][e] = t],
           t.pc # "none" => t.attempts = task[l][e].attempts,
           t.pc = "ok" => accepted'[e] # {},
           t.pc = "exhausted" => t.attempts > MaxAttempts
    PROVE  FencingInv'
  <1>1. /\ task'[l][e] = t
        /\ \A m \in Loops, f \in Events :
              <<m, f>> # <<l, e>> => task'[m][f] = task[m][f]
    BY DEF TypeOK
  <1>3. TasksInBatch'
    BY <1>1 DEF FencingInv, TasksInBatch
  <1>4. TaskHoldsItsClaim'
    BY <1>1 DEF FencingInv, TaskHoldsItsClaim, Owns
  <1>5. (PublishedWasAccepted /\ DeadLetterExhausted)'
    BY DEF FencingInv, PublishedWasAccepted, DeadLetterExhausted
  <1>6. QED
    BY <1>3, <1>4, <1>5 DEF FencingInv

\* The row a report of task (l, e) may leave behind.
ReportedRow(l, e, row) ==
    /\ ~Owns(records, e, OwnerOf(l)) => row = records[e]
    /\ Owns(records, e, OwnerOf(l)) =>
         /\ row.attempts = records[e].attempts
         /\ \/ /\ row.status = "published"
               /\ task[l][e].pc = "ok"
            \/ row.status = "pending"
            \/ /\ row.status = "dead-letter"
               /\ task[l][e].pc # "ok"
               /\ task[l][e].pc = "fail" => task[l][e].attempts >= MaxAttempts

\* updateOwned touches one row, and that one only for its owner.
LEMMA UpdateOwnedRow ==
    ASSUME NEW tbl \in [Events -> Row], NEW e \in Events, NEW owner,
           NEW row \in Row
    PROVE  /\ \A f \in Events :
                 f # e => UpdateOwned(tbl, e, owner, row)[f] = tbl[f]
           /\ Owns(tbl, e, owner) =>
                 /\ UpdateOwned(tbl, e, owner, row)[e].status = row.status
                 /\ UpdateOwned(tbl, e, owner, row)[e].attempts = row.attempts
           /\ ~Owns(tbl, e, owner) =>
                 UpdateOwned(tbl, e, owner, row)[e] = tbl[e]
  BY DEF UpdateOwned, Row

\* A report leaves a reported row and changes no other row.
LEMMA OutcomeRows ==
    ASSUME TypeOK, NEW l \in Loops, NEW e \in Events,
           NEW tbl \in Outcomes(l, e)
    PROVE  /\ \A f \in Events : f # e => tbl[f] = records[f]
           /\ ReportedRow(l, e, tbl[e])
  <1>1. /\ records \in [Events -> Row]
        /\ records[e] \in Row
        /\ task[l][e].attempts \in Nat
        /\ MaxAttempts \in Nat
        /\ task[l][e].sentAt \in Nat
        /\ Backoff(task[l][e].attempts) \subseteq Nat
    BY DispatcherAssumption DEF TypeOK, Tasks, Backoff
  <1>2. CASE task[l][e].pc = "ok"
    <2> DEFINE row == [records[e] EXCEPT !.status = "published",
                                         !.publishedAt = task[l][e].sentAt]
    <2>1. /\ row \in Row
          /\ row.status = "published"
          /\ row.attempts = records[e].attempts
      BY <1>1 DEF Row, Status
    <2>2. tbl = UpdateOwned(records, e, OwnerOf(l), row)
      BY <1>2 DEF Outcomes, MarkPublished
    <2> HIDE DEF row
    <2>3. QED
      BY <1>1, <1>2, <2>1, <2>2, UpdateOwnedRow DEF ReportedRow
  <1>3. CASE task[l][e].pc = "fail" /\ task[l][e].attempts < MaxAttempts
    <2>1. PICK b \in Backoff(task[l][e].attempts) :
             tbl = Retry(records, e, OwnerOf(l), task[l][e].sentAt + b)
      BY <1>3 DEF Outcomes
    <2> DEFINE row == [records[e] EXCEPT !.status = "pending",
                                  !.nextAt = task[l][e].sentAt + b]
    <2>2. task[l][e].sentAt + b \in Nat
      BY <1>1
    <2>3. /\ row \in Row
          /\ row.status = "pending"
          /\ row.attempts = records[e].attempts
      BY <1>1, <2>2 DEF Row, Status
    <2>4. tbl = UpdateOwned(records, e, OwnerOf(l), row)
      BY <2>1 DEF Retry
    <2> HIDE DEF row
    <2>5. QED
      BY <1>1, <2>3, <2>4, UpdateOwnedRow DEF ReportedRow
  <1>4. CASE /\ task[l][e].pc # "ok"
             /\ ~(task[l][e].pc = "fail" /\ task[l][e].attempts < MaxAttempts)
    <2> DEFINE row == [records[e] EXCEPT !.status = "dead-letter"]
    <2>1. /\ row \in Row
          /\ row.status = "dead-letter"
          /\ row.attempts = records[e].attempts
      BY <1>1 DEF Row, Status
    <2>2. tbl = UpdateOwned(records, e, OwnerOf(l), row)
      BY <1>4 DEF Outcomes, DeadLetter
    <2> HIDE DEF row
    <2>3. QED
      BY <1>1, <1>4, <2>1, <2>2, UpdateOwnedRow DEF ReportedRow
  <1>5. QED
    BY <1>2, <1>3, <1>4

\* A report marks a row for the claim its task was started by, or no row.
LEMMA FencingSettle ==
    ASSUME TypeOK, FencingInv,
           NEW l \in Loops, NEW e \in Events, Settle(l, e)
    PROVE  FencingInv'
  <1>1. /\ task[l][e].pc \in {"ok", "fail", "exhausted"}
        /\ records' \in Outcomes(l, e)
        /\ task' = [task EXCEPT ![l][e] = NoTask]
        /\ UNCHANGED <<accepted, phase>>
    BY DEF Settle, HasOutcome
  <1>2. /\ \A f \in Events : f # e => records'[f] = records[f]
        /\ ReportedRow(l, e, records'[e])
    BY <1>1, OutcomeRows
  <1>3. /\ task'[l][e].pc = "none"
        /\ \A m \in Loops, f \in Events :
              <<m, f>> # <<l, e>> => task'[m][f] = task[m][f]
    BY <1>1 DEF TypeOK, NoTask
  <1>5. TasksInBatch'
    BY <1>1, <1>3 DEF FencingInv, TasksInBatch
  <1>6. CASE Owns(records, e, OwnerOf(l))
    <2>1. /\ task[l][e].attempts = records[e].attempts
          /\ task[l][e].pc = "ok" => accepted[e] # {}
          /\ task[l][e].pc = "exhausted" => task[l][e].attempts > MaxAttempts
      BY <1>1, <1>6 DEF FencingInv, TaskHoldsItsClaim
    <2>2. records'[e].status # "in-flight"
      BY <1>2, <1>6 DEF ReportedRow
    <2>3. TaskHoldsItsClaim'
      BY <1>1, <1>2, <1>3, <2>2 DEF FencingInv, TaskHoldsItsClaim, Owns
    <2>4. PublishedWasAccepted'
      BY <1>1, <1>2, <1>6, <2>1
      DEF FencingInv, PublishedWasAccepted, ReportedRow
    <2>5. DeadLetterExhausted'
      <3>1. task[l][e].attempts \in Nat /\ MaxAttempts \in Nat
        BY DispatcherAssumption DEF TypeOK, Tasks
      <3>2. QED
        BY <1>1, <1>2, <1>6, <2>1, <3>1
        DEF FencingInv, DeadLetterExhausted, ReportedRow
    <2>6. QED
      BY <1>5, <2>3, <2>4, <2>5 DEF FencingInv
  <1>7. CASE ~Owns(records, e, OwnerOf(l))
    <2>1. \A f \in Events : records'[f] = records[f]
      BY <1>2, <1>7 DEF ReportedRow
    <2>2. TaskHoldsItsClaim'
      BY <1>1, <1>3, <2>1 DEF FencingInv, TaskHoldsItsClaim, Owns
    <2>3. (PublishedWasAccepted /\ DeadLetterExhausted)'
      BY <1>1, <2>1 DEF FencingInv, PublishedWasAccepted, DeadLetterExhausted
    <2>4. QED
      BY <1>5, <2>2, <2>3 DEF FencingInv
  <1>8. QED
    BY <1>6, <1>7

\* A purge removes rows and nothing else.
LEMMA FencingDelete ==
    ASSUME FencingInv, NEW ids, records' = Delete(records, ids),
           UNCHANGED <<accepted, phase, task>>
    PROVE  FencingInv'
  <1>1. \A e \in Events : \/ records'[e] = records[e]
                          \/ records'[e].status = "absent"
    BY DEF Delete, NoRow
  <1>2. TasksInBatch'
    BY DEF FencingInv, TasksInBatch
  <1>3. TaskHoldsItsClaim'
    BY <1>1 DEF FencingInv, TaskHoldsItsClaim, Owns
  <1>4. (PublishedWasAccepted /\ DeadLetterExhausted)'
    BY <1>1 DEF FencingInv, PublishedWasAccepted, DeadLetterExhausted
  <1>5. QED
    BY <1>2, <1>3, <1>4 DEF FencingInv

\* Every step keeps the fencing invariant.
LEMMA FencingStep ==
    ASSUME DistinctWorkerIDs, TypeOK, FencingInv, [Next]_vars
    PROVE  FencingInv'
  <1>1. ASSUME NEW e \in Events, Enqueue(e) PROVE FencingInv'
    BY <1>1, FencingEnqueue
  <1>2. ASSUME NEW d \in Dispatchers, Start(d) PROVE FencingInv'
    <2>1. \A l \in Loops : phase[l] = "batch" => phase'[l] = "batch"
      BY <1>2 DEF Start, TypeOK
    <2>2. QED
      BY <1>2, <2>1, FencingFrame DEF Start, storeVars
  <1>3. ASSUME NEW d \in Dispatchers, Shutdown(d) \/ ParentCancel(d)
        PROVE  FencingInv'
    BY <1>3, FencingFrame DEF Shutdown, ParentCancel, storeVars, loopVars
  <1>4. ASSUME NEW l \in Loops, ShutdownCancels(l) PROVE FencingInv'
    BY <1>4, FencingFrame DEF ShutdownCancels, storeVars
  <1>5. ASSUME NEW d \in Dispatchers, Crash(d) PROVE FencingInv'
    BY <1>5, FencingCrash
  <1>6. ASSUME NEW l \in Loops, RunOnce(l) PROVE FencingInv'
    <2>1. \A m \in Loops : phase[m] = "batch" => phase'[m] = "batch"
      BY <1>6 DEF RunOnce, Polls, RecordLoop, TypeOK
    <2>2. QED
      BY <1>6, <2>1, FencingFrame DEF RunOnce, storeVars
  <1>7. ASSUME NEW l \in Loops, ClaimOK(l) PROVE FencingInv'
    BY <1>7, FencingClaimOK
  <1>8. ASSUME NEW l \in Loops, ClaimFails(l) PROVE FencingInv'
    BY <1>8, FencingClaimFails
  <1>9. ASSUME NEW l \in Loops, RunOnceReturns(l) PROVE FencingInv'
    <2>1. /\ phase' = [phase EXCEPT ![l] = "wait"]
          /\ UNCHANGED <<records, accepted, task>>
          /\ \A e \in Events : task[l][e].pc = "none"
      BY <1>9 DEF RunOnceReturns, RecordLoop, storeVars
    <2>2. TasksInBatch'
      BY <2>1 DEF FencingInv, TasksInBatch, TypeOK
    <2>3. TaskHoldsItsClaim'
      BY <2>1 DEF FencingInv, TaskHoldsItsClaim, Owns
    <2>4. (PublishedWasAccepted /\ DeadLetterExhausted)'
      BY <2>1 DEF FencingInv, PublishedWasAccepted, DeadLetterExhausted
    <2>5. QED
      BY <2>2, <2>3, <2>4 DEF FencingInv
  <1>10. ASSUME NEW l \in Loops, LoopExits(l) PROVE FencingInv'
    <2>1. \A m \in Loops : phase[m] = "batch" => phase'[m] = "batch"
      BY <1>10 DEF LoopExits, TypeOK
    <2>2. QED
      BY <1>10, <2>1, FencingFrame DEF LoopExits, storeVars
  <1>11. ASSUME NEW l \in Loops, NEW e \in Events, Acquire(l, e)
         PROVE  FencingInv'
    <2> DEFINE t == IF task[l][e].attempts > MaxAttempts
                    THEN [task[l][e] EXCEPT !.pc = "exhausted"]
                    ELSE [task[l][e] EXCEPT !.pc = "publishing",
                                            !.deadline = Deadline]
    <2>1. task[l][e] \in Tasks
      BY DEF TypeOK
    <2>2. /\ t.attempts = task[l][e].attempts
          /\ t.pc \in {"exhausted", "publishing"}
          /\ t.pc = "exhausted" => t.attempts > MaxAttempts
      BY <2>1 DEF Tasks
    <2>3. task' = [task EXCEPT ![l][e] = t]
      BY <1>11 DEF Acquire
    <2>4. /\ task[l][e].pc # "none"
          /\ UNCHANGED <<records, accepted, phase>>
      BY <1>11 DEF Acquire, storeVars
    <2> HIDE DEF t
    <2>5. QED
      BY <2>2, <2>3, <2>4, FencingTask
  <1>12. ASSUME NEW l \in Loops, NEW e \in Events, Abandon(l, e)
         PROVE  FencingInv'
    <2>1. NoTask.pc = "none"
      BY DEF NoTask
    <2>2. QED
      BY <1>12, <2>1, FencingTask DEF Abandon, storeVars
  <1>13. ASSUME NEW l \in Loops, NEW e \in Events, Publish(l, e)
         PROVE  FencingInv'
    <2>1. PICK pc \in {"ok", "fail"} :
             /\ task' = [task EXCEPT ![l][e] =
                           [task[l][e] EXCEPT !.pc = pc, !.deadline = 0]]
             /\ pc = "ok" => accepted' = [accepted EXCEPT ![e] =
                                            @ \cup {task[l][e].attempts}]
      BY <1>13 DEF Publish, Returned
    <2> DEFINE t == [task[l][e] EXCEPT !.pc = pc, !.deadline = 0]
    <2>2. t.attempts = task[l][e].attempts /\ t.pc = pc
      BY DEF TypeOK, Tasks
    <2>3. /\ \A f \in Events : accepted[f] \subseteq accepted'[f]
          /\ pc = "ok" => accepted'[e] # {}
      <3>1. \/ accepted' = accepted
            \/ accepted' = [accepted EXCEPT ![e] = @ \cup {task[l][e].attempts}]
        BY <1>13 DEF Publish
      <3>2. accepted \in [Events -> SUBSET Nat]
        BY DEF TypeOK
      <3>3. \A f \in Events : accepted[f] \subseteq accepted'[f]
        BY <3>1, <3>2
      <3>4. pc = "ok" => accepted'[e] # {}
        BY <2>1, <3>2
      <3>5. QED
        BY <3>3, <3>4
    <2>4. /\ task[l][e].pc # "none"
          /\ UNCHANGED <<records, phase>>
      BY <1>13 DEF Publish
    <2>5. task' = [task EXCEPT ![l][e] = t]
      BY <2>1
    <2> HIDE DEF t
    <2>6. QED
      BY <2>2, <2>3, <2>4, <2>5, FencingTask
  <1>14. ASSUME NEW l \in Loops, NEW e \in Events, Settle(l, e)
         PROVE  FencingInv'
    BY <1>14, FencingSettle
  <1>15. ASSUME NEW l \in Loops, NEW e \in Events, SettleFails(l, e)
         PROVE  FencingInv'
    <2>1. NoTask.pc = "none"
      BY DEF NoTask
    <2>2. QED
      BY <1>15, <2>1, FencingTask DEF SettleFails, HasOutcome, storeVars
  <1>16. ASSUME NEW p \in Purgers, PurgeSelect(p) PROVE FencingInv'
    BY <1>16, FencingFrame DEF PurgeSelect, storeVars, loopVars
  <1>17. ASSUME NEW p \in Purgers, PurgeDelete(p) \/ PurgeMemory(p)
         PROVE  FencingInv'
    BY <1>17, FencingDelete DEF PurgeDelete, PurgeMemory, loopVars
  <1>18. CASE Tick \/ UNCHANGED vars
    BY <1>18, FencingFrame DEF Tick, vars, storeVars, loopVars
  <1>19. ASSUME NEW l \in Loops, NEW e \in Events, Report(l, e)
         PROVE  FencingInv'
    <2>1. /\ UNCHANGED <<records, accepted, phase>>
          /\ \A m \in Loops, f \in Events :
                 /\ task'[m][f].pc = task[m][f].pc
                 /\ task'[m][f].attempts = task[m][f].attempts
      BY <1>19, ReportStamps
    <2>4. TasksInBatch'
      BY <2>1 DEF FencingInv, TasksInBatch
    <2>5. TaskHoldsItsClaim'
      BY <2>1 DEF FencingInv, TaskHoldsItsClaim, Owns
    <2>6. (PublishedWasAccepted /\ DeadLetterExhausted)'
      BY <2>1 DEF FencingInv, PublishedWasAccepted, DeadLetterExhausted
    <2>7. QED
      BY <2>4, <2>5, <2>6 DEF FencingInv
  <1>20. QED
    BY <1>1, <1>2, <1>3, <1>4, <1>5, <1>6, <1>7, <1>8, <1>9, <1>10, <1>11,
       <1>12, <1>13, <1>14, <1>15, <1>16, <1>17, <1>18, <1>19
    DEF Next, LoopStep, TaskStep

\* Where no two loops share a worker ID the fencing invariant holds in every
\* reachable state, under crashes, cancelled contexts, purges and IDs that are
\* enqueued again: every task that may report does so for its own claim.
THEOREM FencingHolds == ASSUME DistinctWorkerIDs PROVE Spec => []FencingInv
  <1>1. Init => FencingInv
    BY DEF Init, FencingInv, TasksInBatch, TaskHoldsItsClaim,
           PublishedWasAccepted, DeadLetterExhausted, NoTask, NoRow
  <1>2. TypeOK /\ FencingInv /\ [Next]_vars => FencingInv'
    BY FencingStep
  <1>3. QED
    BY <1>1, <1>2, TypeCorrect, PTL DEF Spec

---------------------------------------------------------------------------
(* Stale reports are turned away *)

\* In one step: if a task ends and its row changes, then the row is still at
\* the attempt the task was started with.
LEMMA StaleStep ==
    ASSUME TypeOK, FencingInv, [Next]_vars, NEW l \in Loops, NEW e \in Events,
           task[l][e].pc # "none", task'[l][e].pc = "none",
           records'[e] # records[e]
    PROVE  records[e].attempts = task[l][e].attempts
  <1>1. ASSUME NEW m \in Loops, NEW f \in Events, Settle(m, f)
        PROVE  records[e].attempts = task[l][e].attempts
    <2>1. /\ records' \in Outcomes(m, f)
          /\ task' = [task EXCEPT ![m][f] = NoTask]
      BY <1>1 DEF Settle
    <2>2. m = l /\ f = e
      BY <2>1 DEF TypeOK
    <2>3. Owns(records, e, OwnerOf(l))
      BY <2>1, <2>2, OutcomeRows DEF ReportedRow
    <2>4. QED
      BY <2>1, <2>2, <2>3 DEF FencingInv, TaskHoldsItsClaim
  <1>2. ASSUME NEW m \in Loops, ClaimOK(m)
        PROVE  FALSE
    <2>1. \A k \in Loops : k # m => task'[k] = task[k]
      BY <1>2 DEF ClaimOK, TypeOK
    <2>2. m = l
      BY <2>1
    <2>3. QED
      BY <1>2, <2>2 DEF ClaimOK, FencingInv, TasksInBatch
  <1>3. ASSUME UNCHANGED records \/ UNCHANGED task
        PROVE  FALSE
    BY <1>3
  <1>4. ASSUME \/ \E f \in Events : Enqueue(f)
               \/ \E m \in Loops : ClaimFails(m)
               \/ \E m \in Loops, f \in Events : Publish(m, f)
               \/ \E p \in Purgers : PurgeDelete(p) \/ PurgeMemory(p)
        PROVE  UNCHANGED records \/ UNCHANGED task
    BY <1>4 DEF Enqueue, ClaimFails, Publish, PurgeDelete, PurgeMemory, loopVars
  <1>5. QED
    BY <1>1, <1>2, <1>3, <1>4, StoreSteps

\* A worker whose record was claimed again never changes it: where no two
\* loops share a worker ID, updateOwned's test of the owner is as good as one
\* of the attempt.
THEOREM StaleWorkersAreFenced ==
    ASSUME DistinctWorkerIDs PROVE Spec => StaleWorkerFenced
  <1>1. TypeOK /\ FencingInv /\ [Next]_vars =>
          [\A l \in Loops, e \in Events :
              (/\ task[l][e].pc # "none"
               /\ task'[l][e].pc = "none"
               /\ records'[e] # records[e])
              => records[e].attempts = task[l][e].attempts]_vars
    BY StaleStep
  <1>2. QED
    BY <1>1, TypeCorrect, FencingHolds, PTL DEF Spec, StaleWorkerFenced

---------------------------------------------------------------------------
(* The delivery contract *)

\* A claim moves rows from pending or in flight to in flight.
LEMMA ClaimRowSteps ==
    ASSUME TypeOK, NEW l \in Loops, NEW now, NEW limit, NEW locked,
           records' = Claimed(l, ClaimBatch(records, now, limit, locked))
    PROVE  \A e \in Events :
              \/ records'[e] = records[e]
              \/ /\ records[e].status \in {"pending", "in-flight"}
                 /\ records'[e].status = "in-flight"
  <1> DEFINE batch == ClaimBatch(records, now, limit, locked)
  <1>1. \A e \in batch : records[e].status \in {"pending", "in-flight"}
    BY BatchStatus
  <1>2. records' = Claimed(l, batch)
    OBVIOUS
  <1> HIDE DEF batch
  <1>3. QED
    BY <1>1, <1>2, ClaimedRows

\* A step that keeps the contract's reading of every row, and the broker's
\* memory, is invisible in the contract.
LEMMA InvisibleStep ==
    ASSUME \A e \in Events : Owed(records'[e].status) = Owed(records[e].status),
           \A e \in Events : accepted'[e] = accepted[e]
    PROVE  UNCHANGED <<AbsState, AbsTaken>>
  BY DEF AbsState, AbsTaken

\* A claim is invisible in the contract.
LEMMA InvisibleClaim ==
    ASSUME TypeOK, UNCHANGED accepted,
           \A e \in Events :
              \/ records'[e] = records[e]
              \/ /\ records[e].status \in {"pending", "in-flight"}
                 /\ records'[e].status = "in-flight"
    PROVE  UNCHANGED <<AbsState, AbsTaken>>
  <1>1. \A e \in Events : Owed(records'[e].status) = Owed(records[e].status)
    BY DEF Owed
  <1>2. QED
    BY <1>1, InvisibleStep

\* An insert submits the event.
LEMMA EnqueueSubmits ==
    ASSUME TypeOK, NEW e \in Events, Enqueue(e), ~Exists(records, e)
    PROVE  Delivery!Submit(e)
  <1>1. /\ records[e].status = "absent"
        /\ records'[e].status = "pending"
        /\ accepted'[e] = {}
        /\ \A f \in Events : f # e => /\ records'[f] = records[f]
                                      /\ accepted'[f] = accepted[f]
    BY DEF Enqueue, Insert, Exists, NoRow, TypeOK
  <1>2. AbsState[e] = "none" /\ AbsState'[e] = "owed" /\ AbsTaken'[e] = FALSE
    BY <1>1 DEF AbsState, AbsTaken, Owed
  <1>3. \A f \in Events : f # e => /\ AbsState'[f] = AbsState[f]
                                   /\ AbsTaken'[f] = AbsTaken[f]
    BY <1>1 DEF AbsState, AbsTaken
  <1>4. AbsState' = [AbsState EXCEPT ![e] = "owed"]
    BY <1>2, <1>3 DEF AbsState
  <1>5. AbsTaken' = [AbsTaken EXCEPT ![e] = FALSE]
    BY <1>2, <1>3 DEF AbsTaken
  <1>6. QED
    BY <1>2, <1>4, <1>5 DEF Delivery!Submit

\* A broker that accepts takes the event.
LEMMA AcceptTakes ==
    ASSUME TypeOK, NEW e \in Events, NEW a,
           accepted' = [accepted EXCEPT ![e] = @ \cup {a}], UNCHANGED records
    PROVE  Delivery!Take(e)
  <1>1. AbsTaken' = [AbsTaken EXCEPT ![e] = TRUE]
    BY DEF AbsTaken, TypeOK
  <1>2. UNCHANGED AbsState
    BY DEF AbsState
  <1>3. QED
    BY <1>1, <1>2 DEF Delivery!Take

\* A task that says "ok" and has its worker ID on the row speaks of an event
\* the broker took since the row was inserted.
OkWasAccepted ==
    \A l \in Loops, e \in Events :
        (task[l][e].pc = "ok" /\ Owns(records, e, OwnerOf(l)))
        => accepted[e] # {}

\* A report confirms the event, gives it up, or leaves it owed.
LEMMA SettleInContract ==
    ASSUME TypeOK, OkWasAccepted, NEW l \in Loops, NEW e \in Events, Settle(l, e)
    PROVE  \/ Delivery!Confirm(e)
           \/ Delivery!GiveUp(e)
           \/ UNCHANGED <<AbsState, AbsTaken>>
  <1>1. /\ records' \in Outcomes(l, e)
        /\ UNCHANGED accepted
    BY DEF Settle
  <1>2. /\ \A f \in Events : f # e => records'[f] = records[f]
        /\ ReportedRow(l, e, records'[e])
    BY <1>1, OutcomeRows
  <1>3. UNCHANGED AbsTaken
    BY <1>1 DEF AbsTaken
  <1>4. CASE ~Owns(records, e, OwnerOf(l)) \/ records'[e].status = "pending"
    <2>1. \A f \in Events : Owed(records'[f].status) = Owed(records[f].status)
      BY <1>2, <1>4 DEF ReportedRow, Owns, Owed
    <2>2. QED
      BY <1>1, <2>1, InvisibleStep
  <1>5. CASE Owns(records, e, OwnerOf(l)) /\ records'[e].status = "published"
    <2>1. accepted[e] # {}
      BY <1>1, <1>2, <1>5 DEF ReportedRow, OkWasAccepted
    <2>2. AbsState[e] = "owed" /\ AbsTaken[e] /\ AbsState'[e] = "delivered"
      BY <1>5, <2>1 DEF AbsState, AbsTaken, Owed, Owns
    <2>3. AbsState' = [AbsState EXCEPT ![e] = "delivered"]
      BY <1>2, <2>2 DEF AbsState
    <2>4. QED
      BY <1>3, <2>2, <2>3 DEF Delivery!Confirm
  <1>6. CASE Owns(records, e, OwnerOf(l)) /\ records'[e].status = "dead-letter"
    <2>1. AbsState[e] = "owed" /\ AbsState'[e] = "abandoned"
      BY <1>6 DEF AbsState, Owed, Owns
    <2>2. AbsState' = [AbsState EXCEPT ![e] = "abandoned"]
      BY <1>2, <2>1 DEF AbsState
    <2>3. QED
      BY <1>3, <2>1, <2>2 DEF Delivery!GiveUp
  <1>7. QED
    BY <1>2, <1>4, <1>5, <1>6 DEF ReportedRow

\* Deleting published rows forgets delivered events.
LEMMA DeleteForgets ==
    ASSUME NEW ids \in SUBSET Events, records' = Delete(records, ids),
           \A e \in ids : records[e].status = "published", UNCHANGED accepted
    PROVE  Delivery!Forget(ids)
  <1>1. \A e \in ids : AbsState[e] = "delivered"
    BY DEF AbsState, Owed
  <1>2. \A e \in Events :
           AbsState'[e] = IF e \in ids THEN "none" ELSE AbsState[e]
    BY DEF AbsState, Delete, NoRow, Owed
  <1>3. AbsState' = [e \in Events |-> IF e \in ids THEN "none" ELSE AbsState[e]]
    BY <1>2 DEF AbsState
  <1>4. UNCHANGED AbsTaken
    BY DEF AbsTaken
  <1>5. QED
    BY <1>1, <1>3, <1>4 DEF Delivery!Forget

\* A row that is published stays as it is in every step but a deletion.
LEMMA PublishedStays ==
    ASSUME TypeOK, [Next]_vars,
           \A p \in Purgers : ~PurgeDelete(p) /\ ~PurgeMemory(p),
           NEW e \in Events, records[e].status = "published"
    PROVE  records'[e] = records[e]
  <1>1. ASSUME NEW f \in Events, Enqueue(f) PROVE records'[e] = records[e]
    BY <1>1 DEF Enqueue, Insert, Exists, TypeOK
  <1>2. ASSUME NEW l \in Loops, ClaimOK(l) PROVE records'[e] = records[e]
    <2>1. \/ UNCHANGED records
          \/ \E locked : records' = Claimed(l,
                ClaimBatch(records, readNow[l], BatchSize, locked))
      BY <1>2 DEF ClaimOK
    <2>2. QED
      BY <2>1, ClaimRowSteps
  <1>3. ASSUME NEW l \in Loops, ClaimFails(l) PROVE records'[e] = records[e]
    <2>1. \/ UNCHANGED records
          \/ records' = Claimed(l,
                ClaimBatch(records, readNow[l], BatchSize, {}))
      BY <1>3 DEF ClaimFails
    <2>2. QED
      BY <2>1, ClaimRowSteps
  <1>4. ASSUME NEW l \in Loops, NEW f \in Events, Settle(l, f)
        PROVE  records'[e] = records[e]
    <2>1. records' \in Outcomes(l, f)
      BY <1>4 DEF Settle
    <2>2. QED
      BY <2>1, OutcomeRows DEF ReportedRow, Owns
  <1>5. ASSUME NEW l \in Loops, NEW f \in Events, Publish(l, f)
        PROVE  records'[e] = records[e]
    BY <1>5 DEF Publish
  <1>6. QED
    BY <1>1, <1>2, <1>3, <1>4, <1>5, StoreSteps

\* What the only purger has selected stays published until it deletes it.
LEMMA PurgeStep ==
    ASSUME OnePurger, TypeOK, PurgeInv, [Next]_vars
    PROVE  PurgeInv'
  <1>1. ASSUME NEW p \in Purgers, PurgeSelect(p) PROVE PurgeInv'
    <2>1. \A e \in PurgeBatch(records, clock, PurgeLimit) :
             records[e].status = "published"
      BY DEF PurgeBatch, Purgeable
    <2>2. QED
      BY <1>1, <2>1 DEF PurgeSelect, PurgeInv, TypeOK, storeVars
  <1>2. ASSUME NEW p \in Purgers, PurgeDelete(p) PROVE PurgeInv'
    <2>1. purging' = [purging EXCEPT ![p] = {}]
      BY <1>2 DEF PurgeDelete
    <2>2. \A q \in Purgers : purging'[q] = {}
      BY <2>1 DEF OnePurger, TypeOK
    <2>3. QED
      BY <2>2 DEF PurgeInv
  <1>3. ASSUME NEW p \in Purgers, PurgeMemory(p) PROVE PurgeInv'
    <2>1. \A q \in Purgers : purging[q] = {}
      BY <1>3 DEF PurgeMemory, PurgeInv
    <2>2. QED
      BY <1>3, <2>1 DEF PurgeMemory, PurgeInv
  <1>4. ASSUME \A p \in Purgers :
                  ~PurgeSelect(p) /\ ~PurgeDelete(p) /\ ~PurgeMemory(p)
        PROVE  PurgeInv'
    <2>1. UNCHANGED purging
      BY <1>4, PurgeSteps
    <2>2. \A p \in Purgers : purging[p] \subseteq Events
      BY DEF TypeOK
    <2>3. \A e \in Events : records[e].status = "published"
                              => records'[e] = records[e]
      BY <1>4, PublishedStays
    <2>4. QED
      BY <2>1, <2>2, <2>3 DEF PurgeInv
  <1>5. QED
    BY <1>1, <1>2, <1>3, <1>4

\* The callers of PurgePublished do not overlap: what one has selected is
\* still published when it deletes.
THEOREM PurgersAreSafe ==
    ASSUME OnePurger PROVE Spec => []PurgeInv
  <1>1. Init => PurgeInv
    BY DEF Init, PurgeInv
  <1>2. TypeOK /\ PurgeInv /\ [Next]_vars => PurgeInv'
    BY PurgeStep
  <1>3. QED
    BY <1>1, <1>2, TypeCorrect, PTL DEF Spec

\* Every step of the dispatchers is a step of the contract or invisible.
LEMMA ContractStep ==
    ASSUME TypeOK, OkWasAccepted, PurgeInv, [Next]_vars
    PROVE  Delivery!Next \/ UNCHANGED <<AbsState, AbsTaken>>
  <1>1. ASSUME NEW e \in Events, Enqueue(e)
        PROVE  Delivery!Next \/ UNCHANGED <<AbsState, AbsTaken>>
    <2>1. CASE Exists(records, e)
      BY <1>1, <2>1, InvisibleStep DEF Enqueue, Insert
    <2>2. CASE ~Exists(records, e)
      BY <1>1, <2>2, EnqueueSubmits DEF Delivery!Next
    <2>3. QED
      BY <2>1, <2>2
  <1>2. ASSUME NEW l \in Loops, ClaimOK(l) \/ ClaimFails(l)
        PROVE  UNCHANGED <<AbsState, AbsTaken>>
    <2>1. UNCHANGED accepted
      BY <1>2 DEF ClaimOK, ClaimFails
    <2>2. \/ UNCHANGED records
          \/ \E locked : records' = Claimed(l,
                ClaimBatch(records, readNow[l], BatchSize, locked))
      BY <1>2 DEF ClaimOK, ClaimFails
    <2>3. QED
      BY <2>1, <2>2, ClaimRowSteps, InvisibleClaim
  <1>3. ASSUME NEW l \in Loops, NEW e \in Events, Publish(l, e)
        PROVE  Delivery!Next \/ UNCHANGED <<AbsState, AbsTaken>>
    <2>1. UNCHANGED records
      BY <1>3 DEF Publish
    <2>2. CASE UNCHANGED accepted
      BY <2>1, <2>2, InvisibleStep
    <2>3. CASE accepted' = [accepted EXCEPT ![e] = @ \cup {task[l][e].attempts}]
      BY <2>1, <2>3, AcceptTakes DEF Delivery!Next
    <2>4. QED
      BY <1>3, <2>2, <2>3 DEF Publish
  <1>4. ASSUME NEW l \in Loops, NEW e \in Events, Settle(l, e)
        PROVE  Delivery!Next \/ UNCHANGED <<AbsState, AbsTaken>>
    BY <1>4, SettleInContract DEF Delivery!Next
  <1>5. ASSUME NEW p \in Purgers, PurgeDelete(p)
        PROVE  Delivery!Next
    <2>1. purging[p] \in SUBSET Events
      BY DEF TypeOK
    <2>2. Delivery!Forget(purging[p])
      BY <1>5, <2>1, DeleteForgets DEF PurgeDelete, PurgeInv
    <2>3. QED
      BY <2>1, <2>2 DEF Delivery!Next
  <1>6. ASSUME NEW p \in Purgers, PurgeMemory(p)
        PROVE  Delivery!Next
    <2> DEFINE ids == PurgeBatch(records, clock, PurgeLimit)
    <2>1. ids \in SUBSET Events /\ \A e \in ids : records[e].status = "published"
      BY DEF PurgeBatch, Purgeable
    <2>2. records' = Delete(records, ids) /\ UNCHANGED accepted
      BY <1>6 DEF PurgeMemory
    <2> HIDE DEF ids
    <2>3. Delivery!Forget(ids)
      BY <2>1, <2>2, DeleteForgets
    <2>4. QED
      BY <2>1, <2>3 DEF Delivery!Next
  <1>7. ASSUME UNCHANGED <<records, accepted>>
        PROVE  UNCHANGED <<AbsState, AbsTaken>>
    BY <1>7, InvisibleStep
  <1>8. QED
    <2>1. \/ \E e \in Events : Enqueue(e)
          \/ \E l \in Loops : ClaimOK(l) \/ ClaimFails(l)
          \/ \E l \in Loops, e \in Events : Publish(l, e) \/ Settle(l, e)
          \/ \E p \in Purgers : PurgeDelete(p) \/ PurgeMemory(p)
          \/ UNCHANGED <<records, accepted>>
      BY StoreSteps
    <2>2. QED
      BY <2>1, <1>1, <1>2, <1>3, <1>4, <1>5, <1>6, <1>7

---------------------------------------------------------------------------
(* Health *)

\* A dispatcher that runs, and whose Start context nobody cancelled, has a live
\* loop.
RunningHasLoop ==
    \A d \in Dispatchers :
        (running[d] /\ d \notin orphaned) =>
            /\ ~ctxDone[<<d, current[d]>>]
            /\ phase[<<d, current[d]>>] # "off"

\* What a Shutdown is about to cancel is a loop that has not ended, and not
\* the loop of a dispatcher that was started again.
CancelsLeftBehind ==
    \A l \in cancelling :
        /\ phase[l] # "off"
        /\ running[DispatcherOf(l)] => l[2] # current[DispatcherOf(l)]

\* The inductive invariant behind HealthMeansLoopAlive.
HealthInv == RunningHasLoop /\ CancelsLeftBehind

\* A loop ends after its context did; Start takes a loop that is off, which
\* no Shutdown is about to cancel.
LEMMA RunningStep ==
    ASSUME TypeOK, HealthInv, [Next]_vars
    PROVE  HealthInv'
  <1>a. \A d \in Dispatchers : <<d, current[d]>> \in Loops
    BY DEF TypeOK, Loops
  <1>b. \A l \in Loops : /\ DispatcherOf(l) \in Dispatchers
                         /\ l = <<DispatcherOf(l), l[2]>>
    BY DEF Loops, DispatcherOf
  <1>1. ASSUME NEW d \in Dispatchers, Start(d) PROVE HealthInv'
    <2>1. PICK g \in Gens :
             /\ phase[<<d, g>>] = "off"
             /\ current' = [current EXCEPT ![d] = g]
             /\ phase' = [phase EXCEPT ![<<d, g>>] = "poll"]
             /\ ctxDone' = [ctxDone EXCEPT ![<<d, g>>] = FALSE]
      BY <1>1 DEF Start
    <2>2. /\ <<d, g>> \in Loops
          /\ running' = [running EXCEPT ![d] = TRUE]
          /\ orphaned' = orphaned \ {d}
          /\ UNCHANGED cancelling
      BY <1>1 DEF Start, Loops
    <2>3. ASSUME NEW f \in Dispatchers, running'[f], f \notin orphaned'
          PROVE  ~ctxDone'[<<f, current'[f]>>] /\ phase'[<<f, current'[f]>>] # "off"
      <3>1. CASE f = d
        BY <2>1, <2>2, <3>1 DEF TypeOK
      <3>2. CASE f # d
        <4>1. /\ running[f] /\ f \notin orphaned /\ current'[f] = current[f]
              /\ <<f, current[f]>> \in Loops /\ <<f, current[f]>> # <<d, g>>
          BY <1>a, <2>1, <2>2, <2>3, <3>2 DEF TypeOK
        <4> QED
          BY <2>1, <4>1 DEF TypeOK, HealthInv, RunningHasLoop
      <3> QED
        BY <3>1, <3>2
    <2>4. ASSUME NEW l \in cancelling'
          PROVE  /\ phase'[l] # "off"
                 /\ running'[DispatcherOf(l)] => l[2] # current'[DispatcherOf(l)]
      <3>1. l \in cancelling /\ l \in Loops /\ phase[l] # "off"
        BY <2>2, <2>4 DEF TypeOK, HealthInv, CancelsLeftBehind
      <3>2. l # <<d, g>>
        BY <2>1, <3>1
      <3>3. phase'[l] = phase[l]
        BY <2>1, <3>1, <3>2 DEF TypeOK
      <3>4. CASE DispatcherOf(l) = d
        BY <1>b, <2>1, <3>1, <3>2, <3>3, <3>4 DEF TypeOK
      <3>5. CASE DispatcherOf(l) # d
        <4>1. /\ running'[DispatcherOf(l)] = running[DispatcherOf(l)]
              /\ current'[DispatcherOf(l)] = current[DispatcherOf(l)]
          BY <1>b, <2>1, <2>2, <3>1, <3>5 DEF TypeOK
        <4> QED
          BY <3>1, <3>3, <4>1 DEF HealthInv, CancelsLeftBehind
      <3> QED
        BY <3>4, <3>5
    <2> QED
      BY <2>3, <2>4 DEF HealthInv, RunningHasLoop, CancelsLeftBehind
  <1>2. ASSUME NEW d \in Dispatchers, Shutdown(d) PROVE HealthInv'
    <2>1. /\ running' = [running EXCEPT ![d] = FALSE]
          /\ cancelling' = cancelling
                             \cup {l \in {<<d, current[d]>>} : phase[l] # "off"}
          /\ UNCHANGED <<current, orphaned, phase, ctxDone>>
      BY <1>2 DEF Shutdown, loopVars
    <2>2. \A f \in Dispatchers : running'[f] => running[f] /\ f # d
      BY <2>1 DEF TypeOK
    <2>3. RunningHasLoop'
      BY <2>1, <2>2 DEF HealthInv, RunningHasLoop
    <2>4. CancelsLeftBehind'
      <3> SUFFICES ASSUME NEW l \in cancelling'
                   PROVE  /\ phase'[l] # "off"
                          /\ running'[DispatcherOf(l)] =>
                                l[2] # current'[DispatcherOf(l)]
        BY DEF CancelsLeftBehind
      <3>1. CASE l \in cancelling
        <4>1. DispatcherOf(l) \in Dispatchers
          BY <1>b, <3>1 DEF TypeOK
        <4> QED
          BY <2>1, <2>2, <3>1, <4>1 DEF HealthInv, CancelsLeftBehind
      <3>2. CASE l = <<d, current[d]>> /\ phase[l] # "off"
        BY <2>1, <2>2, <3>2 DEF DispatcherOf
      <3> QED
        BY <2>1, <3>1, <3>2
    <2> QED
      BY <2>3, <2>4 DEF HealthInv
  <1>3. ASSUME NEW d \in Dispatchers, ParentCancel(d) PROVE HealthInv'
    <2>1. /\ ctxDone' = [ctxDone EXCEPT ![<<d, current[d]>>] = TRUE]
          /\ orphaned' = orphaned \cup {d}
          /\ UNCHANGED <<running, current, cancelling, phase>>
      BY <1>3 DEF ParentCancel
    <2>2. \A f \in Dispatchers :
             f # d => ctxDone'[<<f, current[f]>>] = ctxDone[<<f, current[f]>>]
      BY <1>a, <2>1 DEF TypeOK
    <2>3. RunningHasLoop'
      BY <2>1, <2>2 DEF HealthInv, RunningHasLoop
    <2>4. CancelsLeftBehind'
      BY <2>1 DEF HealthInv, CancelsLeftBehind
    <2> QED
      BY <2>3, <2>4 DEF HealthInv
  <1>4. ASSUME NEW d \in Dispatchers, Crash(d) PROVE HealthInv'
    <2>1. /\ running' = [running EXCEPT ![d] = FALSE]
          /\ phase' = [l \in Loops |-> IF DispatcherOf(l) = d THEN "off"
                                       ELSE phase[l]]
          /\ ctxDone' = [l \in Loops |-> DispatcherOf(l) = d \/ ctxDone[l]]
          /\ cancelling' = {l \in cancelling : DispatcherOf(l) # d}
          /\ orphaned' = orphaned \ {d}
          /\ UNCHANGED current
      BY <1>4 DEF Crash
    <2>2. ASSUME NEW f \in Dispatchers, running'[f], f \notin orphaned'
          PROVE  ~ctxDone'[<<f, current'[f]>>] /\ phase'[<<f, current'[f]>>] # "off"
      <3>1. f # d /\ running[f] /\ f \notin orphaned
        BY <2>1, <2>2 DEF TypeOK
      <3>2. <<f, current[f]>> \in Loops /\ DispatcherOf(<<f, current[f]>>) # d
        BY <1>a, <3>1 DEF DispatcherOf
      <3> QED
        BY <2>1, <3>1, <3>2 DEF HealthInv, RunningHasLoop
    <2>3. ASSUME NEW l \in cancelling'
          PROVE  /\ phase'[l] # "off"
                 /\ running'[DispatcherOf(l)] => l[2] # current'[DispatcherOf(l)]
      <3>1. l \in cancelling /\ l \in Loops /\ DispatcherOf(l) # d
        BY <2>1, <2>3 DEF TypeOK
      <3>2. phase'[l] = phase[l]
            /\ running'[DispatcherOf(l)] = running[DispatcherOf(l)]
        BY <1>b, <2>1, <3>1 DEF TypeOK
      <3> QED
        BY <2>1, <3>1, <3>2 DEF HealthInv, CancelsLeftBehind
    <2> QED
      BY <2>2, <2>3 DEF HealthInv, RunningHasLoop, CancelsLeftBehind
  <1>5. ASSUME NEW l \in Loops,
               \/ RunOnce(l) \/ ClaimOK(l) \/ ClaimFails(l) \/ RunOnceReturns(l)
        PROVE  HealthInv'
    <2>1. /\ UNCHANGED <<running, current, cancelling, orphaned, ctxDone>>
          /\ \E q \in {"poll", "claim", "batch", "wait"} : phase' = [phase EXCEPT ![l] = q]
      BY <1>5 DEF RunOnce, ClaimOK, ClaimFails, RunOnceReturns, RecordLoop
    <2>2. \A m \in Loops : phase[m] # "off" => phase'[m] # "off"
      BY <2>1 DEF TypeOK
    <2>3. RunningHasLoop'
      BY <1>a, <2>1, <2>2 DEF HealthInv, RunningHasLoop
    <2>4. CancelsLeftBehind'
      BY <2>1, <2>2 DEF HealthInv, CancelsLeftBehind, TypeOK
    <2> QED
      BY <2>3, <2>4 DEF HealthInv
  <1>6. ASSUME NEW l \in Loops, LoopExits(l) PROVE HealthInv'
    <2>1. /\ ctxDone[l]
          /\ phase' = [phase EXCEPT ![l] = "off"]
          /\ cancelling' = cancelling \ {l}
          /\ UNCHANGED <<running, current, orphaned, ctxDone>>
      BY <1>6 DEF LoopExits
    <2>2. \A m \in Loops : m # l => phase'[m] = phase[m]
      BY <2>1 DEF TypeOK
    <2>3. RunningHasLoop'
      BY <1>a, <2>1, <2>2 DEF HealthInv, RunningHasLoop
    <2>4. CancelsLeftBehind'
      BY <2>1, <2>2 DEF HealthInv, CancelsLeftBehind, TypeOK
    <2> QED
      BY <2>3, <2>4 DEF HealthInv
  <1>7. ASSUME NEW l \in Loops, ShutdownCancels(l) PROVE HealthInv'
    <2>1. /\ l \in cancelling
          /\ cancelling' = cancelling \ {l}
          /\ ctxDone' = [ctxDone EXCEPT ![l] = TRUE]
          /\ UNCHANGED <<running, current, orphaned, phase>>
      BY <1>7 DEF ShutdownCancels
    <2>2. ASSUME NEW d \in Dispatchers, running[d]
          PROVE  ctxDone'[<<d, current[d]>>] = ctxDone[<<d, current[d]>>]
      <3>1. l # <<d, current[d]>>
        BY <2>1, <2>2 DEF HealthInv, CancelsLeftBehind, DispatcherOf
      <3> QED
        BY <1>a, <2>1, <3>1 DEF TypeOK
    <2>3. RunningHasLoop'
      BY <2>1, <2>2 DEF HealthInv, RunningHasLoop
    <2>4. CancelsLeftBehind'
      BY <2>1 DEF HealthInv, CancelsLeftBehind
    <2> QED
      BY <2>3, <2>4 DEF HealthInv
  <1>8. CASE UNCHANGED <<running, current, cancelling, orphaned, phase, ctxDone>>
    BY <1>8 DEF HealthInv, RunningHasLoop, CancelsLeftBehind
  <1>9. ASSUME \/ \E e \in Events : Enqueue(e)
               \/ \E l \in Loops, e \in Events : TaskStep(l, e) \/ SettleFails(l, e)
               \/ \E p \in Purgers : PurgeSelect(p) \/ PurgeDelete(p) \/ PurgeMemory(p)
               \/ Tick
               \/ UNCHANGED vars
        PROVE  UNCHANGED <<running, current, cancelling, orphaned, phase, ctxDone>>
    <2>1. ASSUME NEW l \in Loops, NEW e \in Events, TaskStep(l, e) \/ SettleFails(l, e)
          PROVE  UNCHANGED <<running, current, cancelling, orphaned, phase, ctxDone>>
      BY <2>1 DEF TaskStep, Acquire, Abandon, Publish, Report, Settle, SettleFails,
                  ctlVars
    <2>2. ASSUME NEW p \in Purgers, PurgeSelect(p) \/ PurgeDelete(p) \/ PurgeMemory(p)
          PROVE  UNCHANGED <<running, current, cancelling, orphaned, phase, ctxDone>>
      BY <2>2 DEF PurgeSelect, PurgeDelete, PurgeMemory, ctlVars, loopVars
    <2>3. CASE (\E e \in Events : Enqueue(e)) \/ Tick \/ UNCHANGED vars
      BY <2>3 DEF Enqueue, Tick, vars, ctlVars, loopVars
    <2> QED
      BY <1>9, <2>1, <2>2, <2>3
  <1> QED
    BY <1>1, <1>2, <1>3, <1>4, <1>5, <1>6, <1>7, <1>8, <1>9 DEF Next, LoopStep

\* A dispatcher that Health calls running has a loop nobody has told to stop,
\* for any number of overlapping Shutdowns and Starts and of cancelled
\* contexts; a cancelled Start context is the exception the property names.
THEOREM HealthIsHonest == Spec => []HealthMeansLoopAlive
  <1>1. Init => HealthInv
    BY DEF Init, HealthInv, RunningHasLoop, CancelsLeftBehind
  <1>2. TypeOK /\ HealthInv /\ [Next]_vars => HealthInv'
    BY RunningStep
  <1>3. HealthInv => HealthMeansLoopAlive
    BY DEF HealthInv, RunningHasLoop, HealthMeansLoopAlive
  <1>4. QED
    BY <1>1, <1>2, <1>3, TypeCorrect, PTL DEF Spec

---------------------------------------------------------------------------
(* Every broker call has an attempt number of its own *)

\* A row that is not there has never been claimed, and the broker has seen
\* no attempt that was not counted on the row.
AttemptsCounted ==
    \A e \in Events :
        /\ accepted[e] \subseteq 1..MaxAttempts
        /\ \A n \in accepted[e] : n <= records[e].attempts
        /\ ~Exists(records, e) => records[e].attempts = 0

\* A task carries the number of one claim, and until it has called the broker
\* the broker has not seen that number.
TasksCounted ==
    \A l \in Loops, e \in Events :
        task[l][e].pc # "none" =>
            /\ task[l][e].attempts >= 1
            /\ task[l][e].attempts <= records[e].attempts
            /\ task[l][e].pc = "publishing" => task[l][e].attempts <= MaxAttempts
            /\ task[l][e].pc \in {"queued", "publishing"} =>
                  task[l][e].attempts \notin accepted[e]

\* No two tasks for one event come from the same claim.
TasksDiffer ==
    \A l, m \in Loops, e \in Events :
        (task[l][e].pc # "none" /\ task[m][e].pc # "none" /\ l # m) =>
            task[l][e].attempts # task[m][e].attempts

\* The inductive invariant behind FreshDeliveryAttempt.
AttemptsInv == TasksInBatch /\ AttemptsCounted /\ TasksCounted /\ TasksDiffer

\* Steps that start no task and call no broker keep the invariant: attempt
\* counters only grow and tasks only move on.
LEMMA AttemptsFrame ==
    ASSUME TypeOK, TypeOK', AttemptsInv,
           UNCHANGED accepted,
           \A e \in Events :
              /\ records[e].attempts <= records'[e].attempts
              /\ records'[e].status = "absent" => records'[e] = records[e],
           \A l \in Loops, e \in Events :
              \/ task'[l][e].pc = "none"
              \/ /\ task[l][e].pc # "none"
                 /\ phase'[l] = "batch"
                 /\ task'[l][e].attempts = task[l][e].attempts
                 /\ task'[l][e].pc \in {"queued", "publishing"} =>
                       task[l][e].pc \in {"queued", "publishing"}
                 /\ task'[l][e].pc = "publishing" =>
                       task[l][e].attempts <= MaxAttempts
    PROVE  AttemptsInv'
  <1>1. \A e \in Events : /\ records[e].attempts \in Nat
                          /\ records'[e].attempts \in Nat
                          /\ accepted[e] \subseteq Nat
    BY DEF TypeOK, Row
  <1>2. \A l \in Loops, e \in Events : task[l][e].attempts \in Nat
    BY DEF TypeOK, Tasks
  <1>3. TasksInBatch'
    BY DEF AttemptsInv, TasksInBatch
  <1>4. AttemptsCounted'
    BY <1>1 DEF AttemptsInv, AttemptsCounted, Exists
  <1>5. TasksCounted'
    BY <1>1, <1>2 DEF AttemptsInv, TasksCounted
  <1>6. TasksDiffer'
    BY DEF AttemptsInv, TasksDiffer
  <1> QED
    BY <1>3, <1>4, <1>5, <1>6 DEF AttemptsInv

\* A new row starts without attempts, and no task is left of an old one.
LEMMA AttemptsEnqueue ==
    ASSUME TypeOK, TypeOK', AttemptsInv, NEW e \in Events, Enqueue(e)
    PROVE  AttemptsInv'
  <1>1. UNCHANGED <<phase, task>>
    BY DEF Enqueue, loopVars
  <1>2. CASE Exists(records, e)
    <2>1. UNCHANGED <<records, accepted>>
      BY <1>2 DEF Enqueue, Insert
    <2> QED
      BY <1>1, <2>1 DEF AttemptsInv, TasksInBatch, AttemptsCounted, TasksCounted,
                        TasksDiffer, Exists
  <1>3. CASE ~Exists(records, e)
    <2>1. /\ records'[e].status = "pending" /\ records'[e].attempts = 0
          /\ accepted'[e] = {}
          /\ \A f \in Events :
                f # e => records'[f] = records[f] /\ accepted'[f] = accepted[f]
      BY <1>3 DEF Enqueue, Insert, NoRow, TypeOK
    <2>2. \A l \in Loops : task[l][e].pc = "none"
      <3>1. records[e].attempts = 0
        BY <1>3 DEF AttemptsInv, AttemptsCounted
      <3>2. \A l \in Loops : task[l][e].attempts \in Nat
        BY DEF TypeOK, Tasks
      <3> QED
        BY <3>1, <3>2 DEF AttemptsInv, TasksCounted
    <2>3. TasksInBatch'
      BY <1>1 DEF AttemptsInv, TasksInBatch
    <2>4. AttemptsCounted'
      BY <2>1 DEF AttemptsInv, AttemptsCounted, Exists
    <2>5. TasksCounted'
      BY <1>1, <2>1, <2>2 DEF AttemptsInv, TasksCounted
    <2>6. TasksDiffer'
      BY <1>1 DEF AttemptsInv, TasksDiffer
    <2> QED
      BY <2>3, <2>4, <2>5, <2>6 DEF AttemptsInv
  <1> QED
    BY <1>2, <1>3

\* A claim raises the attempt counter of every row it takes, so the new tasks
\* carry numbers no task and no broker call had before.
LEMMA AttemptsClaim ==
    ASSUME TypeOK, TypeOK', AttemptsInv, NEW l \in Loops, ClaimOK(l)
    PROVE  AttemptsInv'
  <1>1. PICK locked \in LockedRows(l) : ClaimOK(l)!2!(locked)
    BY DEF ClaimOK
  <1> DEFINE batch == ClaimBatch(records, readNow[l], BatchSize, locked)
             claimed == Claimed(l, batch)
  <1>2. /\ phase[l] = "claim"
        /\ UNCHANGED accepted
    BY DEF ClaimOK
  <1>3. \A e \in batch : records[e].status \in {"pending", "in-flight"}
    BY BatchStatus
  <1> HIDE DEF batch, claimed
  <1>4. CASE batch = {}
    <2>1. /\ phase' = [phase EXCEPT ![l] = "wait"]
          /\ UNCHANGED <<records, task>>
      BY <1>1, <1>4 DEF batch, claimed, RecordLoop
    <2>2. \A m \in Loops : phase[m] = "batch" => phase'[m] = "batch"
      BY <2>1, <1>2 DEF TypeOK
    <2> QED
      BY <1>2, <2>1, <2>2 DEF AttemptsInv, TasksInBatch, AttemptsCounted, TasksCounted,
                        TasksDiffer, Exists
  <1>5. CASE batch # {}
    <2>1. /\ records' = claimed
          /\ task' = [task EXCEPT ![l] = [e \in Events |->
                IF e \in batch
                THEN [NoTask EXCEPT !.pc = "queued",
                                    !.attempts = claimed[e].attempts]
                ELSE NoTask]]
          /\ phase' = [phase EXCEPT ![l] = "batch"]
      BY <1>1, <1>5 DEF batch, claimed
    <2>2. \A m \in Loops : m # l => task'[m] = task[m] /\ phase'[m] = phase[m]
      BY <2>1 DEF TypeOK
    <2>3. \A e \in Events : task'[l][e].pc # "none" =>
              /\ e \in batch
              /\ task'[l][e].pc = "queued"
              /\ task'[l][e].attempts = records'[e].attempts
      BY <2>1 DEF TypeOK, NoTask
    <2>4. \A e \in Events :
             /\ e \in batch => records'[e].attempts = records[e].attempts + 1
                               /\ records'[e].status = "in-flight"
             /\ e \notin batch => records'[e] = records[e]
      BY <2>1, ClaimedRows DEF claimed
    <2>5. \A e \in Events : /\ records[e].attempts \in Nat
                            /\ accepted[e] \subseteq Nat
      BY DEF TypeOK, Row
    <2>6. \A m \in Loops, e \in Events : task[m][e].attempts \in Nat
      BY DEF TypeOK, Tasks
    <2>7. TasksInBatch'
      BY <2>1, <2>2 DEF AttemptsInv, TasksInBatch, TypeOK
    <2>8. AttemptsCounted'
      BY <1>2, <2>4, <2>5 DEF AttemptsInv, AttemptsCounted, Exists
    <2>9. TasksCounted'
      <3> SUFFICES ASSUME NEW m \in Loops, NEW e \in Events, task'[m][e].pc # "none"
                   PROVE  /\ task'[m][e].attempts >= 1
                          /\ task'[m][e].attempts <= records'[e].attempts
                          /\ task'[m][e].pc = "publishing" =>
                                task'[m][e].attempts <= MaxAttempts
                          /\ task'[m][e].pc \in {"queued", "publishing"} =>
                                task'[m][e].attempts \notin accepted'[e]
        BY DEF TasksCounted
      <3>1. CASE m = l
        BY <1>2, <2>3, <2>4, <2>5, <3>1 DEF AttemptsInv, AttemptsCounted
      <3>2. CASE m # l
        BY <1>2, <2>2, <2>4, <2>5, <2>6, <3>2 DEF AttemptsInv, TasksCounted
      <3> QED
        BY <3>1, <3>2
    <2>10. TasksDiffer'
      <3>1. ASSUME NEW m \in Loops, NEW e \in Events, m # l,
                   task'[m][e].pc # "none", task'[l][e].pc # "none"
            PROVE  task'[m][e].attempts < task'[l][e].attempts
        BY <2>2, <2>3, <2>4, <2>5, <2>6, <3>1 DEF AttemptsInv, TasksCounted
      <3>2. \A m \in Loops, e \in Events : task'[m][e].attempts \in Nat
        BY DEF TypeOK, Tasks
      <3> QED
        BY <2>2, <3>1, <3>2 DEF AttemptsInv, TasksDiffer
    <2> QED
      BY <2>7, <2>8, <2>9, <2>10 DEF AttemptsInv
  <1> QED
    BY <1>4, <1>5

\* The broker takes the attempt of a publishing task; no other task carries it.
LEMMA AttemptsPublish ==
    ASSUME TypeOK, TypeOK', AttemptsInv, NEW l \in Loops, NEW e \in Events, Publish(l, e)
    PROVE  AttemptsInv'
  <1>1. /\ task[l][e].pc = "publishing"
        /\ UNCHANGED <<records, phase>>
    BY DEF Publish
  <1>2. PICK pc \in {"ok", "fail"} :
           task' = [task EXCEPT ![l][e] = [task[l][e] EXCEPT !.pc = pc, !.deadline = 0]]
    BY DEF Publish, Returned
  <1>3. /\ task'[l][e].pc \in {"ok", "fail"}
        /\ task'[l][e].attempts = task[l][e].attempts
        /\ \A m \in Loops, f \in Events :
              <<m, f>> # <<l, e>> => task'[m][f] = task[m][f]
    BY <1>2 DEF TypeOK, Tasks
  <1>4. \A f \in Events : accepted'[f] \subseteq accepted[f] \cup {task[l][e].attempts}
                          /\ (f # e => accepted'[f] = accepted[f])
    BY DEF Publish, TypeOK
  <1>5. \A m \in Loops, f \in Events : task[m][f].attempts \in Nat
    BY DEF TypeOK, Tasks
  <1>6. /\ task[l][e].attempts \in 1..MaxAttempts
        /\ task[l][e].attempts <= records[e].attempts
    BY <1>1, <1>5, DispatcherAssumption DEF AttemptsInv, TasksCounted
  <1>7. TasksInBatch'
    BY <1>1, <1>3 DEF AttemptsInv, TasksInBatch
  <1>8. AttemptsCounted'
    BY <1>1, <1>4, <1>6 DEF AttemptsInv, AttemptsCounted, Exists
  <1>9. TasksCounted'
    <2> SUFFICES ASSUME NEW m \in Loops, NEW f \in Events, task'[m][f].pc # "none"
                 PROVE  /\ task'[m][f].attempts >= 1
                        /\ task'[m][f].attempts <= records'[f].attempts
                        /\ task'[m][f].pc = "publishing" =>
                              task'[m][f].attempts <= MaxAttempts
                        /\ task'[m][f].pc \in {"queued", "publishing"} =>
                              task'[m][f].attempts \notin accepted'[f]
      BY DEF TasksCounted
    <2>1. CASE m = l /\ f = e
      BY <1>1, <1>3, <2>1 DEF AttemptsInv, TasksCounted
    <2>2. CASE f # e
      BY <1>1, <1>3, <1>4, <2>2 DEF AttemptsInv, TasksCounted
    <2>3. CASE m # l /\ f = e
      <3>1. task[m][e].attempts # task[l][e].attempts /\ task'[m][e] = task[m][e]
        BY <1>1, <1>3, <2>3 DEF AttemptsInv, TasksDiffer
      <3> QED
        BY <1>1, <1>4, <2>3, <3>1 DEF AttemptsInv, TasksCounted
    <2> QED
      BY <2>1, <2>2, <2>3
  <1>10. TasksDiffer'
    BY <1>1, <1>3 DEF AttemptsInv, TasksDiffer
  <1> QED
    BY <1>7, <1>8, <1>9, <1>10 DEF AttemptsInv

\* Every step keeps the attempt numbers apart.
LEMMA AttemptsStep ==
    ASSUME Purgers = {}, TypeOK, TypeOK', AttemptsInv, [Next]_vars
    PROVE  AttemptsInv'
  <1>a. \A e \in Events : records[e].attempts \in Nat
    BY DEF TypeOK, Row
  <1>b. \A l \in Loops, e \in Events : task[l][e].pc # "none" => phase[l] = "batch"
    BY DEF AttemptsInv, TasksInBatch
  <1>c. \A l \in Loops, e \in Events :
           task[l][e].pc = "publishing" => task[l][e].attempts <= MaxAttempts
    BY DEF AttemptsInv, TasksCounted
  <1>d. ASSUME UNCHANGED <<records, accepted, task>>,
               \A l \in Loops : phase'[l] = phase[l] \/ phase[l] # "batch"
                                \/ \A e \in Events : task[l][e].pc = "none"
        PROVE  AttemptsInv'
    BY <1>a, <1>b, <1>c, <1>d, AttemptsFrame
  <1>1. ASSUME NEW e \in Events, Enqueue(e) PROVE AttemptsInv'
    BY <1>1, AttemptsEnqueue
  <1>2. ASSUME NEW d \in Dispatchers, Start(d) PROVE AttemptsInv'
    <2>1. UNCHANGED <<records, accepted, task>>
      BY <1>2 DEF Start, storeVars
    <2>2. \A l \in Loops : phase'[l] = phase[l] \/ phase[l] # "batch"
      BY <1>2 DEF Start, TypeOK
    <2> QED
      BY <2>1, <2>2, <1>d
  <1>3. ASSUME \/ \E d \in Dispatchers : Shutdown(d) \/ ParentCancel(d)
               \/ \E l \in Loops : ShutdownCancels(l)
        PROVE  AttemptsInv'
    BY <1>3, <1>d DEF Shutdown, ShutdownCancels, ParentCancel, storeVars, loopVars
  <1>4. ASSUME NEW d \in Dispatchers, Crash(d) PROVE AttemptsInv'
    <2>1. UNCHANGED <<records, accepted>>
      BY <1>4 DEF Crash, storeVars
    <2>2. \A l \in Loops : \/ task'[l] = task[l] /\ phase'[l] = phase[l]
                           \/ \A e \in Events : task'[l][e].pc = "none"
      BY <1>4 DEF Crash, NoTask, TypeOK
    <2> QED
      BY <1>a, <1>b, <1>c, <2>1, <2>2, AttemptsFrame
  <1>5. ASSUME NEW l \in Loops, RunOnce(l) \/ RunOnceReturns(l) \/ LoopExits(l)
        PROVE  AttemptsInv'
    <2>1. UNCHANGED <<records, accepted, task>>
      BY <1>5 DEF RunOnce, RunOnceReturns, LoopExits, storeVars
    <2>2. \A m \in Loops : phase'[m] = phase[m] \/ phase[m] # "batch"
                           \/ \A e \in Events : task[m][e].pc = "none"
      BY <1>5 DEF RunOnce, Polls, RunOnceReturns, LoopExits, RecordLoop, TypeOK
    <2> QED
      BY <2>1, <2>2, <1>d
  <1>6. ASSUME NEW l \in Loops, ClaimOK(l) PROVE AttemptsInv'
    BY <1>6, AttemptsClaim
  <1>7. ASSUME NEW l \in Loops, ClaimFails(l) PROVE AttemptsInv'
    <2>1. /\ phase[l] = "claim"
          /\ phase' = [phase EXCEPT ![l] = "wait"]
          /\ UNCHANGED <<accepted, task>>
      BY <1>7 DEF ClaimFails, RecordLoop
    <2>2. \A m \in Loops, e \in Events : task[m][e].pc # "none" => phase'[m] = "batch"
      BY <2>1, <1>b DEF TypeOK
    <2>3. \/ UNCHANGED records
          \/ records' = Claimed(l, ClaimBatch(records, readNow[l], BatchSize, {}))
      BY <1>7 DEF ClaimFails
    <2>4. \A e \in Events : \/ records'[e] = records[e]
                            \/ /\ records'[e].attempts = records[e].attempts + 1
                               /\ records'[e].status = "in-flight"
      BY <2>3, ClaimedRows
    <2>5. \A e \in Events :
             /\ records[e].attempts <= records'[e].attempts
             /\ records'[e].status = "absent" => records'[e] = records[e]
      BY <1>a, <2>4
    <2> QED
      BY <1>c, <2>1, <2>2, <2>5, AttemptsFrame
  <1>8. ASSUME NEW l \in Loops, NEW e \in Events, Acquire(l, e) PROVE AttemptsInv'
    <2>1. /\ UNCHANGED <<records, accepted, phase>>
          /\ task[l][e].pc = "queued"
      BY <1>8 DEF Acquire, storeVars
    <2>2. /\ task'[l][e].attempts = task[l][e].attempts
          /\ task'[l][e].pc = "publishing" => ~(task[l][e].attempts > MaxAttempts)
      BY <1>8 DEF Acquire, TypeOK, Tasks
    <2>3. \A m \in Loops, f \in Events :
              <<m, f>> # <<l, e>> => task'[m][f] = task[m][f]
      BY <1>8 DEF Acquire, TypeOK
    <2>4. task[l][e].attempts \in Nat /\ MaxAttempts \in Nat
      <3>1. task[l][e] \in Tasks
        BY DEF TypeOK
      <3> QED
        BY <3>1, DispatcherAssumption DEF Tasks
    <2>5. \A m \in Loops, f \in Events :
             \/ task'[m][f].pc = "none"
             \/ /\ task[m][f].pc # "none"
                /\ phase'[m] = "batch"
                /\ task'[m][f].attempts = task[m][f].attempts
                /\ task'[m][f].pc \in {"queued", "publishing"} =>
                      task[m][f].pc \in {"queued", "publishing"}
                /\ task'[m][f].pc = "publishing" =>
                      task[m][f].attempts <= MaxAttempts
      BY <1>b, <1>c, <2>1, <2>2, <2>3, <2>4
    <2> QED
      BY <1>a, <2>1, <2>5, AttemptsFrame
  <1>9. ASSUME NEW l \in Loops, NEW e \in Events,
               Abandon(l, e) \/ SettleFails(l, e) \/ Settle(l, e)
        PROVE AttemptsInv'
    <2>1. /\ UNCHANGED <<accepted, phase>>
          /\ task' = [task EXCEPT ![l][e] = NoTask]
      BY <1>9 DEF Abandon, SettleFails, Settle, storeVars
    <2>2. \A m \in Loops, f \in Events :
              task'[m][f] = task[m][f] \/ task'[m][f].pc = "none"
      BY <2>1 DEF TypeOK, NoTask
    <2>3. UNCHANGED records \/ records' \in Outcomes(l, e)
      BY <1>9 DEF Abandon, SettleFails, Settle, storeVars
    <2>4. \A f \in Events :
             /\ records[f].attempts <= records'[f].attempts
             /\ records'[f].status = "absent" => records'[f] = records[f]
      BY <1>a, <2>3, OutcomeRows DEF ReportedRow
    <2> QED
      BY <1>b, <1>c, <2>1, <2>2, <2>4, AttemptsFrame
  <1>10. ASSUME NEW l \in Loops, NEW e \in Events, Publish(l, e) PROVE AttemptsInv'
    BY <1>10, AttemptsPublish
  <1>12. ASSUME NEW l \in Loops, NEW e \in Events, Report(l, e) PROVE AttemptsInv'
    <2>1. /\ UNCHANGED <<records, accepted, phase>>
          /\ \A m \in Loops, f \in Events :
                 /\ task'[m][f].pc = task[m][f].pc
                 /\ task'[m][f].attempts = task[m][f].attempts
      BY <1>12, ReportStamps
    <2> QED
      BY <1>a, <1>b, <1>c, <2>1, AttemptsFrame
  <1>11. CASE Tick \/ UNCHANGED vars
    BY <1>11, <1>d DEF Tick, vars, storeVars, loopVars
  <1> QED
    BY <1>1, <1>2, <1>3, <1>4, <1>5, <1>6, <1>7, <1>8, <1>9, <1>10, <1>11,
       <1>12
    DEF Next, LoopStep, TaskStep

LEMMA AttemptsHold == ASSUME Purgers = {} PROVE Spec => []AttemptsInv
  <1>1. Init => AttemptsInv
    BY DEF Init, AttemptsInv, TasksInBatch, AttemptsCounted, TasksCounted,
           TasksDiffer, NoTask, NoRow
  <1>2. TypeOK /\ TypeOK' /\ AttemptsInv /\ [Next]_vars => AttemptsInv'
    BY AttemptsStep
  <1>3. QED
    BY <1>1, <1>2, TypeCorrect, PTL DEF Spec

\* While nothing is purged, the broker never sees an event twice with one
\* DeliveryAttempt nor beyond MaxAttempts, whoever shares worker IDs, however
\* clocks drift and wherever crashes and lost answers strike.
THEOREM AttemptsAreFresh ==
    ASSUME Purgers = {} PROVE Spec => []FreshDeliveryAttempt
  <1>1. AttemptsInv => FreshDeliveryAttempt
    BY DEF AttemptsInv, AttemptsCounted, TasksCounted, FreshDeliveryAttempt
  <1>2. QED
    BY <1>1, AttemptsHold, PTL

---------------------------------------------------------------------------
(* Loops that share a worker ID *)

\* What a task says of the broker and of its attempts is so.
TasksHonest ==
    \A l \in Loops, e \in Events :
        /\ task[l][e].pc = "ok" => accepted[e] # {}
        /\ task[l][e].pc = "exhausted" => task[l][e].attempts > MaxAttempts

\* The inductive invariant behind PublishedWasAccepted and
\* DeadLetterExhausted where the owner test may let a stale report through:
\* as long as nothing is purged, a report for an earlier claim of the row is
\* still a report for the same row.
UnpurgedInv ==
    /\ TasksHonest
    /\ PublishedWasAccepted
    /\ DeadLetterExhausted

\* Steps in which every task and every row that makes a new claim is right.
LEMMA UnpurgedFrame ==
    ASSUME UnpurgedInv,
           \A e \in Events :
              \/ accepted[e] = {} \/ accepted'[e] # {}
              \/ /\ records'[e].status # "published"
                 /\ \A l \in Loops : task'[l][e].pc = "none",
           \A l \in Loops, e \in Events :
              \/ task'[l][e].pc \notin {"ok", "exhausted"}
              \/ /\ task'[l][e].pc = task[l][e].pc
                 /\ task'[l][e].attempts = task[l][e].attempts
              \/ task'[l][e].pc = "ok" /\ accepted'[e] # {}
              \/ task'[l][e].pc = "exhausted" /\ task'[l][e].attempts > MaxAttempts,
           \A e \in Events :
              \/ records'[e] = records[e]
              \/ /\ records'[e].status = "published" => accepted'[e] # {}
                 /\ records'[e].status = "dead-letter" =>
                       records'[e].attempts >= MaxAttempts
    PROVE  UnpurgedInv'
  <1>1. TasksHonest'
    BY DEF UnpurgedInv, TasksHonest
  <1>2. PublishedWasAccepted'
    BY DEF UnpurgedInv, PublishedWasAccepted
  <1>3. DeadLetterExhausted'
    BY DEF UnpurgedInv, DeadLetterExhausted
  <1> QED
    BY <1>1, <1>2, <1>3 DEF UnpurgedInv

\* Every step without purges keeps rows and tasks honest.
LEMMA UnpurgedStep ==
    ASSUME Purgers = {}, TypeOK, AttemptsInv, UnpurgedInv, [Next]_vars
    PROVE  UnpurgedInv'
  <1>a. /\ \A l \in Loops, e \in Events : task[l][e].attempts \in Nat
        /\ \A e \in Events : records[e].attempts \in Nat
        /\ MaxAttempts \in Nat
    <2>1. \A l \in Loops, e \in Events : task[l][e].attempts \in Nat
      BY DEF TypeOK, Tasks
    <2>2. \A e \in Events : records[e].attempts \in Nat
      BY DEF TypeOK, Row
    <2> QED
      BY <2>1, <2>2, DispatcherAssumption
  <1>1. ASSUME NEW e \in Events, Enqueue(e) PROVE UnpurgedInv'
    <2>1. UNCHANGED task
      BY <1>1 DEF Enqueue, loopVars
    <2>2. CASE Exists(records, e)
      BY <1>1, <2>1, <2>2, UnpurgedFrame DEF Enqueue, Insert
    <2>3. CASE ~Exists(records, e)
      <3>1. /\ records'[e].status = "pending"
            /\ \A f \in Events : f # e => /\ records'[f] = records[f]
                                          /\ accepted'[f] = accepted[f]
        BY <1>1, <2>3 DEF Enqueue, Insert, NoRow, TypeOK
      <3>2. \A l \in Loops : task[l][e].pc = "none"
        <4>1. records[e].attempts = 0
          BY <2>3 DEF AttemptsInv, AttemptsCounted
        <4> QED
          BY <1>a, <4>1 DEF AttemptsInv, TasksCounted
      <3> QED
        BY <2>1, <3>1, <3>2, UnpurgedFrame
    <2> QED
      BY <2>2, <2>3
  <1>2. ASSUME NEW d \in Dispatchers, Crash(d) PROVE UnpurgedInv'
    <2>1. UNCHANGED <<records, accepted>>
      BY <1>2 DEF Crash, storeVars
    <2>2. \A l \in Loops : task'[l] = task[l] \/ \A e \in Events : task'[l][e].pc = "none"
      BY <1>2 DEF Crash, NoTask
    <2> QED
      BY <2>1, <2>2, UnpurgedFrame
  <1>3. ASSUME NEW l \in Loops, ClaimOK(l) \/ ClaimFails(l) PROVE UnpurgedInv'
    <2>1. UNCHANGED accepted
      BY <1>3 DEF ClaimOK, ClaimFails
    <2>2. \/ UNCHANGED records
          \/ \E locked : records' = Claimed(l,
                ClaimBatch(records, readNow[l], BatchSize, locked))
      BY <1>3 DEF ClaimOK, ClaimFails
    <2>3. \A e \in Events : records'[e] = records[e] \/ records'[e].status = "in-flight"
      BY <2>2, ClaimRowSteps
    <2>4. \A m \in Loops, e \in Events :
             task'[m][e] = task[m][e] \/ task'[m][e].pc \in {"none", "queued"}
      <3>1. CASE ClaimFails(l)
        BY <3>1 DEF ClaimFails
      <3>2. CASE ClaimOK(l)
        <4>1. PICK locked \in LockedRows(l) : ClaimOK(l)!2!(locked)
          BY <3>2 DEF ClaimOK
        <4> DEFINE batch == ClaimBatch(records, readNow[l], BatchSize, locked)
                   claimed == Claimed(l, batch)
        <4>2. \/ UNCHANGED task
              \/ task' = [task EXCEPT ![l] = [e \in Events |->
                    IF e \in batch
                    THEN [NoTask EXCEPT !.pc = "queued",
                                        !.attempts = claimed[e].attempts]
                    ELSE NoTask]]
          BY <4>1
        <4> HIDE DEF batch, claimed
        <4>3. \A m \in Loops : m # l => task'[m] = task[m]
          BY <4>2 DEF TypeOK
        <4>4. CASE UNCHANGED task
          BY <4>4
        <4>5. CASE task' = [task EXCEPT ![l] = [e \in Events |->
                              IF e \in batch
                              THEN [NoTask EXCEPT !.pc = "queued",
                                                  !.attempts = claimed[e].attempts]
                              ELSE NoTask]]
          <5>1. \A e \in Events : task'[l][e].pc # "none" => task'[l][e].pc = "queued"
            BY <4>5 DEF TypeOK, NoTask
          <5> QED
            BY <4>3, <5>1
        <4> QED
          BY <4>2, <4>4, <4>5
      <3> QED
        BY <1>3, <3>1, <3>2
    <2> QED
      BY <2>1, <2>3, <2>4, UnpurgedFrame
  <1>4. ASSUME NEW l \in Loops, NEW e \in Events, Acquire(l, e) PROVE UnpurgedInv'
    <2>1. UNCHANGED <<records, accepted>>
      BY <1>4 DEF Acquire, storeVars
    <2>2. task'[l][e].pc = "exhausted" => task'[l][e].attempts > MaxAttempts
      BY <1>4 DEF Acquire, TypeOK, Tasks
    <2>3. task'[l][e].pc \in {"exhausted", "publishing"}
      BY <1>4 DEF Acquire, TypeOK, Tasks
    <2>4. \A m \in Loops, f \in Events :
              <<m, f>> # <<l, e>> => task'[m][f] = task[m][f]
      BY <1>4 DEF Acquire, TypeOK
    <2> QED
      BY <2>1, <2>2, <2>3, <2>4, UnpurgedFrame
  <1>5. ASSUME NEW l \in Loops, NEW e \in Events, Publish(l, e) PROVE UnpurgedInv'
    <2>1. UNCHANGED records
      BY <1>5 DEF Publish
    <2>2. PICK pc \in {"ok", "fail"} :
             /\ task' = [task EXCEPT ![l][e] =
                           [task[l][e] EXCEPT !.pc = pc, !.deadline = 0]]
             /\ pc = "ok" => accepted' = [accepted EXCEPT ![e] =
                                            @ \cup {task[l][e].attempts}]
      BY <1>5 DEF Publish, Returned
    <2>3. /\ task'[l][e].pc = pc
          /\ \A m \in Loops, f \in Events :
                <<m, f>> # <<l, e>> => task'[m][f] = task[m][f]
      BY <2>2 DEF TypeOK, Tasks
    <2>4. accepted \in [Events -> SUBSET Nat]
      BY DEF TypeOK
    <2>5. \A f \in Events : accepted[f] = {} \/ accepted'[f] # {}
      BY <1>5, <2>4 DEF Publish
    <2>6. pc = "ok" => accepted'[e] # {}
      BY <2>2, <2>4
    <2> QED
      BY <2>1, <2>3, <2>5, <2>6, UnpurgedFrame
  <1>6. ASSUME NEW l \in Loops, NEW e \in Events, Report(l, e) PROVE UnpurgedInv'
    <2>1. /\ UNCHANGED <<records, accepted>>
          /\ \A m \in Loops, f \in Events :
                 /\ task'[m][f].pc = task[m][f].pc
                 /\ task'[m][f].attempts = task[m][f].attempts
      BY <1>6, ReportStamps
    <2> QED
      BY <2>1, UnpurgedFrame
  <1>7. ASSUME NEW l \in Loops, NEW e \in Events,
               Abandon(l, e) \/ Settle(l, e) \/ SettleFails(l, e)
        PROVE  UnpurgedInv'
    <2>1. /\ UNCHANGED accepted
          /\ task' = [task EXCEPT ![l][e] = NoTask]
      BY <1>7 DEF Abandon, Settle, SettleFails, storeVars
    <2>2. \A m \in Loops, f \in Events :
              task'[m][f] = task[m][f] \/ task'[m][f].pc = "none"
      BY <2>1 DEF TypeOK, NoTask
    <2>3. CASE UNCHANGED records
      BY <2>1, <2>2, <2>3, UnpurgedFrame
    <2>4. CASE Settle(l, e)
      <3>1. /\ task[l][e].pc \in {"ok", "fail", "exhausted"}
            /\ records' \in Outcomes(l, e)
        BY <2>4 DEF Settle, HasOutcome
      <3>2. /\ \A f \in Events : f # e => records'[f] = records[f]
            /\ ReportedRow(l, e, records'[e])
        BY <3>1, OutcomeRows
      <3>3. CASE ~Owns(records, e, OwnerOf(l))
        BY <2>1, <2>2, <3>2, <3>3, UnpurgedFrame DEF ReportedRow
      <3>4. CASE Owns(records, e, OwnerOf(l))
        <4>1. records'[e].status = "published" => accepted'[e] # {}
          BY <2>1, <3>2, <3>4 DEF ReportedRow, UnpurgedInv, TasksHonest
        <4>2. records'[e].status = "dead-letter" => records'[e].attempts >= MaxAttempts
          <5>1. SUFFICES ASSUME records'[e].status = "dead-letter"
                         PROVE  records'[e].attempts >= MaxAttempts
            OBVIOUS
          <5>2. task[l][e].attempts >= MaxAttempts
            BY <1>a, <3>1, <3>2, <3>4, <5>1 DEF ReportedRow, UnpurgedInv, TasksHonest
          <5>3. records'[e].attempts = records[e].attempts
            BY <3>2, <3>4 DEF ReportedRow
          <5>4. task[l][e].attempts <= records[e].attempts
            BY <3>1 DEF AttemptsInv, TasksCounted
          <5> QED
            BY <1>a, <5>2, <5>3, <5>4
        <4> QED
          BY <2>1, <2>2, <3>2, <4>1, <4>2, UnpurgedFrame
      <3> QED
        BY <3>3, <3>4
    <2> QED
      BY <1>7, <2>3, <2>4 DEF Abandon, SettleFails, storeVars
  <1>8. CASE UNCHANGED <<records, accepted, task>>
    BY <1>8, UnpurgedFrame
  <1>9. ASSUME \/ \E d \in Dispatchers : Start(d) \/ Shutdown(d) \/ ParentCancel(d)
               \/ \E l \in Loops : \/ ShutdownCancels(l) \/ RunOnce(l)
                                    \/ RunOnceReturns(l) \/ LoopExits(l)
               \/ Tick
               \/ UNCHANGED vars
        PROVE  UNCHANGED <<records, accepted, task>>
    BY <1>9 DEF Start, Shutdown, ParentCancel, ShutdownCancels, RunOnce, RunOnceReturns,
                LoopExits, Tick, vars, storeVars, loopVars
  <1> QED
    BY <1>1, <1>2, <1>3, <1>4, <1>5, <1>6, <1>7, <1>8, <1>9
    DEF Next, LoopStep, TaskStep

LEMMA RowsAreHonest == ASSUME Purgers = {} PROVE Spec => []UnpurgedInv
  <1>1. Init => UnpurgedInv
    BY DEF Init, UnpurgedInv, TasksHonest, PublishedWasAccepted,
           DeadLetterExhausted, NoTask, NoRow
  <1>2. TypeOK /\ AttemptsInv /\ UnpurgedInv /\ [Next]_vars => UnpurgedInv'
    BY UnpurgedStep
  <1>3. QED
    BY <1>1, <1>2, TypeCorrect, AttemptsHold, PTL DEF Spec

\* No row says "published" without a broker that took the event since the row
\* was inserted: where no two loops share a worker ID, whatever is purged and
\* enqueued again; and where nothing is purged, even if the loop that a
\* Shutdown left behind reports under the ID of its successor.
THEOREM NothingPublishedUntaken ==
    ASSUME DistinctWorkerIDs \/ Purgers = {} PROVE Spec => []PublishedWasAccepted
  <1>1. FencingInv => PublishedWasAccepted
    BY DEF FencingInv
  <1>2. UnpurgedInv => PublishedWasAccepted
    BY DEF UnpurgedInv
  <1>3. CASE DistinctWorkerIDs
    BY <1>1, <1>3, FencingHolds, PTL
  <1>4. CASE Purgers = {}
    BY <1>2, <1>4, RowsAreHonest, PTL
  <1>5. QED
    BY <1>3, <1>4

\* No row is dead-lettered before MaxAttempts claims of it, under the same
\* alternatives.
THEOREM NothingDeadTooEarly ==
    ASSUME DistinctWorkerIDs \/ Purgers = {} PROVE Spec => []DeadLetterExhausted
  <1>1. FencingInv => DeadLetterExhausted
    BY DEF FencingInv
  <1>2. UnpurgedInv => DeadLetterExhausted
    BY DEF UnpurgedInv
  <1>3. CASE DistinctWorkerIDs
    BY <1>1, <1>3, FencingHolds, PTL
  <1>4. CASE Purgers = {}
    BY <1>2, <1>4, RowsAreHonest, PTL
  <1>5. QED
    BY <1>3, <1>4

\* The dispatchers implement the delivery contract: an event that was
\* enqueued is owed until the broker has taken it or its attempts are used
\* up, and only delivered events are forgotten.  This needs no purges at
\* all, or one purger at a time and loops under worker IDs of their own.
THEOREM ContractHolds ==
    ASSUME (DistinctWorkerIDs /\ OnePurger) \/ Purgers = {}
    PROVE  Spec => DeliveryContract
  <1>1. Init => Delivery!Init
    <2> SUFFICES ASSUME Init PROVE Delivery!Init
      OBVIOUS
    <2>1. \A e \in Events : records[e].status = "absent" /\ accepted[e] = {}
      BY DEF Init, NoRow
    <2>2. Owed("absent") = "none"
      BY DEF Owed
    <2>3. AbsState = [e \in Events |-> "none"]
      BY <2>1, <2>2, Zenon DEF AbsState
    <2>4. AbsTaken = [e \in Events |-> FALSE]
      BY <2>1, Zenon DEF AbsTaken
    <2>5. QED
      BY <2>3, <2>4 DEF Delivery!Init
  <1>2. TypeOK /\ OkWasAccepted /\ PurgeInv /\ [Next]_vars
          => [Delivery!Next]_(Delivery!vars)
    BY ContractStep DEF Delivery!vars
  <1>3. OnePurger
    BY DEF OnePurger
  <1>4. CASE DistinctWorkerIDs
    <2>1. FencingInv => OkWasAccepted
      BY DEF FencingInv, TaskHoldsItsClaim, OkWasAccepted
    <2> QED
      BY <1>1, <1>2, <1>3, <1>4, <2>1, TypeCorrect, FencingHolds, PurgersAreSafe, PTL
      DEF Spec, DeliveryContract, Delivery!Spec
  <1>5. CASE Purgers = {}
    <2>1. UnpurgedInv => OkWasAccepted
      BY DEF UnpurgedInv, TasksHonest, OkWasAccepted
    <2> QED
      BY <1>1, <1>2, <1>3, <1>5, <2>1, TypeCorrect, RowsAreHonest, PurgersAreSafe, PTL
      DEF Spec, DeliveryContract, Delivery!Spec
  <1> QED
    BY <1>4, <1>5

---------------------------------------------------------------------------
(* Settled rows *)

\* In one step a row goes away only by a purge, which takes published rows,
\* and a settled row does nothing else.
LEMMA SettledStep ==
    ASSUME TypeOK, PurgeInv, [Next]_vars, NEW e \in Events
    PROVE  /\ Settled(e) => \/ records'[e] = records[e]
                            \/ /\ records[e].status = "published"
                               /\ records'[e] = NoRow
           /\ (Exists(records, e) /\ records'[e] = NoRow) =>
                 records[e].status = "published"
  <1> DEFINE Kept == /\ Settled(e) => records'[e] = records[e]
                     /\ Exists(records, e) => Exists(records', e)
  <1>a. records'[e] = NoRow => ~Exists(records', e)
    BY DEF Exists, NoRow
  <1>1. ASSUME NEW f \in Events, Enqueue(f) PROVE Kept
    BY <1>1 DEF Enqueue, Insert, Exists, Settled, TypeOK
  <1>2. ASSUME NEW l \in Loops, ClaimOK(l) \/ ClaimFails(l) PROVE Kept
    <2>1. \/ UNCHANGED records
          \/ \E locked : records' = Claimed(l,
                ClaimBatch(records, readNow[l], BatchSize, locked))
      BY <1>2 DEF ClaimOK, ClaimFails
    <2>2. CASE UNCHANGED records
      BY <2>2
    <2>3. ASSUME NEW locked,
                 records' = Claimed(l,
                    ClaimBatch(records, readNow[l], BatchSize, locked))
          PROVE  Kept
      <3> DEFINE batch == ClaimBatch(records, readNow[l], BatchSize, locked)
      <3>1. e \in batch => records[e].status \in {"pending", "in-flight"}
        BY BatchStatus
      <3>2. records' = Claimed(l, batch)
        BY <2>3
      <3> HIDE DEF batch
      <3>3. /\ e \in batch => records'[e].status = "in-flight"
            /\ e \notin batch => records'[e] = records[e]
        BY <3>2, ClaimedRows
      <3> QED
        BY <3>1, <3>3 DEF Settled, Exists
    <2> QED
      BY <2>1, <2>2, <2>3
  <1>3. ASSUME NEW l \in Loops, NEW f \in Events, Settle(l, f) PROVE Kept
    <2>1. records' \in Outcomes(l, f)
      BY <1>3 DEF Settle
    <2>2. /\ f # e => records'[e] = records[e]
          /\ f = e => ReportedRow(l, e, records'[e])
      BY <2>1, OutcomeRows
    <2> QED
      BY <2>2 DEF ReportedRow, Owns, Settled, Exists
  <1>4. ASSUME NEW p \in Purgers, PurgeDelete(p) \/ PurgeMemory(p)
        PROVE  \/ records'[e] = records[e]
               \/ records[e].status = "published" /\ records'[e] = NoRow
    BY <1>4 DEF PurgeDelete, PurgeMemory, PurgeInv, PurgeBatch, Purgeable, Delete
  <1>5. CASE UNCHANGED records
    BY <1>5, <1>a DEF Exists
  <1>6. CASE Kept
    BY <1>6, <1>a
  <1>7. CASE \E p \in Purgers : PurgeDelete(p) \/ PurgeMemory(p)
    BY <1>4, <1>7, <1>a DEF Exists
  <1> HIDE DEF Kept
  <1>8. \/ \E f \in Events : Enqueue(f)
        \/ \E l \in Loops : ClaimOK(l) \/ ClaimFails(l)
        \/ \E l \in Loops, f \in Events : Settle(l, f)
        \/ \E p \in Purgers : PurgeDelete(p) \/ PurgeMemory(p)
        \/ UNCHANGED records
    BY StoreSteps DEF Publish
  <1> QED
    BY <1>1, <1>2, <1>3, <1>5, <1>6, <1>7, <1>8

\* A published or dead-lettered row is never reopened; it stays, or a purge
\* takes it if it is published.
THEOREM SettledStaysSettled ==
    ASSUME OnePurger PROVE Spec => SettledIsFinal
  <1>1. TypeOK /\ PurgeInv /\ [Next]_vars =>
          [\A e \in Events :
              Settled(e) => \/ records'[e] = records[e]
                            \/ /\ records[e].status = "published"
                               /\ records'[e] = NoRow]_vars
    BY SettledStep
  <1> QED
    BY <1>1, TypeCorrect, PurgersAreSafe, PTL DEF Spec, SettledIsFinal

\* With one purger at a time PurgePublished deletes published rows only; the
\* run outbox_purge_race shows that two at a time do not keep this.
THEOREM PurgeTakesPublished ==
    ASSUME OnePurger PROVE Spec => OnlyPublishedIsPurged
  <1>1. TypeOK /\ PurgeInv /\ [Next]_vars =>
          [\A e \in Events :
              (Exists(records, e) /\ records'[e] = NoRow)
              => records[e].status = "published"]_vars
    BY SettledStep
  <1> QED
    BY <1>1, TypeCorrect, PurgersAreSafe, PTL DEF Spec, OnlyPublishedIsPurged

---------------------------------------------------------------------------
(***************************************************************************)
(* What validateDispatcherConfig promises: a lease of one publish timeout  *)
(* for every wave of Concurrency calls outlasts the local queue of a batch *)
(* and, with clocks that agree, keeps two dispatchers from publishing one  *)
(* event at a time.  Proved for any number of events, dispatchers, loops   *)
(* and purgers, any batch size and any concurrency.                        *)
(***************************************************************************)

---------------------------------------------------------------------------
(* A claim takes at most as many rows as it was asked for *)

\* The order in which a claim takes rows is a strict total order.
LEMMA ClaimOrder ==
    ASSUME NEW tbl \in [Events -> Row], NEW now \in Nat,
           NEW e \in Events, NEW f \in Events, NEW g \in Events
    PROVE  /\ ~ClaimsBefore(tbl, now, e, e)
           /\ e # f => ClaimsBefore(tbl, now, e, f) \/ ClaimsBefore(tbl, now, f, e)
           /\ ClaimsBefore(tbl, now, e, f) /\ ClaimsBefore(tbl, now, f, g)
                 => ClaimsBefore(tbl, now, e, g)
  <1>1. \A x \in Events : /\ x \in Nat /\ tbl[x].nextAt \in Nat
                          /\ tbl[x].leaseUntil \in Nat /\ tbl[x].createdAt \in Nat
    BY StoreAssumption DEF Row
  <1> DEFINE byNextAt == [x \in Events |-> tbl[x].nextAt]
             byLease == [x \in Events |-> tbl[x].leaseUntil]
             late(x) == LeaseExpired(tbl, x, now)
  <1>2. \A x, y \in Events :
           ClaimsBefore(tbl, now, x, y) <=>
              IF Backend = "gorm" /\ late(x) # late(y) THEN late(x)
              ELSE IF Backend = "gorm" /\ late(x) THEN Precedes(tbl, byLease, x, y)
              ELSE Precedes(tbl, byNextAt, x, y)
    BY DEF ClaimsBefore
  <1>3. \A x \in Events : late(x) \in BOOLEAN
    BY DEF LeaseExpired
  <1>4. ASSUME NEW key \in [Events -> Nat]
        PROVE  /\ \A x \in Events : ~Precedes(tbl, key, x, x)
               /\ \A x, y \in Events :
                     x # y => Precedes(tbl, key, x, y) \/ Precedes(tbl, key, y, x)
               /\ \A x, y, z \in Events :
                     Precedes(tbl, key, x, y) /\ Precedes(tbl, key, y, z)
                        => Precedes(tbl, key, x, z)
    BY <1>1, <1>4 DEF Precedes
  <1>5. byNextAt \in [Events -> Nat] /\ byLease \in [Events -> Nat]
    BY <1>1
  <1> HIDE DEF byNextAt, byLease, late
  <1>6. ~ClaimsBefore(tbl, now, e, e)
    BY <1>2, <1>3, <1>4, <1>5
  <1>7. e # f => ClaimsBefore(tbl, now, e, f) \/ ClaimsBefore(tbl, now, f, e)
    BY <1>2, <1>3, <1>4, <1>5
  <1>8. ClaimsBefore(tbl, now, e, f) /\ ClaimsBefore(tbl, now, f, g)
                 => ClaimsBefore(tbl, now, e, g)
    BY <1>2, <1>3, <1>4, <1>5
  <1> QED
    BY <1>6, <1>7, <1>8

\* LIMIT: the rows of a claim have different ranks, all below the limit.
LEMMA BatchBound ==
    ASSUME IsFiniteSet(Events), NEW tbl \in [Events -> Row], NEW now \in Nat,
           NEW limit \in Nat \ {0}, NEW locked
    PROVE  /\ IsFiniteSet(ClaimBatch(tbl, now, limit, locked))
           /\ Cardinality(ClaimBatch(tbl, now, limit, locked)) <= limit
  <1> DEFINE free == Eligible(tbl, now) \ locked
             Below(e) == {f \in free : ClaimsBefore(tbl, now, f, e)}
             batch == {e \in free : Cardinality(Below(e)) < limit}
             rank == [e \in batch |-> Cardinality(Below(e))]
  <1>1. ClaimBatch(tbl, now, limit, locked) = batch
    BY DEF ClaimBatch
  <1>2. free \subseteq Events
    BY DEF Eligible
  <1>3. batch \subseteq Events
    BY <1>2
  <1>4. IsFiniteSet(batch) /\ Cardinality(batch) \in Nat
    BY <1>3, FS_Subset, FS_CardinalityType
  <1>5. \A e \in Events : IsFiniteSet(Below(e)) /\ Cardinality(Below(e)) \in Nat
    <2> SUFFICES ASSUME NEW e \in Events
                 PROVE  IsFiniteSet(Below(e)) /\ Cardinality(Below(e)) \in Nat
      OBVIOUS
    <2>1. Below(e) \subseteq Events
      BY <1>2
    <2> HIDE DEF Below
    <2> QED
      BY <2>1, FS_Subset, FS_CardinalityType
  <1>6. rank \in [batch -> 0..(limit - 1)]
    <2>1. \A e \in batch : Cardinality(Below(e)) \in 0..(limit - 1)
      BY <1>3, <1>5
    <2> QED
      BY <2>1
  <1>7. ASSUME NEW e \in batch, NEW f \in batch, ClaimsBefore(tbl, now, e, f)
        PROVE  rank[e] # rank[f]
    <2>1. Below(e) \subseteq Below(f)
      BY <1>2, <1>3, <1>7, ClaimOrder
    <2>2. e \in Below(f) /\ e \notin Below(e)
      BY <1>2, <1>3, <1>7, ClaimOrder
    <2>3. IsFiniteSet(Below(f))
      BY <1>3, <1>5
    <2> HIDE DEF Below
    <2>4. Cardinality(Below(e)) # Cardinality(Below(f))
      BY <2>1, <2>2, <2>3, FS_Subset
    <2> QED
      BY <2>4
  <1>8. ASSUME NEW e \in batch, NEW f \in batch, e # f
        PROVE  rank[e] # rank[f]
    <2>1. ClaimsBefore(tbl, now, e, f) \/ ClaimsBefore(tbl, now, f, e)
      BY <1>3, <1>8, ClaimOrder
    <2> HIDE DEF rank, batch
    <2> QED
      BY <1>7, <2>1
  <1>9. IsFiniteSet(0..(limit - 1)) /\ Cardinality(0..(limit - 1)) = limit
    BY FS_Interval
  <1> HIDE DEF rank, batch
  <1>10. Cardinality(batch) <= limit
    <2>1. SUFFICES ASSUME Cardinality(0..(limit - 1)) < Cardinality(batch) PROVE FALSE
      BY <1>4, <1>9
    <2>2. \E e, f \in batch : e # f /\ rank[e] = rank[f]
      BY <2>1, <1>4, <1>6, <1>9, FS_PigeonHole
    <2> QED
      BY <2>2, <1>8
  <1> QED
    BY <1>1, <1>4, <1>10

---------------------------------------------------------------------------
(* A batch is published in waves of Concurrency calls *)

\* What validateDispatcherConfig calls the number of waves of a batch.
Waves == (BatchSize + Concurrency - 1) \div Concurrency

\* The waves are enough for the whole batch.
LEMMA WavesSuffice ==
    /\ Waves \in Nat \ {0}
    /\ Waves * Concurrency >= BatchSize
    /\ LeaseDuration >= Waves * PublishTimeout
  <1>1. BatchSize \in Nat \ {0} /\ Concurrency \in Nat \ {0}
    BY DispatcherAssumption
  <1>2. ASSUME NEW b \in Nat \ {0}, NEW c \in Nat \ {0}
        PROVE  /\ (b + c - 1) \div c \in Nat \ {0}
               /\ ((b + c - 1) \div c) * c >= b
    <2> DEFINE n == b + c - 1
               q == n \div c
    <2>1. n \in Int /\ c \in Int /\ c > 0
      OBVIOUS
    <2>2. q \in Int /\ n < c * q + c
      BY <2>1, SMTT(30)
    <2> HIDE DEF q
    <2>3. q * c = c * q /\ c * q \in Int
      BY <2>2
    <2>4. c * q >= b
      BY <2>2, <2>3
    <2>5. q > 0
      BY <2>2, <2>4, SMTT(30)
    <2> QED
      BY <2>2, <2>3, <2>4, <2>5 DEF q
  <1>3. LeaseDuration >= Waves * PublishTimeout
    BY ConfigAccepted DEF ValidConfig, Waves
  <1> QED
    BY <1>1, <1>2, <1>3 DEF Waves

\* The records of a loop's batch that are not settled yet; those at the
\* broker; those that wait for one of the Concurrency slots.
Active(l) == {e \in Events : task[l][e].pc # "none"}

Publishing(l) == {e \in Events : task[l][e].pc = "publishing"}

Queued(l) == {e \in Events : task[l][e].pc = "queued"}

\* The tasks that are not through k publish timeouts after the claim.
Late(l, k) ==
    Queued(l) \cup
    {e \in Publishing(l) : task[l][e].deadline + Skew[DispatcherOf(l)]
                              > readNow[l] + k * PublishTimeout}

\* A loop claims as of the time it has read, at most a batch, and the broker
\* returns within the timeout.
BatchTimed(l) ==
    /\ phase[l] = "claim" => readNow[l] = Now(DispatcherOf(l))
    /\ phase[l] = "batch" => readNow[l] <= Now(DispatcherOf(l))
    /\ Cardinality(Active(l)) <= BatchSize
    /\ \A e \in Publishing(l) : /\ clock <= task[l][e].deadline
                                /\ task[l][e].deadline <= clock + PublishTimeout

\* While a task waits for a slot, every timeout that has passed since the
\* claim has seen Concurrency calls out.
WavesPass(l) ==
    \A k \in Nat :
        (Queued(l) # {} /\ Now(DispatcherOf(l)) > readNow[l] + k * PublishTimeout)
        => Cardinality(Late(l, k + 1)) + (k + 1) * Concurrency <= BatchSize

\* The inductive invariant of the timing argument.
WaveInv == \A l \in Loops : BatchTimed(l) /\ WavesPass(l)

\* The sets of tasks of a loop are finite.
LEMMA TaskSetsFinite ==
    ASSUME IsFiniteSet(Events), NEW l
    PROVE  /\ IsFiniteSet(Active(l)) /\ Cardinality(Active(l)) \in Nat
           /\ IsFiniteSet(Publishing(l)) /\ Cardinality(Publishing(l)) \in Nat
           /\ IsFiniteSet(Queued(l)) /\ Cardinality(Queued(l)) \in Nat
           /\ \A k : IsFiniteSet(Late(l, k)) /\ Cardinality(Late(l, k)) \in Nat
  <1>1. /\ Active(l) \in SUBSET Events /\ Publishing(l) \in SUBSET Events
        /\ Queued(l) \in SUBSET Events /\ \A k : Late(l, k) \in SUBSET Events
    BY DEF Active, Publishing, Queued, Late
  <1> QED
    BY <1>1, FS_Subset, FS_CardinalityType

\* So they are after a step.
LEMMA TaskSetsFiniteNext ==
    ASSUME IsFiniteSet(Events), NEW l
    PROVE  /\ IsFiniteSet(Active(l)') /\ Cardinality(Active(l)') \in Nat
           /\ IsFiniteSet(Queued(l)') /\ Cardinality(Queued(l)') \in Nat
           /\ \A k : IsFiniteSet(Late(l, k)') /\ Cardinality(Late(l, k)') \in Nat
  <1>1. /\ Active(l)' \in SUBSET Events
        /\ Queued(l)' \in SUBSET Events /\ \A k : Late(l, k)' \in SUBSET Events
    BY DEF Active, Publishing, Queued, Late
  <1> QED
    BY <1>1, FS_Subset, FS_CardinalityType

\* Numbers the proofs compute with.
LEMMA LoopNumbers ==
    ASSUME TypeOK, NEW l \in Loops
    PROVE  /\ clock \in Nat /\ readNow[l] \in Nat
           /\ DispatcherOf(l) \in Dispatchers
           /\ Skew[DispatcherOf(l)] \in Nat
           /\ Now(DispatcherOf(l)) = clock + Skew[DispatcherOf(l)]
           /\ Now(DispatcherOf(l)) \in Nat
           /\ \A e \in Events : task[l][e].deadline \in Nat
           /\ PublishTimeout \in Nat \ {0} /\ Concurrency \in Nat \ {0}
           /\ BatchSize \in Nat \ {0} /\ LeaseDuration \in Nat \ {0}
  BY DispatcherAssumption DEF TypeOK, Loops, DispatcherOf, Now, Tasks

\* Products with a variable factor, one step at a time.
LEMMA Multiples ==
    ASSUME NEW k \in Nat, NEW n \in Nat
    PROVE  /\ k * n \in Nat /\ (k + 1) * n = k * n + n /\ (k + 1) * n \in Nat
           /\ 0 * n = 0 /\ 1 * n = n
  OBVIOUS

\* A task that still waits for a slot does so before the last wave starts.
LEMMA QueuedIsEarly ==
    ASSUME IsFiniteSet(Events), TypeOK, WaveInv, NEW l \in Loops, NEW e \in Events,
           task[l][e].pc = "queued"
    PROVE  Now(DispatcherOf(l)) + PublishTimeout <= readNow[l] + Waves * PublishTimeout
  <1>1. e \in Queued(l) /\ \A k : e \in Late(l, k)
    BY DEF Queued, Late
  <1>2. PICK k \in Nat : Waves = k + 1
    <2>1. Waves - 1 \in Nat /\ Waves = (Waves - 1) + 1
      BY WavesSuffice
    <2> QED
      BY <2>1
  <1>3. SUFFICES ASSUME Now(DispatcherOf(l)) > readNow[l] + k * PublishTimeout
                 PROVE  FALSE
    BY <1>2, LoopNumbers, Multiples
  <1>4. Cardinality(Late(l, k + 1)) + (k + 1) * Concurrency <= BatchSize
    BY <1>1, <1>3 DEF WaveInv, WavesPass
  <1>5. Cardinality(Late(l, k + 1)) # 0
    BY <1>1, TaskSetsFinite, FS_EmptySet
  <1>6. (k + 1) * Concurrency >= BatchSize
    BY <1>2, WavesSuffice
  <1>7. Cardinality(Late(l, k + 1)) \in Nat
    BY TaskSetsFinite
  <1>8. (k + 1) * Concurrency \in Nat /\ BatchSize \in Nat
    BY LoopNumbers, Multiples
  <1> QED
    BY <1>4, <1>5, <1>6, <1>7, <1>8

\* A loop whose tasks only move on, at one instant.
LEMMA WaveAdvance ==
    ASSUME IsFiniteSet(Events), TypeOK, TypeOK', NEW l \in Loops,
           BatchTimed(l), WavesPass(l),
           UNCHANGED clock, readNow'[l] = readNow[l],
           phase'[l] \in {"claim", "batch"} => phase'[l] = phase[l],
           \A e \in Events :
              \/ task'[l][e] = task[l][e]
              \/ /\ task[l][e].pc # "none"
                 /\ task'[l][e].pc # "queued"
                 /\ task'[l][e].pc = "publishing" =>
                       /\ task[l][e].pc = "queued"
                       /\ task'[l][e].deadline = clock + PublishTimeout
    PROVE  BatchTimed(l)' /\ WavesPass(l)'
  <1>1. Active(l)' \subseteq Active(l) /\ Queued(l)' \subseteq Queued(l)
    BY DEF Active, Queued
  <1>2. \A k \in Nat : Late(l, k)' \subseteq Late(l, k)
    BY DEF Late, Queued, Publishing
  <1>3. Now(DispatcherOf(l))' = Now(DispatcherOf(l))
    BY DEF Now
  <1>4. BatchTimed(l)'
    <2>1. Cardinality(Active(l)') <= Cardinality(Active(l))
      BY <1>1, TaskSetsFinite, FS_Subset
    <2>2. Cardinality(Active(l)') <= BatchSize
      BY <2>1, TaskSetsFinite, TaskSetsFiniteNext, LoopNumbers DEF BatchTimed
    <2>3. \A e \in Publishing(l)' : /\ clock' <= task'[l][e].deadline
                                    /\ task'[l][e].deadline <= clock' + PublishTimeout
      BY LoopNumbers DEF Publishing, BatchTimed
    <2> QED
      BY <1>3, <2>2, <2>3 DEF BatchTimed
  <1>5. WavesPass(l)'
    <2> SUFFICES ASSUME NEW k \in Nat, Queued(l)' # {},
                        Now(DispatcherOf(l))' > readNow'[l] + k * PublishTimeout
                 PROVE  Cardinality(Late(l, k + 1)') + (k + 1) * Concurrency <= BatchSize
      BY DEF WavesPass, Late, Queued, Publishing
    <2>1. Cardinality(Late(l, k + 1)) + (k + 1) * Concurrency <= BatchSize
      BY <1>1, <1>3 DEF WavesPass
    <2>2. Cardinality(Late(l, k + 1)') <= Cardinality(Late(l, k + 1))
      BY <1>2, TaskSetsFinite, FS_Subset
    <2>3. Cardinality(Late(l, k + 1)') \in Nat /\ Cardinality(Late(l, k + 1)) \in Nat
      BY TaskSetsFinite, TaskSetsFiniteNext
    <2>4. (k + 1) * Concurrency \in Nat /\ BatchSize \in Nat
      BY LoopNumbers, Multiples
    <2> QED
      BY <2>1, <2>2, <2>3, <2>4
  <1> QED
    BY <1>4, <1>5

\* A loop that has read the clock at this instant and publishes nothing yet.
LEMMA WaveFresh ==
    ASSUME TypeOK, TypeOK', NEW l \in Loops, UNCHANGED clock,
           readNow'[l] = Now(DispatcherOf(l)),
           \A e \in Events : task'[l][e].pc # "publishing",
           Cardinality(Active(l)') <= BatchSize
    PROVE  BatchTimed(l)' /\ WavesPass(l)'
  <1>1. Now(DispatcherOf(l))' = Now(DispatcherOf(l))
    BY DEF Now
  <1>2. BatchTimed(l)'
    BY <1>1, LoopNumbers DEF BatchTimed, Publishing
  <1>3. ASSUME NEW k \in Nat
        PROVE  ~(Now(DispatcherOf(l))' > readNow'[l] + k * PublishTimeout)
    BY <1>1, LoopNumbers, Multiples
  <1> QED
    BY <1>2, <1>3 DEF WavesPass

\* A loop that has no tasks and no claim under way.
LEMMA WaveIdle ==
    ASSUME TypeOK, TypeOK', NEW l \in Loops,
           phase'[l] \notin {"claim", "batch"},
           \A e \in Events : task'[l][e].pc = "none"
    PROVE  BatchTimed(l)' /\ WavesPass(l)'
  <1>1. Active(l)' = {} /\ Queued(l)' = {} /\ Publishing(l)' = {}
    BY DEF Active, Queued, Publishing
  <1>2. Cardinality(Active(l)') <= BatchSize
    BY <1>1, FS_EmptySet, LoopNumbers
  <1>3. BatchTimed(l)'
    BY <1>1, <1>2 DEF BatchTimed
  <1>4. WavesPass(l)'
    BY <1>1 DEF WavesPass
  <1> QED
    BY <1>3, <1>4

\* When a timeout has passed since the claim and a task still waits, all
\* slots are taken by calls that are out before the next timeout has passed.
LEMMA WaveTick ==
    ASSUME IsFiniteSet(Events), Timely, TypeOK, TypeOK', NEW l \in Loops,
           TasksInBatch, BatchTimed(l), WavesPass(l), Tick
    PROVE  BatchTimed(l)' /\ WavesPass(l)'
  <1>1. /\ clock' = clock + 1
        /\ phase' = phase /\ task' = task /\ readNow' = readNow
        /\ phase[l] \notin {"poll", "claim"}
        /\ \A e \in Events :
            /\ task[l][e].pc \in {"none", "queued", "publishing"}
            /\ task[l][e].pc = "queued" => SlotsTaken(l) >= Concurrency
            /\ task[l][e].pc = "publishing" => clock < task[l][e].deadline
    BY DEF Tick, Prompt, loopVars
  <1>2. /\ Active(l)' = Active(l) /\ Queued(l)' = Queued(l)
        /\ Publishing(l)' = Publishing(l)
        /\ \A k : Late(l, k)' = Late(l, k)
    BY <1>1 DEF Active, Queued, Publishing, Late
  <1> DEFINE now == Now(DispatcherOf(l))
             skew == Skew[DispatcherOf(l)]
             r == readNow[l]
  <1>3. /\ now' = now + 1 /\ now = clock + skew
        /\ now \in Nat /\ r \in Nat /\ skew \in Nat /\ clock \in Nat
    BY <1>1, LoopNumbers DEF Now
  <1>4. BatchTimed(l)'
    <2>1. \A e \in Publishing(l) : /\ clock' <= task'[l][e].deadline
                                   /\ task'[l][e].deadline <= clock' + PublishTimeout
      BY <1>1, LoopNumbers DEF BatchTimed, Publishing
    <2> QED
      BY <1>1, <1>2, <1>3, <2>1 DEF BatchTimed
  <1>5. ASSUME NEW k \in Nat, Queued(l) # {}, now' > r + k * PublishTimeout
        PROVE  Cardinality(Late(l, k + 1)) + (k + 1) * Concurrency <= BatchSize
    <2>a. /\ k * PublishTimeout \in Nat
          /\ (k + 1) * PublishTimeout = k * PublishTimeout + PublishTimeout
          /\ k * Concurrency \in Nat
          /\ (k + 1) * Concurrency = k * Concurrency + Concurrency
          /\ PublishTimeout \in Nat \ {0} /\ Concurrency \in Nat \ {0} /\ BatchSize \in Nat
      BY LoopNumbers, Multiples
    <2>1. CASE now > r + k * PublishTimeout
      BY <1>5, <2>1 DEF WavesPass
    <2>2. CASE now = r + k * PublishTimeout
      <3>1. Late(l, k + 1) = Queued(l)
        <4>1. \A e \in Publishing(l) :
                 ~(task[l][e].deadline + skew > r + (k + 1) * PublishTimeout)
          <5> SUFFICES ASSUME NEW e \in Publishing(l)
                       PROVE  ~(task[l][e].deadline + skew > r + (k + 1) * PublishTimeout)
            OBVIOUS
          <5>1. /\ task[l][e].deadline <= clock + PublishTimeout
                /\ task[l][e].deadline \in Nat
            BY LoopNumbers DEF BatchTimed, Publishing
          <5> QED
            BY <5>1, <1>3, <2>2, <2>a
        <4> QED
          BY <4>1 DEF Late
      <3>2. {e \in Events : task[l][e].pc \notin {"none", "queued"}} = Publishing(l)
        BY <1>1 DEF Publishing
      <3>3. Cardinality(Publishing(l)) >= Concurrency
        BY <1>1, <1>5, <3>2 DEF SlotsTaken, Queued
      <3>4. Queued(l) \cap Publishing(l) = {}
        BY DEF Queued, Publishing
      <3>5. /\ Cardinality(Queued(l) \cup Publishing(l))
                  = Cardinality(Queued(l)) + Cardinality(Publishing(l))
            /\ Cardinality(Queued(l)) \in Nat /\ Cardinality(Publishing(l)) \in Nat
        <4>1. /\ IsFiniteSet(Queued(l)) /\ IsFiniteSet(Publishing(l))
              /\ Cardinality(Queued(l)) \in Nat /\ Cardinality(Publishing(l)) \in Nat
          BY TaskSetsFinite
        <4>2. Cardinality(Queued(l) \cup Publishing(l)) =
                 Cardinality(Queued(l)) + Cardinality(Publishing(l))
                    - Cardinality(Queued(l) \cap Publishing(l))
          BY <4>1, FS_Union
        <4> QED
          BY <3>4, <4>1, <4>2, FS_EmptySet
      <3>6. CASE k = 0
        <4>1. Queued(l) \cup Publishing(l) = Active(l)
          BY <1>1 DEF Queued, Publishing, Active
        <4>2. Cardinality(Active(l)) <= BatchSize
          BY DEF BatchTimed
        <4>3. (k + 1) * Concurrency = Concurrency
          BY <3>6, <2>a, Multiples
        <4>4. Cardinality(Queued(l)) + Cardinality(Publishing(l)) <= BatchSize
          BY <3>5, <4>1, <4>2
        <4>5. Cardinality(Queued(l)) + Concurrency <= BatchSize
          BY <3>3, <3>5, <4>4, <2>a
        <4> QED
          BY <3>1, <4>3, <4>5
      <3>7. CASE k # 0
        <4>1. PICK j \in Nat : k = j + 1
          <5>1. k - 1 \in Nat /\ k = (k - 1) + 1
            BY <3>7
          <5> QED
            BY <5>1
        <4>2. now > r + j * PublishTimeout
          <5>1. /\ k * PublishTimeout = j * PublishTimeout + PublishTimeout
                /\ j * PublishTimeout \in Nat
            BY <4>1, <2>a, Multiples
          <5> QED
            BY <5>1, <1>3, <2>2, <2>a
        <4>3. Cardinality(Late(l, k)) + k * Concurrency <= BatchSize
          BY <1>5, <4>1, <4>2 DEF WavesPass
        <4>4. Late(l, k) = Queued(l) \cup Publishing(l)
          <5>1. \A e \in Publishing(l) : task[l][e].deadline + skew > r + k * PublishTimeout
            <6> SUFFICES ASSUME NEW e \in Publishing(l)
                         PROVE  task[l][e].deadline + skew > r + k * PublishTimeout
              OBVIOUS
            <6>1. clock < task[l][e].deadline /\ task[l][e].deadline \in Nat
              BY <1>1, LoopNumbers DEF Publishing
            <6> QED
              BY <6>1, <1>3, <2>2, <2>a
          <5> QED
            BY <5>1 DEF Late
        <4> QED
          BY <3>1, <3>3, <3>5, <4>3, <4>4, <2>a
      <3> QED
        BY <3>6, <3>7
    <2> QED
      BY <1>3, <1>5, <2>1, <2>2, <2>a
  <1>6. WavesPass(l)'
    <2>1. \A k : Cardinality(Late(l, k + 1)') = Cardinality(Late(l, k + 1))
      BY <1>2
    <2> QED
      BY <1>1, <1>2, <1>5, <2>1 DEF WavesPass
  <1> QED
    BY <1>4, <1>6

\* A claim starts at most BatchSize tasks.
LEMMA WaveClaim ==
    ASSUME IsFiniteSet(Events), Timely, TypeOK, TypeOK', TasksInBatch, WaveInv,
           NEW l \in Loops, ClaimOK(l)
    PROVE  BatchTimed(l)' /\ WavesPass(l)'
  <1>1. PICK locked \in LockedRows(l) : ClaimOK(l)!2!(locked)
    BY DEF ClaimOK
  <1> DEFINE batch == ClaimBatch(records, readNow[l], BatchSize, locked)
             claimed == Claimed(l, batch)
  <1>2. phase[l] = "claim" /\ UNCHANGED clock
    BY DEF ClaimOK
  <1>3. readNow[l] = Now(DispatcherOf(l))
    BY <1>2 DEF WaveInv, BatchTimed
  <1>4. IsFiniteSet(batch) /\ Cardinality(batch) <= BatchSize
    BY BatchBound, LoopNumbers DEF TypeOK
  <1> HIDE DEF batch, claimed
  <1>5. CASE batch = {}
    <2>1. /\ phase' = [phase EXCEPT ![l] = "wait"]
          /\ UNCHANGED task
      BY <1>1, <1>5 DEF batch, claimed, RecordLoop
    <2>2. phase'[l] = "wait" /\ \A e \in Events : task'[l][e].pc = "none"
      BY <1>2, <2>1 DEF TasksInBatch, TypeOK
    <2> QED
      BY <2>2, WaveIdle
  <1>6. CASE batch # {}
    <2>1. /\ task' = [task EXCEPT ![l] = [e \in Events |->
                IF e \in batch
                THEN [NoTask EXCEPT !.pc = "queued",
                                    !.attempts = claimed[e].attempts]
                ELSE NoTask]]
          /\ UNCHANGED readNow
      BY <1>1, <1>6 DEF batch, claimed
    <2>2. \A e \in Events : task'[l][e].pc = IF e \in batch THEN "queued" ELSE "none"
      BY <2>1 DEF TypeOK, NoTask
    <2>3. Active(l)' \in SUBSET batch
      BY <2>2 DEF Active
    <2>4. Cardinality(Active(l)') <= Cardinality(batch)
      BY <1>4, <2>3, FS_Subset
    <2>5. Cardinality(Active(l)') <= BatchSize
      <3>1. Cardinality(batch) \in Nat /\ BatchSize \in Nat
        BY <1>4, FS_CardinalityType, LoopNumbers
      <3>2. Cardinality(Active(l)') \in Nat
        BY TaskSetsFiniteNext
      <3> QED
        BY <1>4, <2>4, <3>1, <3>2
    <2>6. /\ UNCHANGED clock /\ readNow'[l] = Now(DispatcherOf(l))
          /\ \A e \in Events : task'[l][e].pc # "publishing"
      <3>1. UNCHANGED clock
        BY <1>2
      <3>2. UNCHANGED readNow
        BY <2>1
      <3>3. \A e \in Events : task'[l][e].pc # "publishing"
        BY <2>2
      <3> QED
        BY <1>3, <3>1, <3>2, <3>3
    <2> QED
      BY <2>5, <2>6, WaveFresh
  <1> QED
    BY <1>5, <1>6

\* What one task does leaves the waves of its loop in order.
LEMMA WaveTask ==
    ASSUME Timely, TypeOK, NEW l \in Loops, NEW e \in Events,
           TaskStep(l, e) \/ SettleFails(l, e)
    PROVE  /\ UNCHANGED <<clock, readNow, phase>>
           /\ \A m \in Loops, f \in Events :
                 \/ task'[m][f] = task[m][f]
                 \/ /\ task[m][f].pc # "none"
                    /\ task'[m][f].pc # "queued"
                    /\ task'[m][f].pc = "publishing" =>
                          /\ task[m][f].pc = "queued"
                          /\ task'[m][f].deadline = clock + PublishTimeout
  <1>1. UNCHANGED <<clock, readNow, phase>>
    BY DEF TaskStep, Acquire, Abandon, Publish, Report, Settle, SettleFails
  <1>2. ASSUME NEW t, task' = [task EXCEPT ![l][e] = t], task[l][e].pc # "none",
               t.pc # "queued",
               t.pc = "publishing" => /\ task[l][e].pc = "queued"
                                      /\ t.deadline = clock + PublishTimeout
        PROVE  \A m \in Loops, f \in Events :
                 \/ task'[m][f] = task[m][f]
                 \/ /\ task[m][f].pc # "none"
                    /\ task'[m][f].pc # "queued"
                    /\ task'[m][f].pc = "publishing" =>
                          /\ task[m][f].pc = "queued"
                          /\ task'[m][f].deadline = clock + PublishTimeout
    <2>1. /\ task'[l][e] = t
          /\ \A m \in Loops, f \in Events : <<m, f>> # <<l, e>> => task'[m][f] = task[m][f]
      BY <1>2 DEF TypeOK
    <2> QED
      BY <1>2, <2>1
  <1>3. CASE Acquire(l, e)
    <2> DEFINE t == IF task[l][e].attempts > MaxAttempts
                    THEN [task[l][e] EXCEPT !.pc = "exhausted"]
                    ELSE [task[l][e] EXCEPT !.pc = "publishing",
                                            !.deadline = Deadline]
    <2>1. task[l][e] \in Tasks
      BY DEF TypeOK
    <2>2. /\ t.pc \in {"exhausted", "publishing"}
          /\ t.pc = "publishing" => t.deadline = clock + PublishTimeout
      BY <2>1 DEF Tasks, Deadline
    <2>3. task' = [task EXCEPT ![l][e] = t] /\ task[l][e].pc = "queued"
      BY <1>3 DEF Acquire
    <2> HIDE DEF t
    <2> QED
      BY <1>1, <1>2, <2>2, <2>3
  <1>4. CASE Publish(l, e)
    <2>1. PICK pc \in {"ok", "fail"} :
             task' = [task EXCEPT ![l][e] = [task[l][e] EXCEPT !.pc = pc, !.deadline = 0]]
      BY <1>4 DEF Publish, Returned
    <2> DEFINE t == [task[l][e] EXCEPT !.pc = pc, !.deadline = 0]
    <2>2. t.pc \in {"ok", "fail"}
      BY DEF TypeOK, Tasks
    <2>3. task' = [task EXCEPT ![l][e] = t] /\ task[l][e].pc # "none"
      BY <1>4, <2>1 DEF Publish
    <2> HIDE DEF t
    <2> QED
      BY <1>1, <1>2, <2>2, <2>3
  <1>5. CASE Abandon(l, e) \/ Settle(l, e) \/ SettleFails(l, e)
    <2>1. task' = [task EXCEPT ![l][e] = NoTask] /\ task[l][e].pc # "none"
      BY <1>5 DEF Abandon, Settle, SettleFails, HasOutcome
    <2>2. NoTask.pc = "none"
      BY DEF NoTask
    <2> QED
      BY <1>1, <1>2, <2>1, <2>2
  <1>6. CASE Report(l, e)
    <2> DEFINE t == [task[l][e] EXCEPT !.sentAt = Now(DispatcherOf(l))]
    <2>1. task' = [task EXCEPT ![l][e] = t] /\ task[l][e].pc \in {"ok", "fail", "exhausted"}
      BY <1>6 DEF Report, HasOutcome
    <2>2. t.pc = task[l][e].pc
      BY DEF TypeOK, Tasks
    <2> HIDE DEF t
    <2> QED
      BY <1>1, <1>2, <2>1, <2>2
  <1> QED
    BY <1>3, <1>4, <1>5, <1>6 DEF TaskStep

\* Every step keeps the batches of all loops within their waves.
LEMMA WaveStep ==
    ASSUME IsFiniteSet(Events), Timely, TypeOK, TypeOK', TasksInBatch, WaveInv, [Next]_vars
    PROVE  WaveInv'
  <1>a. \A l \in Loops : BatchTimed(l) /\ WavesPass(l)
    BY DEF WaveInv
  <1>b. ASSUME NEW l \in Loops, UNCHANGED clock,
               readNow'[l] = readNow[l], task'[l] = task[l],
               phase'[l] \in {"claim", "batch"} => phase'[l] = phase[l]
        PROVE  BatchTimed(l)' /\ WavesPass(l)'
    BY <1>a, <1>b, WaveAdvance
  <1>1. ASSUME UNCHANGED <<clock, readNow, task>>,
               \A l \in Loops : phase'[l] \in {"claim", "batch"} => phase'[l] = phase[l]
        PROVE  WaveInv'
    BY <1>1, <1>b DEF WaveInv
  <1>2. ASSUME NEW d \in Dispatchers, Start(d) PROVE WaveInv'
    <2>1. /\ UNCHANGED <<clock, readNow, task>>
          /\ \A l \in Loops : phase'[l] \in {"claim", "batch"} => phase'[l] = phase[l]
      BY <1>2 DEF Start, TypeOK
    <2> QED
      BY <1>1, <2>1
  <1>3. ASSUME NEW d \in Dispatchers, Crash(d) PROVE WaveInv'
    <2>1. UNCHANGED <<clock, readNow>>
      BY <1>3 DEF Crash
    <2>2. \A l \in Loops :
             IF DispatcherOf(l) = d
             THEN phase'[l] = "off" /\ \A e \in Events : task'[l][e].pc = "none"
             ELSE task'[l] = task[l] /\ phase'[l] = phase[l]
      BY <1>3 DEF Crash, NoTask
    <2>3. ASSUME NEW l \in Loops PROVE BatchTimed(l)' /\ WavesPass(l)'
      <3>1. CASE DispatcherOf(l) = d
        BY <2>2, <3>1, WaveIdle
      <3>2. CASE DispatcherOf(l) # d
        BY <2>1, <2>2, <3>2, <1>b
      <3> QED
        BY <3>1, <3>2
    <2> QED
      BY <2>3 DEF WaveInv
  <1>4. ASSUME NEW l \in Loops, RunOnce(l) PROVE WaveInv'
    <2>1. CASE ctxDone[l]
      <3>1. /\ UNCHANGED <<clock, readNow, task>>
            /\ phase' = [phase EXCEPT ![l] = "wait"]
        BY <1>4, <2>1 DEF RunOnce, RecordLoop, TypeOK
      <3> QED
        BY <1>1, <3>1 DEF TypeOK
    <2>2. CASE ~ctxDone[l]
      <3>1. /\ UNCHANGED <<clock, task>>
            /\ phase[l] # "batch"
            /\ phase' = [phase EXCEPT ![l] = "claim"]
            /\ readNow' = [readNow EXCEPT ![l] = Now(DispatcherOf(l))]
        BY <1>4, <2>2 DEF RunOnce, Polls
      <3>2. readNow'[l] = Now(DispatcherOf(l))
        BY <3>1 DEF TypeOK
      <3>3. \A e \in Events : task'[l][e].pc = "none"
        BY <3>1 DEF TasksInBatch
      <3>4. Active(l)' = {}
        BY <3>3 DEF Active
      <3>5. Cardinality(Active(l)') <= BatchSize
        BY <3>4, FS_EmptySet, LoopNumbers
      <3>6. BatchTimed(l)' /\ WavesPass(l)'
        BY <3>1, <3>2, <3>3, <3>5, WaveFresh
      <3>7. \A m \in Loops : m # l => readNow'[m] = readNow[m] /\ phase'[m] = phase[m]
        BY <3>1 DEF TypeOK
      <3> QED
        BY <1>b, <3>1, <3>6, <3>7 DEF WaveInv
    <2> QED
      BY <2>1, <2>2
  <1>5. ASSUME NEW l \in Loops, ClaimOK(l) PROVE WaveInv'
    <2>1. BatchTimed(l)' /\ WavesPass(l)'
      BY <1>5, WaveClaim
    <2>2. /\ UNCHANGED clock
          /\ \A m \in Loops : m # l => /\ readNow'[m] = readNow[m] /\ phase'[m] = phase[m]
                                       /\ task'[m] = task[m]
      <3>1. /\ UNCHANGED <<clock, readNow>>
            /\ phase' = [phase EXCEPT ![l] = phase'[l]]
            /\ task' = [task EXCEPT ![l] = task'[l]]
        BY <1>5 DEF ClaimOK, RecordLoop, TypeOK
      <3> QED
        BY <3>1 DEF TypeOK
    <2> QED
      BY <1>b, <2>1, <2>2 DEF WaveInv
  <1>6. ASSUME NEW l \in Loops,
               ClaimFails(l) \/ RunOnceReturns(l) \/ LoopExits(l)
        PROVE  WaveInv'
    <2>1. /\ UNCHANGED <<clock, task, readNow>>
          /\ \A m \in Loops : phase'[m] \in {"claim", "batch"} => phase'[m] = phase[m]
      BY <1>6 DEF ClaimFails, RunOnceReturns, LoopExits, RecordLoop, TypeOK
    <2> QED
      BY <1>1, <2>1
  <1>7. ASSUME NEW l \in Loops, NEW e \in Events, TaskStep(l, e) \/ SettleFails(l, e)
        PROVE  WaveInv'
    <2>1. ASSUME NEW m \in Loops PROVE BatchTimed(m)' /\ WavesPass(m)'
      BY <1>7, <1>a, WaveTask, WaveAdvance
    <2> QED
      BY <2>1 DEF WaveInv
  <1>8. CASE Tick
    BY <1>8, <1>a, WaveTick DEF WaveInv
  <1>9. ASSUME \/ \E e \in Events : Enqueue(e)
               \/ \E d \in Dispatchers : Shutdown(d) \/ ParentCancel(d)
               \/ \E l \in Loops : ShutdownCancels(l)
               \/ \E p \in Purgers : PurgeSelect(p) \/ PurgeDelete(p) \/ PurgeMemory(p)
               \/ UNCHANGED vars
        PROVE  WaveInv'
    <2>1. UNCHANGED <<clock, readNow, task, phase>>
      BY <1>9 DEF Enqueue, Shutdown, ShutdownCancels, ParentCancel, PurgeSelect, PurgeDelete,
                  PurgeMemory, vars, loopVars
    <2> QED
      BY <1>1, <2>1
  <1> QED
    BY <1>2, <1>3, <1>4, <1>5, <1>6, <1>7, <1>8, <1>9 DEF Next, LoopStep

---------------------------------------------------------------------------
(* The lease outlasts the local queue *)

\* A task whose worker ID is on the row has the lease of its own claim.
TaskLease ==
    \A l \in Loops, e \in Events :
        (/\ task[l][e].pc # "none"
         /\ Owns(records, e, OwnerOf(l)))
        => records[e].leaseUntil = readNow[l] + LeaseDuration

\* The lease a claim writes starts at the time the loop has read.
LEMMA ClaimedLease ==
    ASSUME TypeOK, NEW l \in Loops, NEW batch, NEW e \in Events, e \in batch
    PROVE  Claimed(l, batch)[e].leaseUntil = readNow[l] + LeaseDuration
  <1>1. records[e] \in Row
    BY DEF TypeOK
  <1> QED
    BY <1>1 DEF Claimed, Claim, Row

\* Steps that lease nothing: rows stay or leave the in-flight state.
LEMMA LeaseFrame ==
    ASSUME TaskLease,
           \A e \in Events : records'[e] = records[e] \/ records'[e].status # "in-flight",
           \A l \in Loops, e \in Events :
              task'[l][e].pc # "none" => /\ task[l][e].pc # "none"
                                         /\ readNow'[l] = readNow[l]
    PROVE  TaskLease'
  BY DEF TaskLease, Owns

\* A committed claim leases to a loop without tasks, and no other loop
\* has its worker ID.
LEMMA LeaseClaim ==
    ASSUME TypeOK, FencingInv, DistinctWorkerIDs, TaskLease, NEW l \in Loops, NEW batch,
           records' = Claimed(l, batch),
           readNow'[l] = readNow[l],
           \A m \in Loops : m # l => task'[m] = task[m] /\ readNow'[m] = readNow[m],
           \A e \in Events : task'[l][e].pc # "none" => e \in batch
    PROVE  TaskLease'
  <1> SUFFICES ASSUME NEW m \in Loops, NEW e \in Events,
                      task'[m][e].pc # "none",
                      Owns(records', e, OwnerOf(m))
               PROVE  records'[e].leaseUntil = readNow'[m] + LeaseDuration
    BY DEF TaskLease
  <1>1. CASE m = l
    BY <1>1, ClaimedLease
  <1>2. CASE m # l
    <2>1. e \notin batch
      <3>1. SUFFICES ASSUME e \in batch PROVE FALSE
        OBVIOUS
      <3>2. OwnerOf(m) = OwnerOf(l)
        BY <3>1, ClaimedRows DEF Owns
      <3> QED
        BY <3>2, <1>2 DEF DistinctWorkerIDs
    <2>2. records'[e] = records[e]
      BY <2>1, ClaimedRows
    <2> QED
      BY <1>2, <2>2 DEF TaskLease, Owns
  <1> QED
    BY <1>1, <1>2

\* Every step keeps the leases of the tasks.
LEMMA LeaseStep ==
    ASSUME DistinctWorkerIDs, Timely, TypeOK, FencingInv, TaskLease, [Next]_vars
    PROVE  TaskLease'
  <1>a. \A l \in Loops, e \in Events : task[l][e].pc # "none" => phase[l] = "batch"
    BY DEF FencingInv, TasksInBatch
  <1>1. ASSUME NEW e \in Events, Enqueue(e) PROVE TaskLease'
    <2>1. UNCHANGED <<task, readNow>>
      BY <1>1 DEF Enqueue, loopVars
    <2>2. \A f \in Events : records'[f] = records[f] \/ records'[f].status # "in-flight"
      BY <1>1 DEF Enqueue, Insert, NoRow, TypeOK
    <2> QED
      BY <2>1, <2>2, LeaseFrame
  <1>2. ASSUME NEW d \in Dispatchers, Start(d) \/ Shutdown(d) \/ ParentCancel(d)
        PROVE  TaskLease'
    <2>1. UNCHANGED <<records, task, readNow>>
      BY <1>2 DEF Start, Shutdown, ParentCancel, storeVars, loopVars
    <2> QED
      BY <2>1, LeaseFrame
  <1>3. ASSUME NEW l \in Loops, ShutdownCancels(l) PROVE TaskLease'
    <2>1. UNCHANGED <<records, task, readNow>>
      BY <1>3 DEF ShutdownCancels, storeVars
    <2> QED
      BY <2>1, LeaseFrame
  <1>4. ASSUME NEW d \in Dispatchers, Crash(d) PROVE TaskLease'
    <2>1. UNCHANGED <<records, readNow>>
      BY <1>4 DEF Crash, storeVars
    <2>2. \A l \in Loops :
             task'[l] = task[l] \/ \A e \in Events : task'[l][e].pc = "none"
      BY <1>4 DEF Crash, NoTask, TypeOK
    <2> QED
      BY <2>1, <2>2, LeaseFrame
  <1>5. ASSUME NEW l \in Loops, RunOnce(l) PROVE TaskLease'
    <2>1. /\ UNCHANGED <<records, task>>
          /\ phase[l] # "batch"
          /\ \A m \in Loops : m # l => readNow'[m] = readNow[m]
      BY <1>5 DEF RunOnce, Polls, RecordLoop, storeVars, TypeOK
    <2> QED
      BY <1>a, <2>1, LeaseFrame
  <1>6. ASSUME NEW l \in Loops, ClaimOK(l) PROVE TaskLease'
    <2>1. PICK locked \in LockedRows(l) : ClaimOK(l)!2!(locked)
      BY <1>6 DEF ClaimOK
    <2> DEFINE batch == ClaimBatch(records, readNow[l], BatchSize, locked)
               claimed == Claimed(l, batch)
    <2> HIDE DEF batch, claimed
    <2>3. CASE batch = {}
      <3>1. UNCHANGED <<records, task, readNow>>
        BY <2>1, <2>3 DEF batch, claimed, RecordLoop, TypeOK
      <3> QED
        BY <3>1, LeaseFrame
    <2>4. CASE batch # {}
      <3>1. /\ records' = claimed
            /\ task' = [task EXCEPT ![l] = [e \in Events |->
                  IF e \in batch
                  THEN [NoTask EXCEPT !.pc = "queued",
                                      !.attempts = claimed[e].attempts]
                  ELSE NoTask]]
            /\ UNCHANGED readNow
        BY <2>1, <2>4 DEF batch, claimed
      <3>2. \A m \in Loops : m # l => task'[m] = task[m]
        BY <3>1 DEF TypeOK
      <3>3. \A e \in Events : task'[l][e].pc # "none" => e \in batch
        BY <3>1 DEF TypeOK, NoTask
      <3>4. records' = Claimed(l, batch) /\ UNCHANGED readNow
        BY <3>1 DEF claimed
      <3> QED
        BY <3>2, <3>3, <3>4, LeaseClaim
    <2> QED
      BY <2>3, <2>4
  <1>7. ASSUME NEW l \in Loops, ClaimFails(l) PROVE TaskLease'
    <2>1. /\ phase[l] = "claim"
          /\ UNCHANGED <<task, readNow>>
      BY <1>7 DEF ClaimFails, RecordLoop, TypeOK
    <2>2. CASE UNCHANGED records
      BY <2>1, <2>2, LeaseFrame
    <2>3. CASE records' = Claimed(l, ClaimBatch(records, readNow[l], BatchSize, {}))
      <3> DEFINE batch == ClaimBatch(records, readNow[l], BatchSize, {})
      <3>1. records' = Claimed(l, batch)
        BY <2>3
      <3> HIDE DEF batch
      <3>2. \A e \in Events : task'[l][e].pc # "none" => e \in batch
        BY <1>a, <2>1
      <3> QED
        BY <2>1, <3>1, <3>2, LeaseClaim
    <2> QED
      BY <1>7, <2>2, <2>3 DEF ClaimFails
  <1>8. ASSUME NEW l \in Loops, RunOnceReturns(l) \/ LoopExits(l)
        PROVE  TaskLease'
    <2>1. UNCHANGED <<records, task, readNow>>
      BY <1>8 DEF RunOnceReturns, LoopExits, RecordLoop, storeVars, TypeOK
    <2> QED
      BY <2>1, LeaseFrame
  <1>9. ASSUME NEW l \in Loops, NEW e \in Events, TaskStep(l, e) \/ SettleFails(l, e)
        PROVE  TaskLease'
    <2>1. \A m \in Loops, f \in Events : task'[m][f].pc # "none" => task[m][f].pc # "none"
      BY <1>9, WaveTask
    <2>2. UNCHANGED readNow
      BY <1>9 DEF TaskStep, Acquire, Abandon, Publish, Report, Settle, SettleFails
    <2>3. UNCHANGED records \/ records' \in Outcomes(l, e)
      BY <1>9 DEF TaskStep, Acquire, Abandon, Publish, Report, Settle, SettleFails, storeVars
    <2>4. \A f \in Events : records'[f] = records[f] \/ records'[f].status # "in-flight"
      BY <2>3, OutcomeRows DEF ReportedRow
    <2> QED
      BY <2>1, <2>2, <2>4, LeaseFrame
  <1>10. ASSUME NEW p \in Purgers, PurgeDelete(p) \/ PurgeMemory(p) PROVE TaskLease'
    <2>1. UNCHANGED <<task, readNow>>
      BY <1>10 DEF PurgeDelete, PurgeMemory, loopVars
    <2>2. \A f \in Events : records'[f] = records[f] \/ records'[f].status # "in-flight"
      BY <1>10 DEF PurgeDelete, PurgeMemory, Delete, NoRow
    <2> QED
      BY <2>1, <2>2, LeaseFrame
  <1>11. ASSUME (\E p \in Purgers : PurgeSelect(p)) \/ Tick \/ UNCHANGED vars
         PROVE  TaskLease'
    <2>1. UNCHANGED <<records, task, readNow>>
      BY <1>11 DEF PurgeSelect, Tick, vars, storeVars, loopVars
    <2> QED
      BY <2>1, LeaseFrame
  <1> QED
    BY <1>1, <1>2, <1>3, <1>4, <1>5, <1>6, <1>7, <1>8, <1>9, <1>10, <1>11
    DEF Next, LoopStep

\* A batch keeps within its waves: while a task waits for a slot, the calls
\* of every publish timeout since the claim have left the queue.
THEOREM BatchesKeepPace ==
    ASSUME Timely, DistinctWorkerIDs, IsFiniteSet(Events) PROVE Spec => []WaveInv
  <1>1. Init => WaveInv
    <2> SUFFICES ASSUME Init, NEW l \in Loops PROVE BatchTimed(l) /\ WavesPass(l)
      BY DEF WaveInv
    <2>1. phase[l] = "off" /\ \A e \in Events : task[l][e].pc = "none"
      BY DEF Init, NoTask
    <2>2. Active(l) = {} /\ Queued(l) = {} /\ Publishing(l) = {}
      BY <2>1 DEF Active, Queued, Publishing
    <2>3. Cardinality(Active(l)) <= BatchSize
      BY <2>2, FS_EmptySet, DispatcherAssumption
    <2> QED
      BY <2>1, <2>2, <2>3 DEF BatchTimed, WavesPass
  <1>2. TypeOK /\ TypeOK' /\ FencingInv /\ WaveInv /\ [Next]_vars => WaveInv'
    BY WaveStep DEF FencingInv
  <1> QED
    BY <1>1, <1>2, TypeCorrect, FencingHolds, PTL DEF Spec

\* validateDispatcherConfig is enough: where only publishing and waiting take
\* time, no lease runs out while its record still waits for a slot, whatever
\* the batch size, the concurrency and the number of dispatchers.
THEOREM LeaseOutlastsQueue ==
    ASSUME Timely, DistinctWorkerIDs, IsFiniteSet(Events)
    PROVE  Spec => []QueuedKeepsLease
  <1>1. Init => TaskLease
    BY DEF Init, TaskLease, NoTask
  <1>2. TypeOK /\ FencingInv /\ TaskLease /\ [Next]_vars => TaskLease'
    BY LeaseStep
  <1>3. TypeOK /\ WaveInv /\ TaskLease => QueuedKeepsLease
    <2> SUFFICES ASSUME TypeOK, WaveInv, TaskLease, NEW l \in Loops, NEW e \in Events,
                        task[l][e].pc = "queued", Owns(records, e, OwnerOf(l))
                 PROVE  Now(DispatcherOf(l)) < records[e].leaseUntil
      BY DEF QueuedKeepsLease
    <2>1. records[e].leaseUntil = readNow[l] + LeaseDuration
      BY DEF TaskLease
    <2>2. Now(DispatcherOf(l)) + PublishTimeout <= readNow[l] + Waves * PublishTimeout
      BY QueuedIsEarly
    <2>3. LeaseDuration >= Waves * PublishTimeout /\ Waves * PublishTimeout \in Nat
      BY WavesSuffice, LoopNumbers, Multiples
    <2> QED
      BY <2>1, <2>2, <2>3, LoopNumbers
  <1> QED
    BY <1>1, <1>2, <1>3, TypeCorrect, FencingHolds, BatchesKeepPace, PTL DEF Spec

---------------------------------------------------------------------------
(* One publisher per event *)

\* The part of a lease beyond the waves of a batch covers the differences
\* between the clocks of the processes.
SkewCovered ==
    \A d, f \in Dispatchers :
        Skew[d] + Waves * PublishTimeout <= Skew[f] + LeaseDuration

\* Where the clocks agree, every lease that validateDispatcherConfig accepts
\* does, the shortest included.
LEMMA EqualClocksSuffice ==
    ASSUME \A d, f \in Dispatchers : Skew[d] = Skew[f]
    PROVE  SkewCovered
  <1>1. Waves * PublishTimeout \in Nat /\ LeaseDuration \in Nat
    BY WavesSuffice, DispatcherAssumption
  <1>2. \A d \in Dispatchers : Skew[d] \in Nat
    BY DispatcherAssumption
  <1> QED
    BY <1>1, <1>2, WavesSuffice DEF SkewCovered

\* A task that waits for its broker call, or whose call is not yet due.
Fresh(l, e) ==
    \/ task[l][e].pc = "queued"
    \/ task[l][e].pc = "publishing" /\ clock < task[l][e].deadline

\* A fresh task holds the lease of its row, alone.
HoldsRow(l, e) ==
    /\ records[e].status = "in-flight"
    /\ records[e].leaseOwner = OwnerOf(l)
    /\ records[e].leaseUntil = readNow[l] + LeaseDuration
    /\ \A m \in Loops : Fresh(m, e) => m = l

\* A broker call is due by the end of the last wave.
DueInWaves(l, e) ==
    task[l][e].pc = "publishing" =>
        task[l][e].deadline + Skew[DispatcherOf(l)]
           <= readNow[l] + Waves * PublishTimeout

\* The inductive invariant behind OnePublisher.
HoldInv ==
    \A l \in Loops, e \in Events :
        /\ Fresh(l, e) => HoldsRow(l, e)
        /\ DueInWaves(l, e)

\* Steps that leave the rows of fresh tasks alone and start no task.
LEMMA HoldFrame ==
    ASSUME IsFiniteSet(Events), TypeOK, WaveInv, HoldInv,
           \A l \in Loops, e \in Events :
              Fresh(l, e)' => /\ Fresh(l, e)
                              /\ readNow'[l] = readNow[l]
                              /\ records'[e] = records[e],
           \A l \in Loops, e \in Events :
              task'[l][e].pc = "publishing" =>
                 /\ readNow'[l] = readNow[l]
                 /\ \/ task'[l][e] = task[l][e]
                    \/ /\ task[l][e].pc = "queued"
                       /\ task'[l][e].deadline = clock + PublishTimeout
    PROVE  HoldInv'
  <1> SUFFICES ASSUME NEW l \in Loops, NEW e \in Events
               PROVE  (Fresh(l, e) => HoldsRow(l, e))' /\ DueInWaves(l, e)'
    BY DEF HoldInv
  <1>1. ASSUME Fresh(l, e)' PROVE HoldsRow(l, e)'
    <2>1. /\ HoldsRow(l, e)
          /\ readNow'[l] = readNow[l] /\ records'[e] = records[e]
      BY <1>1 DEF HoldInv
    <2>2. \A m \in Loops : Fresh(m, e)' => m = l
      BY <2>1 DEF HoldsRow
    <2> QED
      BY <2>1, <2>2 DEF HoldsRow, OwnerOf
  <1>2. ASSUME task'[l][e].pc = "publishing"
        PROVE  task'[l][e].deadline + Skew[DispatcherOf(l)]
                  <= readNow'[l] + Waves * PublishTimeout
    <2>1. readNow'[l] = readNow[l]
      BY <1>2
    <2>2. CASE task'[l][e] = task[l][e]
      BY <1>2, <2>1, <2>2 DEF HoldInv, DueInWaves
    <2>3. CASE task[l][e].pc = "queued" /\ task'[l][e].deadline = clock + PublishTimeout
      <3>1. Now(DispatcherOf(l)) + PublishTimeout <= readNow[l] + Waves * PublishTimeout
        BY <2>3, QueuedIsEarly
      <3>2. task'[l][e].deadline + Skew[DispatcherOf(l)]
               = Now(DispatcherOf(l)) + PublishTimeout
        BY <2>3, LoopNumbers
      <3> QED
        BY <2>1, <3>1, <3>2
    <2> QED
      BY <1>2, <2>2, <2>3
  <1> QED
    BY <1>1, <1>2 DEF DueInWaves

\* Steps at one instant that move tasks on and leave the rows of the tasks
\* they do not end alone.
LEMMA HoldAdvance ==
    ASSUME IsFiniteSet(Events), TypeOK, WaveInv, HoldInv, UNCHANGED clock,
           \A l \in Loops, e \in Events :
              task'[l][e].pc \in {"queued", "publishing"} =>
                 /\ readNow'[l] = readNow[l]
                 /\ Fresh(l, e) => records'[e] = records[e]
                 /\ \/ task'[l][e] = task[l][e]
                    \/ /\ task'[l][e].pc = "publishing"
                       /\ task[l][e].pc = "queued"
                       /\ task'[l][e].deadline = clock + PublishTimeout
    PROVE  HoldInv'
  <1>1. ASSUME NEW l \in Loops, NEW e \in Events, Fresh(l, e)'
        PROVE  /\ Fresh(l, e) /\ readNow'[l] = readNow[l]
               /\ records'[e] = records[e]
    <2>1. task'[l][e].pc \in {"queued", "publishing"}
      BY <1>1 DEF Fresh
    <2>2. Fresh(l, e)
      BY <1>1, <2>1 DEF Fresh
    <2> QED
      BY <2>1, <2>2
  <1> QED
    BY <1>1, HoldFrame

\* The lease of a fresh task has not run out on the clock of any process.
LEMMA FreshIsLeased ==
    ASSUME IsFiniteSet(Events), SkewCovered, TypeOK, WaveInv, HoldInv,
           NEW l \in Loops, NEW e \in Events, Fresh(l, e), NEW d \in Dispatchers
    PROVE  Now(d) < records[e].leaseUntil
  <1> DEFINE f == DispatcherOf(l)
             last == Waves * PublishTimeout
  <1>1. /\ f \in Dispatchers /\ last \in Nat /\ Skew[d] \in Nat
        /\ Now(d) = clock + Skew[d]
    BY WavesSuffice, LoopNumbers, Multiples, DispatcherAssumption DEF Now
  <1>2. Skew[d] + last <= Skew[f] + LeaseDuration
    BY <1>1 DEF SkewCovered
  <1>3. records[e].leaseUntil = readNow[l] + LeaseDuration
    BY DEF HoldInv, HoldsRow
  <1>4. clock + Skew[f] < readNow[l] + last
    <2>1. CASE task[l][e].pc = "queued"
      <3>1. Now(f) + PublishTimeout <= readNow[l] + last
        BY <2>1, QueuedIsEarly
      <3> HIDE DEF last
      <3> QED
        BY <1>1, <3>1, LoopNumbers
    <2>2. CASE task[l][e].pc = "publishing" /\ clock < task[l][e].deadline
      <3>1. task[l][e].deadline + Skew[f] <= readNow[l] + last
        BY <2>2 DEF HoldInv, DueInWaves
      <3> HIDE DEF last
      <3> QED
        BY <1>1, <2>2, <3>1, LoopNumbers
    <2> QED
      BY <2>1, <2>2 DEF Fresh
  <1> HIDE DEF last
  <1> QED
    BY <1>1, <1>2, <1>3, <1>4, LoopNumbers

\* So no claim takes its row.
LEMMA FreshIsNotEligible ==
    ASSUME IsFiniteSet(Events), SkewCovered, TypeOK, WaveInv, HoldInv,
           NEW l \in Loops, phase[l] = "claim",
           NEW m \in Loops, NEW e \in Events, Fresh(m, e), NEW limit, NEW locked
    PROVE  e \notin ClaimBatch(records, readNow[l], limit, locked)
  <1>1. records[e].status = "in-flight"
    BY DEF HoldInv, HoldsRow
  <1>2. readNow[l] = Now(DispatcherOf(l)) /\ DispatcherOf(l) \in Dispatchers
    BY LoopNumbers DEF WaveInv, BatchTimed
  <1>3. Now(DispatcherOf(l)) < records[e].leaseUntil
    BY <1>2, FreshIsLeased
  <1>4. records[e].leaseUntil \in Nat
    BY DEF TypeOK, Row
  <1>5. ~(records[e].leaseUntil <= readNow[l])
    BY <1>2, <1>3, <1>4, LoopNumbers
  <1> QED
    BY <1>1, <1>5 DEF ClaimBatch, Eligible, ReadyPending, LeaseExpired

\* A claim that reaches its loop: the new tasks hold their rows, alone.
LEMMA HoldClaim ==
    ASSUME IsFiniteSet(Events), SkewCovered, TypeOK, FencingInv, WaveInv, HoldInv,
           NEW l \in Loops, ClaimOK(l)
    PROVE  HoldInv'
  <1>1. PICK locked \in LockedRows(l) : ClaimOK(l)!2!(locked)
    BY DEF ClaimOK
  <1> DEFINE batch == ClaimBatch(records, readNow[l], BatchSize, locked)
             claimed == Claimed(l, batch)
  <1>2. phase[l] = "claim" /\ UNCHANGED clock
    BY DEF ClaimOK
  <1>3. \A m \in Loops, e \in Events : Fresh(m, e) => e \notin batch
    BY <1>2, FreshIsNotEligible
  <1>5. \A e \in Events : task[l][e].pc = "none"
    BY <1>2 DEF FencingInv, TasksInBatch
  <1> HIDE DEF batch, claimed
  <1>6. CASE batch = {}
    <2>1. /\ UNCHANGED <<records, task>>
          /\ \A m \in Loops : m # l => readNow'[m] = readNow[m]
      BY <1>1, <1>6 DEF batch, claimed, RecordLoop, TypeOK
    <2> QED
      BY <1>2, <1>5, <2>1, HoldAdvance
  <1>7. CASE batch # {}
    <2>1. /\ records' = claimed
          /\ task' = [task EXCEPT ![l] = [e \in Events |->
                IF e \in batch
                THEN [NoTask EXCEPT !.pc = "queued",
                                    !.attempts = claimed[e].attempts]
                ELSE NoTask]]
          /\ UNCHANGED readNow
      BY <1>1, <1>7 DEF batch, claimed
    <2>2. \A m \in Loops : m # l => task'[m] = task[m]
      BY <2>1 DEF TypeOK
    <2>3. \A e \in Events : task'[l][e].pc = IF e \in batch THEN "queued" ELSE "none"
      BY <2>1 DEF TypeOK, NoTask
    <2>4. \A e \in Events :
             /\ e \in batch => /\ records'[e].status = "in-flight"
                               /\ records'[e].leaseOwner = OwnerOf(l)
                               /\ records'[e].leaseUntil = readNow[l] + LeaseDuration
             /\ e \notin batch => records'[e] = records[e]
      BY <2>1, ClaimedRows, ClaimedLease DEF claimed
    <2>5. UNCHANGED <<readNow, clock>>
      BY <1>2, <2>1
    <2>6. \A m \in Loops, e \in Events :
             Fresh(m, e)' <=> IF m = l THEN e \in batch ELSE Fresh(m, e)
      BY <2>2, <2>3, <2>5 DEF Fresh
    <2>7. ASSUME NEW m \in Loops, NEW e \in Events, Fresh(m, e)'
          PROVE  HoldsRow(m, e)'
      <3>1. CASE m = l
        <4>1. e \in batch
          BY <2>6, <2>7, <3>1
        <4>2. \A n \in Loops : Fresh(n, e)' => n = l
          BY <1>3, <2>6, <4>1
        <4> QED
          BY <2>4, <2>5, <3>1, <4>1, <4>2 DEF HoldsRow, OwnerOf
      <3>2. CASE m # l
        <4>1. Fresh(m, e) /\ HoldsRow(m, e) /\ e \notin batch
          BY <1>3, <2>6, <2>7, <3>2 DEF HoldInv
        <4>2. records'[e] = records[e]
          BY <2>4, <4>1
        <4>3. \A n \in Loops : Fresh(n, e)' => n = m
          BY <2>6, <4>1 DEF HoldsRow
        <4> QED
          BY <2>5, <4>1, <4>2, <4>3 DEF HoldsRow, OwnerOf
      <3> QED
        BY <3>1, <3>2
    <2>8. ASSUME NEW m \in Loops, NEW e \in Events PROVE DueInWaves(m, e)'
      <3>1. CASE m = l
        BY <2>3, <3>1 DEF DueInWaves
      <3>2. CASE m # l
        <4>1. task'[m] = task[m] /\ DueInWaves(m, e)
          BY <2>2, <3>2 DEF HoldInv
        <4> QED
          BY <2>5, <4>1 DEF DueInWaves
      <3> QED
        BY <3>1, <3>2
    <2> QED
      BY <2>7, <2>8 DEF HoldInv
  <1> QED
    BY <1>6, <1>7

\* Every step keeps the fresh tasks in possession of their rows.
LEMMA HoldStep ==
    ASSUME IsFiniteSet(Events), Timely, DistinctWorkerIDs, SkewCovered,
           TypeOK, FencingInv, PurgeInv, WaveInv, HoldInv, [Next]_vars
    PROVE  HoldInv'
  <1>a. \A l \in Loops, e \in Events : task[l][e].pc # "none" => phase[l] = "batch"
    BY DEF FencingInv, TasksInBatch
  <1>b. \A l \in Loops, e \in Events : Fresh(l, e) => records[e].status = "in-flight"
    BY DEF HoldInv, HoldsRow
  <1>c. ASSUME UNCHANGED <<clock, task, readNow>>,
               \A e \in Events :
                  records[e].status = "in-flight" => records'[e] = records[e]
        PROVE  HoldInv'
    BY <1>b, <1>c, HoldAdvance
  <1>1. ASSUME NEW e \in Events, Enqueue(e) PROVE HoldInv'
    <2>1. UNCHANGED <<clock, task, readNow>>
      BY <1>1 DEF Enqueue, loopVars
    <2>2. \A f \in Events : records[f].status = "in-flight" => records'[f] = records[f]
      BY <1>1 DEF Enqueue, Insert, Exists, TypeOK
    <2> QED
      BY <1>c, <2>1, <2>2
  <1>2. ASSUME \/ \E d \in Dispatchers : Start(d) \/ Shutdown(d) \/ ParentCancel(d)
               \/ \E l \in Loops : ShutdownCancels(l)
        PROVE  HoldInv'
    <2>1. UNCHANGED <<clock, records, task, readNow>>
      BY <1>2 DEF Start, Shutdown, ShutdownCancels, ParentCancel, storeVars, loopVars
    <2> QED
      BY <1>c, <2>1
  <1>3. ASSUME NEW d \in Dispatchers, Crash(d) PROVE HoldInv'
    <2>1. UNCHANGED <<clock, records, readNow>>
      BY <1>3 DEF Crash, storeVars
    <2>2. \A l \in Loops : task'[l] = task[l] \/ \A e \in Events : task'[l][e].pc = "none"
      BY <1>3 DEF Crash, NoTask, TypeOK
    <2> QED
      BY <2>1, <2>2, HoldAdvance
  <1>4. ASSUME NEW l \in Loops, RunOnce(l) PROVE HoldInv'
    <2>1. /\ UNCHANGED <<clock, records, task>>
          /\ phase[l] # "batch"
          /\ \A m \in Loops : m # l => readNow'[m] = readNow[m]
      BY <1>4 DEF RunOnce, Polls, RecordLoop, storeVars, TypeOK
    <2> QED
      BY <1>a, <2>1, HoldAdvance
  <1>5. ASSUME NEW l \in Loops, ClaimOK(l) PROVE HoldInv'
    BY <1>5, HoldClaim
  <1>6. ASSUME NEW l \in Loops, ClaimFails(l) PROVE HoldInv'
    <2>1. /\ phase[l] = "claim"
          /\ UNCHANGED <<clock, task, readNow>>
      BY <1>6 DEF ClaimFails, RecordLoop, TypeOK
    <2>2. \/ UNCHANGED records
          \/ records' = Claimed(l, ClaimBatch(records, readNow[l], BatchSize, {}))
      BY <1>6 DEF ClaimFails
    <2>3. ASSUME NEW m \in Loops, NEW e \in Events, Fresh(m, e)
          PROVE  records'[e] = records[e]
      <3>1. CASE UNCHANGED records
        BY <3>1
      <3>2. CASE records' = Claimed(l, ClaimBatch(records, readNow[l], BatchSize, {}))
        <4> DEFINE batch == ClaimBatch(records, readNow[l], BatchSize, {})
        <4>1. e \notin batch
          BY <2>1, <2>3, FreshIsNotEligible
        <4> HIDE DEF batch
        <4>2. Claimed(l, batch)[e] = records[e]
          BY <4>1, ClaimedRows
        <4> QED
          BY <3>2, <4>2 DEF batch
      <3> QED
        BY <2>2, <3>1, <3>2
    <2> QED
      BY <2>1, <2>3, HoldAdvance
  <1>7. ASSUME NEW l \in Loops, RunOnceReturns(l) \/ LoopExits(l) PROVE HoldInv'
    <2>1. UNCHANGED <<clock, records, task, readNow>>
      BY <1>7 DEF RunOnceReturns, LoopExits, RecordLoop, storeVars, TypeOK
    <2> QED
      BY <1>c, <2>1
  <1>8. ASSUME NEW l \in Loops, NEW e \in Events, TaskStep(l, e) \/ SettleFails(l, e)
        PROVE  HoldInv'
    <2>1. \/ UNCHANGED records
          \/ records' \in Outcomes(l, e) /\ HasOutcome(l, e)
      BY <1>8 DEF TaskStep, Acquire, Abandon, Publish, Report, Settle, SettleFails, storeVars
    <2>2. ASSUME NEW m \in Loops, NEW f \in Events, Fresh(m, f)
          PROVE  records'[f] = records[f]
      <3>1. CASE UNCHANGED records
        BY <3>1
      <3>2. CASE records' \in Outcomes(l, e) /\ HasOutcome(l, e) /\ f = e
        <4>1. m # l
          BY <2>2, <3>2 DEF Fresh, HasOutcome
        <4>2. records[e].leaseOwner = OwnerOf(m)
          BY <2>2, <3>2 DEF HoldInv, HoldsRow
        <4>3. ~Owns(records, e, OwnerOf(l))
          BY <4>1, <4>2 DEF DistinctWorkerIDs, Owns
        <4> QED
          BY <3>2, <4>3, OutcomeRows DEF ReportedRow
      <3>3. CASE records' \in Outcomes(l, e) /\ f # e
        BY <3>3, OutcomeRows
      <3> QED
        BY <2>1, <3>1, <3>2, <3>3
    <2>3. ASSUME NEW m \in Loops, NEW f \in Events,
                 task'[m][f].pc \in {"queued", "publishing"}
          PROVE  /\ readNow'[m] = readNow[m]
                 /\ Fresh(m, f) => records'[f] = records[f]
                 /\ \/ task'[m][f] = task[m][f]
                    \/ /\ task'[m][f].pc = "publishing"
                       /\ task[m][f].pc = "queued"
                       /\ task'[m][f].deadline = clock + PublishTimeout
      BY <1>8, <2>2, <2>3, WaveTask
    <2>4. UNCHANGED clock
      BY <1>8, WaveTask
    <2> QED
      BY <2>3, <2>4, HoldAdvance
  <1>9. ASSUME NEW p \in Purgers, PurgeSelect(p) \/ PurgeDelete(p) \/ PurgeMemory(p)
        PROVE  HoldInv'
    <2>1. UNCHANGED <<clock, task, readNow>>
      BY <1>9 DEF PurgeSelect, PurgeDelete, PurgeMemory, loopVars
    <2>2. \A e \in Events : records[e].status = "in-flight" => records'[e] = records[e]
      BY <1>9 DEF PurgeSelect, PurgeDelete, PurgeMemory, PurgeInv, PurgeBatch, Purgeable,
                  Delete, storeVars
    <2> QED
      BY <1>c, <2>1, <2>2
  <1>10. CASE Tick
    <2>1. UNCHANGED <<records, task, readNow>> /\ clock' = clock + 1
      BY <1>10 DEF Tick, storeVars, loopVars
    <2>2. \A l \in Loops, e \in Events : Fresh(l, e)' => Fresh(l, e)
      BY <2>1, LoopNumbers DEF Fresh
    <2> QED
      BY <2>1, <2>2, HoldFrame
  <1>11. CASE UNCHANGED vars
    BY <1>11, <1>c DEF vars, storeVars, loopVars
  <1> QED
    BY <1>1, <1>2, <1>3, <1>4, <1>5, <1>6, <1>7, <1>8, <1>9, <1>10, <1>11
    DEF Next, LoopStep

\* Leases keep publishers apart, for any number of events, dispatchers and
\* crashes, where only publishing and waiting take time and the lease leaves
\* room for the skew of the clocks (with equal clocks every lease does that
\* validateDispatcherConfig accepts: EqualClocksSuffice).
THEOREM OnePublisherAtATime ==
    ASSUME Timely, DistinctWorkerIDs, OnePurger, SkewCovered, IsFiniteSet(Events)
    PROVE  Spec => []OnePublisher
  <1>1. Init => HoldInv
    BY DEF Init, HoldInv, Fresh, DueInWaves, NoTask
  <1>2. TypeOK /\ FencingInv /\ PurgeInv /\ WaveInv /\ HoldInv /\ [Next]_vars => HoldInv'
    BY HoldStep
  <1>3. HoldInv => OnePublisher
    <2> SUFFICES ASSUME HoldInv, NEW e \in Events
                 PROVE  Cardinality({l \in Loops : /\ task[l][e].pc = "publishing"
                                                   /\ clock < task[l][e].deadline}) <= 1
      BY DEF OnePublisher
    <2> DEFINE S == {l \in Loops : /\ task[l][e].pc = "publishing"
                                   /\ clock < task[l][e].deadline}
    <2>1. \A l, m \in S : m = l
      BY DEF HoldInv, HoldsRow, Fresh
    <2>2. S = {} \/ \E l : S = {l}
      BY <2>1
    <2> HIDE DEF S
    <2>3. CASE S = {}
      BY <2>3, FS_EmptySet DEF S
    <2>4. CASE \E l : S = {l}
      <3>1. Cardinality(S) = 1
        BY <2>4, FS_Singleton
      <3> QED
        BY <3>1 DEF S
    <2> QED
      BY <2>2, <2>3, <2>4
  <1> QED
    BY <1>1, <1>2, <1>3, TypeCorrect, FencingHolds, PurgersAreSafe, BatchesKeepPace, PTL
    DEF Spec
=============================================================================
