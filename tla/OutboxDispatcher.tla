-------------------------- MODULE OutboxDispatcher --------------------------
(***************************************************************************)
(* The outbox dispatchers at work on one outbox table:                     *)
(* framework/event/outbox/dispatcher.go on top of OutboxStore.             *)
(*                                                                         *)
(* A dispatcher lives in a process of its own.  Start spawns a loop, which *)
(* polls: it claims a batch, runs one goroutine (a task) per claimed       *)
(* record, and waits for all of them before it polls again.  A Start after *)
(* a Shutdown whose context ran out puts a second loop of the same         *)
(* dispatcher next to the old one, so a loop is a dispatcher and a         *)
(* generation.                                                             *)
(***************************************************************************)
EXTENDS OutboxStore

CONSTANTS
    Dispatchers,
    Gens,                   \* bound: loops of one dispatcher alive at once
    WorkerID,               \* the configured worker ID of each dispatcher
    Skew,                   \* how far the clock of each process is ahead
    BatchSize, Concurrency, LeaseDuration, PublishTimeout, MaxAttempts,
    RetryBase, RetryMax,
    RetryJitter,            \* in percent
    HealthFailureThreshold,
    SkipLocked,             \* whether the store was built WithSkipLocked
    Purgers,                \* concurrent callers of PurgePublished
    PurgeLimit,
    Timely,                 \* TRUE: only publishing and waiting take time
    MaxClock,               \* bound on the clock
    EnqueueUntil,           \* bound: no event is enqueued after this time
    MaxFaults,              \* bound on crashes and lost or failed store calls
    MaxStops,               \* bound on calls of Shutdown
    MaxCancels              \* bound on cancellations of the context of Start

ASSUME DispatcherAssumption ==
    /\ Gens # {}
    /\ WorkerID \in [Dispatchers -> Owners]
    /\ Skew \in [Dispatchers -> Nat]
    /\ {BatchSize, Concurrency, LeaseDuration, PublishTimeout, MaxAttempts,
        RetryBase, HealthFailureThreshold, PurgeLimit} \subseteq Nat \ {0}
    /\ {RetryMax, RetryJitter, MaxClock, EnqueueUntil, MaxFaults, MaxStops,
        MaxCancels} \subseteq Nat
    /\ RetryBase <= RetryMax
    /\ RetryJitter <= 100
    /\ {SkipLocked, Timely} \subseteq BOOLEAN

\* validateDispatcherConfig: a batch is published in ceil(batch/concurrency)
\* waves and the lease has to last for all of them.
ValidConfig ==
    LeaseDuration >=
        ((BatchSize + Concurrency - 1) \div Concurrency) * PublishTimeout

ASSUME ConfigAccepted == ValidConfig

Loops == Dispatchers \X Gens
DispatcherOf(l) == l[1]
OwnerOf(l) == WorkerID[DispatcherOf(l)]

VARIABLES
    clock,      \* real time; clock + Skew[d] is what process d reads
    records,    \* the outbox table
    accepted,   \* history: the attempts the broker took since the insert
    running,    \* Dispatcher.running
    current,    \* the generation whose context Dispatcher.cancel cancels
    cancelling, \* the loops a Shutdown has let go of and not yet cancelled
    orphaned,   \* history: dispatchers whose Start context was cancelled
    failures,   \* Dispatcher.failures, saturated at the threshold
    phase,      \* where each loop is
    ctxDone,    \* whether the context of each loop is cancelled
    readNow,    \* the `now' each loop read at its last poll
    task,       \* the goroutine of each loop for each record
    batchErr,   \* whether some task of the current batch returned an error
    purging,    \* the IDs each purger has selected and not yet deleted
    spent       \* how much of the bounds on faults, stops, cancels is used

storeVars == <<records, accepted>>
ctlVars == <<running, current, cancelling, orphaned, failures>>
loopVars == <<phase, ctxDone, readNow, task, batchErr>>
vars == <<clock, storeVars, ctlVars, loopVars, purging, spent>>

Phases == {"off", "poll", "claim", "batch", "wait"}
TaskPCs == {"none", "queued", "exhausted", "publishing", "ok", "fail"}

\* A goroutine: deadline is that of its publish call, and sentAt the time its
\* report carries once it is past the context check (0 before).
Tasks == [pc : TaskPCs, attempts : Nat, deadline : Nat, sentAt : Nat]
NoTask == [pc |-> "none", attempts |-> 0, deadline |-> 0, sentAt |-> 0]

Now(d) == clock + Skew[d]
Least(a, b) == IF a <= b THEN a ELSE b

TypeOK ==
    /\ clock \in Nat
    /\ records \in [Events -> Row]
    /\ accepted \in [Events -> SUBSET Nat]
    /\ running \in [Dispatchers -> BOOLEAN]
    /\ current \in [Dispatchers -> Gens]
    /\ cancelling \subseteq Loops
    /\ orphaned \subseteq Dispatchers
    /\ failures \in [Dispatchers -> Nat]
    /\ phase \in [Loops -> Phases]
    /\ ctxDone \in [Loops -> BOOLEAN]
    /\ readNow \in [Loops -> Nat]
    /\ task \in [Loops -> [Events -> Tasks]]
    /\ batchErr \in [Loops -> BOOLEAN]
    /\ purging \in [Purgers -> SUBSET Events]
    /\ spent \in [faults : Nat, stops : Nat, cancels : Nat]

Init ==
    /\ clock = 1
    /\ records = [e \in Events |-> NoRow]
    /\ accepted = [e \in Events |-> {}]
    /\ running = [d \in Dispatchers |-> FALSE]
    /\ current = [d \in Dispatchers |-> CHOOSE g \in Gens : TRUE]
    /\ cancelling = {}
    /\ orphaned = {}
    /\ failures = [d \in Dispatchers |-> 0]
    /\ phase = [l \in Loops |-> "off"]
    /\ ctxDone = [l \in Loops |-> TRUE]
    /\ readNow = [l \in Loops |-> 0]
    /\ task = [l \in Loops |-> [e \in Events |-> NoTask]]
    /\ batchErr = [l \in Loops |-> FALSE]
    /\ purging = [p \in Purgers |-> {}]
    /\ spent = [faults |-> 0, stops |-> 0, cancels |-> 0]

\* Crashes, and store calls that err or whose answer is lost.  Only a database
\* outlives its process or errs: the memory store is part of the process.
Fault ==
    /\ Backend = "gorm"
    /\ spent.faults < MaxFaults
    /\ spent' = [spent EXCEPT !.faults = @ + 1]

---------------------------------------------------------------------------
(* Producers *)

Enqueue(e) ==
    /\ clock <= EnqueueUntil
    /\ records' = Insert(records, e, clock)
    /\ accepted' = IF Exists(records, e) THEN accepted
                   ELSE [accepted EXCEPT ![e] = {}]
    /\ UNCHANGED <<clock, ctlVars, loopVars, purging, spent>>

---------------------------------------------------------------------------
(* Start, Shutdown, and the ways a loop is told to stop *)

Start(d) ==
    /\ ~running[d]
    /\ \E g \in Gens :
          /\ phase[<<d, g>>] = "off"
          /\ current' = [current EXCEPT ![d] = g]
          /\ phase' = [phase EXCEPT ![<<d, g>>] = "poll"]
          /\ ctxDone' = [ctxDone EXCEPT ![<<d, g>>] = FALSE]
    /\ running' = [running EXCEPT ![d] = TRUE]
    /\ failures' = [failures EXCEPT ![d] = 0]
    /\ orphaned' = orphaned \ {d}
    /\ UNCHANGED <<clock, storeVars, cancelling, readNow, task, batchErr,
                   purging, spent>>

\* Shutdown takes the running flag away and the cancel function along, and
\* unlocks.  Its wait for the loop, or for its own context, changes nothing,
\* and neither does the cancel if the loop has ended.
Shutdown(d) ==
    /\ running[d]
    /\ spent.stops < MaxStops
    /\ spent' = [spent EXCEPT !.stops = @ + 1]
    /\ running' = [running EXCEPT ![d] = FALSE]
    /\ cancelling' = cancelling
                       \cup {l \in {<<d, current[d]>>} : phase[l] # "off"}
    /\ UNCHANGED <<clock, storeVars, current, orphaned, failures, loopVars,
                   purging>>

\* Mutant: Dispatcher.cancel is read after the unlock.
ShutdownCancels_Current(l) ==
    /\ l \in cancelling
    /\ cancelling' = cancelling \ {l}
    /\ ctxDone' = [ctxDone EXCEPT ![<<DispatcherOf(l),
                                     current[DispatcherOf(l)]>>] = TRUE]
    /\ UNCHANGED <<clock, storeVars, running, current, orphaned, failures,
                   phase, readNow, task, batchErr, purging, spent>>

\* Only now, with the mutex released, it cancels: a Start may have come first,
\* and then two loops of the dispatcher have been live under one worker ID.
ShutdownCancels(l) ==
    /\ l \in cancelling
    /\ cancelling' = cancelling \ {l}
    /\ ctxDone' = [ctxDone EXCEPT ![l] = TRUE]
    /\ UNCHANGED <<clock, storeVars, running, current, orphaned, failures,
                   phase, readNow, task, batchErr, purging, spent>>

\* The loop runs under the context given to Start: cancelling that one stops
\* the loop and leaves Dispatcher.running set.
ParentCancel(d) ==
    /\ running[d]
    /\ ~ctxDone[<<d, current[d]>>]
    /\ spent.cancels < MaxCancels
    /\ spent' = [spent EXCEPT !.cancels = @ + 1]
    /\ ctxDone' = [ctxDone EXCEPT ![<<d, current[d]>>] = TRUE]
    /\ orphaned' = orphaned \cup {d}
    /\ UNCHANGED <<clock, storeVars, running, current, cancelling, failures,
                   phase, readNow, task, batchErr, purging>>

\* The process dies with everything it had in memory.
Crash(d) ==
    /\ \E g \in Gens : phase[<<d, g>>] # "off"
    /\ Fault
    /\ running' = [running EXCEPT ![d] = FALSE]
    /\ failures' = [failures EXCEPT ![d] = 0]
    /\ phase' = [l \in Loops |-> IF DispatcherOf(l) = d THEN "off"
                                 ELSE phase[l]]
    /\ ctxDone' = [l \in Loops |-> DispatcherOf(l) = d \/ ctxDone[l]]
    /\ task' = [l \in Loops |-> IF DispatcherOf(l) = d
                                THEN [e \in Events |-> NoTask] ELSE task[l]]
    /\ batchErr' = [l \in Loops |-> DispatcherOf(l) # d /\ batchErr[l]]
    /\ cancelling' = {l \in cancelling : DispatcherOf(l) # d}
    /\ orphaned' = orphaned \ {d}
    /\ UNCHANGED <<clock, storeVars, current, readNow, purging>>

---------------------------------------------------------------------------
(* The loop and RunOnce *)

\* recordLoopFailure and recordLoopSuccess, after which the loop waits.  The
\* `now' of the poll is dropped unless the ticker of a Timely run needs it.
RecordLoop(l, failed) ==
    /\ failures' = [failures EXCEPT ![DispatcherOf(l)] =
                      IF failed THEN Least(@ + 1, HealthFailureThreshold)
                      ELSE 0]
    /\ phase' = [phase EXCEPT ![l] = "wait"]
    /\ readNow' = [readNow EXCEPT ![l] = IF Timely THEN @ ELSE 0]

\* A new loop polls at once, and then whenever its ticker fires; a poll
\* interval is one tick of the clock.
Polls(l) ==
    \/ phase[l] = "poll"
    \/ /\ phase[l] = "wait"
       /\ Timely => readNow[l] < Now(DispatcherOf(l))

\* RunOnce looks at its context and reads the clock.
RunOnce(l) ==
    /\ Polls(l)
    /\ IF ctxDone[l]
       THEN RecordLoop(l, TRUE)
       ELSE /\ phase' = [phase EXCEPT ![l] = "claim"]
            /\ readNow' = [readNow EXCEPT ![l] = Now(DispatcherOf(l))]
            /\ UNCHANGED failures
    /\ UNCHANGED <<clock, storeVars, running, current, cancelling, orphaned,
                   ctxDone, task, batchErr, purging, spent>>

\* Rows another transaction may hold locked when the claim scans the table.
LockedRows(l) == IF SkipLocked THEN SUBSET Eligible(records, readNow[l])
                 ELSE {{}}

\* Mutant: a lease for one publish call instead of the whole batch.
Claimed_OnePublish(l, batch) ==
    Claim(records, batch, OwnerOf(l), readNow[l], PublishTimeout)

Claimed(l, batch) ==
    Claim(records, batch, OwnerOf(l), readNow[l], LeaseDuration)

\* The claim transaction commits and the batch is handed to its goroutines;
\* Claim has looked at its context before, so it may be cancelled by now.
ClaimOK(l) ==
    /\ phase[l] = "claim"
    /\ \E locked \in LockedRows(l) :
       LET batch == ClaimBatch(records, readNow[l], BatchSize, locked)
           claimed == Claimed(l, batch)
       IN  IF batch = {}
           THEN /\ RecordLoop(l, FALSE)
                /\ UNCHANGED <<records, task, batchErr>>
           ELSE /\ records' = claimed
                /\ task' = [task EXCEPT ![l] = [e \in Events |->
                      IF e \in batch
                      THEN [NoTask EXCEPT !.pc = "queued",
                                          !.attempts = claimed[e].attempts]
                      ELSE NoTask]]
                /\ batchErr' = [batchErr EXCEPT ![l] = FALSE]
                /\ phase' = [phase EXCEPT ![l] = "batch"]
                /\ UNCHANGED <<failures, readNow>>
    /\ UNCHANGED <<clock, accepted, running, current, cancelling, orphaned,
                   ctxDone, purging, spent>>

\* The claim fails: its context is cancelled, the database errs, or the
\* transaction commits and the answer is lost, which leases rows to nobody.
ClaimFails(l) ==
    /\ phase[l] = "claim"
    /\ \/ ctxDone[l] /\ UNCHANGED <<records, spent>>
       \/ Fault /\ UNCHANGED records
       \/ /\ Fault
          /\ records' = Claimed(l, ClaimBatch(records, readNow[l],
                                              BatchSize, {}))
    /\ RecordLoop(l, TRUE)
    /\ UNCHANGED <<clock, accepted, running, current, cancelling, orphaned,
                   ctxDone, task, batchErr, purging>>

\* wg.Wait returns and the joined error goes to the loop.
RunOnceReturns(l) ==
    /\ phase[l] = "batch"
    /\ \A e \in Events : task[l][e].pc = "none"
    /\ RecordLoop(l, batchErr[l])
    /\ batchErr' = [batchErr EXCEPT ![l] = FALSE]
    /\ UNCHANGED <<clock, storeVars, running, current, cancelling, orphaned,
                   ctxDone, task, purging, spent>>

\* The loop ends; cancelling its context once more would do nothing.
LoopExits(l) ==
    /\ phase[l] = "wait"
    /\ ctxDone[l]
    /\ phase' = [phase EXCEPT ![l] = "off"]
    /\ cancelling' = cancelling \ {l}
    /\ UNCHANGED <<clock, storeVars, running, current, orphaned, failures,
                   ctxDone, readNow, task, batchErr, purging, spent>>

---------------------------------------------------------------------------
(* The goroutine of one record: process *)

SlotsTaken(l) ==
    Cardinality({e \in Events : task[l][e].pc \notin {"none", "queued"}})

\* The deadline of publishCtx; only a Timely broker heeds it.
Deadline == IF Timely THEN clock + PublishTimeout ELSE 0

\* Mutant: the semaphore is one slot short.
Acquire_OneShort(l, e) ==
    /\ task[l][e].pc = "queued"
    /\ SlotsTaken(l) + 1 < Concurrency
    /\ task' = [task EXCEPT ![l][e].pc = "publishing",
                            ![l][e].deadline = Deadline]
    /\ UNCHANGED <<clock, storeVars, ctlVars, phase, ctxDone, readNow,
                   batchErr, purging, spent>>

\* sem <- struct{}{}, then the test for an attempt beyond the maximum.
Acquire(l, e) ==
    /\ task[l][e].pc = "queued"
    /\ SlotsTaken(l) < Concurrency
    /\ task' = [task EXCEPT ![l][e] =
         IF @.attempts > MaxAttempts
         THEN [@ EXCEPT !.pc = "exhausted"]
         ELSE [@ EXCEPT !.pc = "publishing",
                        !.deadline = Deadline]]
    /\ UNCHANGED <<clock, storeVars, ctlVars, phase, ctxDone, readNow,
                   batchErr, purging, spent>>

\* The goroutine sees ctx.Done() before it gets a slot.
Abandon(l, e) ==
    /\ task[l][e].pc = "queued"
    /\ ctxDone[l]
    /\ task' = [task EXCEPT ![l][e] = NoTask]
    /\ batchErr' = [batchErr EXCEPT ![l] = TRUE]
    /\ UNCHANGED <<clock, storeVars, ctlVars, phase, ctxDone, readNow,
                   purging, spent>>

Returned(l, e, pc) ==
    task' = [task EXCEPT ![l][e] = [@ EXCEPT !.pc = pc, !.deadline = 0]]

\* Mutant: recover() swallows the panic and safePublish returns nil.
Publish_PanicIsSuccess(l, e) ==
    /\ task[l][e].pc = "publishing"
    /\ Returned(l, e, "ok")
    /\ UNCHANGED <<clock, storeVars, ctlVars, phase, ctxDone, readNow,
                   batchErr, purging, spent>>

\* safePublish: the broker takes the event and says so; takes it and the
\* call still errs (lost answer, deadline, panic); or does not take it.
Publish(l, e) ==
    /\ task[l][e].pc = "publishing"
    /\ \/ /\ accepted' = [accepted EXCEPT ![e] = @ \cup {task[l][e].attempts}]
          /\ \E pc \in {"ok", "fail"} : Returned(l, e, pc)
       \/ /\ Returned(l, e, "fail")
          /\ UNCHANGED accepted
    /\ UNCHANGED <<clock, records, ctlVars, phase, ctxDone, readNow,
                   batchErr, purging, spent>>

\* backoff: doubled for each attempt, capped, and jittered under the cap.
Backoff(attempt) ==
    LET exponent == Least(IF attempt < 1 THEN 0 ELSE attempt - 1, 30)
        delay == Least(RetryBase * 2^exponent, RetryMax)
    IN  {t \in 0..RetryMax : /\ delay * (100 - RetryJitter) <= 100 * t
                             /\ 100 * t <= delay * (100 + RetryJitter)}

\* Mutant: the attempt about to be made is counted as made.
Outcomes_OffByOne(l, e) ==
    LET owner == OwnerOf(l)
        t == task[l][e]
    IN  CASE t.pc = "ok" -> {MarkPublished(records, e, owner, t.sentAt)}
          [] t.pc = "fail" /\ t.attempts + 1 < MaxAttempts ->
                {Retry(records, e, owner, t.sentAt + b) :
                    b \in Backoff(t.attempts)}
          [] OTHER -> {DeadLetter(records, e, owner)}

\* What the store holds after the task has reported its outcome.
Outcomes(l, e) ==
    LET owner == OwnerOf(l)
        t == task[l][e]
    IN  CASE t.pc = "ok" -> {MarkPublished(records, e, owner, t.sentAt)}
          [] t.pc = "fail" /\ t.attempts < MaxAttempts ->
                {Retry(records, e, owner, t.sentAt + b) :
                    b \in Backoff(t.attempts)}
          [] OTHER -> {DeadLetter(records, e, owner)}

HasOutcome(l, e) == task[l][e].pc \in {"ok", "fail", "exhausted"}

\* The task reads the clock and calls the store, which looks at the context
\* before it touches the row.
Report(l, e) ==
    /\ HasOutcome(l, e)
    /\ task[l][e].sentAt = 0
    /\ ~ctxDone[l]
    /\ task' = [task EXCEPT ![l][e].sentAt = Now(DispatcherOf(l))]
    /\ UNCHANGED <<clock, storeVars, ctlVars, phase, ctxDone, readNow,
                   batchErr, purging, spent>>

\* The row is updated, whatever became of the context since; a lease lost is
\* an error of the batch, and so is an update whose answer got lost or was
\* given up by the driver of a cancelled call.
Settle(l, e) ==
    /\ HasOutcome(l, e)
    /\ task[l][e].sentAt > 0
    /\ records' \in Outcomes(l, e)
    /\ \/ /\ batchErr' = [batchErr EXCEPT ![l] =
                            @ \/ ~Owns(records, e, OwnerOf(l))]
          /\ UNCHANGED spent
       \/ /\ batchErr' = [batchErr EXCEPT ![l] = TRUE]
          /\ \/ Fault
             \/ Backend = "gorm" /\ ctxDone[l] /\ UNCHANGED spent
    /\ task' = [task EXCEPT ![l][e] = NoTask]
    /\ UNCHANGED <<clock, accepted, ctlVars, phase, ctxDone, readNow, purging>>

\* The row is not updated: the store, or the driver of a call under way, saw
\* the context cancelled, or the database errs.
SettleFails(l, e) ==
    /\ HasOutcome(l, e)
    /\ \/ /\ ctxDone[l]
          /\ task[l][e].sentAt = 0 \/ Backend = "gorm"
          /\ UNCHANGED spent
       \/ task[l][e].sentAt > 0 /\ Fault
    /\ batchErr' = [batchErr EXCEPT ![l] = TRUE]
    /\ task' = [task EXCEPT ![l][e] = NoTask]
    /\ UNCHANGED <<clock, storeVars, ctlVars, phase, ctxDone, readNow,
                   purging>>

---------------------------------------------------------------------------
(* PurgePublished *)

\* GORM selects the IDs in one statement (where published_at ties, any of
\* them; the model takes the order of the memory store) ...
PurgeSelect(p) ==
    /\ Backend = "gorm"
    /\ purging[p] = {}
    /\ purging' = [purging EXCEPT ![p] = PurgeBatch(records, clock, PurgeLimit)]
    /\ UNCHANGED <<clock, storeVars, ctlVars, loopVars, spent>>

\* ... and deletes them in another.
PurgeDelete(p) ==
    /\ purging[p] # {}
    /\ records' = Delete(records, purging[p])
    /\ purging' = [purging EXCEPT ![p] = {}]
    /\ UNCHANGED <<clock, accepted, ctlVars, loopVars, spent>>

\* The memory store does both under its mutex.
PurgeMemory(p) ==
    /\ Backend = "memory"
    /\ records' = Delete(records, PurgeBatch(records, clock, PurgeLimit))
    /\ UNCHANGED <<clock, accepted, ctlVars, loopVars, purging, spent>>

---------------------------------------------------------------------------
(* Time *)

\* With Timely, the steps of a loop and its store calls take no time, a
\* broker returns by the deadline of its context, the ticker is on time and
\* a dispatcher that is down is started before the next tick.
Prompt ==
    /\ \A d \in Dispatchers : running[d]
    /\ cancelling = {}
    /\ \A l \in Loops :
       /\ phase[l] \notin {"poll", "claim"}
       /\ phase[l] = "wait" => readNow[l] = Now(DispatcherOf(l))
       /\ phase[l] = "batch" => \E e \in Events : task[l][e].pc # "none"
       /\ \A e \in Events :
            /\ task[l][e].pc \in {"none", "queued", "publishing"}
            /\ task[l][e].pc = "queued" => SlotsTaken(l) >= Concurrency
            /\ task[l][e].pc = "publishing" => clock < task[l][e].deadline

Tick ==
    /\ clock < MaxClock
    /\ Timely => Prompt
    /\ clock' = clock + 1
    /\ UNCHANGED <<storeVars, ctlVars, loopVars, purging, spent>>

---------------------------------------------------------------------------

LoopStep(l) ==
    \/ RunOnce(l) \/ ClaimOK(l) \/ RunOnceReturns(l) \/ LoopExits(l)

TaskStep(l, e) ==
    \/ Acquire(l, e) \/ Abandon(l, e) \/ Publish(l, e)
    \/ Report(l, e) \/ Settle(l, e)

Next ==
    \/ \E e \in Events : Enqueue(e)
    \/ \E d \in Dispatchers : Start(d) \/ Shutdown(d) \/ ParentCancel(d)
                                \/ Crash(d)
    \/ \E l \in Loops : ShutdownCancels(l) \/ LoopStep(l) \/ ClaimFails(l)
    \/ \E l \in Loops, e \in Events : TaskStep(l, e) \/ SettleFails(l, e)
    \/ \E p \in Purgers : PurgeSelect(p) \/ PurgeDelete(p) \/ PurgeMemory(p)
    \/ Tick

Spec == Init /\ [][Next]_vars

---------------------------------------------------------------------------
(* Properties *)

Settled(e) == records[e].status \in {"published", "dead-letter"}

\* A row says "published" only if the broker took the event since the row
\* was inserted: MarkPublished never vouches for a delivery of another
\* worker's attempt, of another batch or of an earlier row with the same ID.
PublishedWasAccepted ==
    \A e \in Events : records[e].status = "published" => accepted[e] # {}

\* A row is dead-lettered only after MaxAttempts claims of it, however its
\* workers crashed, lost their lease or were cancelled in between.
DeadLetterExhausted ==
    \A e \in Events :
        records[e].status = "dead-letter" => records[e].attempts >= MaxAttempts

\* The broker never sees one event twice with the same DeliveryAttempt, and
\* none beyond MaxAttempts: a task only publishes an attempt that is its own.
\* (Without purges: a purged ID may be enqueued again and starts at one.)
FreshDeliveryAttempt ==
    \A l \in Loops, e \in Events :
        /\ accepted[e] \subseteq 1..MaxAttempts
        /\ task[l][e].pc = "publishing" => task[l][e].attempts \notin accepted[e]

\* A report to the store changes a row only for the claim the reporting task
\* was started by: the owner test of updateOwned turns away every worker
\* whose record has been claimed again (ErrLeaseLost).  This needs worker IDs
\* that no two loops share: the test cannot tell the loop a Shutdown left
\* behind from the one a later Start put next to it.
StaleWorkerFenced ==
    [][\A l \in Loops, e \in Events :
          (/\ task[l][e].pc # "none"
           /\ task'[l][e].pc = "none"
           /\ records'[e] # records[e])
          => records[e].attempts = task[l][e].attempts]_vars

\* No late report, claim or insert reopens a row that was published or
\* dead-lettered; the only change left is the deletion of a published row.
SettledIsFinal ==
    [][\A e \in Events :
          Settled(e) => \/ records'[e] = records[e]
                        \/ /\ records[e].status = "published"
                           /\ records'[e] = NoRow]_vars

\* PurgePublished never takes away a row that is not published.
OnlyPublishedIsPurged ==
    [][\A e \in Events :
          (Exists(records, e) /\ records'[e] = NoRow)
          => records[e].status = "published"]_vars

\* A lease outlasts the local queue: no record's lease expires while its
\* task still waits for a slot of the semaphore (validateDispatcherConfig).
QueuedKeepsLease ==
    \A l \in Loops, e \in Events :
        (/\ task[l][e].pc = "queued"
         /\ Owns(records, e, OwnerOf(l)))
        => Now(DispatcherOf(l)) < records[e].leaseUntil

\* At most one broker call per event is under way and not yet due, even with
\* the shortest lease the configuration check accepts: there the claim that
\* takes the row over (lease_until <= now) may come at the very instant at
\* which the call of the previous holder runs into its deadline.
OnePublisher ==
    \A e \in Events :
        Cardinality({l \in Loops : /\ task[l][e].pc = "publishing"
                                   /\ clock < task[l][e].deadline}) <= 1

\* A dispatcher that Health reports as running has a loop that nobody has told
\* to stop, however Shutdowns and Starts overlap: the late cancel of a
\* Shutdown never hits the loop of a Start that came in between.  The one
\* exception is a caller that cancels the context it gave to Start, of which
\* Health knows nothing.
HealthMeansLoopAlive ==
    \A d \in Dispatchers :
        (/\ running[d]
         /\ failures[d] < HealthFailureThreshold
         /\ d \notin orphaned)
        => LET l == <<d, current[d]>> IN phase[l] # "off" /\ ~ctxDone[l]

---------------------------------------------------------------------------
(* Why the fencing holds *)

\* No two loops work under one worker ID: the processes were configured with
\* different ones, and Start is called again only after a Shutdown that
\* returned nil, when the loop has ended.
DistinctWorkerIDs == \A l, m \in Loops : OwnerOf(l) = OwnerOf(m) => l = m

\* No two callers of PurgePublished overlap.
OnePurger == \A p, q \in Purgers : p = q

\* RunOnce waits for its goroutines: outside a batch there are none.
TasksInBatch ==
    \A l \in Loops, e \in Events :
        task[l][e].pc # "none" => phase[l] = "batch"

\* A task whose worker ID is on the row is the task of the row's last claim,
\* and if it says "ok" the broker took that attempt.
TaskHoldsItsClaim ==
    \A l \in Loops, e \in Events :
        (/\ task[l][e].pc # "none"
         /\ Owns(records, e, OwnerOf(l)))
        => /\ task[l][e].attempts = records[e].attempts
           /\ task[l][e].pc = "ok" => accepted[e] # {}
           /\ task[l][e].pc = "exhausted" => task[l][e].attempts > MaxAttempts

\* The inductive invariant behind PublishedWasAccepted, DeadLetterExhausted
\* and StaleWorkerFenced where no two loops share a worker ID.
FencingInv ==
    /\ TasksInBatch
    /\ TaskHoldsItsClaim
    /\ PublishedWasAccepted
    /\ DeadLetterExhausted

\* What a purger has selected is still published when it deletes; only the
\* GORM store selects first.
PurgeInv ==
    \A p \in Purgers :
        /\ \A e \in purging[p] : records[e].status = "published"
        /\ purging[p] # {} => Backend = "gorm"

\* What the status of a row says about its event in the delivery contract.
Owed(status) ==
    CASE status = "absent" -> "none"
      [] status \in {"pending", "in-flight"} -> "owed"
      [] status = "published" -> "delivered"
      [] OTHER -> "abandoned"

AbsState == [e \in Events |-> Owed(records[e].status)]

AbsTaken == [e \in Events |-> accepted[e] # {}]

Delivery == INSTANCE OutboxDelivery WITH state <- AbsState, taken <- AbsTaken

\* An owed event is never lost: every step of every worker, purger or
\* producer is a step the delivery contract allows, or changes nothing in it.
DeliveryContract == Delivery!Spec

---------------------------------------------------------------------------
(* Liveness *)

\* Fairness: goroutines are scheduled, the ticker fires, time passes and a
\* dispatcher that went down is started again by its supervisor.
Fairness ==
    /\ \A l \in Loops : WF_vars(LoopStep(l) \/ ShutdownCancels(l))
    /\ \A l \in Loops, e \in Events :
          WF_vars(TaskStep(l, e) \/ SettleFails(l, e))
    /\ \A d \in Dispatchers : WF_vars(Start(d))
    /\ WF_vars(Tick)

FairSpec == Spec /\ Fairness

\* Every event that is enqueued ends up published or dead-lettered, whatever
\* the broker answers and wherever the faults strike.
EventuallySettled ==
    \A e \in Events : Exists(records, e) ~> Settled(e)
=============================================================================
