---------------------------- MODULE OutboxStore ----------------------------
(***************************************************************************)
(* The outbox table: framework/event/outbox/{model,memory,gorm_store}.go.  *)
(*                                                                         *)
(* The module has no variables.  Its operators take the table, a function  *)
(* from event IDs to rows, and return the table a store call leaves        *)
(* behind.  Each call is one database transaction (GORM) or one critical   *)
(* section (memory), so the dispatcher applies one operator per step.      *)
(***************************************************************************)
EXTENDS Naturals, FiniteSets

CONSTANTS
    Events,     \* envelope IDs: naturals, since claims break ties by ID
    Owners,     \* worker IDs that may hold a lease
    NoOwner,    \* the empty lease_owner
    Backend     \* "gorm" or "memory": they order a claim differently

ASSUME StoreAssumption ==
    /\ Events \subseteq Nat
    /\ NoOwner \notin Owners
    /\ Backend \in {"gorm", "memory"}

Status == {"absent", "pending", "in-flight", "published", "dead-letter"}

\* A row.  leaseUntil = 0 stands for NULL, publishedAt = 0 for NULL.
Row == [status      : Status,
        attempts    : Nat,
        nextAt      : Nat,
        leaseOwner  : Owners \cup {NoOwner},
        leaseUntil  : Nat,
        createdAt   : Nat,
        publishedAt : Nat]

\* The ID has no row.
NoRow == [status |-> "absent", attempts |-> 0, nextAt |-> 0,
          leaseOwner |-> NoOwner, leaseUntil |-> 0, createdAt |-> 0,
          publishedAt |-> 0]

Exists(tbl, e) == tbl[e].status # "absent"

---------------------------------------------------------------------------
(* Enqueue and EnqueueTx *)

\* INSERT ... ON CONFLICT DO NOTHING; a second insert is ErrDuplicate and
\* leaves the row alone.
Insert(tbl, e, now) ==
    IF Exists(tbl, e)
    THEN tbl
    ELSE [tbl EXCEPT ![e] = [NoRow EXCEPT !.status = "pending",
                                          !.nextAt = now,
                                          !.createdAt = now]]

---------------------------------------------------------------------------
(* Claim *)

ReadyPending(tbl, e, now) ==
    tbl[e].status = "pending" /\ tbl[e].nextAt <= now

LeaseExpired(tbl, e, now) ==
    tbl[e].status = "in-flight" /\ tbl[e].leaseUntil <= now

\* Mutant: a claim that takes in-flight rows whatever their lease.
Eligible_IgnoresLease(tbl, now) ==
    {e \in Events : \/ ReadyPending(tbl, e, now)
                    \/ tbl[e].status = "in-flight"}

Eligible(tbl, now) ==
    {e \in Events : ReadyPending(tbl, e, now) \/ LeaseExpired(tbl, e, now)}

\* ORDER BY key, created_at, id.
Precedes(tbl, key, e, f) ==
    \/ key[e] < key[f]
    \/ /\ key[e] = key[f]
       /\ \/ tbl[e].createdAt < tbl[f].createdAt
          \/ tbl[e].createdAt = tbl[f].createdAt /\ e < f

\* GORM takes the expired leases first, by lease_until, and fills the batch
\* with pending rows by next_attempt_at; memory sorts both by NextAttemptAt.
ClaimsBefore(tbl, now, e, f) ==
    LET byNextAt == [x \in Events |-> tbl[x].nextAt]
        byLease == [x \in Events |-> tbl[x].leaseUntil]
        isExpired == LeaseExpired(tbl, e, now)
    IN  IF Backend = "gorm" /\ isExpired # LeaseExpired(tbl, f, now)
        THEN isExpired
        ELSE Precedes(tbl, IF Backend = "gorm" /\ isExpired
                           THEN byLease ELSE byNextAt, e, f)

\* The first `limit' eligible rows that no other transaction holds locked.
\* `locked' is empty unless the store was built WithSkipLocked.
ClaimBatch(tbl, now, limit, locked) ==
    LET free == Eligible(tbl, now) \ locked
    IN  {e \in free :
            Cardinality({f \in free : ClaimsBefore(tbl, now, f, e)}) < limit}

\* Mutant: a reclaimed row keeps the attempt number of the lost claim.
Claim_KeepsAttempts(tbl, batch, owner, now, lease) ==
    [e \in Events |->
        IF e \in batch
        THEN [tbl[e] EXCEPT !.status     = "in-flight",
                            !.attempts   = IF tbl[e].status = "pending"
                                           THEN @ + 1 ELSE @,
                            !.leaseOwner = owner,
                            !.leaseUntil = now + lease]
        ELSE tbl[e]]

\* UPDATE of every claimed row; the attempt counter goes up with the lease.
Claim(tbl, batch, owner, now, lease) ==
    [e \in Events |->
        IF e \in batch
        THEN [tbl[e] EXCEPT !.status     = "in-flight",
                            !.attempts   = @ + 1,
                            !.leaseOwner = owner,
                            !.leaseUntil = now + lease]
        ELSE tbl[e]]

---------------------------------------------------------------------------
(* MarkPublished, Retry and DeadLetter *)

\* The WHERE clause of updateOwned and the test of changeOwned.  Neither
\* looks at the attempt number nor at whether the lease has run out.
Owns(tbl, e, owner) ==
    /\ tbl[e].status = "in-flight"
    /\ tbl[e].leaseOwner = owner

\* Mutant: UPDATE ... WHERE id = ?
UpdateOwned_ByID(tbl, e, owner, row) ==
    [tbl EXCEPT ![e] = [row EXCEPT !.leaseOwner = NoOwner, !.leaseUntil = 0]]

\* ErrLeaseLost (or ErrNotFound) leaves the table alone.
UpdateOwned(tbl, e, owner, row) ==
    IF Owns(tbl, e, owner)
    THEN [tbl EXCEPT ![e] = [row EXCEPT !.leaseOwner = NoOwner,
                                        !.leaseUntil = 0]]
    ELSE tbl

MarkPublished(tbl, e, owner, at) ==
    UpdateOwned(tbl, e, owner,
                [tbl[e] EXCEPT !.status = "published", !.publishedAt = at])

Retry(tbl, e, owner, next) ==
    UpdateOwned(tbl, e, owner,
                [tbl[e] EXCEPT !.status = "pending", !.nextAt = next])

DeadLetter(tbl, e, owner) ==
    UpdateOwned(tbl, e, owner, [tbl[e] EXCEPT !.status = "dead-letter"])

---------------------------------------------------------------------------
(* PurgePublished *)

\* Mutant: rows are selected by age alone.
Purgeable_AnyStatus(tbl, before) ==
    {e \in Events : Exists(tbl, e) /\ tbl[e].publishedAt < before}

\* The SELECT of the GORM store and the scan of the memory store.
Purgeable(tbl, before) ==
    {e \in Events : /\ tbl[e].status = "published"
                    /\ tbl[e].publishedAt < before}

PurgesBefore(tbl, e, f) ==
    \/ tbl[e].publishedAt < tbl[f].publishedAt
    \/ tbl[e].publishedAt = tbl[f].publishedAt /\ e < f

PurgeBatch(tbl, before, limit) ==
    LET all == Purgeable(tbl, before)
    IN  {e \in all : Cardinality({f \in all : PurgesBefore(tbl, f, e)}) < limit}

\* The DELETE goes by ID alone.
Delete(tbl, ids) ==
    [e \in Events |-> IF e \in ids THEN NoRow ELSE tbl[e]]
=============================================================================
