---------------------------- MODULE OutboxRelay ----------------------------
(***************************************************************************)
(* The relay between table event_outbox and Redis pub/sub                  *)
(* (backend/app/lib/outbox_poller.py).  Every worker process of the        *)
(* backend runs a poller of its own: it locks the oldest unpublished rows, *)
(* publishes each on the channel of its property, marks it, and commits.   *)
(* Publishing is not part of the transaction: what a poller published and  *)
(* then rolled back is published again.                                    *)
(***************************************************************************)
EXTENDS Naturals, FiniteSets

CONSTANTS
    Rows,           \* rows of table event_outbox
    Pollers,        \* one per worker process
    Limit,          \* LIMIT of the poll query (50 in the code)
    MaxFailures     \* bound on failed polls and crashes of workers

ASSUME RowsAssumption == IsFiniteSet(Rows)
ASSUME LimitAssumption == Limit \in Nat \ {0}
ASSUME FailuresAssumption == MaxFailures \in Nat

VARIABLES
    row,        \* row[r]: the transaction that inserts r
    clock,      \* the database's clock, as far as enqueued_at shows it
    enqueuedAt, \* enqueued_at: DEFAULT NOW(), the start of the transaction
    published,  \* rows with published_at set, committed
    ppc,        \* ppc[p]: where poller p is
    batch,      \* batch[p]: rows p has locked and not yet marked
    marked,     \* marked[p]: rows p has marked in its transaction
    times,      \* history: how often each row went out on Redis
    failures    \* history: failed polls and crashes so far

writerVars == <<row, clock, enqueuedAt>>
pollerVars == <<published, ppc, batch, marked, times, failures>>
vars == <<writerVars, pollerVars>>

-----------------------------------------------------------------------------
(* Who writes the rows: the transactions of Ingestor and of auto-fix.      *)

\* INSERT INTO event_outbox.  Rows of one transaction share enqueued_at.
Insert(r) ==
    /\ row[r] = "none"
    /\ row' = [row EXCEPT ![r] = "open"]
    /\ \E now \in {clock, clock + 1} :
        clock' = now /\ enqueuedAt' = [enqueuedAt EXCEPT ![r] = now]
    /\ UNCHANGED pollerVars

\* The transaction commits, or rolls back and the row never was.
EndOfInsert(r) ==
    /\ row[r] = "open"
    /\ \E outcome \in {"committed", "rolled back"} :
        row' = [row EXCEPT ![r] = outcome]
    /\ UNCHANGED <<clock, enqueuedAt, pollerVars>>

-----------------------------------------------------------------------------
(* The poller of one worker.                                               *)

Held(p) == batch[p] \cup marked[p]

\* Mutants of Unlocked: FOR UPDATE SKIP LOCKED is missing; the query does
\* not wait for a commit.
UnlockedByNobody == {r \in Rows : row[r] = "committed" /\ r \notin published}
UnlockedDirty ==
    {r \in Rows : /\ row[r] \in {"open", "committed"} /\ r \notin published
                  /\ \A p \in Pollers : r \notin Held(p)}

\* WHERE published_at IS NULL ... FOR UPDATE SKIP LOCKED.
Unlocked ==
    {r \in Rows : /\ row[r] = "committed" /\ r \notin published
                  /\ \A p \in Pollers : r \notin Held(p)}

\* Mutant of IsFirst: no LIMIT.
IsFirstOfAll(b) == b = Unlocked

\* ORDER BY enqueued_at LIMIT: the rows a poll may return, as many as it can.
IsFirst(b) ==
    /\ b \subseteq Unlocked
    /\ Cardinality(b) <= Limit
    /\ Cardinality(b) < Limit => b = Unlocked
    /\ \A r \in b, s \in Unlocked \ b : enqueuedAt[r] <= enqueuedAt[s]

\* _poll_once opens its transaction and selects; with no rows it returns.
Poll(p) ==
    /\ ppc[p] = "poll"
    /\ \E b \in SUBSET Unlocked :
        /\ IsFirst(b)
        /\ batch' = [batch EXCEPT ![p] = b]
        /\ ppc' = [ppc EXCEPT ![p] = IF b = {} THEN "poll" ELSE "publish"]
    /\ UNCHANGED <<writerVars, published, marked, times, failures>>

\* Mutant of Publish: an error of redis.publish is caught and the row is
\* marked all the same.
PublishOrNot(p) ==
    /\ ppc[p] = "publish"
    /\ \E r \in batch[p] :
        /\ times' = times \/ times' = [times EXCEPT ![r] = @ + 1]
        /\ batch' = [batch EXCEPT ![p] = @ \ {r}]
        /\ marked' = [marked EXCEPT ![p] = @ \cup {r}]
    /\ ppc' = [ppc EXCEPT ![p] = IF batch'[p] = {} THEN "commit" ELSE "publish"]
    /\ UNCHANGED <<writerVars, published, failures>>

\* redis.publish of the next row, in the order of the query, and the UPDATE
\* that marks it; the mark is seen by others once the transaction commits.
Publish(p) ==
    /\ ppc[p] = "publish"
    /\ \E r \in batch[p] :
        /\ \A s \in batch[p] : enqueuedAt[r] <= enqueuedAt[s]
        /\ times' = [times EXCEPT ![r] = @ + 1]
        /\ batch' = [batch EXCEPT ![p] = @ \ {r}]
        /\ marked' = [marked EXCEPT ![p] = @ \cup {r}]
    /\ ppc' = [ppc EXCEPT ![p] = IF batch'[p] = {} THEN "commit" ELSE "publish"]
    /\ UNCHANGED <<writerVars, published, failures>>

Commit(p) ==
    /\ ppc[p] = "commit"
    /\ published' = published \cup marked[p]
    /\ marked' = [marked EXCEPT ![p] = {}]
    /\ ppc' = [ppc EXCEPT ![p] = "poll"]
    /\ UNCHANGED <<writerVars, batch, times, failures>>

\* Mutant of Fail: an error leaves the transaction open, locks and all.
FailLeavingLocks(p) ==
    /\ ppc[p] \in {"publish", "commit"}
    /\ failures < MaxFailures
    /\ failures' = failures + 1
    /\ ppc' = [ppc EXCEPT ![p] = "poll"]
    /\ UNCHANGED <<writerVars, published, batch, marked, times>>

\* The transaction of p is over; unless it was committed, no row is marked.
Abandon(p) ==
    /\ failures < MaxFailures
    /\ failures' = failures + 1
    /\ batch' = [batch EXCEPT ![p] = {}]
    /\ marked' = [marked EXCEPT ![p] = {}]
    /\ \/ UNCHANGED published
       \/ ppc[p] = "commit" /\ published' = published \cup marked[p]

\* Redis or the database raises, or the reply to COMMIT is lost: the loop of
\* run_outbox_poller logs the error and polls again.
Fail(p) ==
    /\ ppc[p] \in {"publish", "commit"}
    /\ Abandon(p)
    /\ ppc' = [ppc EXCEPT ![p] = "poll"]
    /\ UNCHANGED <<writerVars, times>>

\* The worker process dies or is told to stop (lifespan cancels the poller).
Crash(p) ==
    /\ ppc[p] # "dead"
    /\ Abandon(p)
    /\ ppc' = [ppc EXCEPT ![p] = "dead"]
    /\ UNCHANGED <<writerVars, times>>

\* A new worker process starts its poller.
Restart(p) ==
    /\ ppc[p] = "dead"
    /\ ppc' = [ppc EXCEPT ![p] = "poll"]
    /\ UNCHANGED <<writerVars, published, batch, marked, times, failures>>

Work(p) == Poll(p) \/ Publish(p) \/ Commit(p) \/ Restart(p)

-----------------------------------------------------------------------------
Init ==
    /\ row = [r \in Rows |-> "none"]
    /\ clock = 0
    /\ enqueuedAt = [r \in Rows |-> 0]
    /\ published = {}
    /\ ppc = [p \in Pollers |-> "poll"]
    /\ batch = [p \in Pollers |-> {}]
    /\ marked = [p \in Pollers |-> {}]
    /\ times = [r \in Rows |-> 0]
    /\ failures = 0

Next ==
    \/ \E r \in Rows : Insert(r) \/ EndOfInsert(r)
    \/ \E p \in Pollers : Work(p) \/ Fail(p) \/ Crash(p)

\* A poller polls for ever and a dead worker is started again; writers owe
\* nothing.  Failures are finitely many: MaxFailures.
SafeSpec == Init /\ [][Next]_vars
Spec == SafeSpec /\ \A p \in Pollers : WF_vars(Work(p))

-----------------------------------------------------------------------------
\* The types of the variables; a poller never holds more than LIMIT rows.
TypeOK ==
    /\ row \in [Rows -> {"none", "open", "committed", "rolled back"}]
    /\ clock \in Nat
    /\ enqueuedAt \in [Rows -> Nat]
    /\ published \subseteq Rows
    /\ ppc \in [Pollers -> {"poll", "publish", "commit", "dead"}]
    /\ batch \in [Pollers -> SUBSET Rows]
    /\ marked \in [Pollers -> SUBSET Rows]
    /\ times \in [Rows -> Nat]
    /\ failures \in 0..MaxFailures
    /\ \A p \in Pollers : Cardinality(Held(p)) <= Limit

\* Several pollers never make a duplicate: a row goes out once, and once more
\* at most for every failed poll or crash.
OncePerFailure == \A r \in Rows : times[r] <= 1 + failures

\* published_at tells the truth: the row has gone out, it was committed, and
\* nobody will send it again.
PublishedIsOver ==
    \A r \in published : /\ times[r] > 0 /\ row[r] = "committed"
                         /\ \A p \in Pollers : r \notin Held(p)

\* The relay implements at-least-once delivery of what was committed.
Delivery == INSTANCE EventDelivery WITH
    Events <- Rows,
    recorded <- {r \in Rows : row[r] = "committed"},
    delivered <- {r \in Rows : times[r] > 0}

ImplementsDelivery == Delivery!Spec

\* No committed row stays unpublished for ever, and none is sent for ever.
EveryRowIsPublished == \A r \in Rows : row[r] = "committed" ~> r \in published

============================================================================
