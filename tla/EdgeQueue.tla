----------------------------- MODULE EdgeQueue -----------------------------
(***************************************************************************)
(* The outbound queue of an edge program and the thread that uploads it:   *)
(* poller/outbound_queue.py and poller/uploader.py, or, with Parks = FALSE,*)
(* their elder sisters in syslog/, which know no quarantine.  Producers    *)
(* enqueue under a lock, the uploader takes the lock for each statement    *)
(* but not for the request: rows come and are trimmed while a batch is on  *)
(* its way.  The rows are on disk, what the uploader counts is not.        *)
(***************************************************************************)
EXTENDS Naturals, Sequences, FiniteSets

CONSTANTS
    Limit,          \* upload_batch_size
    PeriodicCap,    \* MAX_PERIODIC_ROWS
    OtherCap,       \* MAX_OTHER_ROWS
    ParkedCap,      \* MAX_QUARANTINE_ROWS
    MaxRefusals,    \* MAX_4XX_ATTEMPTS
    Parks,          \* does the uploader quarantine what is refused?
    MaxRows,        \* bound on the messages enqueued
    MaxFailures     \* bound on requests that fail and on restarts

ASSUME LimitAssumption == Limit \in Nat \ {0} /\ MaxRefusals \in Nat \ {0}
ASSUME CapAssumption == {PeriodicCap, OtherCap, ParkedCap} \subseteq Nat
ASSUME ParksAssumption == Parks \in BOOLEAN
ASSUME BoundAssumption == MaxRows \in Nat /\ MaxFailures \in Nat

\* A bad message is one that the backend's schema refuses, and with it the
\* whole request; "other" stands for transitions and heartbeats.
Message == [kind : {"periodic", "other"}, bad : BOOLEAN]

VARIABLES
    made,       \* history: the messages enqueued; the n-th has row id n
    pending,    \* ids of rows in state 'pending'
    parked,     \* ids of rows in state 'quarantined'
    upc,        \* where the uploader is
    batch,      \* the ids it has taken
    response,   \* what became of its request
    refusals,   \* _batch_attempts: refusals so far of each batch refused
    late,       \* requests the uploader has given up, as far as the backend
                \* may still handle them
    offered,    \* history: messages of requests the backend has begun to handle
    received,   \* history: messages the backend has committed
    rejected,   \* history: messages listed as rejected in a 2xx
    trimmed,    \* history: pending rows deleted by _trim
    discarded,  \* history: quarantined rows deleted by _trim
    refused,    \* history: how often a request with the message was refused,
                \* counted up to MaxRefusals
    failures    \* history: requests that failed, and restarts

queueVars == <<made, pending, parked, trimmed, discarded>>
uploaderVars == <<upc, batch, response, refusals>>
cloudVars == <<late, offered, received, rejected, refused>>
vars == <<queueVars, uploaderVars, cloudVars, failures>>

-----------------------------------------------------------------------------
(* The table.                                                              *)

Newest(rows, k) == {n \in rows : Cardinality({m \in rows : m > n}) < k}
Periodic(rows) == {n \in rows : made'[n].kind = "periodic"}

\* Mutant of Oldest: ORDER BY ... DESC.
OldestLast(rows, k) == Newest(rows, k)

\* ORDER BY enqueued_at ASC LIMIT k.
Oldest(rows, k) == {n \in rows : Cardinality({m \in rows : m < n}) < k}

\* Mutant of Kept: one cap for all kinds.
KeptOfAll(rows) == Newest(rows, PeriodicCap + OtherCap)

\* What _trim leaves of the pending rows: the newest of each of two classes.
Kept(rows) == Newest(Periodic(rows), PeriodicCap)
                \cup Newest(rows \ Periodic(rows), OtherCap)

\* _trim, once the statement before it has left these rows.
Trim(left, leftParked) ==
    /\ pending' = Kept(left)
    /\ trimmed' = trimmed \cup (left \ Kept(left))
    /\ parked' = Newest(leftParked, ParkedCap)
    /\ discarded' = discarded \cup (leftParked \ Newest(leftParked, ParkedCap))

\* A message is enqueued.  enqueue_many inserts several under one lock and
\* trims once, which leaves the same rows.
Enqueue ==
    /\ Len(made) < MaxRows
    /\ \E m \in Message : made' = Append(made, m)
    /\ Trim(pending \cup {Len(made) + 1}, parked)
    /\ UNCHANGED <<uploaderVars, cloudVars, failures>>

-----------------------------------------------------------------------------
(* The uploader.                                                           *)

Take ==
    /\ upc = "take"
    /\ pending # {}
    /\ batch' = Oldest(pending, Limit)
    /\ upc' = "send"
    /\ UNCHANGED <<queueVars, response, refusals, cloudVars, failures>>

Bad(rows) == {n \in rows : made[n].bad}
CanFail == failures < MaxFailures
Refuse == /\ response' = "refused"
          /\ refused' = [n \in DOMAIN refused |->
                            IF n \in batch /\ refused[n] < MaxRefusals
                            THEN refused[n] + 1 ELSE refused[n]]
          /\ UNCHANGED <<late, offered, received, rejected>>

\* The schema accepts the request: the backend begins with its messages, each
\* in a transaction of its own, in their order.
Offer == Bad(batch) = {} /\ offered' = offered \cup batch

\* The uploader is without an answer while the backend is at it.
Unanswered == Offer /\ late' = Append(late, batch) /\ UNCHANGED <<received, rejected, refused>>

\* The request, and what the backend makes of it.
Send ==
    /\ upc = "send"
    /\ upc' = "answer"
    /\ \/ \* 4xx, for a message in it that the schema refuses
          Bad(batch) # {} /\ Refuse /\ UNCHANGED failures
       \/ \* 2xx, all accepted
          /\ Offer
          /\ received' = received \cup batch
          /\ response' = "ok"
          /\ UNCHANGED <<late, rejected, refused, failures>>
       \/ /\ CanFail
          /\ failures' = failures + 1
          /\ \/ \* 4xx, for another reason: a wrong URL, say
                Refuse
             \/ \* 5xx, 429, no connection: the backend does not begin
                response' = "failed" /\ UNCHANGED cloudVars
             \/ \* timeout, lost answer, or the worker dies in the middle
                response' = "failed" /\ Unanswered
             \/ \* 2xx, some messages rejected
                \E part \in SUBSET batch \ {{}} :
                    /\ Offer
                    /\ rejected' = rejected \cup part
                    /\ received' = received \cup (batch \ part)
                    /\ response' = "ok"
                    /\ UNCHANGED <<late, refused>>
    /\ UNCHANGED <<queueVars, batch, refusals>>

\* The backend commits a message of a request that was given up, at once or
\* after the uploader has sent it again.  Those before it that are not
\* committed yet were rejected; those after it may never be.
HandleLate ==
    /\ \E i \in DOMAIN late : \E n \in late[i] :
          /\ received' = received \cup {n}
          /\ late' = [late EXCEPT ![i] = {m \in @ : m > n}]
    /\ UNCHANGED <<queueVars, uploaderVars, offered, rejected, refused, failures>>

Done == upc' = "take" /\ batch' = {} /\ response' = "none"

\* Mutant of Ack: as many rows as were sent are deleted from the head.
AckHead ==
    /\ upc = "answer" /\ response = "ok"
    /\ pending' = pending \ Oldest(pending, Cardinality(batch))
    /\ refusals' = <<>>
    /\ Done
    /\ UNCHANGED <<made, parked, trimmed, discarded, cloudVars, failures>>

\* 2xx: the rows of the batch are deleted, rejected or not.
Ack ==
    /\ upc = "answer" /\ response = "ok"
    /\ pending' = pending \ batch
    /\ refusals' = <<>>
    /\ Done
    /\ UNCHANGED <<made, parked, trimmed, discarded, cloudVars, failures>>

\* Mutant of Count: the key is made anew each time.
CountAnew == 1

\* Refusals of this batch, the last one included.
Count == 1 + IF batch \in DOMAIN refusals THEN refusals[batch] ELSE 0

\* Mutant of Enough: the first refusal is not counted as one.
EnoughAtOnce == Parks /\ response = "refused" /\ Count + 1 >= MaxRefusals

Enough == Parks /\ response = "refused" /\ Count >= MaxRefusals

\* A batch that was not accepted stays, and is taken again after a while.
Retry ==
    /\ upc = "answer" /\ response # "ok" /\ ~Enough
    /\ refusals' = IF Parks /\ response = "refused"
                   THEN [b \in DOMAIN refusals \cup {batch} |->
                            IF b = batch THEN Count ELSE refusals[b]]
                   ELSE refusals
    /\ Done
    /\ UNCHANGED <<queueVars, cloudVars, failures>>

\* A batch refused often enough is parked: those of its rows that are there.
Park ==
    /\ upc = "answer" /\ Enough
    /\ UNCHANGED made
    /\ Trim(pending \ batch, parked \cup (pending \cap batch))
    /\ refusals' = [b \in DOMAIN refusals \ {batch} |-> refusals[b]]
    /\ Done
    /\ UNCHANGED <<cloudVars, failures>>

\* The process dies and is started again: what it had counted is lost, and a
\* request may be on its way.
Restart ==
    /\ CanFail
    /\ failures' = failures + 1
    /\ refusals' = <<>>
    /\ Done
    /\ UNCHANGED cloudVars \/ (upc = "send" /\ Unanswered)
    /\ UNCHANGED queueVars

-----------------------------------------------------------------------------
Init ==
    /\ made = <<>>
    /\ pending = {} /\ parked = {}
    /\ upc = "take" /\ batch = {} /\ response = "none"
    /\ refusals = <<>>
    /\ late = <<>> /\ offered = {}
    /\ received = {} /\ rejected = {}
    /\ trimmed = {} /\ discarded = {}
    /\ refused = [n \in 1..MaxRows |-> 0]
    /\ failures = 0

Upload == Take \/ Send \/ Ack \/ Retry \/ Park

\* The queue is empty and no more is enqueued: the uploader waits.
Idle == pending = {} /\ upc = "take" /\ Len(made) = MaxRows /\ UNCHANGED vars

Next == Enqueue \/ Upload \/ HandleLate \/ Restart \/ Idle

\* The uploader's loop never ends, and requests do, by a timeout if need be.
SafeSpec == Init /\ [][Next]_vars
Spec == SafeSpec /\ WF_vars(Upload)

-----------------------------------------------------------------------------
\* The types of the variables; the caps hold after every operation.
TypeOK ==
    LET ids == 1..Len(made) IN
    /\ made \in Seq(Message)
    /\ pending \subseteq ids /\ parked \subseteq ids
    /\ trimmed \subseteq ids /\ discarded \subseteq ids
    /\ received \subseteq ids /\ rejected \subseteq ids
    /\ offered \subseteq ids /\ late \in Seq(SUBSET (1..MaxRows))
    /\ upc \in {"take", "send", "answer"}
    /\ batch \subseteq ids /\ Cardinality(batch) <= Limit
    /\ response \in {"none", "ok", "failed", "refused"}
    /\ \A b \in DOMAIN refusals : b \subseteq ids /\ refusals[b] \in 1..(MaxRefusals - 1)
    /\ refused \in [1..MaxRows -> 0..MaxRefusals]
    /\ failures \in 0..MaxFailures
    /\ Cardinality({n \in pending : made[n].kind = "periodic"}) <= PeriodicCap
    /\ Cardinality({n \in pending : made[n].kind # "periodic"}) <= OtherCap
    /\ Cardinality(parked) <= ParkedCap

\* No message is lost but in the ways the code provides for: it is in the
\* queue, parked, handled by the backend, listed as rejected by it, or was
\* deleted because the queue was full.
Accounted ==
    \A n \in 1..Len(made) :
        n \in pending \cup parked \cup received \cup rejected
                 \cup trimmed \cup discarded

\* Messages are put before the backend in the order in which they were
\* enqueued: what is overtaken was in the same request, or in an earlier one,
\* also after lost answers, refusals, trimming and restarts.  Within a request
\* the backend may reject one message and commit the next; if the answer is
\* then lost, the one is committed after the other.
OldestFirst ==
    \A a, b \in pending : a < b /\ b \in offered => a \in offered

\* Only what was refused often enough is parked.
ParkedWasRefused == \A n \in parked \cup discarded : refused[n] >= MaxRefusals

\* A flood of periodic messages pushes out no transition: a pending row is
\* deleted only for newer ones of its own class.
OnlyOwnClassEvicts ==
    \A n \in trimmed :
        LET newer == {m \in (n + 1)..Len(made) : made[m].kind = made[n].kind}
        IN  Cardinality(newer) >= IF made[n].kind = "periodic"
                                  THEN PeriodicCap ELSE OtherCap

\* A refused batch does not hold back the rest for ever: every row leaves the
\* head of the queue, whatever is in it.
EverythingLeaves == \A n \in 1..MaxRows : n \in pending ~> n \notin pending

\* What the producers rely on: the queue keeps a message until the backend has
\* answered for it, through lost answers, refusals, trimming and restarts; it
\* sends the oldest first, and nothing again that was acknowledged.
Promise == INSTANCE AtLeastOnce WITH
    accepted <- Len(made), kept <- pending, arrived <- received \cup rejected,
    givenUp <- trimmed \cup parked \cup discarded

ImplementsAtLeastOnce == Promise!Spec

============================================================================
