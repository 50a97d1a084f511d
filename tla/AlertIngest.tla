---------------------------- MODULE AlertIngest ----------------------------
(***************************************************************************)
(* The write side of the backend: POST /v1/edge/ingest turns the messages  *)
(* of an edge box into device health, alerts and outbox rows               *)
(* (backend/app/lib/ingestor.py), while POST /v1/alerts/{id}/auto-fix      *)
(* (backend/app/routers/alerts.py) changes the same alerts.                *)
(*                                                                         *)
(* The database is PostgreSQL under READ COMMITTED: a statement sees what  *)
(* was committed when it started, and a row written by a transaction is    *)
(* locked until that transaction ends.  Each message of a batch is a       *)
(* transaction of its own; auto-fix runs every statement in autocommit.    *)
(* One action stands for one statement, or for several of which only the   *)
(* first meets state that other requests can write.                        *)
(***************************************************************************)
EXTENDS Naturals, FiniteSets

CONSTANTS
    Requests,   \* ingest requests: batches POSTed by edge boxes, retries too
    Fixes,      \* auto-fix requests
    Keys,       \* values of the Idempotency-Key header
    Devices,    \* device_id: one row each of table devices
    EdgeBox,    \* the row of table edge_boxes that edge_health writes
    Sent,       \* the values of health.status that edge boxes send
    MaxBatch,   \* bound on the messages of a batch (the schema allows 100)
    None        \* SQL NULL, and "no such value"

Status == {"healthy", "degraded", "unhealthy", "unknown"}

Problem == Status \ {"healthy"}
Open == {"opened", "triaged", "acting"}

\* A message takes its identity from its place: the i-th of request r.  The
\* alert a message creates is named after it, which makes the name fresh as
\* the code's uuid4 does.
MsgId == Requests \X (1..MaxBatch)
AlertId == MsgId

Msg == [kind : {"transition", "periodic"}, row : Devices, status : Sent]
         \cup [kind : {"edge_health"}, row : {EdgeBox}, status : {"unknown"}]

\* resolved_at and authorized stand for "resolved_at IS NOT NULL" and for
\* auto_fix_authorized; alert_kind is health_transition_to_<kind>.
Alert == [device : Devices, kind : Problem, state : Open \cup {"resolved"},
          resolved_at : BOOLEAN, authorized : BOOLEAN]

OutboxRow == [event : {"alert.opened", "alert.updated", "alert.state_changed",
                       "device.health_changed", "edge.heartbeat",
                       "auto_fix.dispatched"},
              alert : AlertId \cup {None},
              by : MsgId \cup Fixes]

ASSUME SentAssumption == Sent \subseteq Status
ASSUME BoundAssumption == MaxBatch \in Nat \ {0}
ASSUME RowAssumption == EdgeBox \notin Devices
ASSUME NoneAssumption ==
    /\ None \notin Alert \cup Msg \cup AlertId \cup Fixes
    /\ None \notin [alert : AlertId, key : Keys]
    /\ None \notin Status \cup {"202"}
ASSUME FixesAssumption == Fixes \cap MsgId = {}

VARIABLES
    pc,             \* pc[r]: where the handler of request r is
    pos,            \* pos[r]: the index of the message being handled
    msg,            \* msg[r]: that message
    prior,          \* prior[r]: the device's status before this transaction
    found,          \* found[r]: the alert rows its statement returned
    rejected,       \* rejected[r]: indexes answered as rejected
    status,         \* devices.health_status, committed
    alerts,         \* table alerts, committed
    outbox,         \* table event_outbox, committed
    fpc,            \* fpc[f]: where the handler of auto-fix request f is
    fix,            \* fix[f]: the alert and the key it names
    answer,         \* answer[f]: the status code it got
    cache,          \* Redis, idem:{key}: the request whose answer is kept
    lastTransition  \* history: status of the last transition committed

ingestVars == <<pc, pos, msg, prior, found, rejected, status, lastTransition>>
fixVars == <<fpc, fix, answer, cache>>
vars == <<ingestVars, alerts, outbox, fixVars>>

-----------------------------------------------------------------------------
(* Rows, locks and what a transaction writes.                              *)

\* The program points between BEGIN and the end of the transaction.
InTx == {"alerts", "commit"}

Id(r) == <<r, pos[r]>>

\* Mutants of RowFree: ON CONFLICT DO NOTHING takes no lock; a transaction
\* waits for its own row, as if the upsert used a second connection.
RowFreeDoNothing(row) == TRUE
RowFreeSecondConnection(row) ==
    \A r \in Requests : pc[r] \in {"begin"} \cup InTx => msg[r].row # row

\* INSERT ... ON CONFLICT DO UPDATE waits while another transaction has
\* written the row, and then keeps it locked: requests on one device queue.
RowFree(row) == \A r \in Requests : pc[r] \in InTx => msg[r].row # row

\* An alert row written by a transaction that has not ended.
AlertFree(a) == \A r \in Requests : pc[r] = "commit" => a \notin found[r]

IsOpen(a) == alerts[a] # None /\ alerts[a].state \in Open

\* Mutant of OpenOn: WHERE state = 'opened'.
OpenOnUntouched(d) ==
    {a \in AlertId : IsOpen(a) /\ alerts[a].device = d /\ alerts[a].state = "opened"}

\* AlertsRepository.resolve_all_for_device: the rows its WHERE clause selects.
OpenOn(d) == {a \in AlertId : IsOpen(a) /\ alerts[a].device = d}

\* AlertsRepository.find_open_for_device: those of one kind.
OpenOfKind(d, k) == {a \in OpenOn(d) : alerts[a].kind = k}

Row(event, a, by) == [event |-> event, alert |-> a, by |-> by]

\* Mutant of Events: the return after update_detail is missing.
EventsOpenedAgain(r) ==
    IF msg[r].kind = "transition" /\ msg[r].status # "healthy"
    THEN {Row("alert.opened", Id(r), Id(r))} ELSE {}

\* What _enqueue_event inserted in the transaction of request r.
Events(r) ==
    LET m == msg[r] IN
    CASE m.kind = "edge_health" -> {Row("edge.heartbeat", None, Id(r))}
      [] m.kind = "periodic" ->
            IF prior[r] = m.status THEN {}
            ELSE {Row("device.health_changed", None, Id(r))}
      [] m.kind = "transition" /\ m.status = "healthy" ->
            {Row("alert.state_changed", a, Id(r)) : a \in found[r]}
      [] OTHER ->
            IF found[r] = {} THEN {Row("alert.opened", Id(r), Id(r))}
            ELSE {Row("alert.updated", a, Id(r)) : a \in found[r]}

Opened(m) == [device |-> m.row, kind |-> m.status, state |-> "opened",
              resolved_at |-> FALSE, authorized |-> FALSE]

Resolved(alert) == [alert EXCEPT !.state = "resolved", !.resolved_at = TRUE]

\* Mutant of AlertsAfter: only "unhealthy" is taken for a problem.
AlertsAfterUnhealthyOnly(r) ==
    LET m == msg[r] IN
    IF m.kind # "transition" THEN alerts
    ELSE IF found[r] = {} /\ m.status # "healthy"
         THEN [alerts EXCEPT ![Id(r)] = Opened(m)]
         ELSE [a \in AlertId |-> IF a \in found[r] /\ m.status # "unhealthy"
                                 THEN Resolved(alerts[a]) ELSE alerts[a]]

\* Table alerts once the transaction of request r is committed.
AlertsAfter(r) ==
    LET m == msg[r] IN
    IF m.kind # "transition" THEN alerts
    ELSE IF m.status = "healthy"
         THEN [a \in AlertId |-> IF a \in found[r] THEN Resolved(alerts[a])
                                 ELSE alerts[a]]
         ELSE IF found[r] = {} THEN [alerts EXCEPT ![Id(r)] = Opened(m)]
              ELSE alerts

-----------------------------------------------------------------------------
(* POST /v1/edge/ingest.                                                   *)

\* Mutant of TakeMessage: the loop runs past the end of the batch.
TakeMessagePastEnd(r) ==
    /\ pc[r] \in {"new", "next"}
    /\ \E m \in Msg : msg' = [msg EXCEPT ![r] = m]
    /\ pc' = [pc EXCEPT ![r] = "begin"]
    /\ UNCHANGED <<pos, prior, found, rejected, status, lastTransition,
                   alerts, outbox, fixVars>>

\* handle_batch takes the next message of the batch and opens its
\* transaction; the first one follows props.upsert.
TakeMessage(r) ==
    /\ pc[r] \in {"new", "next"}
    /\ pos[r] <= MaxBatch
    /\ \E m \in Msg : msg' = [msg EXCEPT ![r] = m]
    /\ pc' = [pc EXCEPT ![r] = "begin"]
    /\ UNCHANGED <<pos, prior, found, rejected, status, lastTransition,
                   alerts, outbox, fixVars>>

\* devices.upsert, devices.update_health and insert_raw_event, or
\* props.upsert_edge_box: the first statement waits for the row, the others
\* meet only rows of this transaction.
TouchRow(r) ==
    /\ pc[r] = "begin"
    /\ RowFree(msg[r].row)
    /\ prior' = [prior EXCEPT ![r] = IF msg[r].row \in Devices
                                     THEN status[msg[r].row] ELSE @]
    /\ pc' = [pc EXCEPT ![r] = IF msg[r].kind = "transition" THEN "alerts"
                               ELSE "commit"]
    /\ UNCHANGED <<pos, msg, found, rejected, status, lastTransition,
                   alerts, outbox, fixVars>>

\* _transition, the device is healthy: one UPDATE resolves what is open.
ResolveAll(r) ==
    /\ pc[r] = "alerts" /\ msg[r].status = "healthy"
    /\ found' = [found EXCEPT ![r] = OpenOn(msg[r].row)]
    /\ pc' = [pc EXCEPT ![r] = "commit"]
    /\ UNCHANGED <<pos, msg, prior, rejected, status, lastTransition,
                   alerts, outbox, fixVars>>

\* _transition, the device has a problem: find_open_for_device returns one
\* open alert of the kind, which update_detail refreshes, or none, and a new
\* alert is inserted.  (With several, opened_at decides; any is taken here.)
FindOpen(r) ==
    /\ pc[r] = "alerts" /\ msg[r].status # "healthy"
    /\ LET open == OpenOfKind(msg[r].row, msg[r].status)
       IN  \/ open = {} /\ found' = [found EXCEPT ![r] = {}]
           \/ \E a \in open : found' = [found EXCEPT ![r] = {a}]
    /\ pc' = [pc EXCEPT ![r] = "commit"]
    /\ UNCHANGED <<pos, msg, prior, rejected, status, lastTransition,
                   alerts, outbox, fixVars>>

EndOfTx(r) ==
    /\ pc' = [pc EXCEPT ![r] = "next"]
    /\ pos' = [pos EXCEPT ![r] = @ + 1]
    /\ found' = [found EXCEPT ![r] = {}]
    /\ prior' = [prior EXCEPT ![r] = "unknown"]
    /\ msg' = [msg EXCEPT ![r] = None]

\* The transaction of the message commits; the message counts as accepted.
Commit(r) ==
    /\ pc[r] = "commit"
    /\ status' = IF msg[r].row \in Devices
                 THEN [status EXCEPT ![msg[r].row] = msg[r].status] ELSE status
    /\ lastTransition' = IF msg[r].kind = "transition"
                 THEN [lastTransition EXCEPT ![msg[r].row] = msg[r].status]
                 ELSE lastTransition
    /\ alerts' = AlertsAfter(r)
    /\ outbox' = outbox \cup Events(r)
    /\ EndOfTx(r)
    /\ UNCHANGED <<rejected, fixVars>>

\* Mutant of Reject: _enqueue_event ran on a connection of its own.
RejectKeepingEvents(r) ==
    /\ pc[r] = "commit"
    /\ rejected' = [rejected EXCEPT ![r] = @ \cup {pos[r]}]
    /\ outbox' = outbox \cup Events(r)
    /\ EndOfTx(r)
    /\ UNCHANGED <<status, lastTransition, alerts, fixVars>>

\* A statement raised: the transaction rolls back, the message is answered
\* as rejected and the batch goes on with the next one.
Reject(r) ==
    /\ pc[r] \in {"begin"} \cup InTx
    /\ rejected' = [rejected EXCEPT ![r] = @ \cup {pos[r]}]
    /\ EndOfTx(r)
    /\ UNCHANGED <<status, lastTransition, alerts, outbox, fixVars>>

\* The batch is over: 200 with the accepted count and the rejected list.
Respond(r) ==
    /\ pc[r] = "next"
    /\ pc' = [pc EXCEPT ![r] = "done"]
    /\ UNCHANGED <<pos, msg, prior, found, rejected, status, lastTransition,
                   alerts, outbox, fixVars>>

\* The worker process dies, or the client goes away and the handler is
\* cancelled: what was not committed is rolled back.
Crash(r) ==
    /\ pc[r] \in {"begin", "next"} \cup InTx
    /\ pc' = [pc EXCEPT ![r] = "dead"]
    /\ msg' = [msg EXCEPT ![r] = None]
    /\ found' = [found EXCEPT ![r] = {}]
    /\ prior' = [prior EXCEPT ![r] = "unknown"]
    /\ UNCHANGED <<pos, rejected, status, lastTransition, alerts, outbox, fixVars>>

Ingest(r) == \/ TakeMessage(r) \/ TouchRow(r) \/ ResolveAll(r) \/ FindOpen(r)
             \/ Commit(r) \/ Respond(r)

-----------------------------------------------------------------------------
(* POST /v1/alerts/{alert_id}/auto-fix.                                    *)

\* The request arrives and looks its key up in Redis.  A client uses one key
\* for one alert, so two requests with a key are an attempt and its retry.
LookUp(f) ==
    /\ fpc[f] = "new"
    /\ \E a \in AlertId, k \in Keys :
        /\ \A g \in Fixes : fpc[g] # "new" /\ fix[g].key = k => fix[g].alert = a
        /\ fix' = [fix EXCEPT ![f] = [alert |-> a, key |-> k]]
        /\ \/ /\ cache[k] # None
              /\ fpc' = [fpc EXCEPT ![f] = "done"]
              /\ answer' = [answer EXCEPT ![f] = "202"]
           \/ /\ cache[k] = None
              /\ fpc' = [fpc EXCEPT ![f] = "get"]
              /\ UNCHANGED answer
    /\ UNCHANGED <<ingestVars, alerts, outbox, cache>>

\* AlertsRepository.get and the three tests on the row it returned.
GetAlert(f) ==
    LET a == fix[f].alert
        refuse(code) == /\ fpc' = [fpc EXCEPT ![f] = "done"]
                        /\ answer' = [answer EXCEPT ![f] = code]
    IN  /\ fpc[f] = "get"
        /\ \/ alerts[a] = None /\ refuse("404")
           \/ alerts[a] # None /\ alerts[a].state = "resolved" /\ refuse("409")
           \/ IsOpen(a) /\ ~alerts[a].authorized /\ refuse("422")
           \/ /\ IsOpen(a) /\ alerts[a].authorized
              /\ fpc' = [fpc EXCEPT ![f] = "act"]
              /\ UNCHANGED answer
        /\ UNCHANGED <<ingestVars, alerts, outbox, fix, cache>>

\* Mutant of SetActing: an alert already acting is taken as dispatched.
SetActingOnce(f) ==
    LET a == fix[f].alert IN
    /\ fpc[f] = "act"
    /\ AlertFree(a)
    /\ alerts' = [alerts EXCEPT ![a] = [@ EXCEPT !.state = "acting"]]
    /\ fpc' = [fpc EXCEPT ![f] = IF alerts[a].state = "acting" THEN "remember"
                                 ELSE "dispatch"]
    /\ UNCHANGED <<ingestVars, outbox, fix, answer, cache>>

\* update_state(alert_id, "acting"): an UPDATE on the alert_id alone, which
\* waits for the row and commits at once.
SetActing(f) ==
    LET a == fix[f].alert IN
    /\ fpc[f] = "act"
    /\ AlertFree(a)
    /\ alerts' = [alerts EXCEPT ![a] = [@ EXCEPT !.state = "acting"]]
    /\ fpc' = [fpc EXCEPT ![f] = "dispatch"]
    /\ UNCHANGED <<ingestVars, outbox, fix, answer, cache>>

\* INSERT INTO event_outbox, which commits at once too.
Dispatch(f) ==
    /\ fpc[f] = "dispatch"
    /\ outbox' = outbox \cup {Row("auto_fix.dispatched", fix[f].alert, f)}
    /\ fpc' = [fpc EXCEPT ![f] = "remember"]
    /\ UNCHANGED <<ingestVars, alerts, fix, answer, cache>>

\* cache_response (SETEX for 24 hours; requests later than that are not
\* considered), then the answer.
Remember(f) ==
    /\ fpc[f] = "remember"
    /\ cache' = [cache EXCEPT ![fix[f].key] = f]
    /\ fpc' = [fpc EXCEPT ![f] = "done"]
    /\ answer' = [answer EXCEPT ![f] = "202"]
    /\ UNCHANGED <<ingestVars, alerts, outbox, fix>>

\* As Crash: nothing of an auto-fix request is ever rolled back.
CrashFix(f) ==
    /\ fpc[f] \in {"get", "act", "dispatch", "remember"}
    /\ fpc' = [fpc EXCEPT ![f] = "dead"]
    /\ UNCHANGED <<ingestVars, alerts, outbox, fix, answer, cache>>

AutoFix(f) == LookUp(f) \/ GetAlert(f) \/ SetActing(f) \/ Dispatch(f) \/ Remember(f)

\* The agent service authorises auto-fix on an open alert.  It is no part of
\* this repository; it writes the column that auto_fix reads.
Authorize(a) ==
    /\ Fixes # {}
    /\ IsOpen(a) /\ ~alerts[a].authorized /\ AlertFree(a)
    /\ alerts' = [alerts EXCEPT ![a] = [@ EXCEPT !.authorized = TRUE]]
    /\ UNCHANGED <<ingestVars, outbox, fixVars>>

-----------------------------------------------------------------------------
Init ==
    /\ pc = [r \in Requests |-> "new"]
    /\ pos = [r \in Requests |-> 1]
    /\ msg = [r \in Requests |-> None]
    /\ prior = [r \in Requests |-> "unknown"]
    /\ found = [r \in Requests |-> {}]
    /\ rejected = [r \in Requests |-> {}]
    /\ status = [d \in Devices |-> "unknown"]
    /\ lastTransition = [d \in Devices |-> None]
    /\ alerts = [a \in AlertId |-> None]
    /\ outbox = {}
    /\ fpc = [f \in Fixes |-> "new"]
    /\ fix = [f \in Fixes |-> None]
    /\ answer = [f \in Fixes |-> None]
    /\ cache = [k \in Keys |-> None]

\* Every request has ended: nothing is left to do in this model.
AllEnded ==
    /\ \A r \in Requests : pc[r] \in {"done", "dead"}
    /\ \A f \in Fixes : fpc[f] \in {"done", "dead"}
    /\ UNCHANGED vars

Next ==
    \/ \E r \in Requests : Ingest(r) \/ Reject(r) \/ Crash(r)
    \/ \E f \in Fixes : AutoFix(f) \/ CrashFix(f)
    \/ \E a \in AlertId : Authorize(a)
    \/ AllEnded

\* The event loop and the database give every request its next step, and
\* PostgreSQL hands a freed row to a waiter; no one has to fail or to crash.
Fairness ==
    /\ \A r \in Requests : WF_vars(Ingest(r))
    /\ \A f \in Fixes : WF_vars(AutoFix(f))

SafeSpec == Init /\ [][Next]_vars
Spec == SafeSpec /\ Fairness

-----------------------------------------------------------------------------
\* The types of the variables; the loop over a batch stays within it.
TypeOK ==
    /\ pc \in [Requests -> {"new", "next", "begin", "done", "dead"} \cup InTx]
    /\ pos \in [Requests -> 1..(MaxBatch + 1)]
    /\ msg \in [Requests -> Msg \cup {None}]
    /\ prior \in [Requests -> Status]
    /\ found \in [Requests -> SUBSET AlertId]
    /\ rejected \in [Requests -> SUBSET (1..MaxBatch)]
    /\ status \in [Devices -> Status]
    /\ lastTransition \in [Devices -> Status \cup {None}]
    /\ alerts \in [AlertId -> Alert \cup {None}]
    /\ outbox \subseteq OutboxRow
    /\ fpc \in [Fixes -> {"new", "get", "act", "dispatch", "remember",
                          "done", "dead"}]
    /\ fix \in [Fixes -> [alert : AlertId, key : Keys] \cup {None}]
    /\ answer \in [Fixes -> {"202", "404", "409", "422", None}]
    /\ cache \in [Keys -> Fixes \cup {None}]

\* An alert no transition has resolved yet.
IsLive(a) == IsOpen(a) /\ ~alerts[a].resolved_at

\* A device has at most one live alert of a kind, however its messages arrive:
\* twice, in parallel, or again after a crash.  find_open_for_device and the
\* INSERT are two statements; what keeps the second of two transactions from
\* missing the alert of the first is the lock on the device's row.
OneLiveAlertPerKind ==
    \A a, b \in AlertId :
        /\ IsLive(a) /\ IsLive(b)
        /\ alerts[a].device = alerts[b].device
        /\ alerts[a].kind = alerts[b].kind
        => a = b

\* The stronger claim of understanding_docs/ingest_duplicate_post_behavior.md,
\* "one open alert per device per kind, always".
OneOpenAlertPerKind ==
    \A a, b \in AlertId :
        /\ IsOpen(a) /\ IsOpen(b)
        /\ alerts[a].device = alerts[b].device
        /\ alerts[a].kind = alerts[b].kind
        => a = b

\* The alerts of a device agree with the last transition committed for it:
\* after a problem an alert of that kind is open, after "healthy" no alert of
\* the device is live.  Periodic messages and auto-fix leave this alone.
AlertsFollowTransitions ==
    \A d \in Devices :
        /\ lastTransition[d] \in Problem => OpenOfKind(d, lastTransition[d]) # {}
        /\ lastTransition[d] = "healthy" => \A a \in OpenOn(d) : ~IsLive(a)

\* The transactional outbox: an alert exists exactly if its alert.opened is in
\* the outbox, and it has been resolved exactly if an alert.state_changed is.
OutboxMatchesAlerts ==
    \A a \in AlertId :
        /\ alerts[a] # None <=> Row("alert.opened", a, a) \in outbox
        /\ (alerts[a] # None /\ alerts[a].resolved_at)
              <=> \E m \in MsgId : Row("alert.state_changed", a, m) \in outbox

\* A message answered as rejected has left nothing behind: no alert, no event.
RejectedLeavesNothing ==
    \A m \in MsgId :
        m[2] \in rejected[m[1]] => /\ alerts[m] = None
                                   /\ \A row \in outbox : row.by # m

\* Who is told 202 can rely on the dispatch of the fix, also when the answer
\* comes out of the idempotency cache and its own request did nothing.
AnsweredMeansDispatched ==
    \A f \in Fixes :
        answer[f] = "202" =>
            \E g \in Fixes : /\ Row("auto_fix.dispatched", fix[f].alert, g) \in outbox
                             /\ fix[g].key = fix[f].key

\* "Second call with same key must not write a second outbox row"
\* (tests/integration/test_auto_fix.py).
OneDispatchPerKey ==
    \A x, y \in {row \in outbox : row.event = "auto_fix.dispatched"} :
        fix[x.by].key = fix[y.by].key => x = y

\* An alert leaves the open states only by a transition to healthy of its own
\* device, and no alert is ever deleted or moved to another device or kind.
OnlyHealthyResolves ==
    [][\A a \in AlertId : alerts[a] # None =>
        /\ alerts'[a] # None
        /\ alerts'[a].device = alerts[a].device
        /\ alerts'[a].kind = alerts[a].kind
        /\ IsOpen(a) /\ ~IsOpen(a)' =>
              /\ lastTransition'[alerts[a].device] = "healthy"
              /\ status'[alerts[a].device] = "healthy"]_vars

\* No request waits for ever: every one that has begun ends.
RequestsEnd ==
    /\ \A r \in Requests : pc[r] # "new" ~> pc[r] \in {"done", "dead"}
    /\ \A f \in Fixes : fpc[f] # "new" ~> fpc[f] \in {"done", "dead"}

============================================================================
