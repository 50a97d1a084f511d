---------------------------- MODULE SyslogAgent ----------------------------
(***************************************************************************)
(* The syslog edge agent (src/syslog): a listener that aggregates what     *)
(* devices log, a thread that sums up every device periodically, and a     *)
(* thread that uploads what the two have queued.  Listener and summaries   *)
(* share the aggregator under its lock, but each reads the clock before it *)
(* waits for the lock.  The queue is on disk, the aggregator in memory.    *)
(*                                                                         *)
(* Times are ages, counted in ticks back from the present, up to the age   *)
(* at which no test of the code distinguishes them any more.               *)
(***************************************************************************)
EXTENDS Integers, Sequences, FiniteSets

CONSTANTS
    Devices,        \* device_id values of the configuration
    DeviceMap,      \* device_map: from <<address or "*", hostname>> to device
    Datagrams,      \* what may arrive on the socket
    Window,         \* window_seconds
    Stale,          \* stale_threshold_seconds
    Dedup,          \* the 60 seconds in which a repeated message is ignored
    MaxDelay,       \* bound on the time between reading the clock and the lock
    MaxPeriodicRows,
    MaxOtherRows,
    BatchSize,      \* upload_batch_size
    MaxTroubles,    \* bound on errors of the queue, lost requests and restarts
    Never           \* no entry, nothing heard

Category == {"link", "auth", "hardware", "performance", "thermal", "routing",
             "config", "other"}

Health == {"unknown", "healthy", "degraded", "unhealthy"}
SummaryRow == [kind : {"periodic", "transition"}, device : Devices, status : Health,
        sent : BOOLEAN]
LateMessage == [request : 1..MaxTroubles, place : 1..BatchSize, device : Devices,
        status : Health]

ASSUME TimesAssumption == {Window, Stale, Dedup, MaxDelay} \subseteq Nat
ASSUME DeviceMapAssumption == \A k \in DOMAIN DeviceMap : DeviceMap[k] \in Devices
ASSUME DatagramsAssumption ==
    \A g \in Datagrams : g.pri \in Nat /\ g.category \in Category
ASSUME NeverAssumption == Never \notin Devices /\ Never \notin Int
ASSUME RowsAssumption ==
    {MaxPeriodicRows, MaxOtherRows, BatchSize} \subseteq Nat \ {0} /\ MaxTroubles \in Nat

VARIABLES
    events,         \* events of each device, oldest first
    dedupCache,     \* age of the first of each signature, or Never
    lastSeen,       \* age of last_seen, Never if the device has no state yet
    lastStatus,     \* last_status
    heard,          \* the event the listener is about to aggregate
    phase,          \* where run_periodic is
    asOf,           \* age of its clock reading
    todo,           \* devices it still has to sum up
    outbound,       \* the queue; sent marks the rows of the batch in flight
    answer,         \* what became of that batch
    late,           \* messages of requests given up that the backend may yet commit
    cloud,          \* history: status of each device as the backend knows it
    alerted,        \* history: status in the last transition queued
    astray,         \* history: devices whose last transition was forgotten
    troubles

stateVars == <<events, dedupCache, lastSeen, lastStatus>>
periodicVars == <<phase, asOf, todo>>
queueVars == <<outbound, answer, late>>
syslogVars == <<stateVars, heard, periodicVars, queueVars, cloud, alerted,
                astray, troubles>>

-----------------------------------------------------------------------------
(* From a datagram to an event.                                            *)

\* parse_pri: the severity is in the last three bits.
SeverityOf(pri) == pri % 8

\* parse_message: one of the three forms of a header matches.
IsParsed(g) == g.parses

\* An exact entry goes before one for any address.
ResolveDevice(ip, host) ==
    IF <<ip, host>> \in DOMAIN DeviceMap THEN DeviceMap[<<ip, host>>]
    ELSE IF <<"*", host>> \in DOMAIN DeviceMap THEN DeviceMap[<<"*", host>>]
    ELSE Never

IsNoise(severity, category) == severity = 7 \/ (severity = 6 /\ category = "other")

SignatureOf(g) == [category |-> g.category, severity |-> SeverityOf(g.pri),
                   text |-> g.text]

Signatures == {SignatureOf(g) : g \in Datagrams}

-----------------------------------------------------------------------------
(* The aggregator.  now is the age of the clock reading in use.            *)

Lesser(a, b) == IF a <= b THEN a ELSE b
Expired == Window + MaxDelay + 1        \* an event that any clock puts outside the window
Forgotten == Dedup + MaxDelay           \* an entry of the cache that no clock honours
Silent == Stale + MaxDelay + 1          \* a device that is stale by any clock

\* The events of a window without those at its old end that are outside.
Evict(log, now) ==
    LET gone == {i \in DOMAIN log : \A j \in 1..i : log[j].age - now > Window}
    IN  SubSeq(log, Cardinality(gone) + 1, Len(log))

\* Mutant of Remembered: the comparison is the wrong way round.
RememberedOld(cache, now) == [s \in DOMAIN cache |->
    IF cache[s] # Never /\ cache[s] - now >= Dedup THEN cache[s] ELSE Never]

\* The entries of the cache that still suppress repetitions.
Remembered(cache, now) == [s \in DOMAIN cache |->
    IF cache[s] # Never /\ cache[s] - now < Dedup THEN cache[s] ELSE Never]

IsRepeated(d, s, now) == dedupCache[d][s] # Never /\ dedupCache[d][s] - now < Dedup

CountOf(log, severities) == Cardinality({i \in DOMAIN log : log[i].sig.severity \in severities})

\* score, before it is clipped.
Score(log, silent) ==
    LET errors == CountOf(log, 0..3)
        warns == CountOf(log, {4})
    IN  100 - Lesser(8 * errors, 60) - Lesser(2 * warns, 20)
            - (IF 2 * silent > Stale THEN 15 ELSE 0)

\* Mutant of StatusOf: silence costs points, but does not decide.
StatusOfScore(log, silent) ==
    LET score == Score(log, silent)
    IN  IF score >= 85 THEN "healthy" ELSE IF score >= 60 THEN "degraded" ELSE "unhealthy"

\* _compute_health of a device that has been seen.
StatusOf(log, silent) ==
    LET score == Score(log, silent)
    IN  IF silent > Stale THEN "unhealthy"
        ELSE IF score >= 85 THEN "healthy"
        ELSE IF score >= 60 THEN "degraded"
        ELSE "unhealthy"

-----------------------------------------------------------------------------
(* The queue.                                                              *)

IsPeriodic(row) == row.kind = "periodic"

CapOf(periodic) == IF periodic THEN MaxPeriodicRows ELSE MaxOtherRows

Newer(q, i) == {j \in DOMAIN q : i < j /\ IsPeriodic(q[j]) = IsPeriodic(q[i])}

\* Mutant of Kept: only periodic rows have a cap.
KeptOthers(q, done) ==
    {i \in DOMAIN q : IsPeriodic(q[i]) => Cardinality(Newer(q, i)) < MaxPeriodicRows}

\* What _trim leaves when the DELETEs of the classes in done are done: of such
\* a class as many rows as its cap allows, the newest.
Kept(q, done) ==
    {i \in DOMAIN q : IsPeriodic(q[i]) \in done
                         => Cardinality(Newer(q, i)) < CapOf(IsPeriodic(q[i]))}

\* The k-th of a set of positions, and the rows at all of them.
Nth(rows, k) == CHOOSE i \in rows : Cardinality({j \in rows : j <= i}) = k
Trimmed(q, done) ==
    LET rows == Kept(q, done) IN [k \in 1..Cardinality(rows) |-> q[Nth(rows, k)]]

Inserted(kind, d, status) ==
    Append(outbound, [kind |-> kind, device |-> d, status |-> status, sent |-> FALSE])

\* OutboundQueue.enqueue of a summary.
Enqueue(kind, d, status) ==
    \E q \in {Inserted(kind, d, status)} : outbound' = Trimmed(q, BOOLEAN)

\* It raises in the first DELETE of _trim or in the second: the row is in, for
\* every statement commits by itself.
EnqueueBreaks(kind, d, status) ==
    \E q \in {Inserted(kind, d, status)} : \E done \in {{}, {TRUE}} :
        outbound' = Trimmed(q, done)

CanFail == troubles < MaxTroubles
Trouble == CanFail /\ troubles' = troubles + 1

-----------------------------------------------------------------------------
(* The listener.                                                           *)

\* A datagram that can be parsed, is from a device of the map and says
\* something; the others leave no trace.
Hear(g) ==
    LET d == ResolveDevice(g.ip, g.host) IN
    /\ heard = Never
    /\ IsParsed(g) /\ d # Never
    /\ ~IsNoise(SeverityOf(g.pri), g.category)
    /\ heard' = [device |-> d, sig |-> SignatureOf(g), age |-> 0]
    /\ UNCHANGED <<stateVars, periodicVars, queueVars, cloud, alerted, astray, troubles>>

\* The aggregator's lock is free.
LockFree == phase # "summing"

\* A repetition only counts as a sign of life.
IngestRepeated ==
    /\ heard # Never /\ LockFree
    /\ IsRepeated(heard.device, heard.sig, heard.age)
    /\ lastSeen' = [lastSeen EXCEPT ![heard.device] = heard.age]
    /\ heard' = Never
    /\ UNCHANGED <<events, dedupCache, lastStatus, periodicVars, queueVars, cloud,
                   alerted, astray, troubles>>

\* The window with the event in it.
LogAfter == Evict(Append(events[heard.device],
                         [age |-> heard.age, sig |-> heard.sig]), heard.age)

\* Mutant of Announced: only what is bad is worth an alert.
AnnouncedBad(d, status) == /\ status # lastStatus[d] /\ lastStatus[d] # "unknown"
                           /\ status # "healthy"

\* The first status of a device is not announced.
Announced(d, status) == status # lastStatus[d] /\ lastStatus[d] # "unknown"

\* A new event: window, health, and a transition if the health has changed.
\* If the queue raises, with or without the row in it, last_status stays.
IngestEvent ==
    /\ heard # Never /\ LockFree
    /\ ~IsRepeated(heard.device, heard.sig, heard.age)
    /\ LET d == heard.device
           status == StatusOf(LogAfter, 0)
       IN
       /\ events' = [events EXCEPT ![d] = LogAfter]
       /\ dedupCache' = [dedupCache EXCEPT ![d] =
                            Remembered([@ EXCEPT ![heard.sig] = heard.age], heard.age)]
       /\ lastSeen' = [lastSeen EXCEPT ![d] = heard.age]
       /\ \/ /\ ~Announced(d, status)
             /\ lastStatus' = [lastStatus EXCEPT ![d] = status]
             /\ UNCHANGED <<outbound, alerted, astray, troubles>>
          \/ /\ Announced(d, status)
             /\ Enqueue("transition", d, status)
             /\ lastStatus' = [lastStatus EXCEPT ![d] = status]
             /\ alerted' = [alerted EXCEPT ![d] = status]
             /\ astray' = astray \ {d}
             /\ UNCHANGED troubles
          \/ /\ Announced(d, status) /\ Trouble
             /\ UNCHANGED <<outbound, lastStatus, alerted, astray>>
          \/ /\ Announced(d, status) /\ Trouble
             /\ EnqueueBreaks("transition", d, status)
             /\ alerted' = [alerted EXCEPT ![d] = status]
             /\ astray' = astray \cup {d}
             /\ UNCHANGED lastStatus
    /\ heard' = Never
    /\ UNCHANGED <<periodicVars, answer, late, cloud>>

-----------------------------------------------------------------------------
(* run_periodic.                                                           *)

Known == {d \in Devices : lastSeen[d] # Never}

\* The wait is over; the lock is not yet taken.
ReadClock ==
    /\ phase = "waiting"
    /\ phase' = "read" /\ asOf' = 0
    /\ UNCHANGED <<stateVars, heard, todo, queueVars, cloud, alerted, astray, troubles>>

TakeLock ==
    /\ phase = "read"
    /\ phase' = "summing" /\ todo' = Known
    /\ UNCHANGED <<stateVars, heard, asOf, queueVars, cloud, alerted, astray, troubles>>

\* A device is evicted and summed up; last_status is left alone.
Summarise(d) ==
    /\ phase = "summing" /\ d \in todo
    /\ events' = [events EXCEPT ![d] = Evict(@, asOf)]
    /\ dedupCache' = [dedupCache EXCEPT ![d] = Remembered(@, asOf)]
    /\ LET status == StatusOf(events'[d], lastSeen[d] - asOf) IN
       \/ /\ Enqueue("periodic", d, status)
          /\ todo' = todo \ {d}
          /\ UNCHANGED <<phase, asOf, troubles>>
       \/ \* nothing catches what the queue raises: the thread ends
          /\ Trouble
          /\ UNCHANGED outbound \/ EnqueueBreaks("periodic", d, status)
          /\ phase' = "ended" /\ asOf' = 0 /\ todo' = {}
    /\ UNCHANGED <<lastSeen, lastStatus, heard, answer, late, cloud, alerted, astray>>

ReleaseLock ==
    /\ phase = "summing" /\ todo = {}
    /\ phase' = "waiting" /\ asOf' = 0
    /\ UNCHANGED <<stateVars, heard, todo, queueVars, cloud, alerted, astray, troubles>>

-----------------------------------------------------------------------------
(* The uploader.                                                           *)

BatchLength == Lesser(BatchSize, Len(outbound))

\* What the backend knows once it has committed these rows of the queue.
CloudAfter(rows) == [d \in Devices |->
    LET about == {i \in rows : outbound[i].device = d}
    IN  IF about = {} THEN cloud[d]
        ELSE outbound[CHOOSE i \in about : \A j \in about : j <= i].status]

\* A request is given up, and the backend is at it.
Unanswered ==
    /\ late' = late \cup {[request |-> troubles', place |-> i, device |-> outbound[i].device,
                           status |-> outbound[i].status] : i \in 1..BatchLength}
    /\ UNCHANGED cloud

\* The oldest rows are taken and sent.
Upload ==
    /\ answer = "none" /\ outbound # <<>>
    /\ outbound' = [i \in DOMAIN outbound |->
                      [outbound[i] EXCEPT !.sent = (i <= BatchLength)]]
    /\ \/ \* 2xx, all accepted
          /\ answer' = "ok" /\ cloud' = CloudAfter(1..BatchLength)
          /\ UNCHANGED <<late, troubles>>
       \/ \* 2xx, some rejected: nobody looks
          /\ answer' = "ok" /\ Trouble
          /\ \E accepted \in SUBSET (1..BatchLength) : cloud' = CloudAfter(accepted)
          /\ UNCHANGED late
       \/ \* no 2xx, no connection, or no answer
          /\ answer' = "failed" /\ Trouble
          /\ UNCHANGED <<late, cloud>> \/ Unanswered
    /\ UNCHANGED <<stateVars, heard, periodicVars, alerted, astray>>

\* The backend commits a message of a request that was given up, at once or
\* after it was sent again.  Those before it that are not committed yet were
\* rejected; those after it may never be.
HandleLate ==
    /\ \E m \in late :
          /\ cloud' = [cloud EXCEPT ![m.device] = m.status]
          /\ late' = {x \in late : x.request = m.request => x.place > m.place}
    /\ UNCHANGED <<stateVars, heard, periodicVars, outbound, answer, alerted, astray, troubles>>

\* A batch that was accepted is deleted; its rows are still the oldest.
Ack ==
    /\ answer = "ok"
    /\ LET batch == {i \in DOMAIN outbound : outbound[i].sent}
       IN  outbound' = SubSeq(outbound, Cardinality(batch) + 1, Len(outbound))
    /\ answer' = "none"
    /\ UNCHANGED <<stateVars, heard, periodicVars, late, cloud, alerted, astray, troubles>>

Unsent == [i \in DOMAIN outbound |-> [outbound[i] EXCEPT !.sent = FALSE]]

\* One that was not stays, whatever the reason.
MarkFailed ==
    /\ answer = "failed"
    /\ outbound' = Unsent
    /\ answer' = "none"
    /\ UNCHANGED <<stateVars, heard, periodicVars, late, cloud, alerted, astray, troubles>>

-----------------------------------------------------------------------------
\* The process ends, its threads with it, and is started again; a request may
\* be on its way.
RestartAgent ==
    /\ Trouble
    /\ events' = [d \in Devices |-> <<>>]
    /\ dedupCache' = [d \in Devices |-> [s \in Signatures |-> Never]]
    /\ lastSeen' = [d \in Devices |-> Never]
    /\ lastStatus' = [d \in Devices |-> "unknown"]
    /\ heard' = Never
    /\ phase' = "waiting" /\ asOf' = 0 /\ todo' = {}
    /\ outbound' = Unsent /\ answer' = "none"
    /\ astray' = astray \cup {d \in Devices : alerted[d] # "healthy"}
    /\ UNCHANGED late \/ (answer = "none" /\ outbound # <<>> /\ Unanswered)
    /\ UNCHANGED <<cloud, alerted>>

Older(age, oldest) == IF age = Never \/ age >= oldest THEN age ELSE age + 1

\* Time passes.  Nobody waits longer for the lock than MaxDelay.
Tick ==
    /\ heard # Never => heard.age < MaxDelay
    /\ phase \in {"read", "summing"} => asOf < MaxDelay
    /\ events' = [d \in Devices |-> [i \in DOMAIN events[d] |->
                     [events[d][i] EXCEPT !.age = Older(@, Expired)]]]
    /\ dedupCache' = [d \in Devices |-> [s \in Signatures |-> Older(dedupCache[d][s], Forgotten)]]
    /\ lastSeen' = [d \in Devices |-> Older(lastSeen[d], Silent)]
    /\ heard' = IF heard = Never THEN Never ELSE [heard EXCEPT !.age = @ + 1]
    /\ asOf' = IF phase \in {"read", "summing"} THEN asOf + 1 ELSE 0
    /\ UNCHANGED <<lastStatus, phase, todo, queueVars, cloud, alerted, astray, troubles>>

SyslogInit ==
    /\ events = [d \in Devices |-> <<>>]
    /\ dedupCache = [d \in Devices |-> [s \in Signatures |-> Never]]
    /\ lastSeen = [d \in Devices |-> Never]
    /\ lastStatus = [d \in Devices |-> "unknown"]
    /\ heard = Never
    /\ phase = "waiting" /\ asOf = 0 /\ todo = {}
    /\ outbound = <<>> /\ answer = "none" /\ late = {}
    /\ cloud = [d \in Devices |-> "unknown"]
    /\ alerted = [d \in Devices |-> "healthy"]
    /\ astray = {} /\ troubles = 0

Listener == (\E g \in Datagrams : Hear(g)) \/ IngestRepeated \/ IngestEvent
Periodic == ReadClock \/ TakeLock \/ (\E d \in Devices : Summarise(d)) \/ ReleaseLock
Uploader == Upload \/ Ack \/ MarkFailed
SyslogNext == Listener \/ Periodic \/ Uploader \/ HandleLate \/ RestartAgent \/ Tick

SyslogSafeSpec == SyslogInit /\ [][SyslogNext]_syslogVars

\* The two loops go on as long as their threads live; nothing makes a device talk.
SyslogSpec == SyslogSafeSpec /\ WF_syslogVars(Periodic) /\ WF_syslogVars(Uploader)

-----------------------------------------------------------------------------
(* Properties.                                                             *)

Rows(q, periodic) == {i \in DOMAIN q : IsPeriodic(q[i]) = periodic}

\* Every value has its type, an event in hand is of a known device, the batch
\* in flight is the oldest of the queue, whatever trim has deleted meanwhile,
\* and the queue keeps to the caps of both its classes but for the rows whose
\* trim has failed.
SyslogTypeOK ==
    /\ events \in [Devices -> Seq([age : 0..Expired, sig : Signatures])]
    /\ dedupCache \in [Devices -> [Signatures -> (0..Forgotten) \cup {Never}]]
    /\ lastSeen \in [Devices -> (0..Silent) \cup {Never}]
    /\ lastStatus \in [Devices -> Health]
    /\ heard \in [device : Devices, sig : Signatures, age : 0..MaxDelay] \cup {Never}
    /\ phase \in {"waiting", "read", "summing", "ended"}
    /\ asOf \in 0..MaxDelay /\ todo \subseteq Devices
    /\ outbound \in Seq(SummaryRow) /\ answer \in {"none", "ok", "failed"}
    /\ late \subseteq LateMessage
    /\ cloud \in [Devices -> Health] /\ alerted \in [Devices -> Health]
    /\ astray \subseteq Devices /\ troubles \in 0..MaxTroubles
    /\ \A i, j \in DOMAIN outbound : i < j /\ outbound[j].sent => outbound[i].sent
    /\ \A b \in BOOLEAN : Cardinality(Rows(outbound, b)) <= CapOf(b) + troubles

\* A burst of one message counts once: two events with the same signature are
\* Dedup apart, or nearly so, when a summary whose clock is ahead of the
\* listener's has dropped the entry of the cache that the listener needed.
BurstCountsOnce ==
    \A d \in Devices : \A i, j \in DOMAIN events[d] :
        i < j /\ events[d][i].sig = events[d][j].sig /\ events[d][i].age < Expired
            => events[d][i].age - events[d][j].age >= Dedup - MaxDelay

\* Whoever follows the transitions knows the status the agent holds of every
\* device, unless a restart or an error of the queue has come between: no
\* change is swallowed, though summaries evict events without looking at
\* last_status, and the first status, which nothing announces, is "healthy".
TransitionsTellStatus ==
    \A d \in Devices : lastStatus[d] # "unknown" /\ d \notin astray
                          => alerted[d] = lastStatus[d]

\* When a device is not heard any more, the backend has it as unhealthy in the
\* end whenever the agent has it as silent beyond the threshold, and this is not
\* overtaken by an older report: a transition still queued, or a request that
\* the backend handles late.  Excepted are a periodic thread that an error of
\* the queue has ended, and a device not heard since the agent was last
\* started: its list of devices is in memory, so lastSeen is Never, the agent
\* says nothing of the device, and the backend keeps what it was told last.
SilentIsReported ==
    \A d \in Devices : <>[](heard = Never \/ heard.device # d)
        => <>[](lastSeen[d] = Silent /\ phase # "ended" => cloud[d] = "unhealthy")
=============================================================================
